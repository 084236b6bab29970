------------------------------ MODULE ChanSpec ------------------------------
(***************************************************************************)
(* What the channels of channel.c promise: every channel is a bounded FIFO *)
(* of values, a call of chanalt completes exactly one of its alternatives, *)
(* a call waits only while none of its alternatives is possible, and it is *)
(* told which of them was completed.  There is no scheduler, no ring and   *)
(* no waiting array here; module Channel implements this specification.    *)
(***************************************************************************)
EXTENDS Integers, Sequences

CONSTANTS Task, Chan,
          cap,          \* how many values a channel holds; 0: rendezvous
          Zero,         \* the value sent through a nil pointer
          Calls,        \* the arrays of alternatives that chanalt is called with
          nil

VARIABLES q,     \* per channel: the values sent and not yet received
          want,  \* per task: the alternatives it waits on, or nil
          ret,   \* per task: the alternative its last call completed; 0 while
                 \* it waits, -1 if the call gave up
          got    \* per task: the value its last call received, or nil

vars == <<q, want, ret, got>>

Init ==
  /\ q = [c \in Chan |-> <<>>]
  /\ want = [t \in Task |-> nil]
  /\ ret = [t \in Task |-> 0]
  /\ got = [t \in Task |-> nil]

Opposite == [CHANSND |-> "CHANRCV", CHANRCV |-> "CHANSND", CHANNOP |-> "none"]

(* The waiting alternatives, of any task, that could meet alternative a. *)
Partners(a) ==
  {p \in UNION {{u} \X (IF want[u] = nil THEN {} ELSE DOMAIN want[u]) : u \in Task} :
     want[p[1]][p[2]].c = a.c /\ want[p[1]][p[2]].op = Opposite[a.op]}

Possible(a) ==
  \/ a.op = "CHANSND" /\ Len(q[a.c]) < cap[a.c]
  \/ a.op = "CHANRCV" /\ q[a.c] # <<>>
  \/ Partners(a) # {}

Sent(s) == IF s.v = nil THEN Zero ELSE s.v
Received(r, x) == IF r.v = nil THEN nil ELSE x

(* The call of t completes its alternative a with the buffer alone ... *)
Alone(t, a) ==
  /\ Partners(a) = {}
  /\ UNCHANGED want
  /\ \/ /\ a.op = "CHANSND"
        /\ q' = [q EXCEPT ![a.c] = Append(@, Sent(a))]
        /\ got' = [got EXCEPT ![t] = nil]
     \/ /\ a.op = "CHANRCV"
        /\ q' = [q EXCEPT ![a.c] = Tail(@)]
        /\ got' = [got EXCEPT ![t] = Received(a, Head(q[a.c]))]

(* ... or together with the waiting alternative b of task u: the value     *)
(* sent goes through the FIFO, and the value received comes out of it.     *)
Together(t, a, u, b) ==
  LET s == IF a.op = "CHANSND" THEN a ELSE b
      r == IF a.op = "CHANSND" THEN b ELSE a
      fifo == Append(q[a.c], Sent(s))
      x == Received(r, Head(fifo))
  IN  /\ q' = [q EXCEPT ![a.c] = Tail(fifo)]
      /\ want' = [want EXCEPT ![u] = nil]
      /\ got' = IF a.op = "CHANSND" THEN [got EXCEPT ![t] = nil, ![u] = x]
                                    ELSE [got EXCEPT ![t] = x, ![u] = nil]

Complete(t, as, i) ==
  /\ Possible(as[i])
  /\ \/ Alone(t, as[i]) /\ ret' = [ret EXCEPT ![t] = i]
     \/ \E p \in Partners(as[i]) :
          /\ Together(t, as[i], p[1], want[p[1]][p[2]])
          /\ ret' = [ret EXCEPT ![t] = i, ![p[1]] = p[2]]

(* The call of t cannot complete now: it waits, or gives up.  Which of the *)
(* two is up to the caller (canblock), an input that leaves no trace here. *)
Wait(t, as) ==
  /\ want' = [want EXCEPT ![t] = as]
  /\ ret' = [ret EXCEPT ![t] = 0]
  /\ got' = [got EXCEPT ![t] = nil]
  /\ UNCHANGED q

Refuse(t) ==
  /\ ret' = [ret EXCEPT ![t] = -1]
  /\ got' = [got EXCEPT ![t] = nil]
  /\ UNCHANGED <<q, want>>

(* One call of chanalt by t, whose alternatives are as. *)
Call(t, as) ==
  /\ want[t] = nil
  /\ \/ \E i \in DOMAIN as : Complete(t, as, i)
     \/ /\ \A i \in DOMAIN as : ~Possible(as[i])
        /\ Wait(t, as) \/ Refuse(t)

Next == \E t \in Task, as \in Calls : Call(t, as)

Spec == Init /\ [][Next]_vars
=============================================================================
