------------------------------ MODULE Channel -------------------------------
(***************************************************************************)
(* Channels (channel.c): buffered or unbuffered, with chanalt, the choice  *)
(* between several sends and receives, and the calls built on it.          *)
(*                                                                         *)
(* An Alt entry is [c, op, v]: v is nil or stands for the variable that    *)
(* the C pointer v points at, and is the value of that variable.  The      *)
(* entry i of the array of the call in which task t waits is the pair      *)
(* <<t, i>>, the model of an Alt pointer (i counts from 1).                *)
(*                                                                         *)
(* The arrays asend and arecv of a channel are sets, arr[c]["CHANSND"] and *)
(* arr[c]["CHANRCV"], because the code picks an entry with rand().  What   *)
(* addarray, delarray and altdequeue do to the arrays is in AltArray.      *)
(***************************************************************************)
EXTENDS Sched

CONSTANTS Chan,         \* the Channel objects
          bufsize,      \* c->bufsize
          Value,        \* contents of one element
          Zero,         \* the value with all bytes zero
          Alts,         \* the Alt arrays the program gives to chanalt
          Sendv, Recvv  \* the v arguments the program gives to chansend, chanrecv

Op == {"CHANSND", "CHANRCV"}
Alt == [c : Chan, op : Op \cup {"CHANNOP"}, v : Value \cup {nil}]

ASSUME ChannelAssumption ==
  /\ bufsize \in [Chan -> Nat]
  /\ Zero \in Value /\ nil \notin Value
  /\ Alts \subseteq Seq(Alt)
  /\ Sendv \cup Recvv \subseteq Value \cup {nil}
  /\ nil \notin Alt \cup Seq(Alt)   \* the null pointer is no entry and no array

VARIABLES arr,             \* the waiting Alt entries of each channel
          nbuf, off, buf,  \* the ring buffer of each channel
          alts,            \* per task: the Alt array of the chanalt it waits in
          xalt,            \* per task: the index of alts[0].xalt in that array
          pc,              \* per task: user code, or waiting in chanalt
          ret,             \* per task: what its last chanalt returned
          got              \* per task: what its last chanalt stored, or nil

ringvars == <<nbuf, off, buf>>
chanvars == <<arr, nbuf, off, buf, alts, xalt, pc, ret, got>>
vars == <<schedvars, chanvars>>

TypeOK ==
  /\ SchedTypeOK
  /\ arr \in [Chan -> [Op -> SUBSET (Task \X Nat)]]
  /\ nbuf \in [Chan -> Nat] /\ \A c \in Chan : nbuf[c] <= bufsize[c]
  /\ off \in [Chan -> Nat] /\ \A c \in Chan : bufsize[c] > 0 => off[c] < bufsize[c]
  /\ buf = [c \in Chan |-> buf[c]]
  /\ \A c \in Chan : buf[c] \in [0..bufsize[c] - 1 -> Value]
  /\ alts \in [Task -> Seq(Alt)]
  /\ xalt \in [Task -> Nat]
  /\ pc \in [Task -> {"user", "alt"}]
  /\ ret \in [Task -> Int]
  /\ got \in [Task -> Value \cup {nil}]

(* chancreate made the channels; their buffers hold nothing of interest. *)
Init ==
  /\ SchedInit
  /\ arr = [c \in Chan |-> [op \in Op |-> {}]]
  /\ nbuf = [c \in Chan |-> 0]
  /\ off = [c \in Chan |-> 0]
  /\ buf = [c \in Chan |-> [k \in 0..bufsize[c] - 1 |-> Zero]]
  /\ alts = [t \in Task |-> <<>>]
  /\ xalt = [t \in Task |-> 1]
  /\ pc = [t \in Task |-> "user"]
  /\ ret = [t \in Task |-> 0]
  /\ got = [t \in Task |-> nil]

-----------------------------------------------------------------------------
otherop(op) == IF op = "CHANSND" THEN "CHANRCV" ELSE "CHANSND"

(* Can an entry be executed?  On a buffered channel the buffer decides, on *)
(* an unbuffered one whether somebody waits on the other side.             *)
altcanexec(a) ==
  /\ a.op # "CHANNOP"
  /\ IF bufsize[a.c] = 0    THEN arr[a.c][otherop(a.op)] # {}
     ELSE IF a.op = "CHANSND" THEN nbuf[a.c] < bufsize[a.c]
                              ELSE nbuf[a.c] > 0

(* The pointers to the entries of as, an array of task t, for op on c. *)
entries(t, as, c, op) == {t} \X {i \in DOMAIN as : as[i].c = c /\ as[i].op = op}

(* altqueue for every entry but the CHANNOPs. *)
altqueue(t, as) ==
  arr' = [c \in Chan |-> [op \in Op |-> arr[c][op] \cup entries(t, as, c, op)]]

(* altalldequeue on the array of u; altdequeue aborts if an entry is not   *)
(* where it was queued.                                                    *)
altallqueued(u) ==
  \A c \in Chan, op \in Op : entries(u, alts[u], c, op) \subseteq arr[c][op]

(* Mutant: only the first entry is dequeued. *)
altalldequeue_first(u) ==
  arr' = [c \in Chan |-> [op \in Op |-> arr[c][op] \ {<<u, 1>>}]]

altalldequeue(u) ==
  arr' = [c \in Chan |-> [op \in Op |-> arr[c][op] \ entries(u, alts[u], c, op)]]

(* amove, for the value read through v and for the variable written to.    *)
source(s) == IF s.v = nil THEN Zero ELSE s.v
target(r, x) == IF r.v = nil THEN nil ELSE x

(* Mutant: off is not reset at the end of the ring. *)
altcopy_nowrap(c, s, r) ==
  LET n == IF r = nil THEN nbuf[c] ELSE nbuf[c] - 1
      o == IF r = nil THEN off[c] ELSE off[c] + 1
  IN  IF s # nil /\ r # nil /\ nbuf[c] = 0
      THEN UNCHANGED ringvars
      ELSE /\ off' = [off EXCEPT ![c] = o]
           /\ nbuf' = [nbuf EXCEPT ![c] = IF s = nil THEN n ELSE n + 1]
           /\ buf' = IF s = nil THEN buf
                     ELSE [buf EXCEPT ![c][(o + n) % bufsize[c]] = source(s)]

(* altcopy on channel c from sender s to receiver r, one of which may be   *)
(* nil: straight across if the buffer is empty, otherwise receive from the *)
(* buffer, then send to it.                                                *)
altcopy(c, s, r) ==
  LET n == IF r = nil THEN nbuf[c] ELSE nbuf[c] - 1
      o == IF r = nil THEN off[c] ELSE IF off[c] + 1 = bufsize[c] THEN 0 ELSE off[c] + 1
  IN  IF s # nil /\ r # nil /\ nbuf[c] = 0
      THEN UNCHANGED ringvars
      ELSE /\ off' = [off EXCEPT ![c] = o]
           /\ nbuf' = [nbuf EXCEPT ![c] = IF s = nil THEN n ELSE n + 1]
           /\ buf' = IF s = nil THEN buf
                     ELSE [buf EXCEPT ![c][(o + n) % bufsize[c]] = source(s)]

(* Mutant: a sender hands over directly although the buffer is not empty. *)
moved_direct(c, s) == IF s # nil THEN source(s) ELSE buf[c][off[c]]

(* What altcopy moves to the receiver. *)
moved(c, s) == IF s # nil /\ nbuf[c] = 0 THEN source(s) ELSE buf[c][off[c]]

-----------------------------------------------------------------------------
(* Mutant: the other task is not made ready. *)
altexec_other_lost(t, a, p) ==
  LET u == p[1]
      b == alts[u][p[2]]
      s == IF a.op = "CHANSND" THEN a ELSE b
      r == IF a.op = "CHANSND" THEN b ELSE a
  IN  /\ altcopy(a.c, s, r)
      /\ altalldequeue(u)
      /\ xalt' = [xalt EXCEPT ![u] = p[2]]
      /\ UNCHANGED <<schedvars, got>>

(* altexec of entry a of the running task t.  Somebody waits on the other  *)
(* side: one of them, entry p, completes with a and its task is ready ...  *)
altexec_other(t, a, p) ==
  LET u == p[1]
      b == alts[u][p[2]]
      s == IF a.op = "CHANSND" THEN a ELSE b
      r == IF a.op = "CHANSND" THEN b ELSE a
      x == target(r, moved(a.c, s))
  IN  \/ /\ ~altallqueued(u)
         /\ Abort
         /\ UNCHANGED chanvars
      \/ /\ altallqueued(u)
         /\ altcopy(a.c, s, r)
         /\ altalldequeue(u)
         /\ xalt' = [xalt EXCEPT ![u] = p[2]]
         /\ lists' = taskready(lists, u)
         /\ got' = IF a.op = "CHANSND" THEN [got EXCEPT ![t] = nil, ![u] = x]
                                       ELSE [got EXCEPT ![t] = x, ![u] = nil]
         /\ UNCHANGED <<taskrunning, prog>>

(* ... or nobody does, and only the buffer is touched. *)
altexec_alone(t, a) ==
  /\ IF a.op = "CHANSND" THEN altcopy(a.c, a, nil) ELSE altcopy(a.c, nil, a)
  /\ got' = [got EXCEPT ![t] = IF a.op = "CHANSND" THEN nil
                               ELSE target(a, moved(a.c, nil))]
  /\ UNCHANGED <<schedvars, arr, xalt>>

(* Mutant: on a buffered channel the waiting tasks are not looked at. *)
altexec_buffer(t, a) ==
  LET other == arr[a.c][otherop(a.op)]
  IN  IF bufsize[a.c] > 0 THEN altexec_alone(t, a)
      ELSE \E p \in other : altexec_other(t, a, p)

altexec(t, a) ==
  LET other == arr[a.c][otherop(a.op)]
  IN  \/ other # {} /\ \E p \in other : altexec_other(t, a, p)
      \/ other = {} /\ altexec_alone(t, a)

(* chanalt up to its return or its taskswitch: execute an entry that can   *)
(* be executed, whichever rand() picks; else give up or wait on all.       *)
chanalt_exec(t, as) ==
  \E i \in DOMAIN as :
    /\ altcanexec(as[i])
    /\ altexec(t, as[i])
    /\ ret' = [ret EXCEPT ![t] = i]
    /\ UNCHANGED <<alts, pc>>

chanalt_wait(t, as) ==
  /\ altqueue(t, as)
  /\ alts' = [alts EXCEPT ![t] = as]
  /\ xalt' = [xalt EXCEPT ![t] = 1]
  /\ pc' = [pc EXCEPT ![t] = "alt"]
  /\ ret' = [ret EXCEPT ![t] = 0]
  /\ got' = [got EXCEPT ![t] = nil]
  /\ taskswitch
  /\ UNCHANGED <<lists, prog, ringvars>>

chanalt_giveup(t) ==
  /\ ret' = [ret EXCEPT ![t] = -1]
  /\ got' = [got EXCEPT ![t] = nil]
  /\ UNCHANGED <<schedvars, arr, ringvars, alts, xalt, pc>>

chanalt(t, as, canblock) ==
  /\ Running(t) /\ pc[t] = "user"
  /\ \/ chanalt_exec(t, as)
     \/ /\ \A i \in DOMAIN as : ~altcanexec(as[i])
        /\ IF canblock THEN chanalt_wait(t, as) ELSE chanalt_giveup(t)

(* The rest of chanalt, when somebody executed one of our entries. *)
chanalt_resume(t) ==
  /\ Running(t) /\ pc[t] = "alt"
  /\ ret' = [ret EXCEPT ![t] = xalt[t]]
  /\ pc' = [pc EXCEPT ![t] = "user"]
  /\ alts' = [alts EXCEPT ![t] = <<>>]
  /\ xalt' = [xalt EXCEPT ![t] = 1]
  /\ UNCHANGED <<schedvars, arr, ringvars, got>>

(* chansend, channbsend, chanrecv, channbrecv and their p and ul variants: *)
(* an array of one entry.                                                  *)
chanop(t, c, op, v, canblock) ==
  chanalt(t, <<[c |-> c, op |-> op, v |-> v]>>, canblock)

(* The arrays that chanalt is called with, one way or another. *)
Calls == Alts \cup {<<a>> : a \in [c : Chan, op : {"CHANSND"}, v : Sendv]}
              \cup {<<a>> : a \in [c : Chan, op : {"CHANRCV"}, v : Recvv]}

send(t, c, canblock) == \E v \in Sendv : chanop(t, c, "CHANSND", v, canblock)
recv(t, c, canblock) == \E v \in Recvv : chanop(t, c, "CHANRCV", v, canblock)

-----------------------------------------------------------------------------
Yield(t) == pc[t] = "user" /\ taskyield(t) /\ UNCHANGED chanvars
Schedule == (Dispatch \/ Stall) /\ UNCHANGED chanvars

TaskStep(t) ==
  \/ \E c \in Chan, canblock \in BOOLEAN : send(t, c, canblock) \/ recv(t, c, canblock)
  \/ \E as \in Alts, canblock \in BOOLEAN : chanalt(t, as, canblock)
  \/ chanalt_resume(t)
  \/ Yield(t)

Next == Schedule \/ \E t \in Task : TaskStep(t)

Spec == Init /\ [][Next]_vars

-----------------------------------------------------------------------------
(* Task t waits in chanalt and nobody has executed one of its entries yet. *)
Waiting(t) == pc[t] = "alt" /\ t # taskrunning /\ t \notin On(lists, RunQ)

(* A task waits in chanalt or on the run queue or runs, never two of them, *)
(* so taskready(other->task) never links a task into the queue twice.      *)
OnePlace ==
  /\ Disjoint(lists)
  /\ taskrunning \notin Listed(lists)
  /\ Task \ {taskrunning} = Listed(lists) \cup {t \in Task : Waiting(t)}

(* The waiting arrays hold exactly the entries of the tasks that wait: no  *)
(* entry of a finished chanalt (whose array was on a stack frame that is   *)
(* gone) is left behind, and none is missing.                              *)
QueuesExact ==
  /\ OnePlace
  /\ \A c \in Chan, op \in Op :
       arr[c][op] = UNION {entries(t, alts[t], c, op) : t \in {u \in Task : Waiting(u)}}

(* No rendezvous is missed: on a buffered channel receivers wait only on   *)
(* an empty buffer and senders only on a full one, although altcanexec     *)
(* never looks at the waiting arrays there; on an unbuffered one a sender  *)
(* and a receiver wait at the same time only if they are the same task.    *)
NoMissedRendezvous ==
  \A c \in Chan :
    /\ arr[c]["CHANRCV"] # {} => nbuf[c] = 0
    /\ arr[c]["CHANSND"] # {} => nbuf[c] = bufsize[c]
    /\ \A p \in arr[c]["CHANSND"], r \in arr[c]["CHANRCV"] : p[1] = r[1]

(* The program ends with "no runnable tasks!" only in a real deadlock: all *)
(* tasks wait, and no two different tasks wait on opposite sides of one    *)
(* channel.                                                                *)
StallIsDeadlock ==
  prog = "stalled" =>
    /\ \A t \in Task : pc[t] = "alt"
    /\ \A t, u \in Task : \A i \in DOMAIN alts[t], j \in DOMAIN alts[u] :
         t # u /\ alts[t][i].c = alts[u][j].c /\ alts[t][i].op = "CHANSND"
           => alts[u][j].op # "CHANRCV"

(* How the process got where it is: it does not abort in altdequeue, and   *)
(* it ends only when the scheduler finds nobody ready.  The run queue is   *)
(* the only list of tasks in use.                                          *)
Settled ==
  /\ prog \in {"running", "stalled"}
  /\ prog = "stalled" => taskrunning = nil /\ lists[RunQ] = <<>>
  /\ \A l \in List \ {RunQ} : lists[l] = <<>>

(* The inductive invariant: what the waiting arrays hold, and when they    *)
(* hold anything.                                                          *)
IInv == TypeOK /\ QueuesExact /\ NoMissedRendezvous /\ Settled

(* The channels are bounded FIFOs and chanalt reports what it did: this    *)
(* module implements ChanSpec, where a channel's queue is the part of the  *)
(* ring between off and off + nbuf, and the result of a call that somebody *)
(* else completed is already known from xalt.                              *)
Contents ==
  [c \in Chan |-> [k \in 1..nbuf[c] |-> buf[c][(off[c] + k - 1) % bufsize[c]]]]
Wanted == [t \in Task |-> IF Waiting(t) THEN alts[t] ELSE nil]
Result == [t \in Task |-> IF pc[t] = "alt" /\ ~Waiting(t) THEN xalt[t] ELSE ret[t]]

Fifo == INSTANCE ChanSpec WITH
  cap <- bufsize, q <- Contents, want <- Wanted, ret <- Result, got <- got

IsFifo == Fifo!Spec
=============================================================================
