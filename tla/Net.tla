-------------------------------- MODULE Net ---------------------------------
(***************************************************************************)
(* Network connections (net.c) on top of Fd: tasks announce a listener,    *)
(* accept, dial, read, write and close while fdtask polls for all of them. *)
(*                                                                         *)
(* Left out: addresses (netlookup only succeeds or fails here; parseip is  *)
(* module Addr), time, and datagram sockets, which take the same path as a *)
(* connect that succeeds at once.  The sockets are the kernel's: external. *)
(***************************************************************************)
EXTENDS Fd

VARIABLES sock,      \* kernel: the socket behind each descriptor number
          nonblock,  \* kernel: descriptors with O_NONBLOCK
          owns,      \* per task: descriptors its calls returned, not closed yet
          robbed     \* history: acceptors whose connection another task took

netvars == <<sock, nonblock, owns, robbed>>
nvars == <<vars, netvars>>

Open == {f \in Fd : sock[f] # "closed"}
Owned == UNION {owns[t] : t \in User}

NTypeOK ==
  /\ TypeOK
  /\ sock \in [Fd -> {"closed", "listening", "deaf", "connecting", "connected", "failed"}]
  /\ nonblock \subseteq Open
  /\ owns \in [User -> SUBSET Open]
  /\ robbed \subseteq User

NInit ==
  /\ Init
  /\ sock = [f \in Fd |-> "closed"]
  /\ nonblock = {}
  /\ owns = [t \in User |-> {}]
  /\ robbed = {}

-----------------------------------------------------------------------------
(* The kernel: a peer connects, data or room arrives, an attempt to        *)
(* connect is decided, a connection breaks.                                *)
arrives(e) ==
  /\ pending' = pending \cup {e}
  /\ UNCHANGED <<schedvars, taskvars, timevars, countvars, loopvars, pollfd, clock,
                 nonblock, owns, robbed>>

NEvent(f) ==
  /\ prog = "running"
  /\ \/ /\ sock[f] = "listening" /\ <<f, "r">> \notin pending
        /\ arrives(<<f, "r">>) /\ UNCHANGED sock
     \/ /\ sock[f] = "connected"
        /\ \E m \in {"r", "w"} : <<f, m>> \notin pending /\ arrives(<<f, m>>)
        /\ UNCHANGED sock
     \/ /\ sock[f] = "connecting"
        /\ arrives(<<f, "w">>)
        /\ sock' = [sock EXCEPT ![f] = "connected"]
     \/ /\ sock[f] \in {"connecting", "connected"}
        /\ arrives(<<f, "e">>)
        /\ sock' = [sock EXCEPT ![f] = "failed"]

(* socket, accept and close; fcntl by fdnoblock. *)
opened(f, s) == sock[f] = "closed" /\ sock' = [sock EXCEPT ![f] = s]
closed(f) ==
  /\ sock' = [sock EXCEPT ![f] = "closed"]
  /\ nonblock' = nonblock \ {f}
  /\ pending' = {e \in pending : e[1] # f}
fdnoblock(f) == nonblock' = nonblock \cup {f}

-----------------------------------------------------------------------------
(* bind and listen: listen may fail without netannounce noticing, and the  *)
(* socket then has nothing to offer but an exceptional condition.          *)
listen(f) ==
  \/ opened(f, "listening") /\ UNCHANGED pending
  \/ opened(f, "deaf") /\ pending' = pending \cup {<<f, "e">>}

keeps == UNCHANGED <<schedvars, taskvars, timevars, countvars, loopvars, clock, pollfd, robbed>>

(* Mutant: the listener stays blocking. *)
netannounce_block(t, f) ==
  /\ Call(t, "announce")
  /\ listen(f)
  /\ owns' = [owns EXCEPT ![t] = @ \cup {f}]
  /\ keeps
  /\ UNCHANGED nonblock

(* netannounce never switches.  Where netlookup, socket or bind fails it   *)
(* leaves nothing open: no step.                                           *)
netannounce(t, f) ==
  /\ Call(t, "announce")
  /\ listen(f)
  /\ fdnoblock(f)
  /\ owns' = [owns EXCEPT ![t] = @ \cup {f}]
  /\ keeps

(* netaccept waits first, whether or not a connection is there already. *)
netaccept(t, f) ==
  /\ Call(t, "accept")
  /\ fdwait(t, f, "r", "accept")
  /\ UNCHANGED netvars

(* Tasks that were woken for f and have not run yet. *)
alsowoken(f) == {u \in User : pc[u] = "accept" /\ file[u] = f} \ Polled

(* accept takes a connection, and the backlog may have more of them; or it *)
(* fails: nobody left in the backlog, no descriptor free, a broken         *)
(* connection.                                                             *)
netaccept_resume(t) ==
  LET f == file[t]
  IN  /\ Running(t) /\ pc[t] = "accept"
      /\ return(t)
      /\ \/ \E g \in Fd :
              /\ sock[f] = "listening" /\ possible(f, "r") /\ consumed(f, "r")
              /\ opened(g, "connected")
              /\ fdnoblock(g)
              /\ owns' = [owns EXCEPT ![t] = @ \cup {g}]
         \/ /\ possible(f, "r") /\ consumed(f, "r")
            /\ UNCHANGED <<sock, nonblock, owns>>
         \/ /\ ~possible(f, "r")
            /\ UNCHANGED <<pending, sock, nonblock, owns>>
      /\ robbed' = (IF pending' = pending THEN robbed ELSE robbed \cup alsowoken(f)) \ {t}

(* Mutant: the descriptor is not waited for. *)
netdial_nowait(t, f) ==
  /\ Call(t, "dial")
  /\ opened(f, "connecting")
  /\ pc' = [pc EXCEPT ![t] = "dial"]
  /\ file' = [file EXCEPT ![t] = f]
  /\ mode' = [mode EXCEPT ![t] = "w"]
  /\ fdnoblock(f)
  /\ UNCHANGED <<owns, robbed, schedvars, left, timevars, countvars, loopvars, kernel, pollfd>>

(* netdial up to its fdwait.  Where netlookup, socket or connect fails at  *)
(* once it leaves nothing open: no step.                                   *)
netdial(t, f) ==
  /\ Call(t, "dial")
  /\ opened(f, "connecting")
  /\ fdnoblock(f)
  /\ fdwait(t, f, "w", "dial")
  /\ UNCHANGED <<owns, robbed>>

(* Mutant: the error path does not close. *)
netdial_resume_leak(t) ==
  LET f == file[t]
  IN  /\ Running(t) /\ pc[t] = "dial"
      /\ return(t)
      /\ owns' = IF sock[f] = "connected" THEN [owns EXCEPT ![t] = @ \cup {f}] ELSE owns
      /\ UNCHANGED <<pending, sock, nonblock, robbed>>

(* The rest of netdial: getpeername tells whether f is connected. *)
netdial_resume(t) ==
  LET f == file[t]
  IN  /\ Running(t) /\ pc[t] = "dial"
      /\ return(t)
      /\ \/ /\ sock[f] = "connected"
            /\ owns' = [owns EXCEPT ![t] = @ \cup {f}]
            /\ UNCHANGED <<pending, sock, nonblock>>
         \/ /\ sock[f] # "connected"
            /\ closed(f)
            /\ UNCHANGED owns
      /\ UNCHANGED robbed

-----------------------------------------------------------------------------
(* A program that closes what it owns, when no task is in a call with it;  *)
(* any task may accept from any listener and use any connection.           *)
closefd(t, f) ==
  /\ Call(t, "close")
  /\ f \in owns[t]
  /\ \A u \in User : file[u] # f
  /\ closed(f)
  /\ owns' = [owns EXCEPT ![t] = @ \ {f}]
  /\ UNCHANGED <<schedvars, taskvars, timevars, countvars, loopvars, clock, pollfd, robbed>>

io(t, f) ==
  /\ sock[f] \in {"connected", "failed"} /\ f \in Owned
  /\ \/ fdread1(t, f) \/ fdread(t, f) \/ fdwrite_step(t, f)
     \/ \E n \in 1..Count : fdwrite(t, f, n)
  /\ UNCHANGED netvars

NetStep(t) ==
  \/ \E f \in Fd : netannounce(t, f)
  \/ \E f \in Fd : sock[f] \in {"listening", "deaf"} /\ netaccept(t, f)
  \/ netaccept_resume(t)
  \/ \E f \in Fd : netdial(t, f)
  \/ netdial_resume(t)
  \/ \E f \in Fd : closefd(t, f)
  \/ \E f \in Fd : io(t, f)

NNext ==
  \/ \E f \in Fd : NEvent(f)
  \/ schedule /\ UNCHANGED netvars
  \/ fdtask /\ UNCHANGED netvars
  \/ \E t \in User : NetStep(t)

NSpec == NInit /\ [][NNext]_nvars

-----------------------------------------------------------------------------
(* Every open descriptor is the business of exactly one task: one that was *)
(* given it and has not closed it, or one that is inside netdial with it.  *)
(* No path out of netannounce, netaccept or netdial leaks a descriptor,    *)
(* but for the abort in fdwait, after which there is no process.           *)
NoLeak ==
  LET mine(t) == owns[t] \cup {f \in {file[t]} : pc[t] = "dial"}
  IN  prog # "aborted" =>
        /\ Open = UNION {mine(t) : t \in User}
        /\ \A t, u \in User : t # u => mine(t) \cap mine(u) = {}

(* Only one of several acceptors woken for one connection gets it.  Each   *)
(* of the others finds the backlog empty only because another task took    *)
(* the connection, and its accept returns instead of blocking the process. *)
EmptyHanded ==
  \A t \in User : Running(t) /\ pc[t] = "accept" /\ ~possible(file[t], "r") =>
    t \in robbed /\ file[t] \in nonblock

(* netdial looks at the outcome of connect only once there is one: it does *)
(* not report, or close, a connection that is still being made.            *)
DialSettled ==
  \A t \in User : Running(t) /\ pc[t] = "dial" => sock[file[t]] # "connecting"

(* A task is inside a call only with a descriptor of the right kind, which *)
(* cannot be closed, and used again, behind its back.                      *)
InUse ==
  \A t \in User :
    /\ pc[t] \in {"user", "read", "write", "accept", "dial"}
    /\ pc[t] \in {"read", "write"} =>
         file[t] \in Owned /\ sock[file[t]] \in {"connected", "failed"}
    /\ pc[t] = "accept" =>
         file[t] \in Owned /\ mode[t] = "r" /\ sock[file[t]] \in {"listening", "deaf"}
    /\ pc[t] = "dial" =>
         /\ file[t] \in Open \ Owned /\ mode[t] = "w"
         /\ sock[file[t]] \in {"connecting", "connected", "failed"}

(* Nothing is pending for a descriptor that is closed or still connecting, *)
(* a listener does not block, and what poll reported is still there when   *)
(* the loop over pollfd comes to it.                                       *)
Sockets ==
  /\ \A f \in Fd : sock[f] \in {"closed", "connecting"} => \A m \in Mode : <<f, m>> \notin pending
  /\ \A f \in Fd : sock[f] \in {"listening", "deaf"} => f \in nonblock
  /\ \A k \in DOMAIN pollfd : pollfd[k].revents => reported(pollfd[k])

(* Whoever was woken finds what it waited for, or was robbed of it. *)
Woken ==
  \A t \in User \ Polled :
    /\ pc[t] = "accept" => possible(file[t], "r") \/ t \in robbed
    /\ pc[t] = "dial" => sock[file[t]] # "connecting"

(* The inductive invariant. *)
NInv == IInv /\ NTypeOK /\ NoLeak /\ InUse /\ Sockets /\ Woken
=============================================================================
