------------------------------- MODULE Rendez -------------------------------
(***************************************************************************)
(* Rendezvous points (rendez.c): condition variables whose waiters are a   *)
(* task list, with an optional QLock r->l that tasksleep releases while    *)
(* the task sleeps and takes again before it returns.  Module QLock is the *)
(* lock; list r is the waiting list of rendezvous r.                       *)
(***************************************************************************)
EXTENDS QLock

CONSTANTS Rendez,  \* the Rendez objects, each naming its own waiting list
          lockof   \* r->l: the lock of a rendezvous, or nil

ASSUME RendezAssumption ==
  /\ Rendez \subseteq List \ (Lock \cup {RunQ})
  /\ lockof \in [Rendez -> Lock \cup {nil}]
  /\ nil \notin Lock \cup Rendez

VARIABLE rz   \* per task: the argument of the tasksleep it is inside, or nil

rvars == <<vars, rz>>

RTypeOK ==
  /\ TypeOK
  /\ rz \in [Task -> Rendez \cup {nil}]

RInit == Init /\ rz = [t \in Task |-> nil]

-----------------------------------------------------------------------------
(* Mutant: the task is not put on the list of the rendezvous. *)
tasksleep_unlisted(t, r) ==
  /\ Running(t) /\ pc[t] = "user"
  /\ \/ /\ lockof[r] = nil
        /\ UNCHANGED <<lists, owner, holds>>
     \/ /\ lockof[r] # nil
        /\ release(lists, lockof[r])
        /\ holds' = [holds EXCEPT ![t] = @ \ {lockof[r]}]
  /\ taskswitch
  /\ pc' = [pc EXCEPT ![t] = "sleep"]
  /\ rz' = [rz EXCEPT ![t] = r]
  /\ UNCHANGED <<prog, arg>>

(* tasksleep up to its taskswitch: wait on r, and give up r->l. *)
tasksleep(t, r) ==
  LET q == addtask(lists, r, t)
  IN  /\ Running(t) /\ pc[t] = "user"
      /\ \/ /\ lockof[r] = nil
            /\ lists' = q
            /\ UNCHANGED <<prog, owner, holds>>
            /\ taskswitch
         \/ /\ lockof[r] # nil
            /\ owner[lockof[r]] # nil
            /\ release(q, lockof[r])
            /\ holds' = [holds EXCEPT ![t] = @ \ {lockof[r]}]
            /\ UNCHANGED prog
            /\ taskswitch
         \/ /\ lockof[r] # nil
            /\ owner[lockof[r]] = nil
            /\ Abort
            /\ UNCHANGED <<owner, holds>>
      /\ pc' = [pc EXCEPT ![t] = "sleep"]
      /\ rz' = [rz EXCEPT ![t] = r]
      /\ UNCHANGED arg

(* Mutant: the lock is not taken again. *)
tasksleep_resume_unlocked(t) ==
  /\ Running(t) /\ pc[t] = "sleep"
  /\ pc' = [pc EXCEPT ![t] = "user"]
  /\ rz' = [rz EXCEPT ![t] = nil]
  /\ UNCHANGED <<schedvars, owner, holds, arg>>

(* tasksleep after its taskswitch: take r->l again, waiting if need be. *)
tasksleep_resume(t) ==
  /\ Running(t) /\ pc[t] = "sleep"
  /\ \/ /\ lockof[rz[t]] = nil
        /\ pc' = [pc EXCEPT ![t] = "user"]
        /\ rz' = [rz EXCEPT ![t] = nil]
        /\ UNCHANGED <<schedvars, owner, holds, arg>>
     \/ /\ lockof[rz[t]] # nil
        /\ acquire(t, lockof[rz[t]])
        /\ rz' = [rz EXCEPT ![t] = nil]
     \/ /\ lockof[rz[t]] # nil
        /\ enqueue(t, lockof[rz[t]])
        /\ UNCHANGED rz

(* The qlock inside tasksleep ends, and with it the tasksleep. *)
rqlock_resume(t) ==
  /\ qlock_resume(t)
  /\ rz' = [rz EXCEPT ![t] = nil]

(* taskwakeup: the first sleeper becomes ready; none, and nothing happens. *)
taskwakeup(t, r) ==
  /\ Running(t) /\ pc[t] = "user"
  /\ lists[r] # <<>>
  /\ lists' = taskready(deltask(lists, r), Head(lists[r]))
  /\ UNCHANGED <<taskrunning, prog, lockvars, rz>>

(* taskwakeupall: every sleeper becomes ready, in the order they slept. *)
taskwakeupall(t, r) ==
  /\ Running(t) /\ pc[t] = "user"
  /\ lists[r] # <<>>
  /\ lists' = [lists EXCEPT ![r] = <<>>, ![RunQ] = @ \o lists[r]]
  /\ UNCHANGED <<taskrunning, prog, lockvars, rz>>

-----------------------------------------------------------------------------
(* A program that uses both as intended: it sleeps with r->l held. *)
RTaskStep(t) ==
  \/ \E l \in Lock \ holds[t] : (qlock(t, l) \/ canqlock(t, l)) /\ UNCHANGED rz
  \/ \E l \in holds[t] : qunlock(t, l) /\ UNCHANGED rz
  \/ \E r \in Rendez : lockof[r] \in holds[t] \cup {nil} /\ tasksleep(t, r)
  \/ \E r \in Rendez : taskwakeup(t, r)
  \/ \E r \in Rendez : taskwakeupall(t, r)
  \/ tasksleep_resume(t)
  \/ rqlock_resume(t)
  \/ Yield(t) /\ UNCHANGED rz

RNext == (Schedule /\ UNCHANGED rz) \/ \E t \in Task : RTaskStep(t)

RSpec == RInit /\ [][RNext]_rvars

(* The scheduler and the library do not stop; a task that runs user code   *)
(* leaves the CPU at some point, and one that holds a lock releases it if  *)
(* it keeps being scheduled.  The last two are assumptions on the program. *)
RFairness ==
  /\ WF_rvars(Schedule /\ UNCHANGED rz)
  /\ \A t \in Task :
       /\ WF_rvars(tasksleep_resume(t))
       /\ WF_rvars(rqlock_resume(t))
       /\ WF_rvars(Yield(t) /\ UNCHANGED rz)
       /\ \A l \in Lock : SF_rvars(l \in holds[t] /\ qunlock(t, l) /\ UNCHANGED rz)

RFairSpec == RSpec /\ RFairness

-----------------------------------------------------------------------------
(* tasksleep gives the lock up and takes it back: while a task is inside   *)
(* tasksleep it does not hold r->l, and at the step that ends the call it  *)
(* holds it again, however many tasks locked and unlocked in between.      *)
SleepReleasesAndRetakes ==
  [][\A t \in Task : rz[t] # nil =>
       /\ lockof[rz[t]] \notin holds[t]
       /\ rz'[t] = nil => lockof[rz[t]] \in holds'[t] \cup {nil}]_rvars

(* Giving up the lock and going to sleep is one step for everybody else: a *)
(* task inside tasksleep that has not been made ready again is on the      *)
(* list of its rendezvous, so a wakeup by the next owner cannot miss it;   *)
(* and a wakeup makes ready a task that is inside tasksleep on that very   *)
(* rendezvous.                                                             *)
SleepersExact ==
  \A t \in Task :
    /\ pc[t] = "sleep" => t \in On(lists, rz[t]) \cup On(lists, RunQ) \cup {taskrunning}
    /\ \A r \in Rendez : t \in On(lists, r) => pc[t] = "sleep" /\ rz[t] = r

(* The inductive invariant behind the two: a task is inside tasksleep      *)
(* exactly while rz names a rendezvous; it does not hold r->l there, and   *)
(* the only lock it queues for is r->l.                                    *)
InsideSleep ==
  \A t \in Task :
    /\ pc[t] = "sleep" => rz[t] \in Rendez
    /\ rz[t] # nil => /\ pc[t] # "user"
                      /\ lockof[rz[t]] \notin holds[t]
                      /\ pc[t] = "qlock" => arg[t] = lockof[rz[t]]

RInv == RTypeOK /\ IInv /\ SleepersExact /\ InsideSleep

(* t waits in qlock(l), or is awake again in a tasksleep that has to take  *)
(* the lock l before it returns (none, if l is nil).                       *)
Wants(t, l) ==
  \/ pc[t] = "qlock" /\ arg[t] = l
  \/ pc[t] = "sleep" /\ t \in On(lists, RunQ) /\ lockof[rz[t]] = l

(* Every task that waits in qlock gets the lock, and every task that was   *)
(* woken returns from tasksleep with its lock: FIFO hand-off by qunlock    *)
(* cannot be overtaken for ever by tasks that call canqlock or qlock anew  *)
(* or come back from a sleep.  Only a task that went to sleep on another   *)
(* rendezvous with the lock held keeps them waiting.                       *)
NoStarvation ==
  \A t \in Task, l \in Lock \cup {nil} :
    Wants(t, l) ~> \/ pc[t] = "user" /\ rz[t] = nil /\ l \in holds[t] \cup {nil}
                  \/ \E u \in Task : pc[u] = "sleep" /\ l \in holds[u]
=============================================================================
