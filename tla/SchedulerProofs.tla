-------------------------- MODULE SchedulerProofs ---------------------------
(***************************************************************************)
(* Proofs about Scheduler, for any number of task structures, any growth   *)
(* step of alltask and any range of the switch counter: the invariant IInv *)
(* is inductive.  The exactness of the count, of the array and of the run  *)
(* queue, the result of taskyield and the way the program ends follow.     *)
(***************************************************************************)
EXTENDS Scheduler, TasklistLemmas

(* Remainders, as the counter and the growth test of alltask need them. *)
LEMMA Multiples ==
  ASSUME NEW c \in Nat \ {0}, NEW n \in Nat, n % c = 0
  PROVE  (n + c) % c = 0
<1>1. PICK k \in Int : n = c * k
  OBVIOUS
<1>2. k >= 0
  BY <1>1
<1>3. k + 1 \in Nat /\ n + c = c * (k + 1)
  BY <1>1, <1>2
<1>4. \A m \in Nat : (c * m) % c = 0
  OBVIOUS
<1> QED BY <1>3, <1>4

LEMMA Remainder ==
  ASSUME NEW c \in Nat \ {0}, NEW n \in 0..c - 1
  PROVE  n % c = n /\ (n - c) % c = n /\ c % c = 0
<1>1. n % c = n
  OBVIOUS
<1>2. (n - c) % c = n
  OBVIOUS
<1>3. c % c = 0
  OBVIOUS
<1> QED BY <1>1, <1>2, <1>3

(* One more switch is counted, whether or not the counter wraps. *)
LEMMA CountSwitch ==
  ASSUME NEW from \in 0..Wrap - 1, NEW to \in 0..Wrap - 1, NEW n \in Nat, n < Wrap,
         Switches(from, to, n)
  PROVE  (to + 1) % Wrap \in 0..Wrap - 1 /\ Switches(from, (to + 1) % Wrap, n + 1)
<1>1. Wrap \in Nat \ {0} /\ to \in Nat
  BY SchedulerAssumption
<1>2. CASE to + 1 = Wrap
  <2>1. (to + 1) % Wrap = 0
    BY <1>1, <1>2, Remainder
  <2> QED BY <1>1, <1>2, <2>1 DEF Switches
<1>3. CASE to + 1 # Wrap
  <2>1. to + 1 \in 0..Wrap - 1
    BY <1>1, <1>3
  <2>2. (to + 1) % Wrap = to + 1
    BY <1>1, <2>1, Remainder
  <2> QED BY <1>1, <2>1, <2>2 DEF Switches
<1> QED BY <1>2, <1>3

-----------------------------------------------------------------------------
(* The run queue holds exactly the ready tasks, each once. *)
LEMMA TheQueue ==
  ASSUME IInv
  PROVE  /\ RunQ \in List /\ lists \in [List -> Seq(Task)] /\ Disjoint(lists)
         /\ lists[RunQ] \in Seq(Task)
         /\ On(lists, RunQ) = ready /\ Listed(lists) = ready
<1> USE SchedAssumption DEF IInv
<1>1. lists \in [List -> Seq(Task)] /\ Disjoint(lists) /\ On(lists, RunQ) = ready
  BY DEF TypeOK, SchedTypeOK, QueueExact
<1>2. \A l \in List \ {RunQ} : On(lists, l) = {}
  BY <1>1, EmptyList
<1>3. Listed(lists) = ready
  <2>1. \A t : t \in Listed(lists) <=> t \in ready
    BY <1>1, <1>2, InListed
  <2> QED BY <2>1
<1> QED BY <1>1, <1>3

(* A task that is not ready goes to the tail, behind all that are.         *)
LEMMA Enqueue ==
  ASSUME IInv, NEW u \in Task \ ready, lists' = taskready(lists, u)
  PROVE  /\ lists' \in [List -> Seq(Task)] /\ Disjoint(lists')
         /\ On(lists', RunQ) = ready \cup {u} /\ Listed(lists') = ready \cup {u}
         /\ \A l \in List \ {RunQ} : lists'[l] = <<>>
<1>1. lists' = addtask(lists, RunQ, u)
  BY DEF taskready
<1>2. /\ lists' \in [List -> Seq(Task)] /\ Disjoint(lists')
      /\ On(lists', RunQ) = On(lists, RunQ) \cup {u} /\ Listed(lists') = Listed(lists) \cup {u}
      /\ \A l \in List \ {RunQ} : lists'[l] = lists[l]
  BY <1>1, TheQueue, AddTask
<1> QED BY <1>2, TheQueue DEF IInv

(* The others keep their places in it. *)
LEMMA EnqueuePlaces ==
  ASSUME IInv, NEW u \in Task \ ready, lists' = taskready(lists, u)
  PROVE  /\ \A i \in DOMAIN lists'[RunQ] :
              \/ /\ i \in DOMAIN lists[RunQ] /\ lists'[RunQ][i] = lists[RunQ][i]
                 /\ Before(lists'[RunQ], i) = Before(lists[RunQ], i)
              \/ lists'[RunQ][i] = u /\ Before(lists'[RunQ], i) = ready
<1> DEFINE q == lists[RunQ]
           p == lists'[RunQ]
           n == Len(q)
<1>1. q \in Seq(Task) /\ n \in Nat /\ DOMAIN q = 1..n /\ RunQ \in List
  BY TheQueue
<1>2. p = Append(q, u)
  BY TheQueue DEF taskready, addtask
<1>3. DOMAIN p = 1..n + 1 /\ p[n + 1] = u /\ \A i \in 1..n : p[i] = q[i]
  BY <1>1, <1>2
<1>4. ready = {q[j] : j \in 1..n}
  <2>1. ready = On(lists, RunQ)
    BY TheQueue
  <2> QED BY <1>1, <2>1 DEF On, Range
<1> SUFFICES ASSUME NEW i \in 1..n + 1
             PROVE  \/ i \in 1..n /\ p[i] = q[i] /\ Before(p, i) = Before(q, i)
                    \/ p[i] = u /\ Before(p, i) = ready
  BY <1>1, <1>3
<1> HIDE DEF q, p, n
<1>5. Before(p, i) = Before(q, i)
  <2>1. \A j \in 1..i - 1 : p[j] = q[j]
    BY <1>1, <1>3
  <2> QED BY <2>1 DEF Before
<1>6. CASE i \in 1..n
  BY <1>3, <1>5, <1>6
<1>7. CASE i = n + 1
  <2>1. i - 1 = n
    BY <1>1, <1>7
  <2>2. Before(q, i) = ready
    BY <1>4, <2>1 DEF Before
  <2> QED BY <1>3, <1>5, <1>7, <2>2
<1> QED BY <1>1, <1>6, <1>7

(* The scheduler takes the head off; the others move up by one. *)
LEMMA Dequeue ==
  ASSUME IInv, lists[RunQ] # <<>>, NEW h, h = Head(lists[RunQ]),
         lists' = deltask(lists, RunQ)
  PROVE  /\ h \in Task /\ h \in ready
         /\ lists' \in [List -> Seq(Task)] /\ Disjoint(lists')
         /\ On(lists', RunQ) = ready \ {h} /\ Listed(lists') = ready \ {h}
         /\ \A l \in List \ {RunQ} : lists'[l] = <<>>
<1>1. /\ h \in Task /\ h \in On(lists, RunQ)
      /\ lists' \in [List -> Seq(Task)] /\ Disjoint(lists')
      /\ On(lists', RunQ) = On(lists, RunQ) \ {h} /\ Listed(lists') = Listed(lists) \ {h}
      /\ \A l \in List \ {RunQ} : lists'[l] = lists[l]
  BY TheQueue, DelTask
<1> QED BY <1>1, TheQueue DEF IInv

LEMMA DequeuePlaces ==
  ASSUME IInv, lists[RunQ] # <<>>, NEW h, h = Head(lists[RunQ]),
         lists' = deltask(lists, RunQ)
  PROVE  /\ 1 \in DOMAIN lists[RunQ] /\ lists[RunQ][1] = h /\ Before(lists[RunQ], 1) = {}
         /\ \A i \in DOMAIN lists'[RunQ] :
              /\ i + 1 \in DOMAIN lists[RunQ] /\ lists'[RunQ][i] = lists[RunQ][i + 1]
              /\ h \in Before(lists[RunQ], i + 1)
              /\ Before(lists'[RunQ], i) = Before(lists[RunQ], i + 1) \ {h}
<1> DEFINE q == lists[RunQ]
           p == lists'[RunQ]
           n == Len(q)
<1>1. q \in Seq(Task) /\ n \in Nat /\ n > 0 /\ DOMAIN q = 1..n /\ RunQ \in List
  BY TheQueue
<1>2. p = Tail(q)
  BY TheQueue DEF deltask
<1>3. DOMAIN p = 1..n - 1 /\ \A i \in 1..n - 1 : p[i] = q[i + 1]
  BY <1>1, <1>2
<1>4. 1 \in 1..n /\ q[1] = h
  BY <1>1
<1>5. \A i, j \in 1..n : q[i] = q[j] => i = j
  BY <1>1, TheQueue DEF Disjoint
<1> HIDE DEF q, p, n
<1>6. Before(q, 1) = {}
  <2>1. 1..1 - 1 = {}
    OBVIOUS
  <2> QED BY <2>1 DEF Before
<1>7. ASSUME NEW i \in 1..n - 1
      PROVE  /\ i + 1 \in 1..n /\ p[i] = q[i + 1] /\ h \in Before(q, i + 1)
             /\ Before(p, i) = Before(q, i + 1) \ {h}
  <2>1. i + 1 \in 1..n /\ p[i] = q[i + 1] /\ (i + 1) - 1 = i /\ 1 \in 1..i
    BY <1>1, <1>3
  <2>2. Before(q, i + 1) = {q[j] : j \in 1..i}
    BY <2>1 DEF Before
  <2>3. h \in Before(q, i + 1)
    BY <1>4, <2>1, <2>2
  <2>4. ASSUME NEW u
        PROVE  u \in Before(p, i) <=> u \in Before(q, i + 1) /\ u # h
    <3>1. ASSUME u \in Before(p, i)
          PROVE  u \in Before(q, i + 1) /\ u # h
      <4>1. PICK j \in 1..i - 1 : u = p[j]
        BY <3>1 DEF Before
      <4>2. j \in 1..n - 1 /\ j + 1 \in 1..i /\ j + 1 \in 1..n /\ j + 1 # 1
        BY <1>1
      <4>3. u = q[j + 1]
        BY <1>3, <4>1, <4>2
      <4> QED BY <1>4, <1>5, <2>2, <4>2, <4>3
    <3>2. ASSUME u \in Before(q, i + 1), u # h
          PROVE  u \in Before(p, i)
      <4>1. PICK j \in 1..i : u = q[j]
        BY <2>2, <3>2
      <4>2. j # 1
        BY <1>4, <3>2, <4>1
      <4>3. j - 1 \in 1..i - 1 /\ j - 1 \in 1..n - 1 /\ (j - 1) + 1 = j
        BY <1>1, <4>2
      <4>4. u = p[j - 1]
        BY <1>3, <4>1, <4>3
      <4> QED BY <4>3, <4>4 DEF Before
    <3> QED BY <3>1, <3>2
  <2>5. Before(p, i) = Before(q, i + 1) \ {h}
    BY <2>4
  <2> QED BY <2>1, <2>3, <2>5
<1> QED BY <1>1, <1>3, <1>4, <1>6, <1>7 DEF q, p

-----------------------------------------------------------------------------
(* A step that counts no switch, and in which no task starts a taskyield:  *)
(* tasks inside taskyield keep their place in the queue.                   *)
LEMMA YieldersWait ==
  ASSUME IInv, tasknswitch' = tasknswitch, yieldvars' = yieldvars,
         \A t \in Task : pc'[t] = "yield" =>
            /\ pc[t] = "yield" /\ t \in heap' /\ (taskrunning' = t => taskrunning = t)
            /\ \A i \in DOMAIN lists'[RunQ] : lists'[RunQ][i] = t =>
                 /\ i \in DOMAIN lists[RunQ] /\ lists[RunQ][i] = t
                 /\ Before(lists'[RunQ], i) = Before(lists[RunQ], i)
  PROVE  YieldProgress'
<1> SUFFICES ASSUME NEW t \in Task, pc'[t] = "yield"
             PROVE  /\ t \in heap'
                    /\ taskrunning' = t => /\ ran[t] = ahead[t]
                                           /\ Switches(mark[t], tasknswitch, Cardinality(ran[t]) + 1)
                    /\ \A i \in DOMAIN lists'[RunQ] : lists'[RunQ][i] = t =>
                         /\ ran[t] \cup Before(lists'[RunQ], i) = ahead[t]
                         /\ ran[t] \cap Before(lists'[RunQ], i) = {}
                         /\ Switches(mark[t], tasknswitch, Cardinality(ran[t]))
  BY DEF YieldProgress, yieldvars
<1>1. pc[t] = "yield" /\ t \in heap' /\ (taskrunning' = t => taskrunning = t)
  OBVIOUS
<1>2. ASSUME NEW i \in DOMAIN lists'[RunQ], lists'[RunQ][i] = t
      PROVE  /\ i \in DOMAIN lists[RunQ] /\ lists[RunQ][i] = t
             /\ Before(lists'[RunQ], i) = Before(lists[RunQ], i)
  BY <1>2
<1> QED BY <1>1, <1>2 DEF IInv, YieldProgress

-----------------------------------------------------------------------------
(* What the invariant says about the array alltask. *)
ArrayInv ==
  /\ alltask \in Seq(Task) /\ allocated \in Nat /\ alltaskslot \in [Task -> Nat]
  /\ AlltaskExact
  /\ allocated % Chunk = 0
  /\ \A i \in DOMAIN alltask : alltaskslot[alltask[i]] = i - 1

(* A new task takes the next slot, for which there is room: the array is   *)
(* grown whenever it is full (task.c:165-175).                             *)
LEMMA AddSlot ==
  ASSUME IInv, NEW u \in Task \ heap, heap' = heap \cup {u},
         alltask' = Append(alltask, u), allocated' = grown(Len(alltask)),
         alltaskslot' = [alltaskslot EXCEPT ![u] = Len(alltask)]
  PROVE  ArrayInv'
<1> DEFINE n == Len(alltask)
<1>0. Chunk \in Nat \ {0} /\ IsFiniteSet(Task)
  BY SchedulerAssumption, SchedAssumption
<1>1. /\ alltask \in Seq(Task) /\ allocated \in Nat /\ alltaskslot \in [Task -> Nat]
      /\ heap \subseteq Task /\ Range(alltask) = heap /\ n = Cardinality(heap) /\ n <= allocated
      /\ \A t \in heap : alltaskslot[t] + 1 \in DOMAIN alltask /\ alltask[alltaskslot[t] + 1] = t
      /\ allocated % Chunk = 0
      /\ \A i \in DOMAIN alltask : alltaskslot[alltask[i]] = i - 1
  BY DEF IInv, TypeOK, AlltaskExact
<1>2. n \in Nat /\ DOMAIN alltask = 1..n
  BY <1>1
<1>3. /\ alltask' \in Seq(Task) /\ Len(alltask') = n + 1 /\ DOMAIN alltask' = 1..n + 1
      /\ alltask'[n + 1] = u /\ \A i \in 1..n : alltask'[i] = alltask[i]
  BY <1>1, <1>2
<1>4. /\ alltaskslot' \in [Task -> Nat] /\ alltaskslot'[u] = n
      /\ \A t \in Task \ {u} : alltaskslot'[t] = alltaskslot[t]
  BY <1>1, <1>2
<1> HIDE DEF n
<1>5. allocated' \in Nat /\ n + 1 <= allocated' /\ allocated' % Chunk = 0
  <2>0. allocated' = IF n % Chunk = 0 THEN n + Chunk ELSE allocated
    BY DEF grown, n
  <2>1. CASE n % Chunk = 0
    <3>1. allocated' = n + Chunk
      BY <2>0, <2>1
    <3>2. (n + Chunk) % Chunk = 0
      BY <1>0, <1>2, <2>1, Multiples
    <3> QED BY <1>0, <1>2, <3>1, <3>2
  <2>2. CASE n % Chunk # 0
    <3>1. allocated' = allocated
      BY <2>0, <2>2
    <3>2. n # allocated
      BY <1>1, <2>2
    <3> QED BY <1>1, <1>2, <3>1, <3>2
  <2> QED BY <2>1, <2>2
<1>6. \A i \in 1..n : alltask[i] \in heap /\ alltask[i] # u /\ alltask[i] \in Task
  BY <1>1, <1>2 DEF Range
<1>7. Range(alltask') = heap'
  <2>1. 1..n + 1 = (1..n) \cup {n + 1}
    BY <1>2
  <2>2. ASSUME NEW t
        PROVE  t \in Range(alltask') <=> t \in heap \cup {u}
    <3>1. t \in Range(alltask') <=> \E i \in 1..n + 1 : alltask'[i] = t
      BY <1>3 DEF Range
    <3>2. t \in heap <=> \E i \in 1..n : alltask[i] = t
      BY <1>1, <1>2 DEF Range
    <3> QED BY <1>3, <2>1, <3>1, <3>2
  <2> QED BY <2>2
<1>8. \A t \in heap' : alltaskslot'[t] + 1 \in DOMAIN alltask' /\ alltask'[alltaskslot'[t] + 1] = t
  <2>1. ASSUME NEW t \in heap
        PROVE  alltaskslot'[t] + 1 \in 1..n + 1 /\ alltask'[alltaskslot'[t] + 1] = t
    <3>1. t # u /\ alltaskslot'[t] = alltaskslot[t] /\ alltaskslot[t] + 1 \in 1..n
      BY <1>1, <1>2, <1>4, <2>1
    <3> QED BY <1>1, <1>2, <1>3, <3>1
  <2>2. n + 1 \in 1..n + 1
    BY <1>2
  <2> QED BY <1>3, <1>4, <2>1, <2>2
<1>9. Len(alltask') = Cardinality(heap')
  <2>1. IsFiniteSet(heap)
    BY <1>0, <1>1, FS_Subset
  <2> QED BY <1>1, <1>3, <2>1, FS_AddElement
<1>10. \A i \in DOMAIN alltask' : alltaskslot'[alltask'[i]] = i - 1
  <2>1. \A i \in 1..n : alltaskslot'[alltask'[i]] = i - 1
    <3>1. \A i \in 1..n : alltask'[i] = alltask[i] /\ alltask[i] \in Task \ {u}
      BY <1>3, <1>6
    <3>2. \A i \in 1..n : alltaskslot'[alltask[i]] = alltaskslot[alltask[i]]
      BY <1>4, <3>1
    <3>3. \A i \in 1..n : alltaskslot[alltask[i]] = i - 1
      BY <1>1, <1>2
    <3> QED BY ONLY <3>1, <3>2, <3>3
  <2>2. alltaskslot'[alltask'[n + 1]] = (n + 1) - 1
    BY <1>2, <1>3, <1>4
  <2> QED BY <1>2, <1>3, <2>1, <2>2
<1> QED BY <1>3, <1>4, <1>5, <1>7, <1>8, <1>9, <1>10 DEF ArrayInv, AlltaskExact

(* The task in the last slot takes the slot of the one that exits and      *)
(* learns it, also when they are the same (task.c:301-303).                *)
LEMMA RemoveSlot ==
  ASSUME IInv, NEW t \in heap, heap' = heap \ {t}, remove_slot(t)
  PROVE  ArrayInv'
<1> DEFINE n == Len(alltask)
           k == alltaskslot[t] + 1
           last_ == alltask[n]
<1>0. IsFiniteSet(Task)
  BY SchedAssumption
<1>1. /\ alltask \in Seq(Task) /\ allocated \in Nat /\ alltaskslot \in [Task -> Nat]
      /\ heap \subseteq Task /\ Range(alltask) = heap /\ n = Cardinality(heap) /\ n <= allocated
      /\ \A u \in heap : alltaskslot[u] + 1 \in DOMAIN alltask /\ alltask[alltaskslot[u] + 1] = u
      /\ allocated % Chunk = 0
      /\ \A i \in DOMAIN alltask : alltaskslot[alltask[i]] = i - 1
  BY DEF IInv, TypeOK, AlltaskExact
<1>2. n \in Nat /\ DOMAIN alltask = 1..n
  BY <1>1
<1>3. k \in 1..n /\ alltask[k] = t /\ n > 0 /\ n \in 1..n /\ alltaskslot[t] = k - 1
  BY <1>1, <1>2
<1>4. \A i \in 1..n : alltask[i] \in heap /\ alltask[i] \in Task
  BY <1>1, <1>2 DEF Range
<1>5. /\ alltask' = SubSeq([alltask EXCEPT ![k] = last_], 1, n - 1)
      /\ alltaskslot' = [alltaskslot EXCEPT ![last_] = alltaskslot[t], ![t] = 0]
      /\ allocated' = allocated
  BY DEF remove_slot
<1> HIDE DEF n, k, last_
<1>6. last_ \in heap /\ last_ \in Task /\ last_ = alltask[n] /\ alltaskslot[last_] = n - 1
  BY <1>1, <1>2, <1>3, <1>4 DEF last_
<1>7. /\ alltask' \in Seq(Task) /\ Len(alltask') = n - 1 /\ DOMAIN alltask' = 1..n - 1
      /\ \A i \in 1..n - 1 : alltask'[i] = IF i = k THEN last_ ELSE alltask[i]
  <2> DEFINE a == [alltask EXCEPT ![k] = last_]
  <2>1. a \in Seq(Task) /\ Len(a) = n /\ \A i \in 1..n : a[i] = IF i = k THEN last_ ELSE alltask[i]
    BY <1>1, <1>2, <1>3, <1>6
  <2>2. alltask' = SubSeq(a, 1, n - 1)
    BY <1>5
  <2> HIDE DEF a
  <2> QED BY <1>2, <1>3, <2>1, <2>2
<1>8. /\ alltaskslot' \in [Task -> Nat]
      /\ last_ # t => alltaskslot'[last_] = k - 1
      /\ \A u \in Task \ {t, last_} : alltaskslot'[u] = alltaskslot[u]
  BY <1>1, <1>3, <1>5, <1>6
<1>9. last_ = t <=> k = n
  BY <1>1, <1>2, <1>3, <1>6
<1>10. ASSUME NEW i \in 1..n - 1
       PROVE  /\ alltaskslot'[alltask'[i]] = i - 1
              /\ alltask'[i] \in heap \ {t}
  <2>1. i \in 1..n /\ i # n
    BY <1>2
  <2>2. CASE i = k
    <3>1. last_ # t /\ alltask'[i] = last_
      BY <1>7, <1>9, <2>1, <2>2
    <3> QED BY <1>6, <1>8, <2>2, <3>1
  <2>3. CASE i # k
    <3>1. alltask'[i] = alltask[i] /\ alltask[i] \in heap /\ alltaskslot[alltask[i]] = i - 1
      BY <1>1, <1>2, <1>4, <1>7, <2>1, <2>3
    <3>2. alltask[i] # t /\ alltask[i] # last_
      BY <1>2, <1>3, <1>6, <2>1, <2>3, <3>1
    <3> QED BY <1>1, <1>8, <3>1, <3>2
  <2> QED BY <2>2, <2>3
<1>11. ASSUME NEW u \in heap \ {t}
       PROVE  alltaskslot'[u] + 1 \in 1..n - 1 /\ alltask'[alltaskslot'[u] + 1] = u
  <2>1. CASE u = last_
    <3>1. k # n /\ k \in 1..n - 1 /\ alltaskslot'[u] + 1 = k
      BY <1>2, <1>3, <1>8, <1>9, <2>1
    <3> QED BY <1>7, <2>1, <3>1
  <2>2. CASE u # last_
    <3>1. /\ alltaskslot'[u] = alltaskslot[u] /\ alltaskslot[u] + 1 \in 1..n
          /\ alltask[alltaskslot[u] + 1] = u
      BY <1>1, <1>2, <1>8, <2>2
    <3>2. alltaskslot[u] + 1 # n /\ alltaskslot[u] + 1 # k
      BY <1>3, <1>6, <2>2, <3>1
    <3>3. alltaskslot[u] + 1 \in 1..n - 1
      BY <1>2, <3>1, <3>2
    <3> QED BY <1>7, <3>1, <3>2, <3>3
  <2> QED BY <2>1, <2>2
<1>12. Range(alltask') = heap'
  <2>1. ASSUME NEW u
        PROVE  u \in Range(alltask') <=> u \in heap \ {t}
    <3>1. u \in Range(alltask') <=> \E i \in 1..n - 1 : alltask'[i] = u
      BY <1>7 DEF Range
    <3> QED BY <1>10, <1>11, <3>1
  <2> QED BY <2>1
<1>13. Len(alltask') = Cardinality(heap') /\ Len(alltask') <= allocated'
  <2>1. IsFiniteSet(heap)
    BY <1>0, <1>1, FS_Subset
  <2>2. Cardinality(heap \ {t}) = n - 1
    BY <1>1, <2>1, FS_RemoveElement
  <2> QED BY <1>1, <1>2, <1>5, <1>7, <2>2
<1> QED BY <1>1, <1>5, <1>7, <1>8, <1>10, <1>11, <1>12, <1>13 DEF ArrayInv, AlltaskExact

LEMMA ArrayKept ==
  ASSUME IInv, UNCHANGED arrayvars
  PROVE  ArrayInv'
BY DEF IInv, TypeOK, ArrayInv, AlltaskExact, arrayvars

(* A task that calls the library exists, runs, and no end is in sight. *)
LEMMA Caller ==
  ASSUME IInv, NEW t \in Task, Running(t)
  PROVE  /\ prog = "running" /\ taskrunning = t /\ t # nil /\ t \in heap /\ t \notin ready
         /\ last = nil /\ status = nil
<1> USE TasklistAssumption DEF IInv
<1>1. prog = "running" /\ taskrunning = t /\ t # nil
  BY DEF Running
<1>2. t \in heap /\ t \notin ready
  BY <1>1 DEF QueueExact
<1>3. last = nil /\ status = nil
  BY <1>1 DEF EndSettled
<1> QED BY <1>1, <1>2, <1>3

(* The tasks that keep the program alive are finitely many. *)
LEMMA Alive ==
  ASSUME IInv
  PROVE  IsFiniteSet(heap \ system) /\ taskcount \in Nat /\ (taskcount = 0 <=> heap \subseteq system)
<1>1. IsFiniteSet(heap \ system)
  BY SchedAssumption, FS_Subset DEF IInv, TypeOK
<1>2. taskcount \in Nat /\ (taskcount = 0 <=> heap \ system = {})
  BY <1>1, FS_CardinalityType, FS_EmptySet DEF IInv, CountExact
<1> QED BY <1>1, <1>2

-----------------------------------------------------------------------------
(* taskcreate (task.c:151-180). *)
LEMMA CreateKeeps ==
  ASSUME IInv, NEW t \in Task, NEW u \in Task, taskcreate(t, u)
  PROVE  IInv'
<1>0. /\ prog = "running" /\ taskrunning = t /\ t # nil /\ t \in heap /\ t \notin ready
      /\ last = nil /\ status = nil
  BY Caller DEF taskcreate, Call
<1>1. /\ u \notin heap /\ u # t /\ heap' = heap \cup {u} /\ system' = system \ {u}
      /\ pc' = [pc EXCEPT ![u] = "user"] /\ taskcount' = taskcount + 1
      /\ ready' = ready \cup {u} /\ lists' = taskready(lists, u)
      /\ UNCHANGED <<taskrunning, prog, tasknswitch, taskexitval, status, last, mark, ahead, ran>>
      /\ yieldvars' = yieldvars
  BY <1>0 DEF taskcreate, yieldvars
<1>2. u \in Task \ ready /\ heap \subseteq Task /\ system \subseteq Task
      /\ pc \in [Task -> {"user", "yield", "blocked"}]
  BY <1>1 DEF IInv, TypeOK, QueueExact
<1>3. pc' \in [Task -> {"user", "yield", "blocked"}] /\ pc'[u] = "user"
      /\ \A v \in Task \ {u} : pc'[v] = pc[v]
  BY <1>1, <1>2
<1>4. /\ lists' \in [List -> Seq(Task)] /\ Disjoint(lists')
      /\ On(lists', RunQ) = ready \cup {u} /\ Listed(lists') = ready \cup {u}
      /\ \A l \in List \ {RunQ} : lists'[l] = <<>>
  BY <1>1, <1>2, Enqueue
<1>5. ArrayInv'
  BY <1>1, <1>2, AddSlot DEF taskcreate
<1>6. CountExact'
  <2>1. heap' \ system' = (heap \ system) \cup {u} /\ u \notin heap \ system
    BY <1>1
  <2>2. IsFiniteSet(heap \ system) /\ taskcount = Cardinality(heap \ system)
    BY Alive DEF CountExact, IInv
  <2>3. Cardinality((heap \ system) \cup {u}) = Cardinality(heap \ system) + 1
    BY ONLY <2>1, <2>2, FS_AddElement
  <2>4. taskcount' = Cardinality(heap' \ system')
    BY ONLY <1>1, <2>1, <2>2, <2>3
  <2> QED BY ONLY <2>4 DEF CountExact
<1>7. QueueExact'
  <2>1. ready' = {v \in heap' : pc'[v] # "blocked"} \ {taskrunning'}
    BY <1>0, <1>1, <1>2, <1>3 DEF IInv, QueueExact
  <2> QED BY <1>0, <1>1, <1>4, <2>1 DEF QueueExact
<1>8. YieldProgress'
  <2>1. ASSUME NEW v \in Task, pc'[v] = "yield"
        PROVE  /\ pc[v] = "yield" /\ v \in heap' /\ v # u
               /\ \A i \in DOMAIN lists'[RunQ] : lists'[RunQ][i] = v =>
                    /\ i \in DOMAIN lists[RunQ] /\ lists[RunQ][i] = v
                    /\ Before(lists'[RunQ], i) = Before(lists[RunQ], i)
    <3>1. v # u /\ pc[v] = "yield"
      BY <1>3, <2>1
    <3>2. v \in heap'
      BY <1>1, <3>1 DEF IInv, YieldProgress
    <3> QED BY <1>1, <1>2, <3>1, <3>2, EnqueuePlaces
  <2> QED BY <1>1, <2>1, YieldersWait
<1>9. EndSettled'
  BY <1>0, <1>1 DEF EndSettled
<1>10. /\ SchedTypeOK' /\ heap' \subseteq Task /\ system' \subseteq Task /\ ready' \subseteq Task
       /\ taskcount' \in Int
  BY <1>1, <1>2, <1>4 DEF IInv, TypeOK, SchedTypeOK
<1>11. /\ tasknswitch' \in 0..Wrap - 1 /\ taskexitval' \in Status /\ status' \in Status \cup {nil}
       /\ mark' \in [Task -> 0..Wrap - 1] /\ ahead' \in [Task -> SUBSET Task]
       /\ ran' \in [Task -> SUBSET Task] /\ last' \in Status \cup {nil}
  BY <1>1 DEF IInv, TypeOK
<1> QED BY <1>3, <1>4, <1>5, <1>6, <1>7, <1>8, <1>9, <1>10, <1>11 DEF IInv, TypeOK, ArrayInv

(* tasksystem counts the caller out, once (task.c:183-190). *)
LEMMA SystemKeeps ==
  ASSUME IInv, NEW t \in Task, tasksystem(t)
  PROVE  IInv'
<1>0. t \in heap /\ last = nil /\ prog = "running" /\ status = nil
  BY Caller DEF tasksystem, Call
<1>1. /\ t \notin system /\ system' = system \cup {t} /\ taskcount' = taskcount - 1
      /\ UNCHANGED <<lists, taskrunning, prog, heap, alltask, allocated, alltaskslot,
                     mark, ahead, ran, pc, ready, tasknswitch, taskexitval, status, last>>
  BY DEF tasksystem, schedvars, arrayvars, yieldvars
<1>2. CountExact'
  <2>1. heap' \ system' = (heap \ system) \ {t} /\ t \in heap \ system
    BY <1>0, <1>1
  <2> QED BY <1>1, <2>1, Alive, FS_RemoveElement, ZenonT(30) DEF CountExact, IInv
<1>3. EndSettled'
  BY <1>0, <1>1 DEF EndSettled
<1>4. TypeOK'
  BY <1>1 DEF IInv, TypeOK, SchedTypeOK
<1>5. AlltaskExact' /\ QueueExact' /\ YieldProgress'
  BY <1>1 DEF IInv, AlltaskExact, QueueExact, YieldProgress, Before
<1> QED BY <1>1, <1>2, <1>3, <1>4, <1>5 DEF IInv

(* taskyield up to its taskswitch (task.c:214-220): exactly the ready      *)
(* tasks are in front of the caller, and no switch has been counted.       *)
LEMMA YieldKeeps ==
  ASSUME IInv, NEW t \in Task, yield(t)
  PROVE  IInv'
<1>0. /\ prog = "running" /\ taskrunning = t /\ t # nil /\ t \in heap /\ t \notin ready
      /\ last = nil /\ status = nil /\ pc[t] = "user"
  BY Caller DEF yield, Call
<1>1. /\ lists' = taskready(lists, t) /\ taskrunning' = nil /\ ready' = ready \cup {t}
      /\ mark' = [mark EXCEPT ![t] = tasknswitch] /\ ahead' = [ahead EXCEPT ![t] = On(lists, RunQ)]
      /\ ran' = [ran EXCEPT ![t] = {}] /\ pc' = [pc EXCEPT ![t] = "yield"]
      /\ UNCHANGED <<prog, taskcount, taskexitval, status, last, heap, alltask, allocated,
                     alltaskslot, system, tasknswitch>>
  BY DEF yield, taskyield, taskswitch, countvars, arrayvars
<1>2. /\ heap \subseteq Task /\ tasknswitch \in 0..Wrap - 1 /\ ready \subseteq Task
      /\ pc \in [Task -> {"user", "yield", "blocked"}] /\ mark \in [Task -> 0..Wrap - 1]
      /\ ahead \in [Task -> SUBSET Task] /\ ran \in [Task -> SUBSET Task]
  BY DEF IInv, TypeOK
<1>3. On(lists, RunQ) = ready
  BY TheQueue
<1>4. /\ pc' \in [Task -> {"user", "yield", "blocked"}] /\ pc'[t] = "yield"
      /\ mark' \in [Task -> 0..Wrap - 1] /\ mark'[t] = tasknswitch
      /\ ahead' \in [Task -> SUBSET Task] /\ ahead'[t] = ready
      /\ ran' \in [Task -> SUBSET Task] /\ ran'[t] = {}
      /\ \A v \in Task \ {t} : /\ pc'[v] = pc[v] /\ mark'[v] = mark[v]
                              /\ ahead'[v] = ahead[v] /\ ran'[v] = ran[v]
  BY <1>1, <1>2, <1>3
<1>5. /\ lists' \in [List -> Seq(Task)] /\ Disjoint(lists')
      /\ On(lists', RunQ) = ready \cup {t} /\ Listed(lists') = ready \cup {t}
      /\ \A l \in List \ {RunQ} : lists'[l] = <<>>
  BY <1>0, <1>1, Enqueue
<1>6. ArrayInv' /\ CountExact' /\ EndSettled'
  BY <1>0, <1>1, ArrayKept DEF IInv, CountExact, EndSettled, arrayvars
<1>7. QueueExact'
  <2>1. ready' = {v \in heap' : pc'[v] # "blocked"} \ {taskrunning'}
    <3>1. nil \notin heap
      BY <1>2, TasklistAssumption
    <3> QED BY <1>0, <1>1, <1>2, <1>4, <3>1 DEF IInv, QueueExact
  <2>2. nil \notin ready \cup {t}
    BY <1>0, <1>2, TasklistAssumption
  <2> QED BY <1>0, <1>1, <1>5, <2>1, <2>2 DEF QueueExact
<1>8. YieldProgress'
  <2> SUFFICES ASSUME NEW v \in Task, pc'[v] = "yield"
               PROVE  /\ v \in heap /\ v # nil
                      /\ \A i \in DOMAIN lists'[RunQ] : lists'[RunQ][i] = v =>
                           /\ ran'[v] \cup Before(lists'[RunQ], i) = ahead'[v]
                           /\ ran'[v] \cap Before(lists'[RunQ], i) = {}
                           /\ Switches(mark'[v], tasknswitch, Cardinality(ran'[v]))
    BY <1>1 DEF YieldProgress
  <2>0. v # nil
    BY TasklistAssumption
  <2>1. CASE v = t
    <3>1. ASSUME NEW i \in DOMAIN lists'[RunQ], lists'[RunQ][i] = t
          PROVE  Before(lists'[RunQ], i) = ready
      <4>1. ~(i \in DOMAIN lists[RunQ] /\ lists[RunQ][i] = t)
        BY <1>0, <1>3, InOn
      <4> QED BY <1>0, <1>1, <3>1, <4>1, EnqueuePlaces
    <3>2. Switches(tasknswitch, tasknswitch, Cardinality({}))
      BY <1>2, SchedulerAssumption, FS_EmptySet DEF Switches
    <3> QED BY <1>0, <1>4, <2>0, <2>1, <3>1, <3>2
  <2>2. CASE v # t
    <3>1. pc[v] = "yield" /\ v \in heap
      BY <1>4, <2>2 DEF IInv, YieldProgress
    <3>2. ASSUME NEW i \in DOMAIN lists'[RunQ], lists'[RunQ][i] = v
          PROVE  /\ i \in DOMAIN lists[RunQ] /\ lists[RunQ][i] = v
                 /\ Before(lists'[RunQ], i) = Before(lists[RunQ], i)
      BY <1>0, <1>1, <2>2, <3>2, EnqueuePlaces
    <3> QED BY <1>4, <2>0, <2>2, <3>1, <3>2 DEF IInv, YieldProgress
  <2> QED BY <2>1, <2>2
<1>9. SchedTypeOK' /\ ready' \subseteq Task
  BY <1>1, <1>2, <1>5 DEF IInv, TypeOK, SchedTypeOK
<1>10. /\ heap' \subseteq Task /\ system' \subseteq Task /\ taskcount' \in Int
       /\ tasknswitch' \in 0..Wrap - 1 /\ taskexitval' \in Status
       /\ status' \in Status \cup {nil} /\ last' \in Status \cup {nil}
  BY <1>1 DEF IInv, TypeOK
<1> QED BY <1>4, <1>5, <1>6, <1>7, <1>8, <1>9, <1>10 DEF IInv, TypeOK, ArrayInv

(* taskyield returns (task.c:222). *)
LEMMA YieldResumeKeeps ==
  ASSUME IInv, NEW t \in Task, yield_resume(t)
  PROVE  IInv'
<1>0. taskrunning = t /\ t \in heap /\ t \notin ready /\ pc[t] = "yield"
  BY Caller DEF yield_resume
<1>1. /\ pc' = [pc EXCEPT ![t] = "user"] /\ mark' = [mark EXCEPT ![t] = 0]
      /\ ahead' = [ahead EXCEPT ![t] = {}] /\ ran' = [ran EXCEPT ![t] = {}]
      /\ UNCHANGED <<lists, taskrunning, prog, taskcount, taskexitval, status, last, heap, alltask,
                     allocated, alltaskslot, system, ready, tasknswitch>>
  BY DEF yield_resume, schedvars, countvars, arrayvars
<1>2. /\ pc \in [Task -> {"user", "yield", "blocked"}] /\ mark \in [Task -> 0..Wrap - 1]
      /\ ahead \in [Task -> SUBSET Task] /\ ran \in [Task -> SUBSET Task] /\ heap \subseteq Task
  BY DEF IInv, TypeOK
<1>3. /\ pc' \in [Task -> {"user", "yield", "blocked"}] /\ pc'[t] = "user"
      /\ mark' \in [Task -> 0..Wrap - 1]
      /\ ahead' \in [Task -> SUBSET Task] /\ ran' \in [Task -> SUBSET Task]
      /\ \A v \in Task \ {t} : /\ pc'[v] = pc[v] /\ mark'[v] = mark[v]
                              /\ ahead'[v] = ahead[v] /\ ran'[v] = ran[v]
  <2>1. 0 \in 0..Wrap - 1
    BY SchedulerAssumption, SchedAssumption, FS_CardinalityType
  <2> QED BY <1>1, <1>2, <2>1
<1>4. TypeOK'
  BY <1>1, <1>3 DEF IInv, TypeOK, SchedTypeOK
<1>5. CountExact' /\ AlltaskExact' /\ EndSettled'
  BY <1>1 DEF IInv, CountExact, AlltaskExact, EndSettled
<1>6. QueueExact'
  <2>1. ready' = {v \in heap' : pc'[v] # "blocked"} \ {taskrunning'}
    BY <1>0, <1>1, <1>2, <1>3 DEF IInv, QueueExact
  <2> QED BY <1>1, <2>1 DEF IInv, QueueExact
<1>7. YieldProgress'
  <2> SUFFICES ASSUME NEW v \in Task, pc'[v] = "yield"
               PROVE  /\ v \in heap /\ taskrunning # v
                      /\ \A i \in DOMAIN lists[RunQ] : lists[RunQ][i] = v =>
                           /\ ran'[v] \cup Before(lists[RunQ], i) = ahead'[v]
                           /\ ran'[v] \cap Before(lists[RunQ], i) = {}
                           /\ Switches(mark'[v], tasknswitch, Cardinality(ran'[v]))
    BY <1>1 DEF YieldProgress
  <2>1. v # t /\ pc[v] = "yield"
    BY <1>3
  <2> QED BY <1>0, <1>3, <2>1 DEF IInv, YieldProgress
<1> QED BY <1>1, <1>4, <1>5, <1>6, <1>7 DEF IInv

(* taskexit and the end of the scheduler's turn (task.c:240-246, 292-306). *)
LEMMA ExitKeeps ==
  ASSUME IInv, NEW t \in Task, NEW val \in Status, taskexit(t, val)
  PROVE  IInv'
<1>0. /\ prog = "running" /\ taskrunning = t /\ t # nil /\ t \in heap /\ t \notin ready
      /\ last = nil /\ status = nil /\ pc[t] = "user"
  BY Caller DEF taskexit, Call
<1>1. /\ taskexitval' = val /\ taskrunning' = nil
      /\ taskcount' = (IF t \in system THEN taskcount ELSE taskcount - 1)
      /\ remove_slot(t) /\ heap' = heap \ {t} /\ system' = system \ {t}
      /\ last' = (IF heap \ system = {t} THEN val ELSE last)
      /\ UNCHANGED <<lists, prog, status, mark, ahead, ran, pc, ready, tasknswitch>>
      /\ yieldvars' = yieldvars
  BY DEF taskexit, taskswitch, yieldvars
<1>2. heap \subseteq Task /\ ready \subseteq Task /\ taskcount \in Int
  BY DEF IInv, TypeOK
<1>3. ArrayInv'
  BY <1>0, <1>1, RemoveSlot
<1>4. CountExact'
  <2>1. heap' \ system' = (heap \ system) \ {t}
    BY <1>1
  <2>2. CASE t \in system
    <3>1. heap' \ system' = heap \ system /\ taskcount' = taskcount
      BY <1>1, <2>1, <2>2
    <3> QED BY <3>1 DEF CountExact, IInv
  <2>3. CASE t \notin system
    <3>1. t \in heap \ system /\ taskcount' = taskcount - 1
      BY <1>0, <1>1, <2>3
    <3>2. Cardinality((heap \ system) \ {t}) = Cardinality(heap \ system) - 1
      BY <3>1, Alive, FS_RemoveElement
    <3> QED BY <2>1, <3>1, <3>2 DEF CountExact, IInv
  <2> QED BY <2>2, <2>3
<1>5. QueueExact'
  <2>1. nil \notin heap /\ nil \notin ready
    BY <1>2, TasklistAssumption
  <2>2. ready' = {v \in heap' : pc'[v] # "blocked"} \ {taskrunning'}
    BY <1>0, <1>1, <2>1 DEF IInv, QueueExact
  <2> QED BY <1>1, <2>1, <2>2, TheQueue DEF IInv, QueueExact
<1>6. YieldProgress'
  <2>1. ASSUME NEW v \in Task, pc'[v] = "yield"
        PROVE  /\ pc[v] = "yield" /\ v \in heap' /\ taskrunning' # v /\ lists' = lists
    BY <1>0, <1>1, <2>1, TasklistAssumption DEF IInv, YieldProgress
  <2> QED BY <1>1, <2>1, YieldersWait
<1>7. EndSettled'
  <2>1. last' # nil => heap' \subseteq system' /\ taskexitval' = last'
    BY <1>0, <1>1
  <2>2. taskrunning' = nil /\ status' = nil
    BY <1>0, <1>1
  <2> QED BY <2>1, <2>2 DEF EndSettled
<1>8. /\ SchedTypeOK' /\ heap' \subseteq Task /\ system' \subseteq Task /\ ready' \subseteq Task
      /\ taskcount' \in Int /\ taskexitval' \in Status /\ last' \in Status \cup {nil}
  BY <1>1, <1>2 DEF IInv, TypeOK, SchedTypeOK
<1>9. /\ pc' \in [Task -> {"user", "yield", "blocked"}] /\ tasknswitch' \in 0..Wrap - 1
      /\ status' \in Status \cup {nil} /\ mark' \in [Task -> 0..Wrap - 1]
      /\ ahead' \in [Task -> SUBSET Task] /\ ran' \in [Task -> SUBSET Task]
  BY <1>1 DEF IInv, TypeOK
<1>10. \A l \in List \ {RunQ} : lists'[l] = <<>>
  BY <1>1 DEF IInv
<1> QED BY <1>3, <1>4, <1>5, <1>6, <1>7, <1>8, <1>9, <1>10 DEF IInv, TypeOK, ArrayInv

(* taskexitall ends the process with nothing else changed (task.c:233-237). *)
LEMMA ExitallKeeps ==
  ASSUME IInv, NEW t \in Task, NEW val \in Status, taskexitall(t, val)
  PROVE  IInv'
<1>0. last = nil
  BY Caller DEF taskexitall, Call
<1>1. /\ prog' = "exited" /\ status' = val
      /\ UNCHANGED <<lists, taskrunning, taskcount, taskexitval, last, heap, alltask, allocated,
                     alltaskslot, mark, ahead, ran, pc, system, ready, tasknswitch>>
  BY DEF taskexitall, arrayvars, yieldvars
<1>2. TypeOK' /\ EndSettled'
  BY <1>0, <1>1 DEF IInv, TypeOK, SchedTypeOK, EndSettled
<1>3. CountExact' /\ AlltaskExact' /\ QueueExact' /\ YieldProgress'
  BY <1>1 DEF IInv, CountExact, AlltaskExact, QueueExact, YieldProgress
<1> QED BY <1>1, <1>2, <1>3 DEF IInv

(* A task leaves the CPU for a component's own list, or is put back on the *)
(* run queue by it.                                                        *)
LEMMA BlockKeeps ==
  ASSUME IInv, NEW t \in Task, block(t)
  PROVE  IInv'
<1>0. /\ prog = "running" /\ taskrunning = t /\ t # nil /\ t \in heap /\ t \notin ready
      /\ last = nil /\ status = nil /\ pc[t] = "user"
  BY Caller DEF block, Call
<1>1. /\ taskrunning' = nil /\ pc' = [pc EXCEPT ![t] = "blocked"]
      /\ UNCHANGED <<lists, prog, taskcount, taskexitval, status, last, heap, alltask, allocated,
                     alltaskslot, mark, ahead, ran, system, ready, tasknswitch>>
      /\ yieldvars' = yieldvars
  BY DEF block, taskswitch, countvars, arrayvars, yieldvars
<1>2. heap \subseteq Task /\ ready \subseteq Task /\ pc \in [Task -> {"user", "yield", "blocked"}]
  BY DEF IInv, TypeOK
<1>3. TypeOK'
  BY <1>1 DEF IInv, TypeOK, SchedTypeOK
<1>4. CountExact' /\ AlltaskExact' /\ EndSettled'
  BY <1>0, <1>1 DEF IInv, CountExact, AlltaskExact, EndSettled
<1>5. QueueExact'
  <2>1. nil \notin heap /\ nil \notin ready
    BY <1>2, TasklistAssumption
  <2>2. ready' = {v \in heap' : pc'[v] # "blocked"} \ {taskrunning'}
    BY <1>0, <1>1, <1>2, <2>1 DEF IInv, QueueExact
  <2> QED BY <1>1, <2>1, <2>2, TheQueue DEF IInv, QueueExact
<1>6. YieldProgress'
  <2>1. ASSUME NEW v \in Task, pc'[v] = "yield"
        PROVE  pc[v] = "yield" /\ v \in heap' /\ taskrunning' # v /\ lists' = lists
    BY <1>1, <1>2, <2>1, TasklistAssumption DEF IInv, YieldProgress
  <2> QED BY <1>1, <2>1, YieldersWait
<1> QED BY <1>1, <1>3, <1>4, <1>5, <1>6 DEF IInv

LEMMA WakeKeeps ==
  ASSUME IInv, NEW t \in Task, NEW u \in Task, wake(t, u)
  PROVE  IInv'
<1>0. /\ prog = "running" /\ taskrunning = t /\ t # nil /\ t \in heap /\ t \notin ready
      /\ last = nil /\ status = nil /\ pc[t] = "user"
  BY Caller DEF wake, Call
<1>1. /\ u \in heap /\ pc[u] = "blocked" /\ pc' = [pc EXCEPT ![u] = "user"] /\ u # t
      /\ ready' = ready \cup {u} /\ lists' = taskready(lists, u)
      /\ UNCHANGED <<taskrunning, prog, taskcount, taskexitval, status, last, heap, alltask,
                     allocated, alltaskslot, mark, ahead, ran, system, tasknswitch>>
      /\ yieldvars' = yieldvars
  BY <1>0 DEF wake, countvars, arrayvars, yieldvars
<1>2. u \in Task \ ready /\ heap \subseteq Task /\ ready \subseteq Task
      /\ pc \in [Task -> {"user", "yield", "blocked"}]
  BY <1>1 DEF IInv, TypeOK, QueueExact
<1>3. pc' \in [Task -> {"user", "yield", "blocked"}] /\ pc'[u] = "user"
      /\ \A v \in Task \ {u} : pc'[v] = pc[v]
  BY <1>1, <1>2
<1>4. /\ lists' \in [List -> Seq(Task)] /\ Disjoint(lists')
      /\ On(lists', RunQ) = ready \cup {u} /\ Listed(lists') = ready \cup {u}
      /\ \A l \in List \ {RunQ} : lists'[l] = <<>>
  BY <1>1, <1>2, Enqueue
<1>5. CountExact' /\ AlltaskExact' /\ EndSettled'
  BY <1>0, <1>1 DEF IInv, CountExact, AlltaskExact, EndSettled
<1>6. QueueExact'
  <2>1. ready' = {v \in heap' : pc'[v] # "blocked"} \ {taskrunning'}
    BY <1>0, <1>1, <1>2, <1>3 DEF IInv, QueueExact
  <2> QED BY <1>0, <1>1, <1>4, <2>1 DEF QueueExact
<1>7. YieldProgress'
  <2>1. ASSUME NEW v \in Task, pc'[v] = "yield"
        PROVE  /\ pc[v] = "yield" /\ v \in heap' /\ v # u
               /\ \A i \in DOMAIN lists'[RunQ] : lists'[RunQ][i] = v =>
                    /\ i \in DOMAIN lists[RunQ] /\ lists[RunQ][i] = v
                    /\ Before(lists'[RunQ], i) = Before(lists[RunQ], i)
    <3>1. v # u /\ pc[v] = "yield"
      BY <1>3, <2>1
    <3>2. v \in heap'
      BY <1>1, <3>1 DEF IInv, YieldProgress
    <3> QED BY <1>1, <1>2, <3>1, <3>2, EnqueuePlaces
  <2> QED BY <1>1, <2>1, YieldersWait
<1>8. TypeOK'
  <2>1. SchedTypeOK' /\ ready' \subseteq Task
    BY <1>1, <1>2, <1>4 DEF IInv, TypeOK, SchedTypeOK
  <2> QED BY <1>1, <1>3, <2>1 DEF IInv, TypeOK
<1> QED BY <1>1, <1>4, <1>5, <1>6, <1>7, <1>8 DEF IInv

-----------------------------------------------------------------------------
(* The scheduler ends the process (task.c:268-276). *)
LEMMA ScheduleEndKeeps ==
  ASSUME IInv, taskscheduler, schedule_exit \/ schedule_stall
  PROVE  IInv'
<1>1. /\ prog' # "running"
      /\ UNCHANGED <<lists, taskrunning, taskcount, taskexitval, last, heap, alltask, allocated,
                     alltaskslot, mark, ahead, ran, pc, system, ready, tasknswitch>>
  BY DEF taskscheduler, schedule_exit, schedule_stall, Stall, arrayvars
<1>2. prog' \in {"stalled", "exited"}
  BY DEF schedule_exit, schedule_stall, Stall
<1>3. /\ status' \in Status
      /\ last # nil => status' = last
  <2>1. CASE schedule_exit
    BY <2>1 DEF schedule_exit, IInv, TypeOK, EndSettled
  <2>2. CASE schedule_stall
    <3>1. taskcount # 0 /\ status' = 1
      BY <2>2 DEF schedule_stall
    <3>2. last = nil
      BY <3>1, Alive DEF IInv, EndSettled
    <3> QED BY <3>1, <3>2, SchedulerAssumption
  <2> QED BY <2>1, <2>2
<1>4. TypeOK'
  BY <1>1, <1>2, <1>3 DEF IInv, TypeOK, SchedTypeOK
<1>5. EndSettled'
  BY <1>1, <1>3 DEF IInv, EndSettled
<1>6. CountExact' /\ AlltaskExact' /\ QueueExact' /\ YieldProgress'
  BY <1>1 DEF IInv, CountExact, AlltaskExact, QueueExact, YieldProgress
<1> QED BY <1>1, <1>4, <1>5, <1>6 DEF IInv

(* The scheduler runs the head of the queue (task.c:278-290): for every    *)
(* task inside taskyield one of those in front of it has run, or the turn  *)
(* has come to itself.                                                     *)
LEMMA ScheduleRunKeeps ==
  ASSUME IInv, taskscheduler, schedule_run
  PROVE  IInv'
<1> DEFINE h == Head(lists[RunQ])
           q == lists[RunQ]
<1>0. taskcount # 0 /\ Running(nil) /\ lists[RunQ] # <<>> /\ lists' = deltask(lists, RunQ)
      /\ taskrunning = nil /\ prog = "running"
  BY DEF schedule_run, Dispatch, Running
<1>1. /\ taskrunning' = h /\ ready' = ready \ {h} /\ tasknswitch' = (tasknswitch + 1) % Wrap
      /\ ran' = [t \in Task |-> IF pc[t] = "yield" /\ t # h THEN ran[t] \cup {h} ELSE ran[t]]
      /\ UNCHANGED <<prog, status, taskcount, taskexitval, last, heap, alltask, allocated,
                     alltaskslot, mark, ahead, pc, system>>
  BY DEF taskscheduler, schedule_run, Dispatch, arrayvars
<1>2. /\ h \in Task /\ h \in ready
      /\ lists' \in [List -> Seq(Task)] /\ Disjoint(lists')
      /\ On(lists', RunQ) = ready \ {h} /\ Listed(lists') = ready \ {h}
      /\ \A l \in List \ {RunQ} : lists'[l] = <<>>
  BY <1>0, Dequeue
<1>3. /\ heap \subseteq Task /\ tasknswitch \in 0..Wrap - 1 /\ ready \subseteq Task
      /\ mark \in [Task -> 0..Wrap - 1] /\ ahead \in [Task -> SUBSET Task]
      /\ ran \in [Task -> SUBSET Task] /\ Wrap \in Nat \ {0} /\ Wrap > Cardinality(Task)
      /\ IsFiniteSet(Task) /\ Cardinality(Task) \in Nat
  <2>1. Wrap \in Nat \ {0} /\ Wrap > Cardinality(Task) /\ IsFiniteSet(Task) /\ Cardinality(Task) \in Nat
    BY SchedulerAssumption, SchedAssumption, FS_CardinalityType
  <2> QED BY <2>1 DEF IInv, TypeOK
<1>4. /\ 1 \in DOMAIN q /\ q[1] = h /\ Before(q, 1) = {}
      /\ \A i \in DOMAIN lists'[RunQ] :
           /\ i + 1 \in DOMAIN q /\ lists'[RunQ][i] = q[i + 1] /\ h \in Before(q, i + 1)
           /\ Before(lists'[RunQ], i) = Before(q, i + 1) \ {h}
  BY <1>0, DequeuePlaces
<1> HIDE DEF h, q
<1>5. tasknswitch' \in 0..Wrap - 1
  BY <1>1, <1>3
<1>6. ran' \in [Task -> SUBSET Task]
      /\ \A t \in Task : ran'[t] = IF pc[t] = "yield" /\ t # h THEN ran[t] \cup {h} ELSE ran[t]
  BY <1>1, <1>2, <1>3
<1>7. ArrayInv' /\ CountExact'
  BY <1>1, ArrayKept DEF IInv, CountExact, arrayvars
<1>8. EndSettled'
  <2>1. last = nil
    BY <1>0, Alive DEF IInv, EndSettled
  <2> QED BY <1>1, <2>1 DEF IInv, EndSettled
<1>9. QueueExact'
  <2>1. h \in heap
    BY <1>2 DEF IInv, QueueExact
  <2>2. nil \notin heap
    BY <1>3, TasklistAssumption
  <2>3. ready' = {v \in heap' : pc'[v] # "blocked"} \ {taskrunning'}
    BY <1>0, <1>1, <2>2 DEF IInv, QueueExact
  <2> QED BY <1>1, <1>2, <2>1, <2>3 DEF QueueExact
<1>10. ASSUME NEW t \in Task
       PROVE  /\ IsFiniteSet(ran[t]) /\ Cardinality(ran[t]) \in Nat /\ Cardinality(ran[t]) < Wrap
  <2>1. ran[t] \subseteq Task
    BY <1>3
  <2>2. IsFiniteSet(ran[t]) /\ Cardinality(ran[t]) <= Cardinality(Task)
    BY <1>3, <2>1, FS_Subset
  <2>3. Cardinality(ran[t]) \in Nat
    BY <2>2, FS_CardinalityType
  <2> QED BY <1>3, <2>2, <2>3
<1>11. YieldProgress'
  <2> SUFFICES ASSUME NEW t \in Task, pc[t] = "yield"
               PROVE  /\ t \in heap
                      /\ h = t => /\ ran'[t] = ahead[t]
                                  /\ Switches(mark[t], tasknswitch', Cardinality(ran'[t]) + 1)
                      /\ \A i \in DOMAIN lists'[RunQ] : lists'[RunQ][i] = t =>
                           /\ ran'[t] \cup Before(lists'[RunQ], i) = ahead[t]
                           /\ ran'[t] \cap Before(lists'[RunQ], i) = {}
                           /\ Switches(mark[t], tasknswitch', Cardinality(ran'[t]))
    BY <1>1 DEF YieldProgress
  <2>1. /\ t \in heap
        /\ \A i \in DOMAIN q : q[i] = t =>
             /\ ran[t] \cup Before(q, i) = ahead[t] /\ ran[t] \cap Before(q, i) = {}
             /\ Switches(mark[t], tasknswitch, Cardinality(ran[t]))
    BY DEF IInv, YieldProgress, q
  <2>2. ASSUME Switches(mark[t], tasknswitch, Cardinality(ran[t]))
        PROVE  Switches(mark[t], tasknswitch', Cardinality(ran[t]) + 1)
    <3>1. mark[t] \in 0..Wrap - 1
      BY <1>3
    <3> QED BY <1>1, <1>3, <1>10, <2>2, <3>1, CountSwitch
  <2>3. ASSUME h = t
        PROVE  /\ ran'[t] = ahead[t]
               /\ Switches(mark[t], tasknswitch', Cardinality(ran'[t]) + 1)
    <3>1. ran'[t] = ran[t]
      BY <1>6, <2>3
    <3>2. /\ ran[t] \cup Before(q, 1) = ahead[t]
          /\ Switches(mark[t], tasknswitch, Cardinality(ran[t]))
      BY <1>4, <2>1, <2>3
    <3>3. ran[t] = ahead[t]
      BY <1>4, <3>2
    <3> QED BY <2>2, <3>1, <3>2, <3>3
  <2>4. ASSUME NEW i \in DOMAIN lists'[RunQ], lists'[RunQ][i] = t
        PROVE  /\ ran'[t] \cup Before(lists'[RunQ], i) = ahead[t]
               /\ ran'[t] \cap Before(lists'[RunQ], i) = {}
               /\ Switches(mark[t], tasknswitch', Cardinality(ran'[t]))
    <3>1. /\ i + 1 \in DOMAIN q /\ q[i + 1] = t /\ h \in Before(q, i + 1)
          /\ Before(lists'[RunQ], i) = Before(q, i + 1) \ {h}
      BY <1>4, <2>4
    <3>2. t # h
      <4>1. t \in On(lists', RunQ)
        BY <2>4, InOn
      <4> QED BY <1>2, <4>1
    <3>3. ran'[t] = ran[t] \cup {h}
      BY <1>6, <3>2
    <3>4. /\ ran[t] \cup Before(q, i + 1) = ahead[t] /\ ran[t] \cap Before(q, i + 1) = {}
          /\ Switches(mark[t], tasknswitch, Cardinality(ran[t]))
      BY <2>1, <3>1
    <3>5. h \notin ran[t]
      BY <3>1, <3>4
    <3>6. Cardinality(ran'[t]) = Cardinality(ran[t]) + 1
      BY <1>10, <3>3, <3>5, FS_AddElement, ZenonT(30)
    <3>7. Switches(mark[t], tasknswitch', Cardinality(ran'[t]))
      BY <2>2, <3>4, <3>6
    <3> QED BY <3>1, <3>3, <3>4, <3>5, <3>7
  <2> QED BY <2>1, <2>3, <2>4
<1>12. SchedTypeOK' /\ ready' \subseteq Task
  BY <1>1, <1>2, <1>3 DEF IInv, TypeOK, SchedTypeOK
<1>13. /\ heap' \subseteq Task /\ pc' \in [Task -> {"user", "yield", "blocked"}]
       /\ system' \subseteq Task /\ taskcount' \in Int /\ taskexitval' \in Status
       /\ status' \in Status \cup {nil} /\ mark' \in [Task -> 0..Wrap - 1]
       /\ ahead' \in [Task -> SUBSET Task] /\ last' \in Status \cup {nil}
  BY <1>1 DEF IInv, TypeOK
<1> QED BY <1>2, <1>5, <1>6, <1>7, <1>8, <1>9, <1>11, <1>12, <1>13 DEF IInv, TypeOK, ArrayInv

-----------------------------------------------------------------------------
(* The state in which main() calls taskscheduler (task.c:414-442). *)
LEMMA InitInv == Init => IInv
<1> SUFFICES ASSUME Init
             PROVE  IInv
  OBVIOUS
<1>0. /\ Main \in Task /\ {0, 1} \subseteq Status /\ Chunk \in Nat \ {0} /\ RunQ \in List
      /\ 0 \in 0..Wrap - 1 /\ nil \notin Task
  BY SchedulerAssumption, SchedAssumption, TasklistAssumption, FS_CardinalityType
<1>1. /\ lists \in [List -> Seq(Task)] /\ lists[RunQ] = <<Main>>
      /\ \A l \in List \ {RunQ} : lists[l] = <<>>
  <2>1. lists = [l \in List |-> IF l = RunQ THEN <<Main>> ELSE <<>>]
    BY DEF Init
  <2>2. \A l \in List : (IF l = RunQ THEN <<Main>> ELSE <<>>) \in Seq(Task)
    BY <1>0
  <2> QED BY <1>0, <2>1, <2>2
<1>2. Disjoint(lists) /\ On(lists, RunQ) = {Main} /\ Listed(lists) = {Main}
  <2>1. DOMAIN lists[RunQ] = {1} /\ lists[RunQ][1] = Main
    BY <1>1
  <2>2. On(lists, RunQ) = {Main}
    BY <2>1 DEF On, Range
  <2>3. \A l \in List \ {RunQ} : On(lists, l) = {}
    BY <1>1, EmptyList
  <2>4. \A t : t \in Listed(lists) <=> t = Main
    BY <1>0, <2>2, <2>3, InListed
  <2>5. \A l \in List : \A i \in DOMAIN lists[l] : l = RunQ /\ i = 1
    <3>1. DOMAIN <<>> = {}
      OBVIOUS
    <3> QED BY <1>1, <2>1, <3>1
  <2>6. Disjoint(lists)
    BY <2>5 DEF Disjoint
  <2>7. Listed(lists) = {Main}
    BY <2>4
  <2> QED BY <2>2, <2>6, <2>7
<1>3. alltask = <<Main>> /\ alltask \in Seq(Task) /\ DOMAIN alltask = {1} /\ Len(alltask) = 1
      /\ alltask[1] = Main
  BY <1>0 DEF Init
<1>4. TypeOK
  BY <1>0, <1>1, <1>3 DEF Init, TypeOK, SchedTypeOK
<1>5. Cardinality({Main}) = 1
  BY FS_Singleton
<1>6. CountExact
  <2>1. heap \ system = {Main}
    BY DEF Init
  <2> QED BY <1>5, <2>1 DEF Init, CountExact
<1>7. AlltaskExact /\ \A i \in DOMAIN alltask : alltaskslot[alltask[i]] = i - 1
  <2>1. Range(alltask) = heap
    BY <1>3 DEF Init, Range
  <2>2. alltaskslot[Main] = 0
    BY <1>0 DEF Init
  <2>3. 1 <= Chunk /\ 0 + 1 = 1 /\ 1 - 1 = 0
    BY <1>0
  <2> QED BY <1>3, <1>5, <2>1, <2>2, <2>3 DEF Init, AlltaskExact
<1>8. QueueExact
  <2>1. nil # Main
    BY <1>0
  <2> QED BY <1>0, <1>2, <2>1 DEF Init, QueueExact
<1>9. YieldProgress /\ EndSettled
  BY DEF Init, YieldProgress, EndSettled
<1>10. allocated % Chunk = 0
  <2>1. Chunk % Chunk = 0
    BY <1>0
  <2> QED BY <2>1 DEF Init
<1> QED BY <1>1, <1>4, <1>6, <1>7, <1>8, <1>9, <1>10 DEF IInv

(* The invariant of the scheduler, whatever tasks are created, blocked,    *)
(* woken and ended, and in which order.                                    *)
THEOREM SchedulerInvariant == Spec => []IInv
<1>1. IInv /\ [Next]_vars => IInv'
  <2> SUFFICES ASSUME IInv, [Next]_vars
               PROVE  IInv'
    OBVIOUS
  <2>1. CASE UNCHANGED vars
    <3>1. UNCHANGED <<lists, taskrunning, prog, taskcount, taskexitval, status, last, heap, alltask,
                      allocated, alltaskslot, mark, ahead, ran, pc, system, ready, tasknswitch>>
      BY <2>1 DEF vars, schedvars, countvars, arrayvars, yieldvars
    <3> QED BY <3>1 DEF IInv, TypeOK, SchedTypeOK, CountExact, AlltaskExact, QueueExact,
                        YieldProgress, EndSettled
  <2>2. CASE taskscheduler
    BY <2>2, ScheduleEndKeeps, ScheduleRunKeeps DEF taskscheduler
  <2>3. ASSUME NEW t \in Task, TaskStep(t)
        PROVE  IInv'
    BY <2>3, CreateKeeps, SystemKeeps, YieldKeeps, YieldResumeKeeps, ExitKeeps, ExitallKeeps,
       BlockKeeps, WakeKeeps DEF TaskStep
  <2> QED BY <2>1, <2>2, <2>3 DEF Next
<1> QED BY <1>1, InitInv, PTL DEF Spec

(* Type correctness of the scheduler. *)
THEOREM SchedulerTypeOK == Spec => []TypeOK
BY SchedulerInvariant, PTL DEF IInv

(* taskcount is the number of existing tasks that are not system tasks. *)
THEOREM SchedulerCountExact == Spec => []CountExact
BY SchedulerInvariant, PTL DEF IInv

(* alltask lists the existing tasks, each knows its slot, and the array is *)
(* never written past its end, for every growth step.                      *)
THEOREM SchedulerAlltaskExact == Spec => []AlltaskExact
BY SchedulerInvariant, PTL DEF IInv

(* The run queue holds exactly the tasks that can run and do not, once. *)
THEOREM SchedulerQueueExact == Spec => []QueueExact
BY SchedulerInvariant, PTL DEF IInv

(* taskyield returns the number of tasks that ran, which are exactly those *)
(* that were ready, wherever in its range the switch counter wrapped.      *)
THEOREM SchedulerYieldResult == Spec => []YieldResult
<1>1. IInv => YieldResult
  <2> SUFFICES ASSUME IInv, NEW t \in Task, Running(t), pc[t] = "yield"
               PROVE  ran[t] = ahead[t] /\ yielded(t) = Cardinality(ran[t])
    BY DEF YieldResult
  <2> DEFINE c == Cardinality(ran[t])
  <2>1. ran[t] = ahead[t] /\ Switches(mark[t], tasknswitch, c + 1)
    BY DEF IInv, YieldProgress, Running
  <2>2. /\ tasknswitch \in 0..Wrap - 1 /\ mark[t] \in 0..Wrap - 1 /\ ran[t] \subseteq Task
    BY DEF IInv, TypeOK
  <2>3. Wrap \in Nat \ {0} /\ Wrap > Cardinality(Task) /\ IsFiniteSet(Task) /\ Cardinality(Task) \in Nat
    BY SchedulerAssumption, SchedAssumption, FS_CardinalityType
  <2>4. IsFiniteSet(ran[t]) /\ c <= Cardinality(Task)
    BY <2>2, <2>3, FS_Subset
  <2>5. c \in Nat
    BY <2>4, FS_CardinalityType
  <2>6. c \in 0..Wrap - 1
    BY <2>3, <2>4, <2>5
  <2>7. c % Wrap = c /\ (c - Wrap) % Wrap = c
    BY <2>3, <2>6, Remainder
  <2> HIDE DEF c
  <2>8. tasknswitch - mark[t] - 1 = c \/ tasknswitch - mark[t] - 1 = c - Wrap
    BY <2>1, <2>2, <2>3, <2>5 DEF Switches
  <2>9. yielded(t) = c
    BY <2>7, <2>8 DEF yielded
  <2> QED BY <2>1, <2>9 DEF c
<1> QED BY <1>1, SchedulerInvariant, PTL

(* After the exit of the last non-system task nothing runs, and the status *)
(* of the process is the one it gave.                                      *)
THEOREM SchedulerLastExit == Spec => []LastExitEndsProgram
<1>1. IInv => LastExitEndsProgram
  BY DEF IInv, EndSettled, LastExitEndsProgram
<1> QED BY <1>1, SchedulerInvariant, PTL

(* "no runnable tasks" is said only if all tasks are blocked, and the      *)
(* scheduler exits only if none but system tasks are left.                 *)
THEOREM SchedulerEndsForAReason == Spec => EndsForAReason
<1> DEFINE Stalls == prog' = "stalled" /\ prog # prog' => \A t \in heap : pc[t] = "blocked"
           Exits == prog' = "exited" /\ prog # prog' /\ taskrunning = nil => heap \subseteq system
<1>1. IInv /\ [Next]_vars => [Stalls /\ Exits]_vars
  <2> SUFFICES ASSUME IInv, Next
               PROVE  Stalls /\ Exits
    OBVIOUS
  <2>1. ASSUME NEW t \in Task, TaskStep(t)
        PROVE  taskrunning # nil /\ (prog' = prog \/ prog' = "exited")
    <3>1. Running(t)
      BY <2>1 DEF TaskStep, taskcreate, tasksystem, yield, yield_resume, taskexit, taskexitall,
                  block, wake, Call
    <3>2. taskrunning # nil
      BY <3>1, TasklistAssumption DEF Running
    <3> QED BY <2>1, <3>2 DEF TaskStep, taskcreate, tasksystem, yield, taskyield, yield_resume,
               taskexit, taskexitall, block, wake, schedvars
  <2>2. CASE schedule_exit
    <3>1. taskcount = 0 /\ prog' = "exited"
      BY <2>2 DEF schedule_exit
    <3> QED BY <3>1, Alive
  <2>3. CASE schedule_stall
    <3>1. lists[RunQ] = <<>> /\ taskrunning = nil /\ prog' = "stalled"
      BY <2>3 DEF schedule_stall, Stall, Running
    <3>2. ready = {}
      BY <3>1, TheQueue, EmptyList
    <3>3. nil \notin heap
      BY TasklistAssumption DEF IInv, TypeOK
    <3>4. \A t \in heap : pc[t] = "blocked"
      BY <3>1, <3>2, <3>3 DEF IInv, QueueExact
    <3> QED BY <3>1, <3>4
  <2>4. CASE schedule_run
    BY <2>4 DEF schedule_run, Dispatch
  <2> QED BY <2>1, <2>2, <2>3, <2>4 DEF Next, taskscheduler
<1> QED BY <1>1, SchedulerInvariant, PTL DEF Spec, EndsForAReason
=============================================================================
