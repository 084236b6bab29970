--------------------------- MODULE TasklistLemmas ---------------------------
(***************************************************************************)
(* What addtask and deltask do to the task lists, for the proofs about the *)
(* components that move tasks between them.                                *)
(***************************************************************************)
EXTENDS Tasklist, FiniteSetTheorems, TLAPS

(* Membership in a list and in the lists, without Range and UNION. *)
LEMMA InOn ==
  ASSUME NEW q, NEW l, NEW t
  PROVE  t \in On(q, l) <=> \E i \in DOMAIN q[l] : q[l][i] = t
BY DEF On, Range

LEMMA InListed ==
  ASSUME NEW q, NEW t
  PROVE  t \in Listed(q) <=> \E l \in List : t \in On(q, l)
BY DEF Listed

(* No task is on two lists. *)
LEMMA OnOneList ==
  ASSUME NEW q, Disjoint(q), NEW l \in List, NEW m \in List, NEW t,
         t \in On(q, l), t \in On(q, m)
  PROVE  l = m
BY InOn DEF Disjoint

(* A list is empty exactly when no task is on it. *)
LEMMA EmptyList ==
  ASSUME NEW q \in [List -> Seq(Task)], NEW l \in List
  PROVE  q[l] = <<>> <=> On(q, l) = {}
<1>1. q[l] \in Seq(Task)
  OBVIOUS
<1>2. CASE q[l] = <<>>
  BY <1>2, InOn
<1>3. CASE q[l] # <<>>
  <2>1. 1 \in DOMAIN q[l]
    BY <1>1, <1>3
  <2> QED BY <1>3, <2>1, InOn
<1> QED BY <1>2, <1>3

(* Only tasks are on the lists. *)
LEMMA ListedAreTasks ==
  ASSUME NEW q \in [List -> Seq(Task)]
  PROVE  Listed(q) \subseteq Task /\ \A l \in List : On(q, l) \subseteq Task
<1>1. ASSUME NEW l \in List, NEW t \in On(q, l)
      PROVE  t \in Task
  <2>1. q[l] \in Seq(Task)
    OBVIOUS
  <2>2. PICK i \in DOMAIN q[l] : q[l][i] = t
    BY InOn
  <2> QED BY <2>1, <2>2
<1> QED BY <1>1, InListed

(* addtask (task.c:452-464) puts a task that is on no list at the tail of  *)
(* one and leaves the other lists alone.                                   *)
LEMMA AddTask ==
  ASSUME NEW q \in [List -> Seq(Task)], NEW l \in List, NEW t \in Task,
         Disjoint(q), t \notin Listed(q)
  PROVE  /\ addtask(q, l, t) \in [List -> Seq(Task)]
         /\ Disjoint(addtask(q, l, t))
         /\ addtask(q, l, t)[l] # <<>>
         /\ On(addtask(q, l, t), l) = On(q, l) \cup {t}
         /\ \A m \in List \ {l} : /\ addtask(q, l, t)[m] = q[m]
                                  /\ On(addtask(q, l, t), m) = On(q, m)
         /\ Listed(addtask(q, l, t)) = Listed(q) \cup {t}
<1> DEFINE r == addtask(q, l, t)
           n == Len(q[l])
<1>1. q[l] \in Seq(Task) /\ n \in Nat /\ DOMAIN q[l] = 1..n
  OBVIOUS
<1>2. r[l] = Append(q[l], t) /\ \A m \in List \ {l} : r[m] = q[m]
  BY DEF addtask
<1>3. r \in [List -> Seq(Task)] /\ r[l] # <<>>
  BY <1>1, <1>2 DEF addtask
<1>4. DOMAIN r[l] = 1..n + 1 /\ r[l][n + 1] = t /\ \A i \in 1..n : r[l][i] = q[l][i]
  BY <1>1, <1>2
<1>5. On(r, l) = On(q, l) \cup {t}
  <2>1. ASSUME NEW u
        PROVE  u \in On(r, l) <=> u \in On(q, l) \/ u = t
    <3>1. 1..n + 1 = (1..n) \cup {n + 1}
      BY <1>1
    <3> HIDE DEF r, n
    <3>2. u \in On(r, l) <=> \E i \in 1..n + 1 : r[l][i] = u
      BY <1>4 DEF On, Range
    <3>3. u \in On(q, l) <=> \E i \in 1..n : q[l][i] = u
      BY <1>1, InOn
    <3> QED BY <1>4, <3>1, <3>2, <3>3
  <2> QED BY <2>1
<1>6. \A m \in List \ {l} : On(r, m) = On(q, m)
  BY <1>2 DEF On
<1>7. Listed(r) = Listed(q) \cup {t}
  <2> HIDE DEF r
  <2>1. ASSUME NEW u
        PROVE  u \in Listed(r) <=> u \in Listed(q) \/ u = t
    BY <1>5, <1>6, InListed
  <2> QED BY <2>1
<1>8. Disjoint(r)
  <2> SUFFICES ASSUME NEW a \in List, NEW b \in List,
                      NEW i \in DOMAIN r[a], NEW j \in DOMAIN r[b], r[a][i] = r[b][j]
               PROVE  a = b /\ i = j
    BY DEF Disjoint
  <2> HIDE DEF r, n
  <2>1. \A m \in List : \A k \in DOMAIN q[m] : q[m][k] # t
    BY InOn, InListed
  <2>2. \A m \in List : \A k \in DOMAIN r[m] :
          \/ m = l /\ k = n + 1 /\ r[m][k] = t
          \/ k \in DOMAIN q[m] /\ r[m][k] = q[m][k]
    <3>1. 1..n + 1 = (1..n) \cup {n + 1}
      BY <1>1
    <3>2. \A k \in DOMAIN r[l] : \/ k = n + 1 /\ r[l][k] = t
                                 \/ k \in DOMAIN q[l] /\ r[l][k] = q[l][k]
      BY <1>1, <1>4, <3>1
    <3> QED BY <1>2, <3>2
  <2> QED BY <2>1, <2>2 DEF Disjoint
<1> QED BY <1>2, <1>3, <1>5, <1>6, <1>7, <1>8

(* deltask (task.c:466-477) of the head takes that task off its list, and  *)
(* off all lists.                                                          *)
LEMMA DelTask ==
  ASSUME NEW q \in [List -> Seq(Task)], NEW l \in List, q[l] # <<>>, Disjoint(q)
  PROVE  /\ Head(q[l]) \in Task
         /\ Head(q[l]) \in On(q, l)
         /\ Head(q[l]) \in Listed(q)
         /\ deltask(q, l) \in [List -> Seq(Task)]
         /\ Disjoint(deltask(q, l))
         /\ On(deltask(q, l), l) = On(q, l) \ {Head(q[l])}
         /\ \A m \in List \ {l} : /\ deltask(q, l)[m] = q[m]
                                  /\ On(deltask(q, l), m) = On(q, m)
         /\ Listed(deltask(q, l)) = Listed(q) \ {Head(q[l])}
<1> DEFINE r == deltask(q, l)
           n == Len(q[l])
           h == Head(q[l])
<1>1. q[l] \in Seq(Task) /\ n \in Nat /\ DOMAIN q[l] = 1..n /\ n > 0
  OBVIOUS
<1>2. r[l] = Tail(q[l]) /\ \A m \in List \ {l} : r[m] = q[m]
  BY DEF deltask
<1>3. r \in [List -> Seq(Task)]
  BY <1>1, <1>2 DEF deltask
<1>4. DOMAIN r[l] = 1..n - 1 /\ \A i \in 1..n - 1 : r[l][i] = q[l][i + 1] /\ i + 1 \in 1..n
  BY <1>1, <1>2
<1>5. h = q[l][1] /\ 1 \in 1..n /\ h \in Task
  BY <1>1
<1>6. h \in On(q, l) /\ h \in Listed(q)
  BY <1>1, <1>5, InOn, InListed
<1>7. \A i \in 1..n : i # 1 => q[l][i] # h /\ i - 1 \in 1..n - 1 /\ q[l][i] = r[l][i - 1]
  <2> HIDE DEF r, n, h
  <2>1. ASSUME NEW i \in 1..n, i # 1
        PROVE  q[l][i] # h
    BY <1>1, <1>5, <2>1 DEF Disjoint
  <2>2. ASSUME NEW i \in 1..n, i # 1
        PROVE  i - 1 \in 1..n - 1 /\ q[l][i] = r[l][i - 1]
    <3>1. i - 1 \in 1..n - 1 /\ (i - 1) + 1 = i
      BY <1>1, <2>2
    <3> QED BY <1>4, <3>1
  <2> QED BY <2>1, <2>2
<1>8. On(r, l) = On(q, l) \ {h}
  <2> HIDE DEF r, n, h
  <2>1. ASSUME NEW u \in On(r, l)
        PROVE  u \in On(q, l) /\ u # h
    <3>1. PICK i \in 1..n - 1 : r[l][i] = u
      BY <1>4 DEF On, Range
    <3>2. i + 1 \in 1..n /\ i + 1 # 1 /\ q[l][i + 1] = u
      BY <1>1, <1>4, <3>1
    <3> QED BY <1>1, <1>7, <3>2, InOn
  <2>2. ASSUME NEW u \in On(q, l), u # h
        PROVE  u \in On(r, l)
    <3>1. PICK i \in 1..n : q[l][i] = u
      BY <1>1, InOn
    <3> QED BY <1>4, <1>5, <1>7, <2>2, <3>1, InOn
  <2> QED BY <2>1, <2>2
<1>9. \A m \in List \ {l} : On(r, m) = On(q, m)
  BY <1>2 DEF On
<1>10. Listed(r) = Listed(q) \ {h}
  <2> HIDE DEF r, h
  <2>1. ASSUME NEW u
        PROVE  u \in Listed(r) <=> u \in Listed(q) /\ u # h
    BY <1>6, <1>8, <1>9, InListed, OnOneList
  <2> QED BY <2>1
<1>11. Disjoint(r)
  <2> SUFFICES ASSUME NEW a \in List, NEW b \in List,
                      NEW i \in DOMAIN r[a], NEW j \in DOMAIN r[b], r[a][i] = r[b][j]
               PROVE  a = b /\ i = j
    BY DEF Disjoint
  <2> DEFINE at(m, k) == IF m = l THEN k + 1 ELSE k
  <2>1. \A m \in List : \A k \in DOMAIN r[m] :
          at(m, k) \in DOMAIN q[m] /\ r[m][k] = q[m][at(m, k)]
    BY <1>1, <1>2, <1>4
  <2>2. a = b /\ at(a, i) = at(b, j)
    <3> HIDE DEF r, n, h, at
    <3> QED BY <2>1 DEF Disjoint
  <2>3. CASE a = l
    BY <1>4, <2>2, <2>3
  <2>4. CASE a # l
    BY <2>2, <2>4
  <2> QED BY <2>3, <2>4
<1> QED BY <1>2, <1>3, <1>5, <1>6, <1>8, <1>9, <1>10, <1>11

(* The head of list l goes to the tail of list r: what a release, a wakeup *)
(* and an unlock do with the first task that waits.                        *)
LEMMA MoveHead ==
  ASSUME NEW q \in [List -> Seq(Task)], NEW l \in List, NEW r \in List \ {l},
         q[l] # <<>>, Disjoint(q),
         NEW p, p = addtask(deltask(q, l), r, Head(q[l]))
  PROVE  /\ Head(q[l]) \in Task
         /\ Head(q[l]) \in On(q, l)
         /\ p \in [List -> Seq(Task)]
         /\ Disjoint(p)
         /\ p[l] = Tail(q[l])
         /\ On(p, l) = On(q, l) \ {Head(q[l])}
         /\ On(p, r) = On(q, r) \cup {Head(q[l])}
         /\ \A m \in List \ {l, r} : p[m] = q[m] /\ On(p, m) = On(q, m)
         /\ Listed(p) = Listed(q)
<1> DEFINE h == Head(q[l])
           d == deltask(q, l)
<1>1. /\ h \in Task /\ h \in On(q, l) /\ h \in Listed(q)
      /\ d \in [List -> Seq(Task)] /\ Disjoint(d)
      /\ On(d, l) = On(q, l) \ {h}
      /\ \A m \in List \ {l} : d[m] = q[m] /\ On(d, m) = On(q, m)
      /\ Listed(d) = Listed(q) \ {h}
  BY DelTask
<1>2. d[l] = Tail(q[l])
  BY DEF deltask
<1> HIDE DEF h, d
<1>3. /\ addtask(d, r, h) \in [List -> Seq(Task)] /\ Disjoint(addtask(d, r, h))
      /\ On(addtask(d, r, h), r) = On(d, r) \cup {h}
      /\ \A m \in List \ {r} : /\ addtask(d, r, h)[m] = d[m]
                               /\ On(addtask(d, r, h), m) = On(d, m)
      /\ Listed(addtask(d, r, h)) = Listed(d) \cup {h}
  BY <1>1, AddTask
<1>4. p = addtask(d, r, h)
  BY DEF d, h
<1> QED BY <1>1, <1>2, <1>3, <1>4 DEF h

(* In p the tasks that q has on list l are on list r, behind those of r.   *)
AllMoved(q, p, l, r) ==
  p[l] = <<>> /\ p[r] = q[r] \o q[l] /\ \A m \in List \ {l, r} : p[m] = q[m]

(* All of list l goes to the tail of list r, in order: a broadcast. *)
LEMMA MoveAll ==
  ASSUME NEW q \in [List -> Seq(Task)], NEW l \in List, NEW r \in List \ {l},
         Disjoint(q), NEW p \in [List -> Seq(Task)], AllMoved(q, p, l, r)
  PROVE  /\ Disjoint(p)
         /\ On(p, l) = {}
         /\ On(p, r) = On(q, r) \cup On(q, l)
         /\ \A m \in List \ {l, r} : On(p, m) = On(q, m)
         /\ Listed(p) = Listed(q)
<1> DEFINE a == Len(q[r])
           b == Len(q[l])
<1>1. /\ q[r] \in Seq(Task) /\ a \in Nat /\ DOMAIN q[r] = 1..a
      /\ q[l] \in Seq(Task) /\ b \in Nat /\ DOMAIN q[l] = 1..b
  OBVIOUS
<1>2. p[l] = <<>> /\ p[r] = q[r] \o q[l] /\ \A m \in List \ {l, r} : p[m] = q[m]
  BY DEF AllMoved
<1>3. p \in [List -> Seq(Task)]
  OBVIOUS
<1>4. /\ DOMAIN p[r] = 1..a + b
      /\ \A i \in 1..a : p[r][i] = q[r][i]
      /\ \A i \in 1..b : p[r][a + i] = q[l][i]
  BY <1>1, <1>2
<1> HIDE DEF a, b
<1>5. \A i \in 1..a + b : i \in 1..a \/ (i - a \in 1..b /\ i = a + (i - a))
  BY <1>1
<1>6. On(p, l) = {} /\ \A m \in List \ {l, r} : On(p, m) = On(q, m)
  BY <1>2, <1>3, EmptyList DEF On
<1>7. On(p, r) = On(q, r) \cup On(q, l)
  <2>1. ASSUME NEW u \in On(p, r)
        PROVE  u \in On(q, r) \cup On(q, l)
    <3>1. PICK i \in 1..a + b : p[r][i] = u
      BY <1>4 DEF On, Range
    <3>2. CASE i \in 1..a
      BY <1>1, <1>4, <3>1, <3>2, InOn
    <3>3. CASE i - a \in 1..b /\ i = a + (i - a)
      BY <1>1, <1>4, <3>1, <3>3 DEF On, Range
    <3> QED BY <1>5, <3>2, <3>3
  <2>2. ASSUME NEW u \in On(q, r)
        PROVE  u \in On(p, r)
    <3>1. PICK i \in 1..a : q[r][i] = u
      BY <1>1, InOn
    <3>2. i \in 1..a + b
      BY <1>1
    <3> QED BY <1>4, <3>1, <3>2, InOn
  <2>3. ASSUME NEW u \in On(q, l)
        PROVE  u \in On(p, r)
    <3>1. PICK i \in 1..b : q[l][i] = u
      BY <1>1, InOn
    <3>2. a + i \in 1..a + b
      BY <1>1
    <3> QED BY <1>4, <3>1, <3>2, InOn
  <2> QED BY <2>1, <2>2, <2>3
<1>8. Listed(p) = Listed(q)
  <2>1. ASSUME NEW u
        PROVE  u \in Listed(p) <=> u \in Listed(q)
    BY <1>6, <1>7, InListed
  <2> QED BY <2>1
<1>9. Disjoint(p)
  (* Where an entry of p was in q. *)
  <2> DEFINE was(m, k) == IF m = r /\ k > a THEN l ELSE m
             at(m, k) == IF m = r /\ k > a THEN k - a ELSE k
  <2>1. \A m \in List : \A k \in DOMAIN p[m] :
          /\ m # l /\ was(m, k) \in List /\ at(m, k) \in DOMAIN q[was(m, k)]
          /\ p[m][k] = q[was(m, k)][at(m, k)]
    <3> SUFFICES ASSUME NEW m \in List, NEW k \in DOMAIN p[m]
                 PROVE  /\ m # l /\ was(m, k) \in List /\ at(m, k) \in DOMAIN q[was(m, k)]
                        /\ p[m][k] = q[was(m, k)][at(m, k)]
      OBVIOUS
    <3>1. m # l
      BY <1>2
    <3>2. CASE m = r
      <4>1. k \in 1..a + b /\ (k > a => k - a \in 1..b /\ k = a + (k - a))
            /\ (~(k > a) => k \in 1..a)
        BY <1>1, <1>4, <3>2
      <4>2. CASE k > a
        BY <1>1, <1>4, <3>1, <3>2, <4>1, <4>2
      <4>3. CASE ~(k > a)
        BY <1>1, <1>4, <3>1, <3>2, <4>1, <4>3
      <4> QED BY <4>2, <4>3
    <3>3. CASE m # r
      BY <1>2, <3>1, <3>3
    <3> QED BY <3>2, <3>3
  <2>2. \A m \in List : \A k \in DOMAIN p[m] : m = r => k \in Int
    BY <1>1, <1>4
  <2> SUFFICES ASSUME NEW m \in List, NEW n \in List,
                      NEW i \in DOMAIN p[m], NEW j \in DOMAIN p[n], p[m][i] = p[n][j]
               PROVE  m = n /\ i = j
    BY DEF Disjoint
  <2>3. m # l /\ n # l /\ was(m, i) = was(n, j) /\ at(m, i) = at(n, j)
    <3> HIDE DEF was, at
    <3> QED BY <2>1 DEF Disjoint
  <2> QED BY <1>1, <2>2, <2>3
<1> QED BY <1>6, <1>7, <1>8, <1>9

(* A sequence cut in two. *)
LEMMA Halves ==
  ASSUME NEW s \in Seq(Task), NEW k \in 0..Len(s)
  PROVE  /\ SubSeq(s, 1, k) \in Seq(Task) /\ Len(SubSeq(s, 1, k)) = k
         /\ \A j \in 1..k : j \in 1..Len(s) /\ SubSeq(s, 1, k)[j] = s[j]
         /\ SubSeq(s, k + 1, Len(s)) \in Seq(Task) /\ Len(SubSeq(s, k + 1, Len(s))) = Len(s) - k
         /\ \A j \in 1..Len(s) - k : k + j \in 1..Len(s) /\ SubSeq(s, k + 1, Len(s))[j] = s[k + j]
OBVIOUS

(* In p task t is on list l, behind the first k tasks that q has there. *)
Inserted(q, p, l, t, k) ==
  p = [q EXCEPT ![l] = SubSeq(q[l], 1, k) \o <<t>> \o SubSeq(q[l], k + 1, Len(q[l]))]

(* A task that is on no list goes behind the first k tasks of list l: the  *)
(* insertion of taskdelay (fd.c:103-130).                                  *)
LEMMA InsertAt ==
  ASSUME NEW q \in [List -> Seq(Task)], NEW l \in List, NEW t \in Task,
         Disjoint(q), t \notin Listed(q), NEW k \in 0..Len(q[l]),
         NEW p, Inserted(q, p, l, t, k)
  PROVE  /\ p \in [List -> Seq(Task)]
         /\ Disjoint(p)
         /\ \A m \in List \ {l} : p[m] = q[m] /\ On(p, m) = On(q, m)
         /\ On(p, l) = On(q, l) \cup {t}
         /\ Listed(p) = Listed(q) \cup {t}
         /\ Len(p[l]) = Len(q[l]) + 1
         /\ \A j \in 1..Len(q[l]) + 1 :
              \/ j <= k /\ j \in 1..Len(q[l]) /\ p[l][j] = q[l][j]
              \/ j = k + 1 /\ p[l][j] = t
              \/ j > k + 1 /\ j - 1 \in 1..Len(q[l]) /\ p[l][j] = q[l][j - 1]
<1> DEFINE s == q[l]
           n == Len(s)
           before == SubSeq(s, 1, k)
           after == SubSeq(s, k + 1, n)
<1>1. s \in Seq(Task) /\ n \in Nat /\ DOMAIN s = 1..n /\ k \in 0..n
  OBVIOUS
<1>2. p[l] = before \o <<t>> \o after /\ \A m \in List \ {l} : p[m] = q[m]
  BY DEF Inserted
<1>a. p = [m \in List |-> p[m]]
  BY DEF Inserted
<1>3. /\ before \in Seq(Task) /\ Len(before) = k /\ \A j \in 1..k : before[j] = s[j]
      /\ after \in Seq(Task) /\ Len(after) = n - k /\ \A j \in 1..n - k : after[j] = s[k + j]
  <2> HIDE DEF s
  <2> QED BY <1>1, Halves
<1>b. n = Len(q[l])
  OBVIOUS
<1> HIDE DEF before, after, s, n
<1>4. /\ p[l] \in Seq(Task) /\ Len(p[l]) = n + 1 /\ DOMAIN p[l] = 1..n + 1
      /\ \A j \in 1..k : p[l][j] = before[j]
      /\ p[l][k + 1] = t
      /\ \A j \in 1..n - k : p[l][k + 1 + j] = after[j]
  <2> DEFINE front == before \o <<t>>
  <2>1. /\ front \in Seq(Task) /\ Len(front) = k + 1 /\ front[k + 1] = t
        /\ \A j \in 1..k : front[j] = before[j]
    BY <1>3
  <2>2. p[l] = front \o after
    BY <1>2
  <2> HIDE DEF front
  <2>3. /\ p[l] \in Seq(Task) /\ Len(p[l]) = n + 1 /\ DOMAIN p[l] = 1..n + 1
        /\ \A j \in 1..k + 1 : p[l][j] = front[j]
        /\ \A j \in 1..n - k : p[l][k + 1 + j] = after[j]
    BY <1>1, <1>3, <2>1, <2>2
  <2>4. k + 1 \in 1..k + 1 /\ \A j \in 1..k : j \in 1..k + 1
    BY <1>1
  <2> QED BY <2>1, <2>3, <2>4
<1>5. ASSUME NEW j \in 1..n + 1
      PROVE  \/ j <= k /\ j \in 1..n /\ p[l][j] = s[j]
             \/ j = k + 1 /\ p[l][j] = t
             \/ j > k + 1 /\ j - 1 \in 1..n /\ p[l][j] = s[j - 1]
  <2>1. CASE j <= k
    BY <1>1, <1>3, <1>4, <2>1
  <2>2. CASE j > k + 1
    <3>1. j - k - 1 \in 1..n - k /\ k + 1 + (j - k - 1) = j /\ k + (j - k - 1) = j - 1 /\ j - 1 \in 1..n
      BY <1>1, <2>2
    <3>2. p[l][j] = s[j - 1]
      BY <1>3, <1>4, <3>1
    <3> QED BY <2>2, <3>1, <3>2
  <2>3. j <= k \/ j = k + 1 \/ j > k + 1
    BY <1>1
  <2> QED BY <1>4, <2>1, <2>2, <2>3
<1>6. p \in [List -> Seq(Task)]
  <2>1. \A m \in List : p[m] \in Seq(Task)
    BY <1>2, <1>4
  <2> QED BY <1>a, <2>1
<1>7. \A m \in List \ {l} : On(p, m) = On(q, m)
  BY <1>2 DEF On
<1>8. On(p, l) = On(q, l) \cup {t}
  <2>1. ASSUME NEW u \in On(p, l)
        PROVE  u \in On(q, l) \cup {t}
    <3>1. PICK j \in 1..n + 1 : p[l][j] = u
      BY <1>4 DEF On, Range
    <3> QED BY <1>1, <1>5, <3>1, InOn DEF s
  <2>2. ASSUME NEW u \in On(q, l)
        PROVE  u \in On(p, l)
    <3>1. PICK j \in 1..n : s[j] = u
      BY <1>1 DEF On, Range, s
    <3>2. CASE j <= k
      <4>1. j \in 1..n + 1 /\ j \in 1..k
        BY <1>1, <3>2
      <4>2. p[l][j] = u
        BY <1>3, <1>4, <3>1, <4>1
      <4> QED BY <1>4, <4>1, <4>2 DEF On, Range
    <3>3. CASE j > k
      <4>1. j + 1 \in 1..n + 1 /\ j + 1 > k + 1 /\ (j + 1) - 1 = j
        BY <1>1, <3>3
      <4>2. p[l][j + 1] = u
        BY <1>1, <1>5, <3>1, <4>1
      <4> QED BY <1>4, <4>1, <4>2 DEF On, Range
    <3> QED BY <1>1, <3>2, <3>3
  <2>3. t \in On(p, l)
    <3>1. k + 1 \in 1..n + 1
      BY <1>1
    <3> QED BY <1>4, <3>1 DEF On, Range
  <2> QED BY <2>1, <2>2, <2>3
<1>9. Listed(p) = Listed(q) \cup {t}
  <2>1. ASSUME NEW u
        PROVE  u \in Listed(p) <=> u \in Listed(q) \/ u = t
    BY <1>7, <1>8, InListed
  <2> QED BY <2>1
<1>10. Disjoint(p)
  (* Where an entry of p other than t was in q. *)
  <2> DEFINE at(m, j) == IF m = l /\ j > k + 1 THEN j - 1 ELSE j
  <2>1. ASSUME NEW m \in List, NEW j \in DOMAIN p[m]
        PROVE  \/ m = l /\ j = k + 1 /\ p[m][j] = t
               \/ ~(m = l /\ j = k + 1) /\ at(m, j) \in DOMAIN q[m] /\ p[m][j] = q[m][at(m, j)]
    <3>1. CASE m = l
      BY <1>1, <1>4, <1>5, <3>1 DEF s
    <3>2. CASE m # l
      BY <1>2, <3>2
    <3> QED BY <3>1, <3>2
  <2>2. \A m \in List : \A j \in DOMAIN q[m] : q[m][j] # t
    BY InOn, InListed
  <2>3. \A j \in DOMAIN p[l] : j \in Int
    BY <1>1, <1>4
  <2> SUFFICES ASSUME NEW m \in List, NEW o \in List,
                      NEW i \in DOMAIN p[m], NEW j \in DOMAIN p[o], p[m][i] = p[o][j]
               PROVE  m = o /\ i = j
    BY DEF Disjoint
  <2>4. CASE p[m][i] = t
    <3> HIDE DEF at
    <3>1. p[o][j] = t
      BY <2>4
    <3>2. (m = l /\ i = k + 1) \/ (at(m, i) \in DOMAIN q[m] /\ p[m][i] = q[m][at(m, i)])
      BY <2>1
    <3>3. (o = l /\ j = k + 1) \/ (at(o, j) \in DOMAIN q[o] /\ p[o][j] = q[o][at(o, j)])
      BY <2>1
    <3>4. m = l /\ i = k + 1
      BY <2>2, <2>4, <3>2
    <3>5. o = l /\ j = k + 1
      BY <2>2, <3>1, <3>3
    <3> QED BY <3>4, <3>5
  <2>5. CASE p[m][i] # t
    <3>1. /\ ~(m = l /\ i = k + 1) /\ ~(o = l /\ j = k + 1)
          /\ m = o /\ at(m, i) = at(o, j)
      <4> HIDE DEF at
      <4> QED BY <2>1, <2>5 DEF Disjoint
    <3>2. CASE m = l
      BY <1>1, <2>3, <3>1, <3>2
    <3>3. CASE m # l
      BY <3>1, <3>3
    <3> QED BY <3>2, <3>3
  <2> QED BY <2>4, <2>5
<1> QED BY <1>b, <1>2, <1>4, <1>5, <1>6, <1>7, <1>8, <1>9, <1>10 DEF s

(* In p the first k tasks that q has on list l are on list r, behind those *)
(* of r.                                                                   *)
FrontMoved(q, p, l, r, k) ==
  p = [q EXCEPT ![l] = SubSeq(q[l], k + 1, Len(q[l])), ![r] = @ \o SubSeq(q[l], 1, k)]

(* The first k tasks of list l go to the tail of list r, in order. *)
LEMMA MovePrefix ==
  ASSUME NEW q \in [List -> Seq(Task)], NEW l \in List, NEW r \in List \ {l},
         Disjoint(q), NEW k \in 0..Len(q[l]),
         NEW p, FrontMoved(q, p, l, r, k)
  PROVE  /\ p \in [List -> Seq(Task)]
         /\ Disjoint(p)
         /\ \A m \in List \ {l, r} : p[m] = q[m] /\ On(p, m) = On(q, m)
         /\ Len(p[l]) = Len(q[l]) - k
         /\ \A j \in 1..Len(q[l]) - k : k + j \in 1..Len(q[l]) /\ p[l][j] = q[l][k + j]
         /\ On(p, l) = On(q, l) \ Range(SubSeq(q[l], 1, k))
         /\ On(p, r) = On(q, r) \cup Range(SubSeq(q[l], 1, k))
         /\ Range(SubSeq(q[l], 1, k)) \subseteq On(q, l)
         /\ \A t : t \in Range(SubSeq(q[l], 1, k)) <=> \E j \in 1..k : q[l][j] = t
         /\ Listed(p) = Listed(q)
<1> DEFINE s == q[l]
           n == Len(s)
           a == Len(q[r])
           moved == SubSeq(s, 1, k)
           rest == SubSeq(s, k + 1, n)
<1>1. /\ s \in Seq(Task) /\ n \in Nat /\ DOMAIN s = 1..n /\ k \in 0..n
      /\ q[r] \in Seq(Task) /\ a \in Nat /\ DOMAIN q[r] = 1..a
  OBVIOUS
<1>2. /\ p[l] = rest /\ p[r] = q[r] \o moved /\ \A m \in List \ {l, r} : p[m] = q[m]
      /\ p = [m \in List |-> p[m]]
  BY DEF FrontMoved
<1>3. /\ moved \in Seq(Task) /\ Len(moved) = k /\ DOMAIN moved = 1..k
      /\ \A j \in 1..k : j \in 1..n /\ moved[j] = s[j]
      /\ rest \in Seq(Task) /\ Len(rest) = n - k /\ DOMAIN rest = 1..n - k
      /\ \A j \in 1..n - k : k + j \in 1..n /\ rest[j] = s[k + j]
  <2>1. /\ moved \in Seq(Task) /\ Len(moved) = k /\ \A j \in 1..k : j \in 1..n /\ moved[j] = s[j]
        /\ rest \in Seq(Task) /\ Len(rest) = n - k
        /\ \A j \in 1..n - k : k + j \in 1..n /\ rest[j] = s[k + j]
    <3> HIDE DEF s
    <3> QED BY <1>1, Halves
  <2> HIDE DEF moved, rest
  <2> QED BY <2>1
<1> HIDE DEF moved, rest
<1>4. p \in [List -> Seq(Task)]
  <2>1. q[r] \o moved \in Seq(Task)
    BY <1>1, <1>3
  <2>2. \A m \in List : p[m] \in Seq(Task)
    BY <1>2, <1>3, <2>1
  <2> QED BY <1>2, <2>2
<1>5. /\ DOMAIN p[r] = 1..a + k
      /\ \A j \in 1..a : p[r][j] = q[r][j]
      /\ \A j \in 1..k : p[r][a + j] = moved[j]
  BY <1>1, <1>2, <1>3
<1> HIDE DEF s, n, a
<1>6. \A t : t \in Range(moved) <=> \E j \in 1..k : s[j] = t
  <2>1. \A t : t \in Range(moved) <=> \E j \in 1..k : moved[j] = t
    BY <1>3 DEF Range
  <2> QED BY <1>3, <2>1
<1>7. Range(moved) \subseteq On(q, l)
  BY <1>1, <1>3, <1>6, InOn DEF s
<1>8. \A m \in List \ {l, r} : On(p, m) = On(q, m)
  BY <1>2 DEF On
<1>9. On(p, r) = On(q, r) \cup Range(moved)
  <2>1. ASSUME NEW u \in On(p, r)
        PROVE  u \in On(q, r) \cup Range(moved)
    <3>1. PICK j \in 1..a + k : p[r][j] = u
      BY <1>5 DEF On, Range
    <3>2. CASE j <= a
      <4>1. j \in 1..a
        BY <1>1, <3>2
      <4> QED BY <1>1, <1>5, <3>1, <4>1 DEF On, Range
    <3>3. CASE j > a
      <4>1. j - a \in 1..k /\ a + (j - a) = j
        BY <1>1, <3>3
      <4> QED BY <1>3, <1>5, <3>1, <4>1 DEF Range
    <3> QED BY <1>1, <3>2, <3>3
  <2>2. ASSUME NEW u \in On(q, r)
        PROVE  u \in On(p, r)
    <3>1. PICK j \in 1..a : q[r][j] = u
      BY <1>1 DEF On, Range
    <3>2. j \in 1..a + k
      BY <1>1
    <3> QED BY <1>5, <3>1, <3>2 DEF On, Range
  <2>3. ASSUME NEW u \in Range(moved)
        PROVE  u \in On(p, r)
    <3>1. PICK j \in 1..k : moved[j] = u
      BY <1>3 DEF Range
    <3>2. a + j \in 1..a + k
      BY <1>1
    <3> QED BY <1>5, <3>1, <3>2 DEF On, Range
  <2> QED BY <2>1, <2>2, <2>3
<1>10. \A i, j \in 1..n : s[i] = s[j] => i = j
  BY <1>1 DEF Disjoint, s
<1>11. On(p, l) = On(q, l) \ Range(moved)
  <2>1. ASSUME NEW u \in On(p, l)
        PROVE  u \in On(q, l) /\ u \notin Range(moved)
    <3>1. PICK j \in 1..n - k : rest[j] = u
      BY <1>2, <1>3 DEF On, Range
    <3>2. k + j \in 1..n /\ s[k + j] = u
      BY <1>3, <3>1
    <3>3. \A h \in 1..k : h \in 1..n /\ h # k + j
      BY <1>1
    <3>4. u \notin Range(moved)
      BY <1>6, <1>10, <3>2, <3>3
    <3> QED BY <1>1, <3>2, <3>4, InOn DEF s
  <2>2. ASSUME NEW u \in On(q, l), u \notin Range(moved)
        PROVE  u \in On(p, l)
    <3>1. PICK j \in 1..n : s[j] = u
      BY <1>1 DEF On, Range, s
    <3>2. j \notin 1..k
      BY <1>6, <2>2, <3>1
    <3>3. j - k \in 1..n - k /\ k + (j - k) = j
      BY <1>1, <3>2
    <3>4. rest[j - k] = u
      BY <1>3, <3>1, <3>3
    <3> QED BY <1>2, <1>3, <3>3, <3>4 DEF On, Range
  <2> QED BY <2>1, <2>2
<1>12. Listed(p) = Listed(q)
  <2>1. ASSUME NEW u
        PROVE  u \in Listed(p) <=> u \in Listed(q)
    BY <1>7, <1>8, <1>9, <1>11, InListed
  <2> QED BY <2>1
<1>13. Disjoint(p)
  (* Where an entry of p was in q. *)
  <2> DEFINE was(m, j) == IF m = r /\ j > a THEN l ELSE m
             at(m, j) == IF m = r /\ j > a THEN j - a ELSE IF m = l THEN k + j ELSE j
  <2>1. ASSUME NEW m \in List, NEW j \in DOMAIN p[m]
        PROVE  /\ was(m, j) \in List /\ at(m, j) \in DOMAIN q[was(m, j)]
               /\ p[m][j] = q[was(m, j)][at(m, j)]
    <3>1. CASE m = r /\ j > a
      <4>1. j - a \in 1..k /\ a + (j - a) = j /\ j - a \in 1..n
        BY <1>1, <1>5, <3>1
      <4>2. p[r][j] = s[j - a]
        BY <1>3, <1>5, <4>1
      <4> QED BY <1>1, <3>1, <4>1, <4>2 DEF s
    <3>2. CASE m = r /\ ~(j > a)
      BY <1>1, <1>5, <3>2
    <3>3. CASE m = l
      BY <1>1, <1>2, <1>3, <3>3 DEF s
    <3>4. CASE m # l /\ m # r
      BY <1>2, <3>4
    <3> QED BY <3>1, <3>2, <3>3, <3>4
  <2>2. /\ \A j \in DOMAIN p[r] : j \in Int /\ (j > a => j - a <= k)
        /\ \A j \in DOMAIN p[l] : j \in Int /\ j > 0
    BY <1>1, <1>2, <1>3, <1>5
  <2> SUFFICES ASSUME NEW m \in List, NEW o \in List,
                      NEW i \in DOMAIN p[m], NEW j \in DOMAIN p[o], p[m][i] = p[o][j]
               PROVE  m = o /\ i = j
    BY DEF Disjoint
  <2>3. was(m, i) = was(o, j) /\ at(m, i) = at(o, j)
    <3> HIDE DEF was, at
    <3> QED BY <2>1 DEF Disjoint
  <2> QED BY <1>1, <2>2, <2>3
<1> QED BY <1>2, <1>3, <1>4, <1>6, <1>7, <1>8, <1>9, <1>11, <1>12, <1>13 DEF s, n, moved, rest

(* A list has as many entries as there are tasks on it. *)
LEMMA ListLength ==
  ASSUME NEW q \in [List -> Seq(Task)], NEW l \in List, Disjoint(q)
  PROVE  /\ IsFiniteSet(On(q, l))
         /\ Cardinality(On(q, l)) = Len(q[l])
<1> DEFINE n == Len(q[l])
<1>1. q[l] \in Seq(Task) /\ n \in Nat /\ DOMAIN q[l] = 1..n
  OBVIOUS
<1> HIDE DEF n
<1>2. q[l] \in [1..n -> On(q, l)]
  BY <1>1, InOn
<1>3. q[l] \in Injection(1..n, On(q, l))
  BY <1>1, <1>2 DEF Injection, IsInjective, Disjoint
<1>4. q[l] \in Surjection(1..n, On(q, l))
  BY <1>1, <1>2, InOn DEF Surjection
<1>5. q[l] \in Bijection(1..n, On(q, l))
  BY <1>3, <1>4 DEF Bijection
<1>6. IsFiniteSet(1..n) /\ Cardinality(1..n) = n
  BY <1>1, FS_Interval
<1>7. ExistsBijection(1..n, On(q, l))
  BY <1>5 DEF ExistsBijection
<1> QED BY <1>6, <1>7, FS_Bijection DEF n

(* The lists when a program starts: the tasks S are ready, in some order,  *)
(* and nobody waits.                                                       *)
LEMMA InitialLists ==
  ASSUME NEW S \in SUBSET Task, IsFiniteSet(S), NEW r \in List,
         NEW order \in Bijection(1..Cardinality(S), S),
         NEW q, q = [l \in List |-> q[l]],
         q[r] = order, \A l \in List \ {r} : q[l] = <<>>
  PROVE  /\ q \in [List -> Seq(Task)]
         /\ Disjoint(q)
         /\ On(q, r) = S
         /\ \A l \in List \ {r} : q[l] = <<>> /\ On(q, l) = {}
         /\ Listed(q) = S
<1> DEFINE n == Cardinality(S)
<1>1. n \in Nat
  BY FS_CardinalityType
<1> HIDE DEF n
<1>2. /\ order \in [1..n -> S]
      /\ \A i, j \in 1..n : order[i] = order[j] => i = j
      /\ \A t \in S : \E i \in 1..n : order[i] = t
  <2>1. order \in Injection(1..n, S) /\ order \in Surjection(1..n, S)
    BY DEF Bijection, n
  <2>2. order \in [1..n -> S] /\ \A i, j \in 1..n : order[i] = order[j] => i = j
    BY <2>1 DEF Injection, IsInjective
  <2>3. \A t \in S : \E i \in 1..n : order[i] = t
    BY <2>1, Zenon DEF Surjection
  <2> QED BY <2>2, <2>3
<1>3. order \in Seq(Task) /\ DOMAIN order = 1..n
  BY <1>1, <1>2
<1>4. /\ q \in [List -> Seq(Task)]
      /\ q[r] = order
      /\ \A l \in List \ {r} : q[l] = <<>>
  <2>1. \A l \in List : q[l] \in Seq(Task)
    <3>1. <<>> \in Seq(Task)
      OBVIOUS
    <3> QED BY <1>3, <3>1, Zenon
  <2> QED BY <2>1
<1>5. \A l \in List \ {r} : On(q, l) = {}
  BY <1>4, EmptyList
<1>6. On(q, r) = S
  <2>1. \A t : t \in On(q, r) <=> \E i \in 1..n : order[i] = t
    BY <1>3, <1>4 DEF On, Range
  <2>2. \A i \in 1..n : order[i] \in S
    BY <1>2
  <2>3. On(q, r) \subseteq S
    BY <2>1, <2>2
  <2>4. S \subseteq On(q, r)
    BY <1>2, <2>1
  <2> QED BY <2>3, <2>4
<1>7. Listed(q) = S
  <2>1. \A t : t \in Listed(q) <=> t \in S
    BY <1>5, <1>6, InListed
  <2> QED BY <2>1
<1>8. Disjoint(q)
  <2>1. \A l \in List : \A i \in DOMAIN q[l] : l = r /\ i \in 1..n
    <3>1. DOMAIN <<>> = {}
      OBVIOUS
    <3> QED BY <1>3, <1>4, <3>1
  <2> QED BY <1>2, <1>4, <2>1 DEF Disjoint
<1> QED BY <1>4, <1>5, <1>6, <1>7, <1>8
=============================================================================
