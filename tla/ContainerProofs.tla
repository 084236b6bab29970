--------------------------- MODULE ContainerProofs --------------------------
(***************************************************************************)
(* Proofs about the two containers that the library builds itself.  For    *)
(* any number of tasks and lists the linked lists of task.c and fd.c       *)
(* represent the sequences of module Tasklist (TasklistPtr).  For any set  *)
(* of entries and any growth step the array of a channel holds exactly the *)
(* waiting entries, within its block, and altdequeue never aborts          *)
(* (AltArray).                                                             *)
(***************************************************************************)
EXTENDS TasklistPtr, AltArray, TasklistLemmas

(* The links of one list, as Faithful describes them. *)
Linked(l) ==
  /\ head[l] = IF seq[l] = <<>> THEN nil ELSE seq[l][1]
  /\ tail[l] = IF seq[l] = <<>> THEN nil ELSE seq[l][Len(seq[l])]
  /\ \A i \in 1..Len(seq[l]) :
       /\ prev[seq[l][i]] = IF i = 1 THEN nil ELSE seq[l][i - 1]
       /\ next[seq[l][i]] = IF i = Len(seq[l]) THEN nil ELSE seq[l][i + 1]

(* A list that an operation does not name keeps its links if none of its   *)
(* tasks had its links changed.                                            *)
LEMMA OtherList ==
  ASSUME IInv, NEW m \in List,
         seq'[m] = seq[m], head'[m] = head[m], tail'[m] = tail[m],
         \A t \in On(seq, m) : next'[t] = next[t] /\ prev'[t] = prev[t]
  PROVE  Linked(m)'
<1>1. \A i \in 1..Len(seq[m]) : seq[m][i] \in On(seq, m)
  BY InOn DEF IInv, TypeOK
<1>2. Linked(m)
  BY DEF IInv, Faithful, Linked
<1> QED BY <1>1, <1>2, SMTT(30) DEF Linked

(* addtask (task.c:452-464). *)
LEMMA AddKeeps ==
  ASSUME IInv, NEW l \in List, NEW t \in Task, Add(l, t)
  PROVE  IInv'
<1> USE TasklistAssumption DEF IInv
<1> DEFINE s == seq[l]
           n == Len(seq[l])
<1>0. s \in Seq(Task) /\ n \in Nat /\ DOMAIN s = 1..n /\ \A i \in 1..n : s[i] \in Task
  BY DEF TypeOK
<1>1. /\ seq' \in [List -> Seq(Task)] /\ Disjoint(seq')
      /\ \A m \in List \ {l} : seq'[m] = seq[m]
  BY AddTask DEF Add, TypeOK, Apart
<1>2. seq'[l] = Append(s, t)
  BY DEF Add, addtask, TypeOK
<1>3. /\ Len(seq'[l]) = n + 1 /\ seq'[l] # <<>> /\ seq'[l][n + 1] = t
      /\ \A i \in 1..n : seq'[l][i] = s[i]
  BY <1>0, <1>2
<1>4. \A i \in 1..n : s[i] # t
  BY <1>0, InOn, InListed DEF Add
<1>5. \A m \in List : t \notin On(seq, m)
  BY InListed DEF Add
<1>6. \A m \in List \ {l} : \A u \in On(seq, m) : \A i \in 1..n : u # s[i]
  BY <1>0, InOn, OnOneList DEF Apart
<1> HIDE DEF s, n
<1>7. CASE n = 0
  <2>1. s = <<>> /\ tail[l] = nil
    BY <1>0, <1>7 DEF Faithful, s, n
  <2>2. /\ head' = [head EXCEPT ![l] = t] /\ prev' = [prev EXCEPT ![t] = nil]
        /\ tail' = [tail EXCEPT ![l] = t] /\ next' = [next EXCEPT ![t] = nil]
    BY <2>1 DEF Add, addtask_links
  <2>3. TypeOK'
    BY <1>1, <2>2 DEF TypeOK
  <2>4. Linked(l)'
    BY <1>3, <1>7, <2>2 DEF Linked, TypeOK
  <2>5. \A m \in List \ {l} : Linked(m)'
    <3> SUFFICES ASSUME NEW m \in List \ {l}
                 PROVE  Linked(m)'
      OBVIOUS
    <3>1. seq'[m] = seq[m] /\ head'[m] = head[m] /\ tail'[m] = tail[m]
      BY <1>1, <2>2 DEF TypeOK
    <3>2. \A u \in On(seq, m) : next'[u] = next[u] /\ prev'[u] = prev[u]
      BY <1>5, <2>2, ListedAreTasks DEF TypeOK
    <3> QED BY <3>1, <3>2, OtherList
  <2> QED BY <1>1, <2>3, <2>4, <2>5 DEF Faithful, Linked, Apart
<1>8. CASE n # 0
  <2>1. s # <<>> /\ tail[l] = s[n] /\ head[l] = s[1] /\ n \in 1..n /\ 1 \in 1..n /\ s[n] # nil
    BY <1>0, <1>8 DEF Faithful, s, n
  <2>2. /\ next' = [next EXCEPT ![s[n]] = t, ![t] = nil] /\ prev' = [prev EXCEPT ![t] = s[n]]
        /\ tail' = [tail EXCEPT ![l] = t] /\ head' = head
    BY <2>1 DEF Add, addtask_links
  <2>3. TypeOK'
    BY <1>0, <1>1, <2>1, <2>2 DEF TypeOK
  <2>4. \A i \in 1..n : prev[s[i]] = IF i = 1 THEN nil ELSE s[i - 1]
    BY DEF Faithful, s, n
  <2>5. \A i \in 1..n : next[s[i]] = IF i = n THEN nil ELSE s[i + 1]
    BY DEF Faithful, s, n
  <2>6. \A i \in 1..n : s[i] = s[n] => i = n
    BY <1>0, <2>1 DEF Apart, Disjoint, s
  <2>7. next'[t] = nil /\ prev'[t] = s[n]
    BY <1>0, <1>4, <2>1, <2>2 DEF TypeOK
  <2>8. \A i \in 1..n : /\ next'[s[i]] = IF i = n THEN t ELSE s[i + 1]
                        /\ prev'[s[i]] = IF i = 1 THEN nil ELSE s[i - 1]
    BY <1>0, <1>4, <2>1, <2>2, <2>4, <2>5, <2>6 DEF TypeOK
  <2>9. Linked(l)'
    <3>1. head'[l] = seq'[l][1] /\ tail'[l] = seq'[l][n + 1]
      BY <1>3, <2>1, <2>2 DEF TypeOK
    <3>2. ASSUME NEW i \in 1..n + 1
          PROVE  /\ prev'[seq'[l][i]] = IF i = 1 THEN nil ELSE seq'[l][i - 1]
                 /\ next'[seq'[l][i]] = IF i = n + 1 THEN nil ELSE seq'[l][i + 1]
      <4>1. CASE i = n + 1
        BY <1>0, <1>3, <1>8, <2>1, <2>7, <4>1
      <4>2. CASE i # n + 1
        <5>1. i \in 1..n /\ (i # 1 => i - 1 \in 1..n) /\ (i # n => i + 1 \in 1..n)
          BY <1>0, <4>2
        <5> QED BY <1>0, <1>3, <2>8, <4>2, <5>1
      <4> QED BY <4>1, <4>2
    <3> QED BY <1>3, <3>1, <3>2 DEF Linked
  <2>10. \A m \in List \ {l} : Linked(m)'
    <3> SUFFICES ASSUME NEW m \in List \ {l}
                 PROVE  Linked(m)'
      OBVIOUS
    <3>1. seq'[m] = seq[m] /\ head'[m] = head[m] /\ tail'[m] = tail[m]
      BY <1>1, <2>2 DEF TypeOK
    <3>2. \A u \in On(seq, m) : next'[u] = next[u] /\ prev'[u] = prev[u]
      BY <1>5, <1>6, <2>1, <2>2, ListedAreTasks DEF TypeOK
    <3> QED BY <3>1, <3>2, OtherList
  <2> QED BY <1>1, <2>3, <2>9, <2>10 DEF Faithful, Linked, Apart
<1> QED BY <1>7, <1>8

(* deltask (task.c:466-477) of any task of the list, not only its head. *)
LEMMA DelKeeps ==
  ASSUME IInv, NEW l \in List, NEW i \in DOMAIN seq[l], Del(l, i)
  PROVE  IInv'
<1> USE TasklistAssumption DEF IInv
<1> DEFINE s == seq[l]
           n == Len(seq[l])
           r == without(s, i)
           t == s[i]
<1>0. /\ s \in Seq(Task) /\ n \in Nat /\ DOMAIN s = 1..n /\ i \in 1..n
      /\ \A k \in 1..n : s[k] \in Task
  BY DEF TypeOK
<1>1. seq'[l] = r /\ seq' = [seq EXCEPT ![l] = r]
  BY DEF Del, TypeOK
<1>2. /\ r \in Seq(Task) /\ Len(r) = n - 1 /\ DOMAIN r = 1..n - 1
      /\ \A k \in 1..n - 1 : r[k] = IF k < i THEN s[k] ELSE s[k + 1]
  <2>1. r = [k \in 1..n - 1 |-> IF k < i THEN s[k] ELSE s[k + 1]] /\ n - 1 \in Nat
    BY <1>0 DEF without
  <2>2. \A k \in 1..n - 1 : (IF k < i THEN s[k] ELSE s[k + 1]) \in Task
    <3>1. \A k \in 1..n - 1 : k \in 1..n /\ k + 1 \in 1..n
      BY <1>0
    <3> QED BY <1>0, <3>1
  <2> HIDE DEF r
  <2>3. r \in [1..n - 1 -> Task]
    BY <2>1, <2>2
  <2> HIDE DEF n, s
  <2> QED BY <2>1, <2>3
<1>3. seq' \in [List -> Seq(Task)] /\ \A m \in List \ {l} : seq'[m] = seq[m]
  BY <1>1, <1>2 DEF TypeOK
<1>4. \A j, k \in 1..n : s[j] = s[k] => j = k
  BY <1>0 DEF Apart, Disjoint
<1>5. \A m \in List \ {l} : \A u \in On(seq, m) : \A k \in 1..n : u # s[k]
  BY <1>0, InOn, OnOneList DEF Apart
<1>6. /\ \A k \in 1..n : prev[s[k]] = IF k = 1 THEN nil ELSE s[k - 1]
      /\ \A k \in 1..n : next[s[k]] = IF k = n THEN nil ELSE s[k + 1]
      /\ head[l] = s[1] /\ tail[l] = s[n]
  BY <1>0 DEF Faithful
<1> HIDE DEF s, n, r, t
<1>7. /\ i # 1 => i - 1 \in 1..n /\ s[i - 1] \in Task /\ prev[t] = s[i - 1]
      /\ i = 1 => prev[t] = nil
      /\ i # n => i + 1 \in 1..n /\ s[i + 1] \in Task /\ next[t] = s[i + 1]
      /\ i = n => next[t] = nil
      /\ t \in Task
  <2>1. (i # 1 => i - 1 \in 1..n) /\ (i # n => i + 1 \in 1..n)
    BY <1>0
  <2> QED BY <1>0, <1>6, <2>1 DEF t
<1>8. /\ i # 1 => next' = [next EXCEPT ![s[i - 1]] = next[t]] /\ head' = head
      /\ i = 1 => next' = next /\ head' = [head EXCEPT ![l] = next[t]]
      /\ i # n => prev' = [prev EXCEPT ![s[i + 1]] = prev[t]] /\ tail' = tail
      /\ i = n => prev' = prev /\ tail' = [tail EXCEPT ![l] = prev[t]]
  BY <1>7 DEF Del, deltask_links, s, t
<1>9. TypeOK'
  BY <1>3, <1>7, <1>8, ZenonT(30) DEF TypeOK
<1>10. \A m \in List \ {l} : Linked(m)'
  <2> SUFFICES ASSUME NEW m \in List \ {l}
               PROVE  Linked(m)'
    OBVIOUS
  <2>1. seq'[m] = seq[m] /\ head'[m] = head[m] /\ tail'[m] = tail[m]
    BY <1>3, <1>8 DEF TypeOK
  <2>2. \A u \in On(seq, m) : next'[u] = next[u] /\ prev'[u] = prev[u]
    <3> SUFFICES ASSUME NEW u \in On(seq, m)
                 PROVE  next'[u] = next[u] /\ prev'[u] = prev[u]
      OBVIOUS
    <3>1. u \in Task
      BY ListedAreTasks DEF TypeOK
    <3>2. (i # 1 => u # s[i - 1]) /\ (i # n => u # s[i + 1])
      BY <1>5, <1>7
    <3>3. next'[u] = next[u]
      BY <1>7, <1>8, <3>1, <3>2 DEF TypeOK
    <3>4. prev'[u] = prev[u]
      BY <1>7, <1>8, <3>1, <3>2 DEF TypeOK
    <3> QED BY <3>3, <3>4
  <2> QED BY <2>1, <2>2, OtherList
<1>11. \A k \in 1..n : k # i =>
         /\ next'[s[k]] = IF k = i - 1 THEN next[t] ELSE next[s[k]]
         /\ prev'[s[k]] = IF k = i + 1 THEN prev[t] ELSE prev[s[k]]
  <2> SUFFICES ASSUME NEW k \in 1..n, k # i
               PROVE  /\ next'[s[k]] = IF k = i - 1 THEN next[t] ELSE next[s[k]]
                      /\ prev'[s[k]] = IF k = i + 1 THEN prev[t] ELSE prev[s[k]]
    OBVIOUS
  <2>1. s[k] \in Task /\ k \in Int /\ i \in Int /\ n \in Int /\ 1 <= k /\ k <= n
    BY <1>0
  <2>2. next'[s[k]] = IF k = i - 1 THEN next[t] ELSE next[s[k]]
    <3>1. CASE i = 1
      BY <1>8, <2>1, <3>1
    <3>2. CASE i # 1
      <4>1. k # i - 1 => s[k] # s[i - 1]
        BY <1>4, <1>7, <3>2
      <4> QED BY <1>7, <1>8, <2>1, <3>2, <4>1 DEF TypeOK
    <3> QED BY <3>1, <3>2
  <2>3. prev'[s[k]] = IF k = i + 1 THEN prev[t] ELSE prev[s[k]]
    <3>1. CASE i = n
      BY <1>8, <2>1, <3>1
    <3>2. CASE i # n
      <4>1. k # i + 1 => s[k] # s[i + 1]
        BY <1>4, <1>7, <3>2
      <4> QED BY <1>7, <1>8, <2>1, <3>2, <4>1 DEF TypeOK
    <3> QED BY <3>1, <3>2
  <2> QED BY <2>2, <2>3
<1>12. Linked(l)'
  <2>1. head'[l] = IF r = <<>> THEN nil ELSE r[1]
    <3>1. CASE i = 1
      <4>1. head'[l] = next[t]
        BY <1>8, <3>1 DEF TypeOK
      <4>2. CASE n = 1
        <5>1. r = <<>>
          BY <1>2, <4>2
        <5> QED BY <1>7, <3>1, <4>1, <4>2, <5>1
      <4>3. CASE n # 1
        <5>1. 1 \in 1..n - 1 /\ ~(1 < i) /\ 1 + 1 = i + 1 /\ i # n
          BY <1>0, <3>1, <4>3
        <5>2. r # <<>> /\ r[1] = s[i + 1]
          BY <1>2, <5>1
        <5> QED BY <1>7, <4>1, <5>1, <5>2
      <4> QED BY <4>2, <4>3
    <3>2. CASE i # 1
      <4>1. 1 \in 1..n - 1 /\ 1 < i /\ r # <<>>
        BY <1>0, <1>2, <3>2
      <4> QED BY <1>2, <1>6, <1>8, <3>2, <4>1 DEF TypeOK
    <3> QED BY <3>1, <3>2
  <2>2. tail'[l] = IF r = <<>> THEN nil ELSE r[n - 1]
    <3>1. CASE i = n
      <4>1. tail'[l] = prev[t]
        BY <1>8, <3>1 DEF TypeOK
      <4>2. CASE n = 1
        <5>1. r = <<>>
          BY <1>2, <4>2
        <5> QED BY <1>7, <3>1, <4>1, <4>2, <5>1
      <4>3. CASE n # 1
        <5>1. n - 1 \in 1..n - 1 /\ n - 1 < i /\ n - 1 = i - 1 /\ i # 1
          BY <1>0, <3>1, <4>3
        <5>2. r # <<>> /\ r[n - 1] = s[i - 1]
          BY <1>2, <5>1
        <5> QED BY <1>7, <4>1, <5>1, <5>2
      <4> QED BY <4>2, <4>3
    <3>2. CASE i # n
      <4>1. n - 1 \in 1..n - 1 /\ ~(n - 1 < i) /\ (n - 1) + 1 = n /\ r # <<>>
        BY <1>0, <1>2, <3>2
      <4> QED BY <1>2, <1>6, <1>8, <3>2, <4>1 DEF TypeOK
    <3> QED BY <3>1, <3>2
  <2>3. ASSUME NEW k \in 1..n - 1
        PROVE  /\ prev'[r[k]] = IF k = 1 THEN nil ELSE r[k - 1]
               /\ next'[r[k]] = IF k = n - 1 THEN nil ELSE r[k + 1]
    <3>1. /\ k \in 1..n /\ k + 1 \in 1..n
          /\ k # 1 => k - 1 \in 1..n - 1
          /\ k # n - 1 => k + 1 \in 1..n - 1
      BY <1>0
    <3>2. CASE k < i
      <4>1. r[k] = s[k] /\ k # i /\ k # i + 1 /\ (k # 1 => r[k - 1] = s[k - 1])
        BY <1>0, <1>2, <3>1, <3>2
      <4>2. prev'[r[k]] = IF k = 1 THEN nil ELSE r[k - 1]
        BY <1>6, <1>11, <3>1, <4>1
      <4>3. CASE k = i - 1
        <5>1. next'[r[k]] = next[t]
          BY <1>11, <3>1, <4>1, <4>3
        <5>2. k # n - 1 => r[k + 1] = s[i + 1] /\ i # n
          BY <1>0, <1>2, <3>1, <4>3
        <5>3. k = n - 1 => i = n
          BY <1>0, <4>3
        <5> QED BY <1>7, <4>2, <5>1, <5>2, <5>3
      <4>4. CASE k # i - 1
        <5>1. k + 1 < i /\ k # n - 1 /\ k # n
          BY <1>0, <3>2, <4>4
        <5> QED BY <1>2, <1>6, <1>11, <3>1, <4>1, <4>2, <4>4, <5>1
      <4> QED BY <4>3, <4>4
    <3>3. CASE ~(k < i)
      <4>1. r[k] = s[k + 1] /\ k + 1 # i /\ k + 1 # i - 1
        BY <1>0, <1>2, <3>1, <3>3
      <4>2. next'[r[k]] = IF k = n - 1 THEN nil ELSE r[k + 1]
        <5>1. k # n - 1 => r[k + 1] = s[(k + 1) + 1] /\ k + 1 # n
          BY <1>0, <1>2, <3>1, <3>3
        <5>2. next'[s[k + 1]] = next[s[k + 1]]
          BY <1>11, <3>1, <4>1
        <5>3. next[s[k + 1]] = IF k + 1 = n THEN nil ELSE s[(k + 1) + 1]
          BY <1>6, <3>1
        <5>4. k = n - 1 => k + 1 = n
          BY <1>0, <3>1
        <5> QED BY <4>1, <5>1, <5>2, <5>3, <5>4
      <4>3. CASE k = i
        <5>1. prev'[r[k]] = prev[t]
          BY <1>11, <3>1, <4>1, <4>3
        <5>2. k # 1 => r[k - 1] = s[i - 1]
          BY <1>0, <1>2, <3>1, <4>3
        <5> QED BY <1>7, <4>2, <4>3, <5>1, <5>2
      <4>4. CASE k # i
        <5>1. k # 1 /\ ~(k - 1 < i) /\ (k + 1) - 1 = k /\ (k - 1) + 1 = k /\ k + 1 # 1 /\ k + 1 # i + 1
          BY <1>0, <3>3, <4>4
        <5> QED BY <1>2, <1>6, <1>11, <3>1, <4>1, <4>2, <5>1
      <4> QED BY <4>3, <4>4
    <3> QED BY <3>2, <3>3
  <2> QED BY <1>1, <1>2, <2>1, <2>2, <2>3 DEF Linked
<1>13. Disjoint(seq')
  <2> SUFFICES ASSUME NEW a \in List, NEW b \in List,
                      NEW j \in DOMAIN seq'[a], NEW k \in DOMAIN seq'[b],
                      seq'[a][j] = seq'[b][k]
               PROVE  a = b /\ j = k
    BY DEF Disjoint
  <2> DEFINE at(m, x) == IF m = l /\ ~(x < i) THEN x + 1 ELSE x
  <2>1. \A m \in List : \A x \in DOMAIN seq'[m] :
          at(m, x) \in DOMAIN seq[m] /\ seq'[m][x] = seq[m][at(m, x)]
    <3>1. \A x \in 1..n - 1 : x \in 1..n /\ x + 1 \in 1..n
      BY <1>0
    <3> QED BY <1>0, <1>1, <1>2, <1>3, <3>1 DEF s
  <2>2. a = b /\ at(a, j) = at(b, k)
    <3> HIDE DEF at
    <3> QED BY <2>1 DEF Apart, Disjoint
  <2>3. CASE a = l
    <3>1. j \in 1..n - 1 /\ k \in 1..n - 1
      BY <1>1, <1>2, <2>2, <2>3
    <3> QED BY <1>0, <2>2, <2>3, <3>1
  <2>4. CASE a # l
    BY <2>2, <2>4
  <2> QED BY <2>3, <2>4
<1> QED BY <1>9, <1>10, <1>12, <1>13 DEF Faithful, Linked, Apart

(* The insertion of taskdelay (fd.c:110-130) in front of any task of the   *)
(* list, or at its tail.                                                   *)
LEMMA InsertKeeps ==
  ASSUME IInv, NEW l \in List, NEW t \in Task, NEW i \in 1..Len(seq[l]) + 1, Insert(l, t, i)
  PROVE  IInv'
<1> USE TasklistAssumption DEF IInv
<1> DEFINE s == seq[l]
           n == Len(seq[l])
           r == with(s, i, t)
           u == IF i \in DOMAIN s THEN s[i] ELSE nil
           p == IF u = nil THEN tail[l] ELSE prev[u]
<1>0. /\ s \in Seq(Task) /\ n \in Nat /\ DOMAIN s = 1..n /\ i \in 1..n + 1
      /\ \A k \in 1..n : s[k] \in Task
  BY DEF TypeOK
<1>1. seq'[l] = r /\ seq' = [seq EXCEPT ![l] = r]
  BY DEF Insert, TypeOK
<1>2. /\ r \in Seq(Task) /\ Len(r) = n + 1 /\ DOMAIN r = 1..n + 1
      /\ \A k \in 1..n + 1 : r[k] = IF k < i THEN s[k] ELSE IF k = i THEN t ELSE s[k - 1]
  <2>1. /\ r = [k \in 1..n + 1 |-> IF k < i THEN s[k] ELSE IF k = i THEN t ELSE s[k - 1]]
        /\ n + 1 \in Nat
    BY <1>0 DEF with
  <2>2. \A k \in 1..n + 1 : (IF k < i THEN s[k] ELSE IF k = i THEN t ELSE s[k - 1]) \in Task
    <3>1. \A k \in 1..n + 1 : (k < i => k \in 1..n) /\ (~(k < i) /\ k # i => k - 1 \in 1..n)
      BY <1>0
    <3> QED BY <1>0, <3>1
  <2> HIDE DEF r
  <2>3. r \in [1..n + 1 -> Task]
    BY <2>1, <2>2
  <2> HIDE DEF n, s
  <2> QED BY <2>1, <2>3
<1>3. seq' \in [List -> Seq(Task)] /\ \A m \in List \ {l} : seq'[m] = seq[m]
  BY <1>1, <1>2 DEF TypeOK
<1>4. \A j, k \in 1..n : s[j] = s[k] => j = k
  BY <1>0 DEF Apart, Disjoint
<1>5. \A m \in List \ {l} : \A x \in On(seq, m) : x # t /\ \A k \in 1..n : x # s[k]
  BY <1>0, InOn, InListed, OnOneList DEF Apart, Insert
<1>6. \A k \in 1..n : s[k] # t
  BY <1>0, InOn, InListed DEF Insert
<1>7. /\ \A k \in 1..n : prev[s[k]] = IF k = 1 THEN nil ELSE s[k - 1]
      /\ \A k \in 1..n : next[s[k]] = IF k = n THEN nil ELSE s[k + 1]
      /\ head[l] = IF n = 0 THEN nil ELSE s[1]
      /\ tail[l] = IF n = 0 THEN nil ELSE s[n]
  <2>1. s = <<>> <=> n = 0
    BY <1>0
  <2> QED BY <1>0, <2>1 DEF Faithful
<1>8. insert_links(l, t, u)
  BY DEF Insert
<1> HIDE DEF s, n, r
<1>9. /\ i = n + 1 => u = nil
      /\ i # n + 1 => i \in 1..n /\ u = s[i] /\ u \in Task /\ u # nil /\ u # t
      /\ i = 1 => p = nil
      /\ i # 1 => i - 1 \in 1..n /\ p = s[i - 1] /\ p \in Task /\ p # nil /\ p # t
  <2>1. (i # n + 1 => i \in 1..n) /\ (i = n + 1 => i \notin 1..n)
    BY <1>0
  <2>2. (i # 1 => i - 1 \in 1..n) /\ (i = n + 1 => i - 1 = n) /\ (i = 1 /\ i = n + 1 => n = 0)
        /\ (i = n + 1 /\ i # 1 => n # 0)
    BY <1>0
  <2> QED BY <1>0, <1>6, <1>7, <2>1, <2>2
<1>10. /\ i # 1 => next' = [next EXCEPT ![t] = u, ![p] = t] /\ head' = head
       /\ i = 1 => next' = [next EXCEPT ![t] = u] /\ head' = [head EXCEPT ![l] = t]
       /\ i # n + 1 => prev' = [prev EXCEPT ![t] = p, ![u] = t] /\ tail' = tail
       /\ i = n + 1 => prev' = [prev EXCEPT ![t] = p] /\ tail' = [tail EXCEPT ![l] = t]
  BY <1>8, <1>9 DEF insert_links
<1> HIDE DEF u, p
<1>11. TypeOK'
  <2>0. u \in Task \cup {nil} /\ p \in Task \cup {nil}
    BY <1>9
  <2>1. next' \in [Task -> Task \cup {nil}] /\ head' \in [List -> Task \cup {nil}]
    <3>1. CASE i = 1
      <4>1. next' = [next EXCEPT ![t] = u] /\ head' = [head EXCEPT ![l] = t]
        BY <1>10, <3>1
      <4> QED BY <2>0, <4>1 DEF TypeOK
    <3>2. CASE i # 1
      <4>1. next' = [next EXCEPT ![t] = u, ![p] = t] /\ head' = head
        BY <1>10, <3>2
      <4> QED BY <2>0, <4>1 DEF TypeOK
    <3> QED BY <3>1, <3>2
  <2>2. prev' \in [Task -> Task \cup {nil}] /\ tail' \in [List -> Task \cup {nil}]
    <3>1. CASE i = n + 1
      <4>1. prev' = [prev EXCEPT ![t] = p] /\ tail' = [tail EXCEPT ![l] = t]
        BY <1>10, <3>1
      <4> QED BY <2>0, <4>1 DEF TypeOK
    <3>2. CASE i # n + 1
      <4>1. prev' = [prev EXCEPT ![t] = p, ![u] = t] /\ tail' = tail
        BY <1>10, <3>2
      <4> QED BY <2>0, <4>1 DEF TypeOK
    <3> QED BY <3>1, <3>2
  <2> QED BY <1>3, <2>1, <2>2 DEF TypeOK
<1>12. \A m \in List \ {l} : Linked(m)'
  <2> SUFFICES ASSUME NEW m \in List \ {l}
               PROVE  Linked(m)'
    OBVIOUS
  <2>1. seq'[m] = seq[m] /\ head'[m] = head[m] /\ tail'[m] = tail[m]
    BY <1>3, <1>10 DEF TypeOK
  <2>2. \A x \in On(seq, m) : next'[x] = next[x] /\ prev'[x] = prev[x]
    <3> SUFFICES ASSUME NEW x \in On(seq, m)
                 PROVE  next'[x] = next[x] /\ prev'[x] = prev[x]
      OBVIOUS
    <3>1. x \in Task
      BY ListedAreTasks DEF TypeOK
    <3>2. x # t /\ (i # 1 => x # p) /\ (i # n + 1 => x # u)
      BY <1>5, <1>9
    <3>3. next'[x] = next[x]
      BY <1>9, <1>10, <3>1, <3>2 DEF TypeOK
    <3>4. prev'[x] = prev[x]
      BY <1>9, <1>10, <3>1, <3>2 DEF TypeOK
    <3> QED BY <3>3, <3>4
  <2> QED BY <2>1, <2>2, OtherList
<1>13. next'[t] = u /\ prev'[t] = p
  BY <1>9, <1>10 DEF TypeOK
<1>14. ASSUME NEW k \in 1..n
       PROVE  /\ next'[s[k]] = IF k = i - 1 THEN t ELSE next[s[k]]
              /\ prev'[s[k]] = IF k = i THEN t ELSE prev[s[k]]
  <2>1. s[k] \in Task /\ s[k] # t /\ k \in Int /\ i \in Int /\ n \in Int /\ 1 <= k /\ k <= n
    BY <1>0, <1>6
  <2>2. next'[s[k]] = IF k = i - 1 THEN t ELSE next[s[k]]
    <3>1. CASE i = 1
      BY <1>10, <2>1, <3>1 DEF TypeOK
    <3>2. CASE i # 1
      <4>1. s[k] = p <=> k = i - 1
        BY <1>4, <1>9, <3>2
      <4>2. next' = [next EXCEPT ![t] = u, ![p] = t] /\ p \in Task
        BY <1>9, <1>10, <3>2
      <4>3. next'[s[k]] = IF s[k] = p THEN t ELSE next[s[k]]
        BY <2>1, <4>2 DEF TypeOK
      <4> QED BY <4>1, <4>3
    <3> QED BY <3>1, <3>2
  <2>3. prev'[s[k]] = IF k = i THEN t ELSE prev[s[k]]
    <3>1. CASE i = n + 1
      BY <1>10, <2>1, <3>1 DEF TypeOK
    <3>2. CASE i # n + 1
      <4>1. s[k] = u <=> k = i
        BY <1>4, <1>9, <3>2
      <4>2. prev' = [prev EXCEPT ![t] = p, ![u] = t] /\ u \in Task
        BY <1>9, <1>10, <3>2
      <4>3. prev'[s[k]] = IF s[k] = u THEN t ELSE prev[s[k]]
        BY <2>1, <4>2 DEF TypeOK
      <4> QED BY <4>1, <4>3
    <3> QED BY <3>1, <3>2
  <2> QED BY <2>2, <2>3
<1>15. Linked(l)'
  <2>1. head'[l] = r[1] /\ r # <<>>
    <3>1. 1 \in 1..n + 1 /\ r # <<>>
      BY <1>0, <1>2
    <3>2. CASE i = 1
      BY <1>0, <1>2, <1>10, <3>1, <3>2 DEF TypeOK
    <3>3. CASE i # 1
      <4>1. 1 < i /\ n # 0
        BY <1>0, <3>3
      <4> QED BY <1>2, <1>7, <1>10, <3>1, <3>3, <4>1 DEF TypeOK
    <3> QED BY <3>1, <3>2, <3>3
  <2>2. tail'[l] = r[n + 1]
    <3>1. n + 1 \in 1..n + 1 /\ (n + 1) - 1 = n
      BY <1>0
    <3>2. CASE i = n + 1
      BY <1>0, <1>2, <1>10, <3>1, <3>2 DEF TypeOK
    <3>3. CASE i # n + 1
      <4>1. ~(n + 1 < i) /\ n # 0
        BY <1>0, <3>3
      <4> QED BY <1>2, <1>7, <1>10, <3>1, <3>3, <4>1 DEF TypeOK
    <3> QED BY <3>2, <3>3
  <2>3. ASSUME NEW k \in 1..n + 1
        PROVE  /\ prev'[r[k]] = IF k = 1 THEN nil ELSE r[k - 1]
               /\ next'[r[k]] = IF k = n + 1 THEN nil ELSE r[k + 1]
    <3>1. /\ k # 1 => k - 1 \in 1..n + 1
          /\ k # n + 1 => k + 1 \in 1..n + 1
      BY <1>0
    <3>2. CASE k < i
      <4>1. r[k] = s[k] /\ k \in 1..n /\ k # i /\ (k # 1 => r[k - 1] = s[k - 1]) /\ k # n + 1
        BY <1>0, <1>2, <3>1, <3>2
      <4>2. prev'[r[k]] = IF k = 1 THEN nil ELSE r[k - 1]
        BY <1>7, <1>14, <4>1
      <4>3. CASE k = i - 1
        <5>1. r[k + 1] = t
          BY <1>0, <1>2, <3>1, <4>1, <4>3
        <5> QED BY <1>14, <4>1, <4>2, <4>3, <5>1
      <4>4. CASE k # i - 1
        <5>1. k + 1 < i /\ k # n
          BY <1>0, <3>2, <4>4
        <5>2. r[k + 1] = s[k + 1]
          BY <1>2, <3>1, <4>1, <5>1
        <5> QED BY <1>7, <1>14, <4>1, <4>2, <4>4, <5>1, <5>2
      <4> QED BY <4>3, <4>4
    <3>3. CASE k = i
      <4>1. r[k] = t /\ (k # 1 => r[k - 1] = s[i - 1]) /\ (k # n + 1 => r[k + 1] = s[i])
        BY <1>0, <1>2, <3>1, <3>3
      <4> QED BY <1>9, <1>13, <3>3, <4>1
    <3>4. CASE k > i
      <4>1. /\ r[k] = s[k - 1] /\ k - 1 \in 1..n /\ k - 1 # i - 1 /\ k # 1
            /\ k # n + 1 => r[k + 1] = s[(k - 1) + 1] /\ k - 1 # n
            /\ k = n + 1 => k - 1 = n
        BY <1>0, <1>2, <3>1, <3>4
      <4>2. next'[r[k]] = IF k = n + 1 THEN nil ELSE r[k + 1]
        BY <1>7, <1>14, <4>1
      <4>3. CASE k - 1 = i
        <5>1. r[k - 1] = t
          BY <1>0, <1>2, <3>1, <4>1, <4>3
        <5> QED BY <1>14, <4>1, <4>2, <4>3, <5>1
      <4>4. CASE k - 1 # i
        <5>1. ~(k - 1 < i) /\ k - 1 # 1
          BY <1>0, <3>4, <4>4
        <5>2. r[k - 1] = s[(k - 1) - 1]
          BY <1>2, <3>1, <4>1, <4>4, <5>1
        <5> QED BY <1>7, <1>14, <4>1, <4>2, <4>4, <5>1, <5>2
      <4> QED BY <4>3, <4>4
    <3> QED BY <1>0, <3>2, <3>3, <3>4
  <2> QED BY <1>1, <1>2, <2>1, <2>2, <2>3 DEF Linked
<1>16. Disjoint(seq')
  <2> SUFFICES ASSUME NEW a \in List, NEW b \in List,
                      NEW j \in DOMAIN seq'[a], NEW k \in DOMAIN seq'[b],
                      seq'[a][j] = seq'[b][k]
               PROVE  a = b /\ j = k
    BY DEF Disjoint
  <2> DEFINE at(m, x) == IF m = l /\ x > i THEN x - 1 ELSE x
             new(m, x) == m = l /\ x = i
  <2>1. \A m \in List : \A x \in DOMAIN seq'[m] :
          IF new(m, x) THEN seq'[m][x] = t
          ELSE at(m, x) \in DOMAIN seq[m] /\ seq'[m][x] = seq[m][at(m, x)]
    <3>1. \A x \in 1..n + 1 : x # i => IF x > i THEN x - 1 \in 1..n /\ ~(x < i)
                                         ELSE x \in 1..n /\ x < i
      BY <1>0
    <3> QED BY <1>0, <1>1, <1>2, <1>3, <3>1 DEF s
  <2>2. \A m \in List : \A x \in DOMAIN seq[m] : seq[m][x] # t
    BY InOn, InListed DEF Insert
  <2>3. new(a, j) <=> new(b, k)
    <3> HIDE DEF at, new
    <3> QED BY <2>1, <2>2
  <2>4. CASE new(a, j)
    BY <2>3, <2>4
  <2>5. CASE ~new(a, j)
    <3>1. a = b /\ at(a, j) = at(b, k)
      <4> HIDE DEF at, new
      <4> QED BY <2>1, <2>3, <2>5 DEF Apart, Disjoint
    <3>2. CASE a = l
      <4>1. j \in 1..n + 1 /\ k \in 1..n + 1 /\ j # i /\ k # i
        BY <1>1, <1>2, <2>3, <2>5, <3>1, <3>2
      <4> QED BY <1>0, <3>1, <3>2, <4>1
    <3>3. CASE a # l
      BY <3>1, <3>3
    <3> QED BY <3>2, <3>3
  <2> QED BY <2>4, <2>5
<1> QED BY <1>11, <1>12, <1>15, <1>16 DEF Faithful, Linked, Apart

-----------------------------------------------------------------------------
(* The pointers of every list represent its sequence after any number of   *)
(* additions, deletions and insertions.                                    *)
THEOREM TasklistFaithful == Spec => []Faithful
<1>1. Init => IInv
  <2> SUFFICES ASSUME Init
               PROVE  IInv
    OBVIOUS
  <2>1. TypeOK
    BY DEF Init, TypeOK
  <2>2. \A l \in List : seq[l] = <<>> /\ 1..Len(seq[l]) = {} /\ DOMAIN seq[l] = {}
    BY DEF Init
  <2> QED BY <2>1, <2>2 DEF Init, IInv, Faithful, Apart, Disjoint
<1>2. IInv /\ [Next]_vars => IInv'
  <2> SUFFICES ASSUME IInv, [Next]_vars
               PROVE  IInv'
    OBVIOUS
  <2>1. CASE UNCHANGED vars
    BY <2>1 DEF vars, IInv, TypeOK, Faithful, Apart, Disjoint
  <2>2. CASE Next
    BY <2>2, AddKeeps, DelKeeps, InsertKeeps DEF Next
  <2> QED BY <2>1, <2>2
<1>3. IInv => Faithful
  BY DEF IInv
<1> QED BY <1>1, <1>2, <1>3, PTL DEF Spec

-----------------------------------------------------------------------------
(* Queueing an entry keeps the invariant: the block has room for it. *)
LEMMA QueueKeeps ==
  ASSUME AInv, NEW p \in Ptr, altqueue(p)
  PROVE  AInv'
<1> USE AltArrayAssumption DEF AInv
<1>1. ATypeOK' /\ Fits' /\ NotAborted' /\ a_n' = a_n + 1 /\ a_m' \in Nat /\ a_n < a_m'
  BY DEF ATypeOK, Fits, NotAborted, altqueue, addarray, grown
<1>2. \A i \in 0..a_n - 1 : a_a'[i] = a_a[i]
  BY <1>1 DEF ATypeOK, Fits, altqueue, addarray
<1>3. a_a'[a_n] = p
  BY <1>1 DEF ATypeOK, altqueue, addarray
<1>4. 0..a_n' - 1 = (0..a_n - 1) \cup {a_n}
  BY <1>1 DEF ATypeOK
<1>5. \A i \in 0..a_n' - 1 : a_a'[i] \in Ptr
  BY <1>2, <1>3, <1>4 DEF ATypeOK
<1>6. \A i \in 0..a_n - 1 : a_a[i] # p /\ i # a_n
  BY DEF Exact, altqueue, ATypeOK
<1>7. \A i, j \in 0..a_n' - 1 : a_a'[i] = a_a'[j] => i = j
  BY <1>2, <1>3, <1>4, <1>6 DEF Exact
<1>8. \A x \in Ptr : x \in waiting' <=> \E i \in 0..a_n' - 1 : a_a'[i] = x
  BY <1>2, <1>3, <1>4 DEF Exact, altqueue
<1> QED BY <1>1, <1>5, <1>7, <1>8 DEF Exact

(* Deleting entry i moves the last entry there and forgets only a[i]. *)
LEMMA DequeueKeeps ==
  ASSUME AInv, NEW p \in Ptr, altdequeue(p)
  PROVE  AInv'
<1> USE AltArrayAssumption DEF AInv
<1>1. PICK i \in 0..a_n - 1 : a_a[i] = p /\ delarray(i) /\ UNCHANGED aborted
  BY DEF altdequeue, Exact
<1>2. /\ a_n' = a_n - 1 /\ a_m' = a_m /\ a_n \in Nat /\ a_m \in Nat /\ a_n <= a_m /\ a_n > 0
      /\ i \in 0..a_m - 1 /\ a_n - 1 \in 0..a_m - 1
  BY <1>1 DEF ATypeOK, Fits, delarray
<1>3. \A j \in 0..a_n' - 1 : a_a'[j] = IF j = i THEN a_a[a_n - 1] ELSE a_a[j]
  BY <1>1, <1>2 DEF ATypeOK, delarray
<1>4. ATypeOK' /\ Fits' /\ NotAborted'
  <2>1. a_a[a_n - 1] \in Ptr
    BY <1>2 DEF ATypeOK
  <2>2. a_a' \in [0..a_m' - 1 -> Ptr \cup {junk}]
    BY <1>1, <1>2, <2>1 DEF ATypeOK, delarray
  <2> QED BY <1>1, <1>2, <2>2 DEF ATypeOK, Fits, NotAborted, altdequeue
<1>5. \A j \in 0..a_n' - 1 : a_a'[j] \in Ptr
  BY <1>2, <1>3 DEF ATypeOK
<1>6. waiting' = waiting \ {p}
  BY DEF altdequeue
<1>7. \A j, k \in 0..a_n' - 1 : a_a'[j] = a_a'[k] => j = k
  BY <1>2, <1>3 DEF Exact
<1>8. ASSUME NEW x \in Ptr
      PROVE  x \in waiting' <=> \E j \in 0..a_n' - 1 : a_a'[j] = x
  <2>1. ASSUME x \in waiting'
        PROVE  \E j \in 0..a_n' - 1 : a_a'[j] = x
    <3>1. PICK j \in 0..a_n - 1 : a_a[j] = x
      BY <1>6, <2>1 DEF Exact
    <3>2. j # i
      BY <1>1, <1>6, <2>1, <3>1
    <3>3. CASE j = a_n - 1
      BY <1>2, <1>3, <3>1, <3>2, <3>3
    <3>4. CASE j # a_n - 1
      BY <1>2, <1>3, <3>1, <3>2, <3>4
    <3> QED BY <3>3, <3>4
  <2>2. ASSUME NEW j \in 0..a_n' - 1, a_a'[j] = x
        PROVE  x \in waiting'
    <3>1. PICK k \in 0..a_n - 1 : k # i /\ a_a[k] = x
      BY <1>2, <1>3, <2>2
    <3> QED BY <1>1, <1>6, <3>1 DEF Exact
  <2> QED BY <2>1, <2>2
<1> QED BY <1>4, <1>5, <1>7, <1>8 DEF Exact

(* The invariant of AltArray: the array of addarray, delarray and          *)
(* altdequeue holds exactly the entries that wait, whatever their number.  *)
THEOREM AltArrayInvariant == ASpec => []AInv
<1>1. AInit => AInv
  <2> SUFFICES ASSUME AInit
               PROVE  AInv
    OBVIOUS
  <2>1. 0..a_n - 1 = {} /\ 0..a_m - 1 = {}
    BY DEF AInit
  <2>2. ATypeOK
    <3>1. a_a \in [{} -> Ptr \cup {junk}]
      BY <2>1 DEF AInit
    <3>2. a_n \in Nat /\ a_m \in Nat /\ aborted \in BOOLEAN /\ waiting \in SUBSET Ptr
      BY DEF AInit
    <3> QED BY <2>1, <3>1, <3>2 DEF ATypeOK
  <2> QED BY <2>1, <2>2 DEF AInit, AInv, Exact, Fits, NotAborted
<1>2. AInv /\ [ANext]_avars => AInv'
  <2> SUFFICES ASSUME AInv, [ANext]_avars
               PROVE  AInv'
    OBVIOUS
  <2>1. CASE UNCHANGED avars
    BY <2>1 DEF AInv, ATypeOK, Exact, Fits, NotAborted, avars
  <2>2. CASE ANext
    BY <2>2, QueueKeeps, DequeueKeeps DEF ANext
  <2> QED BY <2>1, <2>2
<1> QED BY <1>1, <1>2, PTL DEF ASpec

(* altdequeue always finds the entry it looks for (channel.c:137 is not    *)
(* reached), and the array holds exactly the waiting entries within its    *)
(* block.                                                                  *)
THEOREM AltArrayExact == ASpec => [](Exact /\ Fits /\ NotAborted)
<1>1. AInv => Exact /\ Fits /\ NotAborted
  BY DEF AInv
<1> QED BY <1>1, AltArrayInvariant, PTL
=============================================================================
