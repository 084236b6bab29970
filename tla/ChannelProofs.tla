---------------------------- MODULE ChannelProofs ---------------------------
(***************************************************************************)
(* Proofs about Channel, for any tasks, channels, buffer sizes and calls:  *)
(* the invariant IInv is inductive, so no rendezvous is missed and the     *)
(* waiting arrays are exact; and, with its help, the channels implement    *)
(* the bounded FIFOs of ChanSpec.                                          *)
(***************************************************************************)
EXTENDS Channel, TasklistLemmas

(* The ring arithmetic of altcopy, without the remainder. *)
LEMMA Modulo ==
  ASSUME NEW B \in Nat \ {0}, NEW x \in Nat, x < 2 * B
  PROVE  x % B = IF x < B THEN x ELSE x - B
<1>1. CASE x < B
  BY <1>1
<1>2. CASE ~(x < B)
  <2>1. PICK y \in Nat : y = x - B /\ y < B
    BY <1>2
  <2>2. (y + B) % B = y % B
    BY <2>1
  <2>3. y % B = y
    BY <2>1
  <2> QED BY <1>2, <2>1, <2>2, <2>3
<1> QED BY <1>1, <1>2

(* The n values in a ring of size B, from place o on. *)
Ring(b, o, n, B) == [k \in 1..n |-> b[(o + k - 1) % B]]

(* The place behind place o, as altcopy computes it (channel.c:205-207). *)
After(o, B) == IF o + 1 = B THEN 0 ELSE o + 1

LEMMA Places ==
  ASSUME NEW B \in Nat \ {0}, NEW o \in 0..B - 1, NEW n \in 0..B
  PROVE  /\ After(o, B) \in 0..B - 1
         /\ \A k \in 1..n : (o + k - 1) % B \in 0..B - 1
         /\ n > 0 => (o + 1 - 1) % B = o
         /\ n < B => (o + n) % B \in 0..B - 1
         /\ n < B => \A k \in 1..n : (o + k - 1) % B # (o + n) % B
         /\ \A k \in 1..n - 1 : (After(o, B) + k - 1) % B = (o + (k + 1) - 1) % B
<1>1. After(o, B) \in 0..B - 1
  BY DEF After
<1>2. ASSUME NEW k \in 1..n
      PROVE  (o + k - 1) % B = IF o + k - 1 < B THEN o + k - 1 ELSE o + k - 1 - B
  <2>1. PICK x \in Nat : x = o + k - 1 /\ x < 2 * B
    OBVIOUS
  <2>2. x % B = IF x < B THEN x ELSE x - B
    BY <2>1, Modulo
  <2> QED BY <2>1, <2>2
<1>3. ASSUME n < B
      PROVE  (o + n) % B = IF o + n < B THEN o + n ELSE o + n - B
  <2>1. PICK x \in Nat : x = o + n /\ x < 2 * B
    BY <1>3
  <2>2. x % B = IF x < B THEN x ELSE x - B
    BY <2>1, Modulo
  <2> QED BY <2>1, <2>2
<1>4. ASSUME NEW k \in 1..n - 1
      PROVE  (After(o, B) + k - 1) % B = (o + (k + 1) - 1) % B
  <2>1. k + 1 \in 1..n
    OBVIOUS
  <2>2. (o + (k + 1) - 1) % B = IF o + k < B THEN o + k ELSE o + k - B
    BY <1>2, <2>1
  <2>3. PICK x \in Nat : x = After(o, B) + k - 1 /\ x < 2 * B
    BY DEF After
  <2>4. x % B = IF x < B THEN x ELSE x - B
    BY <2>3, Modulo
  <2>5. x % B = IF o + k < B THEN o + k ELSE o + k - B
    <3>1. CASE o + 1 = B
      BY <2>3, <2>4, <3>1 DEF After
    <3>2. CASE o + 1 # B
      BY <2>3, <2>4, <3>2 DEF After
    <3> QED BY <3>1, <3>2
  <2> QED BY <2>2, <2>3, <2>5
<1>5. \A k \in 1..n : (o + k - 1) % B \in 0..B - 1
  BY <1>2
<1>6. n > 0 => (o + 1 - 1) % B = o
  BY <1>2
<1>7. n < B => (o + n) % B \in 0..B - 1
  BY <1>3
<1>8. ASSUME n < B, NEW k \in 1..n
      PROVE  (o + k - 1) % B # (o + n) % B
  BY <1>2, <1>3, <1>8
<1> QED BY <1>1, <1>4, <1>5, <1>6, <1>7, <1>8

LEMMA EmptyRing ==
  ASSUME NEW b, NEW o, NEW B
  PROVE  Ring(b, o, 0, B) = <<>>
<1> DEFINE f(k) == b[(o + k - 1) % B]
           p == [k \in 1..0 |-> f(k)]
<1>1. Ring(b, o, 0, B) = p
  BY DEF Ring
<1> HIDE DEF f
<1>2. p \in Seq({}) /\ Len(p) = 0
  OBVIOUS
<1> QED BY <1>1, <1>2

(* Sending into a ring that is not full appends to the sequence. *)
LEMMA RingSend ==
  ASSUME NEW B \in Nat \ {0}, NEW o \in 0..B - 1, NEW n \in 0..B - 1,
         NEW b \in [0..B - 1 -> Value], NEW x \in Value
  PROVE  Ring([b EXCEPT ![(o + n) % B] = x], o, n + 1, B) = Append(Ring(b, o, n, B), x)
<1> DEFINE at(k) == (o + k - 1) % B
           w == (o + n) % B
           d == [b EXCEPT ![w] = x]
           p == Ring(b, o, n, B)
           q == Ring(d, o, n + 1, B)
<1>1. n \in 0..B /\ n < B /\ n + 1 \in Nat /\ 1..n + 1 = (1..n) \cup {n + 1}
  OBVIOUS
<1>2. w \in 0..B - 1 /\ \A k \in 1..n : at(k) \in 0..B - 1 /\ at(k) # w
  <2>1. /\ \A k \in 1..n : (o + k - 1) % B \in 0..B - 1
        /\ n < B => (o + n) % B \in 0..B - 1
        /\ n < B => \A k \in 1..n : (o + k - 1) % B # (o + n) % B
    BY <1>1, Places, Zenon
  <2> QED BY <1>1, <2>1, Zenon
<1>3. at(n + 1) = w
  OBVIOUS
<1>4. p = [k \in 1..n |-> b[at(k)]] /\ q = [k \in 1..n + 1 |-> d[at(k)]]
  BY DEF Ring
<1> HIDE DEF at, w, p, q
<1>5. d[w] = x /\ \A k \in 1..n : d[at(k)] = b[at(k)]
  BY <1>2
<1>6. \A k \in 1..n : b[at(k)] \in Value
  BY <1>2
<1> HIDE DEF d
<1>7. p \in Seq(Value) /\ Len(p) = n
  BY <1>1, <1>4, <1>6
<1>8. q \in Seq(Value) /\ Len(q) = n + 1
  <2>1. \A k \in 1..n + 1 : d[at(k)] \in Value
    BY <1>1, <1>3, <1>5, <1>6
  <2> QED BY <1>1, <1>4, <2>1
<1>9. q = Append(p, x)
  <2>1. \A k \in 1..n : q[k] = p[k]
    BY <1>1, <1>4, <1>5
  <2>2. q[n + 1] = x
    BY <1>1, <1>3, <1>4, <1>5
  <2> QED BY <1>1, <1>7, <1>8, <2>1, <2>2
<1> QED BY <1>9 DEF p, q, d, w

(* Receiving from a ring that is not empty takes the head of the sequence. *)
LEMMA RingReceive ==
  ASSUME NEW B \in Nat \ {0}, NEW o \in 0..B - 1, NEW n \in 1..B,
         NEW b \in [0..B - 1 -> Value]
  PROVE  /\ Ring(b, o, n, B) # <<>>
         /\ Head(Ring(b, o, n, B)) = b[o]
         /\ Ring(b, After(o, B), n - 1, B) = Tail(Ring(b, o, n, B))
<1> DEFINE at(k) == (o + k - 1) % B
           e == After(o, B)
           to(k) == (e + k - 1) % B
           p == Ring(b, o, n, B)
           q == Ring(b, e, n - 1, B)
<1>1. n \in 0..B /\ n \in Nat /\ n - 1 \in Nat /\ n > 0
  OBVIOUS
<1>2. /\ \A k \in 1..n : at(k) \in 0..B - 1
      /\ at(1) = o
      /\ \A k \in 1..n - 1 : to(k) = at(k + 1)
  BY <1>1, Places, ZenonT(30)
<1>3. p = [k \in 1..n |-> b[at(k)]] /\ q = [k \in 1..n - 1 |-> b[to(k)]]
  BY DEF Ring
<1> HIDE DEF at, to, p, q
<1>4. \A k \in 1..n : b[at(k)] \in Value
  BY <1>2
<1>5. p \in Seq(Value) /\ Len(p) = n /\ 1 \in 1..n
  BY <1>1, <1>3, <1>4
<1>6. \A k \in 1..n - 1 : k + 1 \in 1..n
  BY <1>1
<1>7. \A k \in 1..n - 1 : b[to(k)] = b[at(k + 1)] /\ b[to(k)] \in Value
  BY <1>2, <1>4, <1>6
<1>8. q \in Seq(Value) /\ Len(q) = n - 1
  BY <1>1, <1>3, <1>7
<1>9. \A k \in 1..n - 1 : q[k] = p[k + 1]
  BY <1>3, <1>6, <1>7
<1>10. q = Tail(p)
  BY <1>1, <1>5, <1>8, <1>9
<1>11. p # <<>> /\ Head(p) = b[o]
  BY <1>1, <1>2, <1>3, <1>5
<1> QED BY <1>10, <1>11 DEF p, q

-----------------------------------------------------------------------------
(* The part of the type invariant that is about the rings. *)
RingOK ==
  /\ nbuf \in [Chan -> Nat] /\ \A c \in Chan : nbuf[c] <= bufsize[c]
  /\ off \in [Chan -> Nat] /\ \A c \in Chan : bufsize[c] > 0 => off[c] < bufsize[c]
  /\ buf = [c \in Chan |-> buf[c]]
  /\ \A c \in Chan : buf[c] \in [0..bufsize[c] - 1 -> Value]

LEMMA ContentsRing ==
  ASSUME NEW c \in Chan
  PROVE  /\ Contents[c] = Ring(buf[c], off[c], nbuf[c], bufsize[c])
         /\ Contents'[c] = Ring(buf'[c], off'[c], nbuf'[c], bufsize[c])
BY DEF Contents, Ring

(* The ring of one channel is written; the other channels keep theirs. *)
LEMMA OneRing ==
  ASSUME RingOK, NEW c \in Chan,
         NEW n \in Nat, n <= bufsize[c],
         NEW o \in Nat, bufsize[c] > 0 => o < bufsize[c],
         NEW b \in [0..bufsize[c] - 1 -> Value],
         nbuf' = [nbuf EXCEPT ![c] = n], off' = [off EXCEPT ![c] = o],
         buf' = [buf EXCEPT ![c] = b]
  PROVE  /\ RingOK'
         /\ Contents' = [Contents EXCEPT ![c] = Ring(b, o, n, bufsize[c])]
<1>1. nbuf'[c] = n /\ off'[c] = o /\ buf'[c] = b
  BY DEF RingOK
<1>2. \A d \in Chan \ {c} : nbuf'[d] = nbuf[d] /\ off'[d] = off[d] /\ buf'[d] = buf[d]
  BY DEF RingOK
<1>3. nbuf' \in [Chan -> Nat] /\ off' \in [Chan -> Nat] /\ buf' = [d \in Chan |-> buf'[d]]
  BY DEF RingOK
<1>4. RingOK'
  BY <1>1, <1>2, <1>3 DEF RingOK
<1>5. /\ Contents'[c] = Ring(b, o, n, bufsize[c])
      /\ \A d \in Chan \ {c} : Contents'[d] = Contents[d]
  BY <1>1, <1>2, ContentsRing
<1>6. Contents' = [d \in Chan |-> Contents'[d]] /\ Contents = [d \in Chan |-> Contents[d]]
  BY DEF Contents
<1> HIDE DEF Contents
<1>7. \A d \in Chan : Contents'[d] = IF d = c THEN Ring(b, o, n, bufsize[c]) ELSE Contents[d]
  BY <1>5
<1> QED BY <1>4, <1>6, <1>7

(* altcopy with a sender only: the value goes to the end of the FIFO. *)
LEMMA CopyIn ==
  ASSUME RingOK, NEW c \in Chan, NEW s \in Alt, nbuf[c] < bufsize[c], altcopy(c, s, nil)
  PROVE  /\ RingOK'
         /\ nbuf' = [nbuf EXCEPT ![c] = nbuf[c] + 1]
         /\ Contents' = [Contents EXCEPT ![c] = Append(Contents[c], source(s))]
<1> DEFINE B == bufsize[c]
           d == [buf[c] EXCEPT ![(off[c] + nbuf[c]) % B] = source(s)]
<1>1. B \in Nat \ {0} /\ off[c] \in 0..B - 1 /\ nbuf[c] \in 0..B - 1
  BY ChannelAssumption DEF RingOK
<1>2. buf[c] \in [0..B - 1 -> Value] /\ source(s) \in Value
  BY ChannelAssumption DEF RingOK, source, Alt
<1>3. s # nil
  BY ChannelAssumption
<1>4. /\ off' = [off EXCEPT ![c] = off[c]]
      /\ nbuf' = [nbuf EXCEPT ![c] = nbuf[c] + 1]
      /\ buf' = [buf EXCEPT ![c] = d]
  BY <1>3 DEF altcopy
<1>5. (off[c] + nbuf[c]) % B \in 0..B - 1
  <2>1. nbuf[c] \in 0..B /\ nbuf[c] < B
    BY <1>1
  <2> QED BY <1>1, <2>1, Places
<1>6. d \in [0..B - 1 -> Value]
  BY <1>2, <1>5
<1>7. Ring(d, off[c], nbuf[c] + 1, B) = Append(Contents[c], source(s))
  <2>1. Ring(d, off[c], nbuf[c] + 1, B) = Append(Ring(buf[c], off[c], nbuf[c], B), source(s))
    BY ONLY <1>1, <1>2, RingSend
  <2> QED BY <2>1, ContentsRing
<1> HIDE DEF d, B
<1>8. RingOK' /\ Contents' = [Contents EXCEPT ![c] = Ring(d, off[c], nbuf[c] + 1, B)]
  <2>1. nbuf[c] + 1 \in Nat /\ nbuf[c] + 1 <= B /\ off[c] \in Nat /\ (B > 0 => off[c] < B)
    BY <1>1
  <2> QED BY <1>4, <1>6, <2>1, OneRing DEF B
<1> QED BY <1>4, <1>7, <1>8

(* altcopy with a receiver only: the head of the FIFO goes to it. *)
LEMMA CopyOut ==
  ASSUME RingOK, NEW c \in Chan, NEW r \in Alt, nbuf[c] > 0, altcopy(c, nil, r)
  PROVE  /\ RingOK'
         /\ nbuf' = [nbuf EXCEPT ![c] = nbuf[c] - 1]
         /\ Contents' = [Contents EXCEPT ![c] = Tail(Contents[c])]
         /\ moved(c, nil) = Head(Contents[c])
         /\ moved(c, nil) \in Value
<1> DEFINE B == bufsize[c]
           e == After(off[c], B)
<1>1. B \in Nat \ {0} /\ off[c] \in 0..B - 1 /\ nbuf[c] \in 1..B
  <2>1. B \in Nat /\ nbuf[c] \in Nat /\ nbuf[c] <= B
    BY ChannelAssumption DEF RingOK
  <2>2. B > 0 /\ off[c] \in Nat /\ off[c] < B
    BY <2>1 DEF RingOK
  <2> QED BY <2>1, <2>2
<1>2. buf[c] \in [0..B - 1 -> Value] /\ buf[c][off[c]] \in Value
  BY <1>1 DEF RingOK
<1>3. r # nil
  BY ChannelAssumption
<1>4. /\ off' = [off EXCEPT ![c] = e]
      /\ nbuf' = [nbuf EXCEPT ![c] = nbuf[c] - 1]
      /\ buf' = buf
  BY <1>3 DEF altcopy, After
<1>5. buf' = [buf EXCEPT ![c] = buf[c]]
  BY <1>4 DEF RingOK
<1>6. e \in 0..B - 1
  BY <1>1 DEF After
<1>7. /\ Head(Contents[c]) = buf[c][off[c]]
      /\ Ring(buf[c], e, nbuf[c] - 1, B) = Tail(Contents[c])
  <2>1. /\ Head(Ring(buf[c], off[c], nbuf[c], B)) = buf[c][off[c]]
        /\ Ring(buf[c], e, nbuf[c] - 1, B) = Tail(Ring(buf[c], off[c], nbuf[c], B))
    BY ONLY <1>1, <1>2, RingReceive
  <2> QED BY <2>1, ContentsRing
<1>8. moved(c, nil) = buf[c][off[c]]
  BY DEF moved
<1> HIDE DEF e, B
<1>9. RingOK' /\ Contents' = [Contents EXCEPT ![c] = Ring(buf[c], e, nbuf[c] - 1, B)]
  <2>1. nbuf[c] - 1 \in Nat /\ nbuf[c] - 1 <= B /\ e \in Nat /\ (B > 0 => e < B)
    BY <1>1, <1>6
  <2>2. off' = [off EXCEPT ![c] = e] /\ nbuf' = [nbuf EXCEPT ![c] = nbuf[c] - 1]
    BY <1>4
  <2> QED BY ONLY RingOK, c \in Chan, <1>2, <1>5, <2>1, <2>2, OneRing DEF B
<1> QED BY <1>2, <1>4, <1>7, <1>8, <1>9

(* altcopy with both: the sender's value goes through the FIFO, whether it *)
(* is empty (then it goes straight across) or not.                         *)
LEMMA CopyThrough ==
  ASSUME RingOK, NEW c \in Chan, NEW s \in Alt, NEW r \in Alt, altcopy(c, s, r)
  PROVE  /\ RingOK'
         /\ nbuf' = nbuf
         /\ Contents' = [Contents EXCEPT ![c] = Tail(Append(Contents[c], source(s)))]
         /\ moved(c, s) = Head(Append(Contents[c], source(s)))
         /\ moved(c, s) \in Value
<1> DEFINE B == bufsize[c]
           e == After(off[c], B)
           m == nbuf[c] - 1
           d == [buf[c] EXCEPT ![(e + m) % B] = source(s)]
<1>1. s # nil /\ r # nil
  BY ChannelAssumption
<1>2. source(s) \in Value
  BY ChannelAssumption DEF source, Alt
<1>3. nbuf[c] \in Nat /\ B \in Nat /\ nbuf[c] <= B
  BY ChannelAssumption DEF RingOK
<1>4. CASE nbuf[c] = 0
  <2>1. UNCHANGED ringvars
    BY <1>1, <1>4 DEF altcopy
  <2>2. RingOK' /\ nbuf' = nbuf /\ Contents' = Contents
    BY <2>1 DEF ringvars, RingOK, Contents
  <2>3. Contents[c] = <<>>
    BY <1>4, ContentsRing, EmptyRing
  <2>4. Tail(Append(<<>>, source(s))) = <<>> /\ Head(Append(<<>>, source(s))) = source(s)
    OBVIOUS
  <2>5. Contents = [Contents EXCEPT ![c] = Contents[c]]
    BY DEF Contents
  <2>6. moved(c, s) = source(s)
    BY <1>1, <1>4 DEF moved
  <2> QED BY <1>2, <2>2, <2>3, <2>4, <2>5, <2>6
<1>5. CASE nbuf[c] # 0
  <2>1. B \in Nat \ {0} /\ off[c] \in 0..B - 1 /\ nbuf[c] \in 1..B
    <3>1. B > 0 /\ off[c] \in Nat /\ off[c] < B
      BY <1>3, <1>5 DEF RingOK
    <3> QED BY <1>3, <1>5, <3>1
  <2>2. buf[c] \in [0..B - 1 -> Value] /\ buf[c][off[c]] \in Value
    BY <2>1 DEF RingOK
  <2>3. e \in 0..B - 1
    BY <2>1 DEF After
  <2>4. m \in 0..B - 1 /\ m \in 0..B /\ m < B /\ m + 1 = nbuf[c]
    BY <2>1
  <2>5. /\ off' = [off EXCEPT ![c] = e]
        /\ nbuf' = [nbuf EXCEPT ![c] = m + 1]
        /\ buf' = [buf EXCEPT ![c] = d]
    BY <1>1, <1>5 DEF altcopy, After
  <2> HIDE DEF e, m
  <2>6. (e + m) % B \in 0..B - 1
    BY ONLY <2>1, <2>3, <2>4, Places
  <2>7. d \in [0..B - 1 -> Value]
    BY <1>2, <2>2, <2>6
  <2>8. Ring(d, e, m + 1, B) = Append(Ring(buf[c], e, m, B), source(s))
    BY ONLY <1>2, <2>1, <2>2, <2>3, <2>4, RingSend, ZenonT(30)
  <2>9. /\ Ring(buf[c], off[c], nbuf[c], B) # <<>>
        /\ Head(Ring(buf[c], off[c], nbuf[c], B)) = buf[c][off[c]]
        /\ Ring(buf[c], e, m, B) = Tail(Ring(buf[c], off[c], nbuf[c], B))
    BY ONLY <2>1, <2>2, RingReceive DEF e, m
  <2>10. Contents[c] \in Seq(Value) /\ Contents[c] # <<>>
    <3>1. \A k \in 1..nbuf[c] : buf[c][(off[c] + k - 1) % B] \in Value
      <4>1. nbuf[c] \in 0..B
        BY <2>1
      <4>2. \A k \in 1..nbuf[c] : (off[c] + k - 1) % B \in 0..B - 1
        BY ONLY <2>1, <4>1, Places
      <4> QED BY <2>2, <4>2
    <3>2. Ring(buf[c], off[c], nbuf[c], B) \in Seq(Value)
      BY <1>3, <3>1 DEF Ring
    <3> QED BY <2>9, <3>2, ContentsRing
  <2>11. /\ Tail(Append(Contents[c], source(s))) = Append(Tail(Contents[c]), source(s))
         /\ Head(Append(Contents[c], source(s))) = Head(Contents[c])
    BY ONLY <1>2, <2>10
  <2> HIDE DEF d, B
  <2>12. RingOK' /\ Contents' = [Contents EXCEPT ![c] = Ring(d, e, m + 1, B)]
    <3>1. m + 1 \in Nat /\ m + 1 <= B /\ e \in Nat /\ (B > 0 => e < B)
      BY <2>1, <2>3, <2>4
    <3> QED BY ONLY RingOK, c \in Chan, <2>5, <2>7, <3>1, OneRing DEF B
  <2>13. Ring(d, e, m + 1, B) = Tail(Append(Contents[c], source(s)))
    BY <2>8, <2>9, <2>11, ContentsRing DEF B
  <2>14. moved(c, s) = buf[c][off[c]] /\ Head(Contents[c]) = buf[c][off[c]]
    BY <1>5, <2>9, ContentsRing DEF moved, B
  <2>15. nbuf' = nbuf
    BY <2>4, <2>5 DEF RingOK
  <2> QED BY <2>2, <2>11, <2>12, <2>13, <2>14, <2>15
<1> QED BY <1>4, <1>5

-----------------------------------------------------------------------------
(* Membership in the entries of an array, and in the waiting arrays. *)
LEMMA InEntries ==
  ASSUME NEW t, NEW al, NEW c, NEW op, NEW p
  PROVE  p \in entries(t, al, c, op) <=>
           \E i \in DOMAIN al : p = <<t, i>> /\ al[i].c = c /\ al[i].op = op
<1> DEFINE S == {i \in DOMAIN al : al[i].c = c /\ al[i].op = op}
<1>1. entries(t, al, c, op) = {t} \X S
  BY DEF entries
<1>2. p \in {t} \X S <=> \E i \in S : p = <<t, i>>
  <2> HIDE DEF S
  <2> QED OBVIOUS
<1> QED BY <1>1, <1>2

LEMMA InArr ==
  ASSUME QueuesExact, NEW c \in Chan, NEW op \in Op, NEW p
  PROVE  p \in arr[c][op] <=> \E t \in Task : Waiting(t) /\ p \in entries(t, alts[t], c, op)
<1> DEFINE W == {u \in Task : Waiting(u)}
<1>1. arr[c][op] = UNION {entries(t, alts[t], c, op) : t \in W}
  BY DEF QueuesExact
<1>2. p \in arr[c][op] <=> \E t \in W : p \in entries(t, alts[t], c, op)
  BY <1>1
<1> QED BY <1>2

(* The same, to establish it after a step. *)
LEMMA ArrExact ==
  ASSUME OnePlace',
         \A c \in Chan, op \in Op : \A p :
           p \in arr'[c][op] <=>
             \E t \in Task : Waiting(t)' /\ p \in entries(t, alts'[t], c, op)
  PROVE  QueuesExact'
<1> DEFINE W == {u \in Task : Waiting(u)'}
<1> SUFFICES ASSUME NEW c \in Chan, NEW op \in Op
             PROVE  arr'[c][op] = UNION {entries(t, alts'[t], c, op) : t \in W}
  BY DEF QueuesExact, entries
<1>1. \A p : p \in arr'[c][op] <=> \E t \in W : p \in entries(t, alts'[t], c, op)
  OBVIOUS
<1> QED BY <1>1

(* The parts of the type invariant. *)
TaskOK ==
  /\ arr \in [Chan -> [Op -> SUBSET (Task \X Nat)]]
  /\ alts \in [Task -> Seq(Alt)]
  /\ xalt \in [Task -> Nat]
  /\ pc \in [Task -> {"user", "alt"}]
  /\ ret \in [Task -> Int]
  /\ got \in [Task -> Value \cup {nil}]

LEMMA TypeParts ==
  /\ TypeOK <=> SchedTypeOK /\ RingOK /\ TaskOK
  /\ TypeOK' <=> SchedTypeOK' /\ RingOK' /\ TaskOK'
BY DEF TypeOK, RingOK, TaskOK

(* Tasks start and stop running, but the same ones wait, on the same       *)
(* entries, and the buffers hold as much as before.                        *)
LEMMA SameWaiting ==
  ASSUME IInv, TypeOK', OnePlace', Settled', UNCHANGED <<arr, nbuf>>,
         \A t \in Task : (Waiting(t)' <=> Waiting(t)) /\ (Waiting(t) => alts'[t] = alts[t])
  PROVE  IInv'
<1>1. QueuesExact'
  <2>1. ASSUME NEW c \in Chan, NEW op \in Op, NEW p
        PROVE  p \in arr'[c][op] <=>
                 \E t \in Task : Waiting(t)' /\ p \in entries(t, alts'[t], c, op)
    <3>1. p \in arr[c][op] <=> \E t \in Task : Waiting(t) /\ p \in entries(t, alts[t], c, op)
      BY InArr DEF IInv
    <3>2. \A t \in Task : Waiting(t) => alts'[t] = alts[t]
      OBVIOUS
    <3>3. \A t \in Task : Waiting(t)' <=> Waiting(t)
      OBVIOUS
    <3> HIDE DEF Waiting
    <3> QED BY <3>1, <3>2, <3>3
  <2> QED BY <2>1, ArrExact
<1>2. NoMissedRendezvous'
  BY DEF IInv, NoMissedRendezvous
<1> QED BY <1>1, <1>2 DEF IInv

(* In the initial state all tasks are ready and nobody waits. *)
LEMMA InitInv == Init => IInv
<1> SUFFICES ASSUME Init
             PROVE  IInv
  OBVIOUS
<1>1. PICK order \in Bijection(1..Cardinality(Task), Task) :
        lists = [[l \in List |-> <<>>] EXCEPT ![RunQ] = order]
  BY DEF Init, SchedInit
<1>2. /\ lists \in [List -> Seq(Task)] /\ Disjoint(lists) /\ Listed(lists) = Task
      /\ \A l \in List \ {RunQ} : lists[l] = <<>>
  <2>1. /\ lists = [l \in List |-> lists[l]] /\ lists[RunQ] = order
        /\ \A l \in List \ {RunQ} : lists[l] = <<>>
    BY <1>1, SchedAssumption
  <2> QED BY <2>1, InitialLists, SchedAssumption
<1>3. SchedTypeOK
  BY <1>2 DEF Init, SchedInit, SchedTypeOK
<1>4. RingOK
  BY ChannelAssumption DEF Init, RingOK
<1>5. TaskOK
  BY DEF Init, TaskOK
<1>6. OnePlace
  BY <1>2, TasklistAssumption DEF Init, SchedInit, OnePlace, Waiting
<1>7. QueuesExact
  <2>1. \A t \in Task : ~Waiting(t)
    BY DEF Init, Waiting
  <2>2. \A c \in Chan, op \in Op : arr[c][op] = {}
    BY DEF Init
  <2> HIDE DEF Waiting
  <2> QED BY <1>6, <2>1, <2>2 DEF QueuesExact
<1>8. NoMissedRendezvous
  BY DEF Init, NoMissedRendezvous, Op
<1>9. Settled
  BY <1>2 DEF Init, SchedInit, Settled
<1> QED BY <1>3, <1>4, <1>5, <1>7, <1>8, <1>9, TypeParts DEF IInv

-----------------------------------------------------------------------------
(* The scheduler dispatches a task or finds nobody ready (task.c:414-442). *)
LEMMA ScheduleKeeps ==
  ASSUME IInv, Schedule
  PROVE  IInv' /\ \A t \in Task : Waiting(t)' <=> Waiting(t)
<1> USE TasklistAssumption, SchedAssumption
<1>1. /\ UNCHANGED <<arr, nbuf, off, buf, alts, xalt, pc, ret, got>>
      /\ prog = "running" /\ taskrunning = nil
  BY DEF Schedule, Dispatch, Stall, Running, chanvars
<1>2. RingOK' /\ TaskOK'
  BY <1>1, TypeParts DEF IInv, RingOK, TaskOK
<1>3. /\ lists \in [List -> Seq(Task)] /\ Disjoint(lists)
      /\ Task = Listed(lists) \cup {t \in Task : Waiting(t)}
      /\ \A l \in List \ {RunQ} : lists[l] = <<>>
  BY <1>1 DEF IInv, TypeOK, SchedTypeOK, QueuesExact, OnePlace, Settled
<1>4. CASE Dispatch
  <2> DEFINE h == Head(lists[RunQ])
  <2>1. lists[RunQ] # <<>> /\ taskrunning' = h /\ lists' = deltask(lists, RunQ) /\ prog' = prog
    BY <1>4 DEF Dispatch
  <2>2. /\ h \in Task /\ h \in On(lists, RunQ) /\ h \in Listed(lists)
        /\ lists' \in [List -> Seq(Task)] /\ Disjoint(lists')
        /\ On(lists', RunQ) = On(lists, RunQ) \ {h}
        /\ \A m \in List \ {RunQ} : lists'[m] = lists[m]
        /\ Listed(lists') = Listed(lists) \ {h}
    BY <1>3, <2>1, DelTask
  <2> HIDE DEF h
  <2>3. \A t \in Task : Waiting(t)' <=> Waiting(t)
    BY <1>1, <2>1, <2>2 DEF Waiting
  <2>4. ~Waiting(h)
    BY <2>2 DEF Waiting
  <2>5. OnePlace'
    <3> HIDE DEF Waiting
    <3> QED BY <1>3, <2>1, <2>2, <2>3, <2>4 DEF OnePlace
  <2>6. TypeOK'
    BY <1>1, <1>2, <2>1, <2>2, TypeParts DEF SchedTypeOK
  <2>7. Settled'
    BY <1>1, <1>3, <2>1, <2>2 DEF Settled
  <2> HIDE DEF Waiting
  <2> QED BY <1>1, <2>3, <2>5, <2>6, <2>7, SameWaiting
<1>5. CASE Stall
  <2>1. lists[RunQ] = <<>> /\ lists' = lists /\ taskrunning' = taskrunning /\ prog' = "stalled"
    BY <1>5 DEF Stall
  <2>2. \A t \in Task : Waiting(t)' <=> Waiting(t)
    BY <1>1, <2>1 DEF Waiting
  <2>3. OnePlace'
    <3> HIDE DEF Waiting
    <3> QED BY <1>1, <2>1, <2>2 DEF IInv, QueuesExact, OnePlace
  <2>4. TypeOK'
    BY <1>1, <1>2, <1>3, <2>1, TypeParts DEF SchedTypeOK
  <2>5. Settled'
    BY <1>1, <1>3, <2>1 DEF Settled
  <2> HIDE DEF Waiting
  <2> QED BY <1>1, <2>2, <2>3, <2>4, <2>5, SameWaiting
<1> QED BY <1>4, <1>5 DEF Schedule

(* taskyield outside of chanalt (task.c:153-162). *)
LEMMA YieldKeeps ==
  ASSUME IInv, NEW t \in Task, Yield(t)
  PROVE  IInv' /\ \A u \in Task : Waiting(u)' <=> Waiting(u)
<1> USE TasklistAssumption, SchedAssumption
<1>1. /\ UNCHANGED <<arr, nbuf, off, buf, alts, xalt, pc, ret, got>>
      /\ prog = "running" /\ taskrunning = t /\ pc[t] = "user"
      /\ lists' = addtask(lists, RunQ, t) /\ taskrunning' = nil /\ prog' = prog
  BY DEF Yield, taskyield, taskready, taskswitch, Running, chanvars
<1>2. RingOK' /\ TaskOK'
  BY <1>1, TypeParts DEF IInv, RingOK, TaskOK
<1>3. /\ lists \in [List -> Seq(Task)] /\ Disjoint(lists) /\ t \notin Listed(lists)
      /\ Task \ {t} = Listed(lists) \cup {u \in Task : Waiting(u)}
      /\ \A l \in List \ {RunQ} : lists[l] = <<>>
  BY <1>1 DEF IInv, TypeOK, SchedTypeOK, QueuesExact, OnePlace, Settled
<1>4. /\ lists' \in [List -> Seq(Task)] /\ Disjoint(lists')
      /\ On(lists', RunQ) = On(lists, RunQ) \cup {t}
      /\ \A m \in List \ {RunQ} : lists'[m] = lists[m]
      /\ Listed(lists') = Listed(lists) \cup {t}
  BY <1>1, <1>3, AddTask
<1>5. \A u \in Task : Waiting(u)' <=> Waiting(u)
  BY <1>1, <1>4 DEF Waiting
<1>6. Listed(lists') \subseteq Task
  BY <1>4, ListedAreTasks
<1> HIDE DEF Waiting
<1>7. OnePlace'
  BY <1>1, <1>3, <1>4, <1>5, <1>6 DEF OnePlace
<1>8. TypeOK'
  BY <1>1, <1>2, <1>4, TypeParts DEF SchedTypeOK
<1>9. Settled'
  BY <1>1, <1>3, <1>4 DEF Settled
<1> QED BY <1>1, <1>5, <1>7, <1>8, <1>9, SameWaiting

(* A chanalt whose entry somebody executed returns (channel.c:335-344). *)
LEMMA ResumeKeeps ==
  ASSUME IInv, NEW t \in Task, chanalt_resume(t)
  PROVE  IInv' /\ \A u \in Task : Waiting(u)' <=> Waiting(u)
<1>1. /\ UNCHANGED <<lists, taskrunning, prog, arr, nbuf, off, buf, got>>
      /\ taskrunning = t
      /\ ret' = [ret EXCEPT ![t] = xalt[t]] /\ pc' = [pc EXCEPT ![t] = "user"]
      /\ alts' = [alts EXCEPT ![t] = <<>>] /\ xalt' = [xalt EXCEPT ![t] = 1]
  BY DEF chanalt_resume, Running, schedvars, ringvars
<1>2. SchedTypeOK' /\ RingOK'
  BY <1>1, TypeParts DEF IInv, RingOK, SchedTypeOK
<1>3. TaskOK'
  BY <1>1, TypeParts DEF IInv, TaskOK
<1>4. \A u \in Task : Waiting(u)' <=> Waiting(u)
  BY <1>1, TypeParts DEF IInv, TaskOK, Waiting
<1>5. \A u \in Task : Waiting(u) => alts'[u] = alts[u]
  BY <1>1, TypeParts DEF IInv, TaskOK, Waiting
<1> HIDE DEF Waiting
<1>6. OnePlace'
  BY <1>1, <1>4 DEF IInv, QueuesExact, OnePlace
<1>7. Settled'
  BY <1>1 DEF IInv, Settled
<1> QED BY <1>1, <1>2, <1>3, <1>4, <1>5, <1>6, <1>7, SameWaiting, TypeParts

(* A chanalt that may not wait gives up (channel.c:323-325). *)
LEMMA GiveupKeeps ==
  ASSUME IInv, NEW t \in Task, chanalt_giveup(t)
  PROVE  IInv' /\ \A u \in Task : Waiting(u)' <=> Waiting(u)
<1>1. /\ UNCHANGED <<lists, taskrunning, prog, arr, nbuf, off, buf, alts, xalt, pc>>
      /\ ret' = [ret EXCEPT ![t] = -1] /\ got' = [got EXCEPT ![t] = nil]
  BY DEF chanalt_giveup, schedvars, ringvars
<1>2. SchedTypeOK' /\ RingOK'
  BY <1>1, TypeParts DEF IInv, RingOK, SchedTypeOK
<1>3. TaskOK'
  BY <1>1, TypeParts DEF IInv, TaskOK
<1>4. \A u \in Task : Waiting(u)' <=> Waiting(u)
  BY <1>1 DEF Waiting
<1> HIDE DEF Waiting
<1>5. OnePlace'
  BY <1>1, <1>4 DEF IInv, QueuesExact, OnePlace
<1>6. Settled'
  BY <1>1 DEF IInv, Settled
<1> QED BY <1>1, <1>2, <1>3, <1>4, <1>5, <1>6, SameWaiting, TypeParts

(* A chanalt none of whose entries can be executed waits on all of them    *)
(* (channel.c:327-335).                                                    *)
LEMMA WaitKeeps ==
  ASSUME IInv, NEW t \in Task, NEW al \in Seq(Alt), Running(t), pc[t] = "user",
         \A i \in DOMAIN al : ~altcanexec(al[i]), chanalt_wait(t, al)
  PROVE  /\ IInv'
         /\ Waiting(t)'
         /\ \A u \in Task \ {t} : Waiting(u)' <=> Waiting(u)
<1> USE TasklistAssumption, SchedAssumption
<1>1. /\ UNCHANGED <<lists, prog, nbuf, off, buf>>
      /\ taskrunning = t /\ taskrunning' = nil /\ prog = "running"
      /\ alts' = [alts EXCEPT ![t] = al] /\ xalt' = [xalt EXCEPT ![t] = 1]
      /\ pc' = [pc EXCEPT ![t] = "alt"] /\ ret' = [ret EXCEPT ![t] = 0]
      /\ got' = [got EXCEPT ![t] = nil]
  BY DEF chanalt_wait, Running, taskswitch, ringvars
<1>2. arr' = [c \in Chan |-> [op \in Op |-> arr[c][op] \cup entries(t, al, c, op)]]
  BY DEF chanalt_wait, altqueue
<1>3. TaskOK
  BY TypeParts DEF IInv
<1>4. SchedTypeOK' /\ RingOK'
  BY <1>1, TypeParts DEF IInv, RingOK, SchedTypeOK
<1>5. TaskOK'
  <2>1. ASSUME NEW c \in Chan, NEW op \in Op
        PROVE  entries(t, al, c, op) \in SUBSET (Task \X Nat)
    <3>1. DOMAIN al = 1..Len(al) /\ Len(al) \in Nat
      OBVIOUS
    <3>2. {i \in DOMAIN al : al[i].c = c /\ al[i].op = op} \subseteq Nat
      BY <3>1
    <3> QED BY <3>2 DEF entries
  <2>2. \A c \in Chan, op \in Op : arr[c][op] \in SUBSET (Task \X Nat)
    BY <1>3 DEF TaskOK
  <2>3. arr' \in [Chan -> [Op -> SUBSET (Task \X Nat)]]
    <3>1. \A c \in Chan, op \in Op :
            arr[c][op] \cup entries(t, al, c, op) \in SUBSET (Task \X Nat)
      BY <2>1, <2>2, Zenon
    <3> QED BY <1>2, <3>1, Zenon
  <2>4. alts' \in [Task -> Seq(Alt)]
    BY <1>1, <1>3 DEF TaskOK
  <2>5. xalt' \in [Task -> Nat] /\ pc' \in [Task -> {"user", "alt"}]
    BY <1>1, <1>3 DEF TaskOK
  <2>6. ret' \in [Task -> Int] /\ got' \in [Task -> Value \cup {nil}]
    BY <1>1, <1>3 DEF TaskOK
  <2> QED BY <2>3, <2>4, <2>5, <2>6 DEF TaskOK
<1>6. /\ t \notin Listed(lists) /\ Disjoint(lists)
      /\ Task \ {t} = Listed(lists) \cup {u \in Task : Waiting(u)}
      /\ \A l \in List \ {RunQ} : lists[l] = <<>>
  BY <1>1 DEF IInv, QueuesExact, OnePlace, Settled
<1>7. t \notin On(lists, RunQ)
  BY <1>6, InListed
<1>8. Waiting(t)' /\ ~Waiting(t)
  BY <1>1, <1>3, <1>7 DEF Waiting, TaskOK
<1>9. \A u \in Task \ {t} : Waiting(u)' <=> Waiting(u)
  BY <1>1, <1>3 DEF Waiting, TaskOK
<1>10. \A u \in Task \ {t} : alts'[u] = alts[u]
  BY <1>1, <1>3 DEF TaskOK
<1>11. alts'[t] = al
  BY <1>1, <1>3 DEF TaskOK
<1> HIDE DEF Waiting
<1>12. OnePlace'
  <2>1. {u \in Task : Waiting(u)'} = {u \in Task : Waiting(u)} \cup {t}
    BY <1>8, <1>9
  <2>2. Listed(lists') = Listed(lists) /\ nil \notin Listed(lists)
    BY <1>1, TypeParts, ListedAreTasks DEF IInv, SchedTypeOK
  <2> QED BY <1>1, <1>6, <2>1, <2>2 DEF OnePlace
<1>13. ASSUME NEW c \in Chan, NEW op \in Op, NEW p
       PROVE  p \in arr'[c][op] <=>
                \E u \in Task : Waiting(u)' /\ p \in entries(u, alts'[u], c, op)
  <2>1. p \in arr'[c][op] <=> p \in arr[c][op] \/ p \in entries(t, al, c, op)
    BY <1>2
  <2>2. p \in arr[c][op] <=> \E u \in Task : Waiting(u) /\ p \in entries(u, alts[u], c, op)
    BY InArr DEF IInv
  <2> QED BY <1>8, <1>9, <1>10, <1>11, <2>1, <2>2
<1>14. QueuesExact'
  BY <1>12, <1>13, ArrExact
<1>15. ASSUME NEW c \in Chan, NEW op \in Op, NEW p \in arr'[c][op], p \notin arr[c][op]
       PROVE  p[1] = t /\ \E i \in DOMAIN al : /\ al[i].c = c /\ al[i].op = op
                                             /\ al[i] \in Alt /\ ~altcanexec(al[i])
  <2>1. p \in entries(t, al, c, op)
    BY <1>2, <1>15
  <2>2. PICK i \in DOMAIN al : p = <<t, i>> /\ al[i].c = c /\ al[i].op = op
    BY ONLY <2>1, InEntries
  <2>3. p[1] = t /\ al[i] \in Alt
    BY <2>2
  <2>4. ~altcanexec(al[i])
    OBVIOUS
  <2> HIDE DEF altcanexec
  <2> QED BY <2>2, <2>3, <2>4, Zenon
<1>16. NoMissedRendezvous'
  <2> SUFFICES ASSUME NEW c \in Chan
               PROVE  /\ arr'[c]["CHANRCV"] # {} => nbuf[c] = 0
                      /\ arr'[c]["CHANSND"] # {} => nbuf[c] = bufsize[c]
                      /\ \A p \in arr'[c]["CHANSND"], r \in arr'[c]["CHANRCV"] : p[1] = r[1]
    BY <1>1 DEF NoMissedRendezvous
  <2>1. /\ arr[c]["CHANRCV"] # {} => nbuf[c] = 0
        /\ arr[c]["CHANSND"] # {} => nbuf[c] = bufsize[c]
        /\ \A p \in arr[c]["CHANSND"], r \in arr[c]["CHANRCV"] : p[1] = r[1]
    BY DEF IInv, NoMissedRendezvous
  <2>2. "CHANSND" \in Op /\ "CHANRCV" \in Op
    BY DEF Op
  <2>3. nbuf[c] \in Nat /\ bufsize[c] \in Nat /\ nbuf[c] <= bufsize[c]
    BY ChannelAssumption, TypeParts DEF IInv, RingOK
  (* What the new entries say about the channel. *)
  <2>4. ASSUME NEW p \in arr'[c]["CHANRCV"], p \notin arr[c]["CHANRCV"]
        PROVE  p[1] = t /\ nbuf[c] = 0 /\ (bufsize[c] = 0 => arr[c]["CHANSND"] = {})
    <3>1. PICK i \in DOMAIN al : al[i].c = c /\ al[i].op = "CHANRCV" /\ ~altcanexec(al[i])
      BY <1>15, <2>2, <2>4
    <3>2. p[1] = t
      BY <1>15, <2>2, <2>4
    <3> QED BY <2>3, <3>1, <3>2 DEF altcanexec, otherop
  <2>5. ASSUME NEW p \in arr'[c]["CHANSND"], p \notin arr[c]["CHANSND"]
        PROVE  p[1] = t /\ nbuf[c] = bufsize[c] /\ (bufsize[c] = 0 => arr[c]["CHANRCV"] = {})
    <3>1. PICK i \in DOMAIN al : al[i].c = c /\ al[i].op = "CHANSND" /\ ~altcanexec(al[i])
      BY <1>15, <2>2, <2>5
    <3>2. p[1] = t
      BY <1>15, <2>2, <2>5
    <3> QED BY <2>3, <3>1, <3>2 DEF altcanexec, otherop
  <2>6. arr'[c]["CHANRCV"] # {} => nbuf[c] = 0
    BY <2>1, <2>4
  <2>7. arr'[c]["CHANSND"] # {} => nbuf[c] = bufsize[c]
    BY <2>1, <2>5
  <2>8. ASSUME NEW p \in arr'[c]["CHANSND"], NEW r \in arr'[c]["CHANRCV"]
        PROVE  p[1] = r[1]
    <3>1. bufsize[c] = 0
      BY <2>6, <2>7
    <3> QED BY <2>1, <2>4, <2>5, <3>1
  <2> QED BY <2>6, <2>7, <2>8
<1>17. Settled'
  BY <1>1, <1>6 DEF Settled
<1> QED BY <1>4, <1>5, <1>8, <1>9, <1>14, <1>16, <1>17, TypeParts DEF IInv

-----------------------------------------------------------------------------
(* What an entry that nobody waits for does to the buffer: altcanexec made *)
(* sure that there is room, or a value.                                    *)
LEMMA AloneCopies ==
  ASSUME IInv, NEW t \in Task, NEW a \in Alt, altcanexec(a),
         arr[a.c][otherop(a.op)] = {}, altexec_alone(t, a)
  PROVE  /\ RingOK'
         /\ got' \in [Task -> Value \cup {nil}]
         /\ \/ /\ a.op = "CHANSND"
               /\ nbuf[a.c] < bufsize[a.c] /\ nbuf' = [nbuf EXCEPT ![a.c] = nbuf[a.c] + 1]
               /\ Contents' = [Contents EXCEPT ![a.c] = Append(Contents[a.c], source(a))]
               /\ got' = [got EXCEPT ![t] = nil]
            \/ /\ a.op = "CHANRCV"
               /\ nbuf[a.c] > 0 /\ nbuf' = [nbuf EXCEPT ![a.c] = nbuf[a.c] - 1]
               /\ Contents' = [Contents EXCEPT ![a.c] = Tail(Contents[a.c])]
               /\ got' = [got EXCEPT ![t] = target(a, Head(Contents[a.c]))]
<1>1. RingOK /\ TaskOK
  BY TypeParts DEF IInv
<1>2. a.c \in Chan /\ a.op \in {"CHANSND", "CHANRCV"}
  BY DEF altcanexec, Alt, Op
<1>3. bufsize[a.c] # 0
  BY DEF altcanexec
<1>4. CASE a.op = "CHANSND"
  <2>1. nbuf[a.c] < bufsize[a.c]
    BY <1>3, <1>4 DEF altcanexec
  <2>2. altcopy(a.c, a, nil) /\ got' = [got EXCEPT ![t] = nil]
    BY <1>4 DEF altexec_alone
  <2>3. /\ RingOK' /\ nbuf' = [nbuf EXCEPT ![a.c] = nbuf[a.c] + 1]
        /\ Contents' = [Contents EXCEPT ![a.c] = Append(Contents[a.c], source(a))]
    BY ONLY <1>1, <1>2, <2>1, <2>2, a \in Alt, CopyIn
  <2>4. got' \in [Task -> Value \cup {nil}]
    BY <1>1, <2>2 DEF TaskOK
  <2> QED BY <1>4, <2>1, <2>2, <2>3, <2>4
<1>5. CASE a.op = "CHANRCV"
  <2>1. nbuf[a.c] > 0
    BY <1>3, <1>5 DEF altcanexec
  <2>2. altcopy(a.c, nil, a) /\ got' = [got EXCEPT ![t] = target(a, moved(a.c, nil))]
    BY <1>5 DEF altexec_alone
  <2>3. /\ RingOK' /\ nbuf' = [nbuf EXCEPT ![a.c] = nbuf[a.c] - 1]
        /\ Contents' = [Contents EXCEPT ![a.c] = Tail(Contents[a.c])]
        /\ moved(a.c, nil) = Head(Contents[a.c])
        /\ moved(a.c, nil) \in Value
    BY ONLY <1>1, <1>2, <2>1, <2>2, a \in Alt, CopyOut
  <2>4. target(a, moved(a.c, nil)) \in Value \cup {nil}
    BY <2>3 DEF target
  <2>5. got' \in [Task -> Value \cup {nil}]
    BY <1>1, <2>2, <2>4 DEF TaskOK
  <2> QED BY <1>5, <2>1, <2>2, <2>3, <2>5
<1> QED BY <1>2, <1>4, <1>5

(* Nobody waits on the other side: only the buffer changes                 *)
(* (channel.c:261-263).                                                    *)
LEMMA AloneKeeps ==
  ASSUME IInv, NEW t \in Task, NEW a \in Alt, altcanexec(a),
         arr[a.c][otherop(a.op)] = {}, altexec_alone(t, a),
         NEW i \in Nat, ret' = [ret EXCEPT ![t] = i], UNCHANGED <<alts, pc>>
  PROVE  IInv' /\ \A u \in Task : Waiting(u)' <=> Waiting(u)
<1>1. UNCHANGED <<lists, taskrunning, prog, arr, xalt, alts, pc>>
  BY DEF altexec_alone, schedvars
<1>2. RingOK' /\ got' \in [Task -> Value \cup {nil}]
  BY AloneCopies
<1>3. TypeOK'
  <2>1. SchedTypeOK' /\ TaskOK'
    BY <1>1, <1>2, TypeParts DEF IInv, TaskOK, SchedTypeOK
  <2> QED BY <1>2, <2>1, TypeParts
<1>4. \A u \in Task : Waiting(u)' <=> Waiting(u)
  BY <1>1 DEF Waiting
<1>5. QueuesExact'
  <2> HIDE DEF Waiting
  <2>1. OnePlace'
    BY <1>1, <1>4 DEF IInv, QueuesExact, OnePlace
  <2>2. ASSUME NEW c \in Chan, NEW op \in Op, NEW p
        PROVE  p \in arr'[c][op] <=>
                 \E u \in Task : Waiting(u)' /\ p \in entries(u, alts'[u], c, op)
    <3>1. p \in arr[c][op] <=> \E u \in Task : Waiting(u) /\ p \in entries(u, alts[u], c, op)
      BY InArr DEF IInv
    <3> QED BY <1>1, <1>4, <3>1
  <2> QED BY <2>1, <2>2, ArrExact
<1>6. NoMissedRendezvous'
  <2> SUFFICES ASSUME NEW c \in Chan
               PROVE  /\ arr[c]["CHANRCV"] # {} => nbuf'[c] = 0
                      /\ arr[c]["CHANSND"] # {} => nbuf'[c] = bufsize[c]
                      /\ \A p \in arr[c]["CHANSND"], r \in arr[c]["CHANRCV"] : p[1] = r[1]
    BY <1>1 DEF NoMissedRendezvous
  <2>1. /\ arr[c]["CHANRCV"] # {} => nbuf[c] = 0
        /\ arr[c]["CHANSND"] # {} => nbuf[c] = bufsize[c]
        /\ \A p \in arr[c]["CHANSND"], r \in arr[c]["CHANRCV"] : p[1] = r[1]
    BY DEF IInv, NoMissedRendezvous
  <2>2. nbuf \in [Chan -> Nat] /\ bufsize[c] \in Nat
    BY ChannelAssumption, TypeParts DEF IInv, RingOK
  <2>3. CASE /\ a.op = "CHANSND" /\ nbuf[a.c] < bufsize[a.c]
             /\ nbuf' = [nbuf EXCEPT ![a.c] = nbuf[a.c] + 1]
    <3>1. arr[a.c]["CHANRCV"] = {}
      BY <2>3 DEF otherop
    <3>2. c # a.c => nbuf'[c] = nbuf[c]
      BY <2>2, <2>3
    <3> QED BY <2>1, <2>2, <2>3, <3>1, <3>2
  <2>4. CASE /\ a.op = "CHANRCV" /\ nbuf[a.c] > 0
             /\ nbuf' = [nbuf EXCEPT ![a.c] = nbuf[a.c] - 1]
    <3>1. arr[a.c]["CHANSND"] = {}
      BY <2>4 DEF otherop
    <3>2. c # a.c => nbuf'[c] = nbuf[c]
      BY <2>2, <2>4
    <3> QED BY <2>1, <2>2, <2>4, <3>1, <3>2
  <2> QED BY <2>3, <2>4, AloneCopies
<1>7. Settled'
  BY <1>1 DEF IInv, Settled
<1> QED BY <1>3, <1>4, <1>5, <1>6, <1>7 DEF IInv

(* An entry in a waiting array belongs to a task that waits, and all       *)
(* entries of that task are queued: altdequeue does not abort.             *)
LEMMA Waiter ==
  ASSUME IInv, NEW c \in Chan, NEW op \in Op, NEW p \in arr[c][op]
  PROVE  /\ p = <<p[1], p[2]>> /\ p[1] \in Task /\ p[2] \in Nat
         /\ Waiting(p[1]) /\ p[1] # taskrunning /\ p[1] \notin Listed(lists)
         /\ p[2] \in DOMAIN alts[p[1]] /\ alts[p[1]][p[2]] \in Alt
         /\ alts[p[1]][p[2]].c = c /\ alts[p[1]][p[2]].op = op
         /\ altallqueued(p[1])
<1>1. PICK u \in Task : Waiting(u) /\ p \in entries(u, alts[u], c, op)
  BY InArr DEF IInv
<1>2. PICK i \in DOMAIN alts[u] : p = <<u, i>> /\ alts[u][i].c = c /\ alts[u][i].op = op
  <2>1. p \in entries(u, alts[u], c, op)
    BY <1>1
  <2> QED BY ONLY <2>1, InEntries
<1>3. p[1] = u /\ p[2] = i /\ p = <<p[1], p[2]>>
  BY <1>2
<1>4. TaskOK
  BY TypeParts DEF IInv
<1>5. alts[u] \in Seq(Alt)
  BY <1>4 DEF TaskOK
<1>6. i \in Nat /\ alts[u][i] \in Alt
  BY <1>5
<1>7. u # taskrunning /\ u \notin On(lists, RunQ)
  BY <1>1 DEF Waiting
<1>8. u \notin Listed(lists)
  <2>1. lists \in [List -> Seq(Task)] /\ \A l \in List \ {RunQ} : lists[l] = <<>>
    BY TypeParts DEF IInv, SchedTypeOK, Settled
  <2>2. \A l \in List \ {RunQ} : On(lists, l) = {}
    BY <2>1, EmptyList
  <2> QED BY <1>7, <2>2, InListed
<1>9. altallqueued(u)
  <2> HIDE DEF Waiting
  <2>1. ASSUME NEW d \in Chan, NEW o \in Op
        PROVE  entries(u, alts[u], d, o) \subseteq arr[d][o]
    <3>1. \A x : x \in entries(u, alts[u], d, o) => x \in arr[d][o]
      BY <1>1, InArr DEF IInv
    <3> QED BY <3>1
  <2> QED BY <2>1 DEF altallqueued
<1> HIDE DEF Waiting, altallqueued
<1> QED BY <1>1, <1>2, <1>3, <1>6, <1>7, <1>8, <1>9

(* What two entries that meet do: the sender's value goes through the FIFO *)
(* and the receiver gets its head.                                         *)
LEMMA OtherCopies ==
  ASSUME IInv, NEW t \in Task, NEW a \in Alt, a.op \in Op,
         NEW p \in arr[a.c][otherop(a.op)], altexec_other(t, a, p)
  PROVE  LET u == p[1]
             b == alts[u][p[2]]
             s == IF a.op = "CHANSND" THEN a ELSE b
             r == IF a.op = "CHANSND" THEN b ELSE a
             x == target(r, Head(Append(Contents[a.c], source(s))))
         IN  /\ RingOK' /\ nbuf' = nbuf
             /\ Contents' = [Contents EXCEPT ![a.c] = Tail(Append(Contents[a.c], source(s)))]
             /\ x \in Value \cup {nil}
             /\ got' = IF a.op = "CHANSND" THEN [got EXCEPT ![t] = nil, ![u] = x]
                                           ELSE [got EXCEPT ![t] = x, ![u] = nil]
             /\ altalldequeue(u)
             /\ xalt' = [xalt EXCEPT ![u] = p[2]]
             /\ lists' = addtask(lists, RunQ, u)
             /\ UNCHANGED <<taskrunning, prog>>
<1> DEFINE u == p[1]
           b == alts[u][p[2]]
           s == IF a.op = "CHANSND" THEN a ELSE b
           r == IF a.op = "CHANSND" THEN b ELSE a
           x == target(r, moved(a.c, s))
<1>1. a.c \in Chan /\ otherop(a.op) \in Op
  BY DEF Alt, Op, otherop
<1>2. b \in Alt /\ altallqueued(u)
  BY <1>1, Waiter
<1>3. /\ altcopy(a.c, s, r)
      /\ altalldequeue(u)
      /\ xalt' = [xalt EXCEPT ![u] = p[2]]
      /\ lists' = addtask(lists, RunQ, u)
      /\ got' = IF a.op = "CHANSND" THEN [got EXCEPT ![t] = nil, ![u] = x]
                                    ELSE [got EXCEPT ![t] = x, ![u] = nil]
      /\ UNCHANGED <<taskrunning, prog>>
  BY <1>2 DEF altexec_other, taskready
<1>4. s \in Alt /\ r \in Alt
  BY <1>2
<1> HIDE DEF s, r
<1>5. RingOK
  BY TypeParts DEF IInv
<1>6. /\ RingOK' /\ nbuf' = nbuf
      /\ Contents' = [Contents EXCEPT ![a.c] = Tail(Append(Contents[a.c], source(s)))]
      /\ moved(a.c, s) = Head(Append(Contents[a.c], source(s)))
      /\ moved(a.c, s) \in Value
  BY ONLY <1>1, <1>3, <1>4, <1>5, CopyThrough
<1>7. x \in Value \cup {nil}
  BY <1>6 DEF target
<1>8. x = target(r, Head(Append(Contents[a.c], source(s))))
  BY <1>6
<1> HIDE DEF x
<1> QED BY <1>3, <1>6, <1>7, <1>8 DEF s, r

(* Somebody waits on the other side: that call is completed, all its       *)
(* entries leave the waiting arrays, and its task is ready                 *)
(* (channel.c:233-260).                                                    *)
LEMMA OtherKeeps ==
  ASSUME IInv, NEW t \in Task, Running(t), NEW a \in Alt, a.op \in Op,
         NEW p \in arr[a.c][otherop(a.op)], altexec_other(t, a, p),
         NEW i \in Nat, ret' = [ret EXCEPT ![t] = i], UNCHANGED <<alts, pc>>
  PROVE  /\ IInv'
         /\ ~Waiting(p[1])'
         /\ \A u \in Task \ {p[1]} : Waiting(u)' <=> Waiting(u)
<1> USE TasklistAssumption, SchedAssumption
<1> DEFINE w == p[1]
<1>1. a.c \in Chan /\ otherop(a.op) \in Op
  BY DEF Alt, Op, otherop
<1>2. /\ w \in Task /\ p[2] \in Nat /\ Waiting(w) /\ w # taskrunning
      /\ w \notin Listed(lists)
  BY <1>1, Waiter
<1>3. /\ RingOK' /\ nbuf' = nbuf
      /\ altalldequeue(w)
      /\ xalt' = [xalt EXCEPT ![w] = p[2]]
      /\ lists' = addtask(lists, RunQ, w)
      /\ UNCHANGED <<taskrunning, prog, alts, pc>>
  BY OtherCopies
<1>4. TaskOK /\ RingOK /\ SchedTypeOK
  BY TypeParts DEF IInv
<1>5. got' \in [Task -> Value \cup {nil}]
  <2>1. PICK x \in Value \cup {nil} :
          got' = IF a.op = "CHANSND" THEN [got EXCEPT ![t] = nil, ![w] = x]
                                     ELSE [got EXCEPT ![t] = x, ![w] = nil]
    BY OtherCopies
  <2> QED BY <1>2, <1>4, <2>1 DEF TaskOK
<1> HIDE DEF w
<1>6. arr' = [c \in Chan |-> [op \in Op |-> arr[c][op] \ entries(w, alts[w], c, op)]]
  BY <1>3 DEF altalldequeue
<1>7. TaskOK'
  <2>1. arr' \in [Chan -> [Op -> SUBSET (Task \X Nat)]]
    <3>1. \A c \in Chan, op \in Op :
            arr[c][op] \ entries(w, alts[w], c, op) \in SUBSET (Task \X Nat)
      BY <1>4 DEF TaskOK
    <3> QED BY <1>6, <3>1, Zenon
  <2>2. xalt' \in [Task -> Nat] /\ ret' \in [Task -> Int]
    BY <1>2, <1>3, <1>4 DEF TaskOK
  <2> QED BY <1>3, <1>4, <1>5, <2>1, <2>2 DEF TaskOK
<1>8. /\ Disjoint(lists) /\ taskrunning \notin Listed(lists)
      /\ Task \ {taskrunning} = Listed(lists) \cup {u \in Task : Waiting(u)}
      /\ \A l \in List \ {RunQ} : lists[l] = <<>>
  BY DEF IInv, QueuesExact, OnePlace, Settled
<1>9. /\ lists' \in [List -> Seq(Task)] /\ Disjoint(lists')
      /\ On(lists', RunQ) = On(lists, RunQ) \cup {w}
      /\ \A m \in List \ {RunQ} : lists'[m] = lists[m]
      /\ Listed(lists') = Listed(lists) \cup {w}
  BY <1>2, <1>3, <1>4, <1>8, AddTask DEF SchedTypeOK
<1>10. ~Waiting(w)' /\ \A u \in Task \ {w} : Waiting(u)' <=> Waiting(u)
  BY <1>3, <1>9 DEF Waiting
<1> HIDE DEF Waiting
<1>11. OnePlace'
  <2>1. {u \in Task : Waiting(u)'} = {u \in Task : Waiting(u)} \ {w}
    BY <1>10
  <2> QED BY <1>2, <1>3, <1>8, <1>9, <2>1 DEF OnePlace
<1>12. ASSUME NEW c \in Chan, NEW op \in Op, NEW x
       PROVE  x \in arr'[c][op] <=>
                \E u \in Task : Waiting(u)' /\ x \in entries(u, alts'[u], c, op)
  <2>1. x \in arr'[c][op] <=> x \in arr[c][op] /\ x \notin entries(w, alts[w], c, op)
    BY <1>6
  <2>2. x \in arr[c][op] <=> \E u \in Task : Waiting(u) /\ x \in entries(u, alts[u], c, op)
    BY InArr DEF IInv
  <2>3. \A u : x \in entries(u, alts[u], c, op) => x[1] = u
    BY DEF entries
  <2> QED BY <1>2, <1>3, <1>10, <2>1, <2>2, <2>3
<1>13. QueuesExact'
  BY <1>11, <1>12, ArrExact
<1>14. NoMissedRendezvous'
  <2>1. \A c \in Chan, op \in Op : arr'[c][op] \subseteq arr[c][op]
    BY <1>6
  <2>2. "CHANSND" \in Op /\ "CHANRCV" \in Op
    BY DEF Op
  <2> QED BY <1>3, <2>1, <2>2 DEF IInv, NoMissedRendezvous
<1>15. Settled' /\ SchedTypeOK'
  <2>1. prog = "running"
    BY DEF Running
  <2> QED BY <1>3, <1>4, <1>8, <1>9, <2>1 DEF Settled, SchedTypeOK
<1> QED BY <1>3, <1>7, <1>10, <1>13, <1>14, <1>15, TypeParts DEF IInv, w

-----------------------------------------------------------------------------
LEMMA CallsAreArrays == Calls \subseteq Seq(Alt)
<1>1. \A a \in [c : Chan, op : {"CHANSND"}, v : Sendv] : a \in Alt
  BY ChannelAssumption DEF Alt, Op
<1>2. \A a \in [c : Chan, op : {"CHANRCV"}, v : Recvv] : a \in Alt
  BY ChannelAssumption DEF Alt, Op
<1>3. \A a \in Alt : <<a>> \in Seq(Alt)
  OBVIOUS
<1> QED BY <1>1, <1>2, <1>3, ChannelAssumption DEF Calls

(* Every step of a task is a call of chanalt, its return, or a yield. *)
LEMMA TaskSteps ==
  ASSUME NEW t \in Task, TaskStep(t)
  PROVE  \/ \E al \in Calls, canblock \in BOOLEAN : chanalt(t, al, canblock)
         \/ chanalt_resume(t)
         \/ Yield(t)
<1>1. ASSUME NEW c \in Chan, NEW canblock \in BOOLEAN, send(t, c, canblock)
      PROVE  \E al \in Calls : chanalt(t, al, canblock)
  <2>1. PICK v \in Sendv : chanop(t, c, "CHANSND", v, canblock)
    BY <1>1 DEF send
  <2> DEFINE a == [c |-> c, op |-> "CHANSND", v |-> v]
  <2>2. chanalt(t, <<a>>, canblock)
    BY <2>1 DEF chanop
  <2>3. <<a>> \in Calls
    BY DEF Calls
  <2> QED BY <2>2, <2>3, Zenon
<1>2. ASSUME NEW c \in Chan, NEW canblock \in BOOLEAN, recv(t, c, canblock)
      PROVE  \E al \in Calls : chanalt(t, al, canblock)
  <2>1. PICK v \in Recvv : chanop(t, c, "CHANRCV", v, canblock)
    BY <1>2 DEF recv
  <2> DEFINE a == [c |-> c, op |-> "CHANRCV", v |-> v]
  <2>2. chanalt(t, <<a>>, canblock)
    BY <2>1 DEF chanop
  <2>3. <<a>> \in Calls
    BY DEF Calls
  <2> QED BY <2>2, <2>3, Zenon
<1>3. Alts \subseteq Calls
  BY DEF Calls
<1> QED BY <1>1, <1>2, <1>3, Zenon DEF TaskStep

(* chanalt up to its return or its switch: one of four things happens. *)
LEMMA ChanaltCases ==
  ASSUME NEW t \in Task, NEW al \in Seq(Alt), NEW canblock, chanalt(t, al, canblock)
  PROVE  \/ \E i \in DOMAIN al :
              /\ al[i] \in Alt /\ al[i].op \in Op /\ i \in Nat
              /\ altcanexec(al[i])
              /\ ret' = [ret EXCEPT ![t] = i]
              /\ UNCHANGED <<alts, pc>>
              /\ \/ arr[al[i].c][otherop(al[i].op)] = {} /\ altexec_alone(t, al[i])
                 \/ \E p \in arr[al[i].c][otherop(al[i].op)] : altexec_other(t, al[i], p)
         \/ (\A i \in DOMAIN al : ~altcanexec(al[i])) /\ chanalt_wait(t, al)
         \/ (\A i \in DOMAIN al : ~altcanexec(al[i])) /\ chanalt_giveup(t)
<1>1. ASSUME chanalt_exec(t, al)
      PROVE  \E i \in DOMAIN al :
              /\ al[i] \in Alt /\ al[i].op \in Op /\ i \in Nat
              /\ altcanexec(al[i])
              /\ ret' = [ret EXCEPT ![t] = i]
              /\ UNCHANGED <<alts, pc>>
              /\ \/ arr[al[i].c][otherop(al[i].op)] = {} /\ altexec_alone(t, al[i])
                 \/ \E p \in arr[al[i].c][otherop(al[i].op)] : altexec_other(t, al[i], p)
  <2>1. PICK i \in DOMAIN al : /\ altcanexec(al[i]) /\ altexec(t, al[i])
                               /\ ret' = [ret EXCEPT ![t] = i] /\ UNCHANGED <<alts, pc>>
    BY <1>1 DEF chanalt_exec
  <2>2. al[i] \in Alt /\ i \in Nat
    OBVIOUS
  <2>3. al[i].op \in Op
    BY <2>1, <2>2 DEF altcanexec, Alt
  <2>4. \/ arr[al[i].c][otherop(al[i].op)] = {} /\ altexec_alone(t, al[i])
        \/ \E p \in arr[al[i].c][otherop(al[i].op)] : altexec_other(t, al[i], p)
    BY <2>1, Zenon DEF altexec
  <2> QED BY <2>1, <2>2, <2>3, <2>4, Zenon
<1> QED BY <1>1, Zenon DEF chanalt

LEMMA ChanaltKeeps ==
  ASSUME IInv, NEW t \in Task, NEW al \in Seq(Alt), NEW canblock, chanalt(t, al, canblock)
  PROVE  IInv'
<1>1. Running(t) /\ pc[t] = "user"
  BY DEF chanalt
<1>2. ASSUME NEW i \in DOMAIN al, al[i] \in Alt, al[i].op \in Op, i \in Nat,
             altcanexec(al[i]), ret' = [ret EXCEPT ![t] = i], UNCHANGED <<alts, pc>>,
             arr[al[i].c][otherop(al[i].op)] = {}, altexec_alone(t, al[i])
      PROVE  IInv'
  BY <1>2, AloneKeeps
<1>3. ASSUME NEW i \in DOMAIN al, al[i] \in Alt, al[i].op \in Op, i \in Nat,
             ret' = [ret EXCEPT ![t] = i], UNCHANGED <<alts, pc>>,
             NEW p \in arr[al[i].c][otherop(al[i].op)], altexec_other(t, al[i], p)
      PROVE  IInv'
  BY <1>1, <1>3, OtherKeeps
<1>4. ASSUME \A i \in DOMAIN al : ~altcanexec(al[i]), chanalt_wait(t, al)
      PROVE  IInv'
  BY <1>1, <1>4, WaitKeeps
<1>5. ASSUME chanalt_giveup(t)
      PROVE  IInv'
  BY <1>5, GiveupKeeps
<1> QED BY <1>2, <1>3, <1>4, <1>5, ChanaltCases

LEMMA NextKeeps ==
  ASSUME IInv, [Next]_vars
  PROVE  IInv'
<1>1. CASE Schedule
  BY <1>1, ScheduleKeeps
<1>2. ASSUME NEW t \in Task, TaskStep(t)
      PROVE  IInv'
  <2>1. ASSUME NEW al \in Calls, NEW canblock \in BOOLEAN, chanalt(t, al, canblock)
        PROVE  IInv'
    <3>1. al \in Seq(Alt)
      BY CallsAreArrays
    <3> QED BY <2>1, <3>1, ChanaltKeeps
  <2> QED BY <1>2, <2>1, TaskSteps, ResumeKeeps, YieldKeeps
<1>3. CASE UNCHANGED vars
  <2>1. UNCHANGED <<lists, taskrunning, prog, arr, nbuf, off, buf, alts, xalt, pc, ret, got>>
    BY <1>3 DEF vars, schedvars, chanvars
  <2>2. RingOK' /\ TaskOK' /\ SchedTypeOK'
    BY <2>1, TypeParts DEF IInv, RingOK, TaskOK, SchedTypeOK
  <2>3. \A t \in Task : Waiting(t)' <=> Waiting(t)
    BY <2>1 DEF Waiting
  <2> HIDE DEF Waiting
  <2>4. OnePlace' /\ Settled'
    BY <2>1, <2>3 DEF IInv, QueuesExact, OnePlace, Settled
  <2> QED BY <2>1, <2>2, <2>3, <2>4, SameWaiting, TypeParts
<1> QED BY <1>1, <1>2, <1>3 DEF Next

(* The invariant of the channels holds for every set of tasks, channels,   *)
(* buffer sizes and calls.                                                 *)
THEOREM ChannelInvariant == Spec => []IInv
<1>1. Init => IInv
  BY InitInv
<1>2. IInv /\ [Next]_vars => IInv'
  BY NextKeeps
<1> QED BY <1>1, <1>2, PTL DEF Spec

(* Every variable keeps its type; in particular the ring indices stay in   *)
(* the buffer, for any buffer size (channel.c:164-231).                    *)
THEOREM ChannelTypeOK == Spec => []TypeOK
BY ChannelInvariant, PTL DEF IInv

(* The waiting arrays hold exactly the entries of the calls that wait, so  *)
(* altalldequeue never finds an entry missing (channel.c:118-150).         *)
THEOREM ChannelQueuesExact == Spec => [](QueuesExact /\ prog # "aborted")
<1>1. IInv => QueuesExact /\ prog # "aborted"
  BY DEF IInv, Settled
<1> QED BY <1>1, ChannelInvariant, PTL

(* Nobody waits for what is there already (channel.c:79-106, 266-335). *)
THEOREM ChannelNoMissedRendezvous == Spec => []NoMissedRendezvous
BY ChannelInvariant, PTL DEF IInv

(* The program stops with "no runnable tasks!" only in a real deadlock.    *)
THEOREM ChannelStallIsDeadlock == Spec => []StallIsDeadlock
<1>1. IInv => StallIsDeadlock
  <2> SUFFICES ASSUME IInv, prog = "stalled"
               PROVE  /\ \A t \in Task : pc[t] = "alt"
                      /\ \A t, u \in Task : \A i \in DOMAIN alts[t], j \in DOMAIN alts[u] :
                           t # u /\ alts[t][i].c = alts[u][j].c /\ alts[t][i].op = "CHANSND"
                             => alts[u][j].op # "CHANRCV"
    BY DEF StallIsDeadlock
  <2>1. taskrunning = nil /\ lists \in [List -> Seq(Task)] /\ \A l \in List : lists[l] = <<>>
    BY TypeParts DEF IInv, Settled, SchedTypeOK
  <2>2. Listed(lists) = {}
    BY <2>1, EmptyList, InListed
  <2>3. \A t \in Task : Waiting(t)
    <3> HIDE DEF Waiting
    <3> QED BY <2>1, <2>2, TasklistAssumption DEF IInv, QueuesExact, OnePlace
  <2>4. \A t \in Task : pc[t] = "alt"
    BY <2>3 DEF Waiting
  <2>5. ASSUME NEW t \in Task, NEW i \in DOMAIN alts[t], alts[t][i].op \in Op
        PROVE  alts[t][i].c \in Chan /\ <<t, i>> \in arr[alts[t][i].c][alts[t][i].op]
    <3>1. alts[t] \in Seq(Alt)
      BY TypeParts DEF IInv, TaskOK
    <3>2. alts[t][i].c \in Chan
      <4>1. alts[t][i] \in Alt
        BY <3>1
      <4> QED BY ONLY <4>1 DEF Alt
    <3>3. <<t, i>> \in entries(t, alts[t], alts[t][i].c, alts[t][i].op)
      BY InEntries, Zenon
    <3> HIDE DEF Waiting
    <3> QED BY <2>3, <2>5, <3>2, <3>3, InArr DEF IInv
  <2>6. ASSUME NEW t \in Task, NEW u \in Task,
               NEW i \in DOMAIN alts[t], NEW j \in DOMAIN alts[u],
               t # u, alts[t][i].c = alts[u][j].c, alts[t][i].op = "CHANSND",
               alts[u][j].op = "CHANRCV"
        PROVE  FALSE
    <3>1. <<t, i>> \in arr[alts[t][i].c]["CHANSND"]
      BY <2>5, <2>6 DEF Op
    <3>2. <<u, j>> \in arr[alts[t][i].c]["CHANRCV"] /\ alts[t][i].c \in Chan
      BY <2>5, <2>6 DEF Op
    <3>3. <<t, i>>[1] = <<u, j>>[1]
      BY <3>1, <3>2 DEF IInv, NoMissedRendezvous
    <3> QED BY <2>6, <3>3
  <2> QED BY <2>4, <2>6
<1> QED BY <1>1, ChannelInvariant, PTL

-----------------------------------------------------------------------------
(* The abstract state that ChanSpec sees. *)
LEMMA WantedIs ==
  ASSUME IInv, NEW u \in Task
  PROVE  /\ Waiting(u) => Wanted[u] = alts[u] /\ Wanted[u] # nil
         /\ ~Waiting(u) => Wanted[u] = nil
<1>1. alts[u] \in Seq(Alt)
  BY TypeParts DEF IInv, TaskOK
<1>2. alts[u] # nil
  BY <1>1, ChannelAssumption
<1> HIDE DEF Waiting
<1> QED BY <1>2 DEF Wanted

LEMMA ContentsIs ==
  ASSUME RingOK, NEW c \in Chan
  PROVE  /\ Contents[c] \in Seq(Value) /\ Len(Contents[c]) = nbuf[c]
         /\ nbuf[c] \in Nat /\ bufsize[c] \in Nat /\ nbuf[c] <= bufsize[c]
<1> DEFINE B == bufsize[c]
<1>1. nbuf[c] \in Nat /\ B \in Nat /\ nbuf[c] <= B
  BY ChannelAssumption DEF RingOK
<1>2. CASE nbuf[c] = 0
  <2>1. Contents[c] = <<>>
    BY <1>2, ContentsRing, EmptyRing
  <2> QED BY <1>1, <1>2, <2>1
<1>3. CASE nbuf[c] # 0
  <2>1. B \in Nat \ {0} /\ off[c] \in 0..B - 1 /\ nbuf[c] \in 0..B
    BY <1>1, <1>3 DEF RingOK
  <2>2. \A k \in 1..nbuf[c] : (off[c] + k - 1) % B \in 0..B - 1
    BY ONLY <2>1, Places
  <2>3. buf[c] \in [0..B - 1 -> Value]
    BY DEF RingOK
  <2>4. \A k \in 1..nbuf[c] : buf[c][(off[c] + k - 1) % B] \in Value
    BY <2>2, <2>3
  <2>5. /\ Ring(buf[c], off[c], nbuf[c], B) \in Seq(Value)
        /\ Len(Ring(buf[c], off[c], nbuf[c], B)) = nbuf[c]
    BY <1>1, <2>4 DEF Ring
  <2> QED BY <1>1, <2>5, ContentsRing
<1> QED BY <1>2, <1>3

(* The partners of an alternative are the entries in the waiting array of  *)
(* the opposite operation.                                                 *)
LEMMA PartnersExact ==
  ASSUME IInv, NEW a \in Alt
  PROVE  /\ a.op \in Op => Fifo!Partners(a) = arr[a.c][otherop(a.op)]
         /\ a.op \notin Op => Fifo!Partners(a) = {}
<1> DEFINE D(u) == IF Wanted[u] = nil THEN {} ELSE DOMAIN Wanted[u]
<1>1. \A p : p \in Fifo!Partners(a) <=>
        /\ \E u \in Task : p \in {u} \X D(u)
        /\ Wanted[p[1]][p[2]].c = a.c /\ Wanted[p[1]][p[2]].op = Fifo!Opposite[a.op]
  BY DEF Fifo!Partners
<1>2. ASSUME NEW p
      PROVE  p \in Fifo!Partners(a) <=>
               \E u \in Task : /\ Waiting(u)
                             /\ \E i \in DOMAIN alts[u] :
                                  /\ p = <<u, i>> /\ alts[u][i].c = a.c
                                  /\ alts[u][i].op = Fifo!Opposite[a.op]
  <2> HIDE DEF Waiting
  <2>1. \A u \in Task : Waiting(u) => D(u) = DOMAIN alts[u] /\ Wanted[u] = alts[u]
    BY WantedIs
  <2>2. \A u \in Task : ~Waiting(u) => D(u) = {}
    BY WantedIs
  <2> HIDE DEF D
  <2>3. \A u \in Task : p \in {u} \X D(u) <=> \E i \in D(u) : p = <<u, i>>
    OBVIOUS
  <2> QED BY <1>1, <2>1, <2>2, <2>3
<1>3. CASE a.op \in Op
  <2>1. Fifo!Opposite[a.op] = otherop(a.op) /\ a.c \in Chan /\ otherop(a.op) \in Op
    BY <1>3 DEF Fifo!Opposite, otherop, Op, Alt
  <2>2. ASSUME NEW p
        PROVE  p \in Fifo!Partners(a) <=> p \in arr[a.c][otherop(a.op)]
    <3> HIDE DEF Waiting
    <3>1. p \in arr[a.c][otherop(a.op)] <=>
            \E u \in Task : Waiting(u) /\ p \in entries(u, alts[u], a.c, otherop(a.op))
      BY <2>1, InArr DEF IInv
    <3>2. \A u \in Task : p \in entries(u, alts[u], a.c, otherop(a.op)) <=>
            \E i \in DOMAIN alts[u] : /\ p = <<u, i>> /\ alts[u][i].c = a.c
                                      /\ alts[u][i].op = otherop(a.op)
      BY ONLY InEntries
    <3> QED BY <1>2, <2>1, <3>1, <3>2
  <2> QED BY <1>3, <2>2
<1>4. CASE a.op \notin Op
  <2>1. Fifo!Opposite[a.op] = "none"
    BY <1>4 DEF Fifo!Opposite, Alt, Op
  <2>2. \A u \in Task : \A i \in DOMAIN alts[u] : alts[u][i].op # "none"
    <3>1. \A u \in Task : alts[u] \in Seq(Alt)
      BY TypeParts DEF IInv, TaskOK
    <3>2. \A b \in Alt : b.op # "none"
      BY DEF Alt, Op
    <3> QED BY <3>1, <3>2
  <2> QED BY <1>2, <1>4, <2>1, <2>2
<1> QED BY <1>3, <1>4

(* altcanexec, which looks at the buffer of a buffered channel only, finds *)
(* everything that is possible.                                            *)
LEMMA PossibleExact ==
  ASSUME IInv, NEW a \in Alt
  PROVE  altcanexec(a) <=> Fifo!Possible(a)
<1>1. /\ a.c \in Chan /\ RingOK
  BY TypeParts DEF Alt, IInv
<1>2. /\ Contents[a.c] \in Seq(Value) /\ Len(Contents[a.c]) = nbuf[a.c]
      /\ nbuf[a.c] \in Nat /\ bufsize[a.c] \in Nat /\ nbuf[a.c] <= bufsize[a.c]
  BY <1>1, ContentsIs
<1>3. Contents[a.c] # <<>> <=> nbuf[a.c] > 0
  BY <1>2
<1>4. /\ arr[a.c]["CHANRCV"] # {} => nbuf[a.c] = 0
      /\ arr[a.c]["CHANSND"] # {} => nbuf[a.c] = bufsize[a.c]
  BY <1>1 DEF IInv, NoMissedRendezvous
<1>5. Fifo!Possible(a) <=>
        \/ a.op = "CHANSND" /\ nbuf[a.c] < bufsize[a.c]
        \/ a.op = "CHANRCV" /\ nbuf[a.c] > 0
        \/ Fifo!Partners(a) # {}
  BY <1>2, <1>3 DEF Fifo!Possible
<1>6. CASE a.op = "CHANNOP"
  BY <1>5, <1>6, PartnersExact DEF altcanexec, Op
<1>7. CASE a.op = "CHANSND"
  <2>1. Fifo!Partners(a) = arr[a.c]["CHANRCV"]
    BY <1>7, PartnersExact DEF Op, otherop
  <2> QED BY <1>2, <1>4, <1>5, <1>7, <2>1 DEF altcanexec, otherop
<1>8. CASE a.op = "CHANRCV"
  <2>1. Fifo!Partners(a) = arr[a.c]["CHANSND"]
    BY <1>8, PartnersExact DEF Op, otherop
  <2> QED BY <1>2, <1>4, <1>5, <1>8, <2>1 DEF altcanexec, otherop
<1> QED BY <1>6, <1>7, <1>8 DEF Alt, Op

-----------------------------------------------------------------------------
(* Wanted and Result, task by task, before and after a step. *)
LEMMA Mapped ==
  /\ Wanted = [u \in Task |-> Wanted[u]] /\ Wanted' = [u \in Task |-> Wanted'[u]]
  /\ Result = [u \in Task |-> Result[u]] /\ Result' = [u \in Task |-> Result'[u]]
  /\ \A u \in Task :
       /\ Wanted[u] = IF Waiting(u) THEN alts[u] ELSE nil
       /\ Wanted'[u] = IF Waiting(u)' THEN alts'[u] ELSE nil
       /\ Result[u] = IF pc[u] = "alt" /\ ~Waiting(u) THEN xalt[u] ELSE ret[u]
       /\ Result'[u] = IF pc'[u] = "alt" /\ ~Waiting(u)' THEN xalt'[u] ELSE ret'[u]
<1> HIDE DEF Waiting
<1> QED BY DEF Wanted, Result

(* Scheduling, yielding and the return of a call change nothing that       *)
(* ChanSpec sees.                                                          *)
LEMMA QuietStep ==
  ASSUME UNCHANGED <<nbuf, off, buf, got>>,
         \A u \in Task : Waiting(u)' <=> Waiting(u),
         \A u \in Task : Waiting(u) => alts'[u] = alts[u],
         \A u \in Task : Result'[u] = Result[u]
  PROVE  UNCHANGED Fifo!vars
<1>1. Contents' = Contents
  BY DEF Contents
<1> HIDE DEF Waiting
<1>2. Wanted' = Wanted
  <2>1. \A u \in Task : Wanted'[u] = Wanted[u]
    BY Mapped
  <2> QED BY <2>1, Mapped
<1>3. Result' = Result
  BY Mapped
<1> QED BY <1>1, <1>2, <1>3 DEF Fifo!vars

LEMMA QuietSteps ==
  ASSUME IInv,
         \/ Schedule
         \/ \E t \in Task : chanalt_resume(t) \/ Yield(t)
         \/ UNCHANGED vars
  PROVE  UNCHANGED Fifo!vars
<1>0. TaskOK
  BY TypeParts DEF IInv
<1>1. ASSUME UNCHANGED <<nbuf, off, buf, got, alts, pc, xalt, ret>>,
             \A u \in Task : Waiting(u)' <=> Waiting(u)
      PROVE  UNCHANGED Fifo!vars
  <2> HIDE DEF Waiting
  <2>1. \A u \in Task : Result'[u] = Result[u]
    BY <1>1, Mapped
  <2> QED BY <1>1, <2>1, QuietStep
<1>2. CASE Schedule
  BY <1>1, <1>2, ScheduleKeeps DEF Schedule, chanvars
<1>3. ASSUME NEW t \in Task, Yield(t)
      PROVE  UNCHANGED Fifo!vars
  BY <1>1, <1>3, YieldKeeps DEF Yield, chanvars
<1>4. CASE UNCHANGED vars
  <2>1. \A u \in Task : Waiting(u)' <=> Waiting(u)
    BY <1>4 DEF Waiting, vars, schedvars, chanvars
  <2> QED BY <1>1, <1>4, <2>1 DEF vars, chanvars
<1>5. ASSUME NEW t \in Task, chanalt_resume(t)
      PROVE  UNCHANGED Fifo!vars
  <2>1. /\ UNCHANGED <<nbuf, off, buf, got>>
        /\ taskrunning = t /\ pc[t] = "alt"
        /\ ret' = [ret EXCEPT ![t] = xalt[t]] /\ pc' = [pc EXCEPT ![t] = "user"]
        /\ alts' = [alts EXCEPT ![t] = <<>>] /\ xalt' = [xalt EXCEPT ![t] = 1]
    BY <1>5 DEF chanalt_resume, Running, ringvars
  <2>2. \A u \in Task : Waiting(u)' <=> Waiting(u)
    BY <1>5, ResumeKeeps
  <2>3. ~Waiting(t)
    BY <2>1 DEF Waiting
  <2> HIDE DEF Waiting
  <2>4. \A u \in Task : Waiting(u) => alts'[u] = alts[u]
    BY <1>0, <2>1, <2>3 DEF TaskOK
  <2>5. Result'[t] = Result[t]
    BY <1>0, <2>1, <2>3, Mapped DEF TaskOK
  <2>6. \A u \in Task \ {t} : pc'[u] = pc[u] /\ ret'[u] = ret[u] /\ xalt'[u] = xalt[u]
    BY <1>0, <2>1 DEF TaskOK
  <2>7. \A u \in Task : Result'[u] = Result[u]
    BY <2>2, <2>5, <2>6, Mapped
  <2> QED BY <2>1, <2>2, <2>4, <2>7, QuietStep
<1> QED BY <1>2, <1>3, <1>4, <1>5

(* A call that gives up. *)
LEMMA GiveupRefuses ==
  ASSUME IInv, NEW t \in Task, pc[t] = "user", chanalt_giveup(t)
  PROVE  Fifo!Refuse(t)
<1>1. /\ UNCHANGED <<nbuf, off, buf, alts, xalt, pc>>
      /\ ret' = [ret EXCEPT ![t] = -1] /\ got' = [got EXCEPT ![t] = nil]
  BY DEF chanalt_giveup, ringvars
<1>2. TaskOK
  BY TypeParts DEF IInv
<1>3. \A u \in Task : Waiting(u)' <=> Waiting(u)
  BY GiveupKeeps
<1> HIDE DEF Waiting
<1>4. Contents' = Contents
  BY <1>1 DEF Contents
<1>5. Wanted' = Wanted
  <2>1. \A u \in Task : Wanted'[u] = Wanted[u]
    BY <1>1, <1>3, Mapped
  <2> QED BY <2>1, Mapped
<1>6. \A u \in Task : Result'[u] = IF u = t THEN -1 ELSE Result[u]
  <2>1. \A u \in Task : ret'[u] = IF u = t THEN -1 ELSE ret[u]
    BY <1>1, <1>2 DEF TaskOK
  <2> QED BY <1>1, <1>3, <2>1, Mapped
<1>7. Result' = [Result EXCEPT ![t] = -1]
  BY <1>6, Mapped
<1> QED BY <1>1, <1>4, <1>5, <1>7 DEF Fifo!Refuse

(* A call that waits. *)
LEMMA WaitWaits ==
  ASSUME IInv, NEW t \in Task, NEW al \in Seq(Alt), Running(t), pc[t] = "user",
         \A i \in DOMAIN al : ~altcanexec(al[i]), chanalt_wait(t, al)
  PROVE  Fifo!Wait(t, al)
<1>1. /\ UNCHANGED <<nbuf, off, buf>>
      /\ alts' = [alts EXCEPT ![t] = al] /\ xalt' = [xalt EXCEPT ![t] = 1]
      /\ pc' = [pc EXCEPT ![t] = "alt"] /\ ret' = [ret EXCEPT ![t] = 0]
      /\ got' = [got EXCEPT ![t] = nil]
  BY DEF chanalt_wait, ringvars
<1>2. TaskOK
  BY TypeParts DEF IInv
<1>3. Waiting(t)' /\ \A u \in Task \ {t} : Waiting(u)' <=> Waiting(u)
  BY WaitKeeps
<1> HIDE DEF Waiting
<1>4. Contents' = Contents
  BY <1>1 DEF Contents
<1>5. \A u \in Task \ {t} : /\ alts'[u] = alts[u] /\ xalt'[u] = xalt[u]
                            /\ pc'[u] = pc[u] /\ ret'[u] = ret[u]
  BY <1>1, <1>2 DEF TaskOK
<1>6. alts'[t] = al /\ ret'[t] = 0
  BY <1>1, <1>2 DEF TaskOK
<1>7. Wanted' = [Wanted EXCEPT ![t] = al]
  <2>1. \A u \in Task : Wanted'[u] = IF u = t THEN al ELSE Wanted[u]
    BY <1>3, <1>5, <1>6, Mapped
  <2> QED BY <2>1, Mapped
<1>8. Result' = [Result EXCEPT ![t] = 0]
  <2>1. \A u \in Task : Result'[u] = IF u = t THEN 0 ELSE Result[u]
    BY <1>3, <1>5, <1>6, Mapped
  <2> QED BY <2>1, Mapped
<1> QED BY <1>1, <1>4, <1>7, <1>8 DEF Fifo!Wait

LEMMA SameMoves ==
  ASSUME NEW a, NEW x
  PROVE  Fifo!Sent(a) = source(a) /\ Fifo!Received(a, x) = target(a, x)
BY DEF Fifo!Sent, Fifo!Received, source, target

(* An entry that is executed with the buffer alone. *)
LEMMA AloneCompletes ==
  ASSUME IInv, NEW t \in Task, Running(t), pc[t] = "user", NEW a \in Alt, a.op \in Op,
         altcanexec(a), arr[a.c][otherop(a.op)] = {}, altexec_alone(t, a),
         NEW i \in Nat, ret' = [ret EXCEPT ![t] = i], UNCHANGED <<alts, pc>>
  PROVE  Fifo!Alone(t, a) /\ Result' = [Result EXCEPT ![t] = i]
<1>1. xalt' = xalt
  BY DEF altexec_alone
<1>2. TaskOK
  BY TypeParts DEF IInv
<1>3. \A u \in Task : Waiting(u)' <=> Waiting(u)
  BY AloneKeeps
<1>4. Fifo!Partners(a) = {}
  BY PartnersExact
<1>5. \/ /\ a.op = "CHANSND"
         /\ Contents' = [Contents EXCEPT ![a.c] = Append(Contents[a.c], source(a))]
         /\ got' = [got EXCEPT ![t] = nil]
      \/ /\ a.op = "CHANRCV"
         /\ Contents' = [Contents EXCEPT ![a.c] = Tail(Contents[a.c])]
         /\ got' = [got EXCEPT ![t] = target(a, Head(Contents[a.c]))]
  BY AloneCopies
<1> HIDE DEF Waiting
<1>6. Wanted' = Wanted
  <2>1. \A u \in Task : Wanted'[u] = Wanted[u]
    BY <1>3, Mapped
  <2> QED BY <2>1, Mapped
<1>7. Result' = [Result EXCEPT ![t] = i]
  <2>1. \A u \in Task : ret'[u] = IF u = t THEN i ELSE ret[u]
    BY <1>2 DEF TaskOK
  <2>2. \A u \in Task : Result'[u] = IF u = t THEN i ELSE Result[u]
    BY <1>1, <1>3, <2>1, Mapped
  <2> QED BY <2>2, Mapped
<1>8. Fifo!Alone(t, a)
  <2>1. CASE a.op = "CHANSND"
    BY <1>4, <1>5, <1>6, <2>1, SameMoves DEF Fifo!Alone
  <2>2. CASE a.op = "CHANRCV"
    BY <1>4, <1>5, <1>6, <2>2, SameMoves DEF Fifo!Alone
  <2> QED BY <2>1, <2>2 DEF Op
<1> QED BY <1>7, <1>8

(* An entry that is executed with one that waits. *)
LEMMA OtherCompletes ==
  ASSUME IInv, NEW t \in Task, Running(t), pc[t] = "user", NEW a \in Alt, a.op \in Op,
         NEW p \in arr[a.c][otherop(a.op)], altexec_other(t, a, p),
         NEW i \in Nat, ret' = [ret EXCEPT ![t] = i], UNCHANGED <<alts, pc>>
  PROVE  /\ p \in Fifo!Partners(a)
         /\ Fifo!Together(t, a, p[1], Wanted[p[1]][p[2]])
         /\ Result' = [Result EXCEPT ![t] = i, ![p[1]] = p[2]]
<1> DEFINE w == p[1]
           b == alts[w][p[2]]
           s == IF a.op = "CHANSND" THEN a ELSE b
           r == IF a.op = "CHANSND" THEN b ELSE a
           x == target(r, Head(Append(Contents[a.c], source(s))))
<1>1. a.c \in Chan /\ otherop(a.op) \in Op
  BY DEF Alt, Op, otherop
<1>2. w \in Task /\ Waiting(w) /\ w # t
  BY <1>1, Waiter DEF Running
<1>3. p \in Fifo!Partners(a)
  BY PartnersExact
<1>4. Wanted[w] = alts[w] /\ pc[w] = "alt"
  BY <1>2, WantedIs DEF Waiting
<1>5. /\ Contents' = [Contents EXCEPT ![a.c] = Tail(Append(Contents[a.c], source(s)))]
      /\ got' = IF a.op = "CHANSND" THEN [got EXCEPT ![t] = nil, ![w] = x]
                                    ELSE [got EXCEPT ![t] = x, ![w] = nil]
      /\ xalt' = [xalt EXCEPT ![w] = p[2]]
  BY OtherCopies
<1>6. TaskOK
  BY TypeParts DEF IInv
<1>7. ~Waiting(w)' /\ \A u \in Task \ {w} : Waiting(u)' <=> Waiting(u)
  BY OtherKeeps
<1> HIDE DEF Waiting, w
<1>8. Wanted' = [Wanted EXCEPT ![w] = nil]
  <2>1. \A u \in Task : Wanted'[u] = IF u = w THEN nil ELSE Wanted[u]
    BY <1>7, Mapped
  <2> QED BY <2>1, Mapped
<1>9. Result' = [Result EXCEPT ![t] = i, ![w] = p[2]]
  <2>1. \A u \in Task : ret'[u] = IF u = t THEN i ELSE ret[u]
    BY <1>6 DEF TaskOK
  <2>2. \A u \in Task : xalt'[u] = IF u = w THEN p[2] ELSE xalt[u]
    BY <1>5, <1>6 DEF TaskOK
  <2>3. \A u \in Task \ {t, w} : Result'[u] = Result[u]
    BY <1>7, <2>1, <2>2, Mapped
  <2>4. Result'[t] = i
    BY <2>1, Mapped
  <2>5. Result'[w] = p[2]
    BY <1>2, <1>4, <1>7, <2>2, Mapped
  <2> QED BY <1>2, <2>3, <2>4, <2>5, Mapped
<1>10. Fifo!Together(t, a, w, b)
  <2> HIDE DEF b
  <2> QED BY <1>5, <1>8 DEF Fifo!Together, Fifo!Sent, Fifo!Received, source, target
<1> QED BY <1>3, <1>4, <1>9, <1>10 DEF w

(* Every call of chanalt does what ChanSpec says a call may do. *)
LEMMA ChanaltCalls ==
  ASSUME IInv, NEW t \in Task, NEW al \in Seq(Alt), NEW canblock, chanalt(t, al, canblock)
  PROVE  Fifo!Call(t, al)
<1>1. Running(t) /\ pc[t] = "user"
  BY DEF chanalt
<1>2. Wanted[t] = nil
  BY <1>1, WantedIs DEF Waiting
<1>3. \A i \in DOMAIN al : altcanexec(al[i]) <=> Fifo!Possible(al[i])
  BY PossibleExact
<1>4. ASSUME NEW i \in DOMAIN al, al[i] \in Alt, al[i].op \in Op, i \in Nat,
             altcanexec(al[i]), ret' = [ret EXCEPT ![t] = i], UNCHANGED <<alts, pc>>,
             arr[al[i].c][otherop(al[i].op)] = {}, altexec_alone(t, al[i])
      PROVE  Fifo!Complete(t, al, i)
  <2>1. Fifo!Alone(t, al[i]) /\ Result' = [Result EXCEPT ![t] = i]
    BY <1>1, <1>4, AloneCompletes
  <2> QED BY <1>3, <1>4, <2>1 DEF Fifo!Complete
<1>5. ASSUME NEW i \in DOMAIN al, al[i] \in Alt, al[i].op \in Op, i \in Nat,
             altcanexec(al[i]), ret' = [ret EXCEPT ![t] = i], UNCHANGED <<alts, pc>>,
             NEW p \in arr[al[i].c][otherop(al[i].op)], altexec_other(t, al[i], p)
      PROVE  Fifo!Complete(t, al, i)
  <2>1. /\ p \in Fifo!Partners(al[i])
        /\ Fifo!Together(t, al[i], p[1], Wanted[p[1]][p[2]])
        /\ Result' = [Result EXCEPT ![t] = i, ![p[1]] = p[2]]
    BY <1>1, <1>5, OtherCompletes, ZenonT(30)
  <2> QED BY <1>3, <1>5, <2>1 DEF Fifo!Complete
<1>6. ASSUME \A i \in DOMAIN al : ~altcanexec(al[i]), chanalt_wait(t, al)
      PROVE  Fifo!Call(t, al)
  <2>1. Fifo!Wait(t, al)
    BY <1>1, <1>6, WaitWaits
  <2> QED BY <1>2, <1>3, <1>6, <2>1 DEF Fifo!Call
<1>7. ASSUME \A i \in DOMAIN al : ~altcanexec(al[i]), chanalt_giveup(t)
      PROVE  Fifo!Call(t, al)
  <2>1. Fifo!Refuse(t)
    BY <1>1, <1>7, GiveupRefuses
  <2> QED BY <1>2, <1>3, <1>7, <2>1 DEF Fifo!Call
<1>8. ASSUME NEW i \in DOMAIN al, Fifo!Complete(t, al, i)
      PROVE  Fifo!Call(t, al)
  BY <1>2, <1>8 DEF Fifo!Call
<1> QED BY <1>4, <1>5, <1>6, <1>7, <1>8, ChanaltCases

(* The channels of channel.c are the bounded FIFOs of ChanSpec: every step *)
(* of Channel is a call that completes, waits or gives up there, or is not *)
(* visible.                                                                *)
THEOREM ChannelIsFifo == Spec => IsFifo
<1>1. Init => Fifo!Init
  <2> SUFFICES ASSUME Init
               PROVE  Fifo!Init
    OBVIOUS
  <2>1. \A c \in Chan : Contents[c] = <<>>
    BY ContentsRing, EmptyRing DEF Init
  <2>2. Contents = [c \in Chan |-> <<>>]
    <3>1. Contents = [c \in Chan |-> Contents[c]]
      BY DEF Contents
    <3> QED BY <2>1, <3>1
  <2>3. Wanted = [t \in Task |-> nil] /\ Result = [t \in Task |-> 0]
    BY DEF Init, Wanted, Result, Waiting
  <2> QED BY <2>2, <2>3 DEF Init, Fifo!Init
<1>2. IInv /\ [Next]_vars => [Fifo!Next]_Fifo!vars
  <2> SUFFICES ASSUME IInv, [Next]_vars
               PROVE  Fifo!Next \/ UNCHANGED Fifo!vars
    OBVIOUS
  <2>1. ASSUME NEW t \in Task, TaskStep(t)
        PROVE  Fifo!Next \/ UNCHANGED Fifo!vars
    <3>1. ASSUME NEW al \in Calls, NEW canblock \in BOOLEAN, chanalt(t, al, canblock)
          PROVE  Fifo!Next
      <4>1. al \in Seq(Alt)
        BY CallsAreArrays
      <4>2. Fifo!Call(t, al)
        BY <3>1, <4>1, ChanaltCalls
      <4> QED BY <4>2, Zenon DEF Fifo!Next
    <3> QED BY <2>1, <3>1, TaskSteps, QuietSteps
  <2>2. CASE Schedule \/ UNCHANGED vars
    BY <2>2, QuietSteps
  <2> QED BY <2>1, <2>2 DEF Next
<1> QED BY <1>1, <1>2, ChannelInvariant, PTL DEF Spec, IsFifo, Fifo!Spec
=============================================================================
