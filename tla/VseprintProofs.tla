--------------------------- MODULE VseprintProofs ---------------------------
(***************************************************************************)
(* No call of vseprint writes outside its buffer, and strecpy only its NUL *)
(* and only if the buffer is empty, whatever the format and the arguments. *)
(***************************************************************************)
EXTENDS Vseprint, FiniteSetTheorems, SequenceTheorems, TLAPS

(* A sequence of anything: no type is needed for what is printed. *)
IsSeq(s) == \E S : s \in Seq(S)

Arg == [num : Int, str : Seq(STRING)]

(* The inductive invariant: the buffer has room for the NUL. *)
IInv ==
  /\ job \in Jobs
  /\ IsSeq(fmt) /\ args \in Seq(Arg)
  /\ IsSeq(out)
  /\ size \in Nat /\ sign \in {1, -1}
  /\ pc \in {"text", "verb", "strecpy", "done", "aborted", "overrun", "undefined"}
  /\ pc \in {"text", "verb"} => job.fn = "text"
  /\ pc = "strecpy" => job.fn = "strecpy"
  /\ InBounds

-----------------------------------------------------------------------------
LEMMA SeqLen == ASSUME NEW s, IsSeq(s) PROVE Len(s) \in Nat
  BY DEF IsSeq

LEMMA TypedSeq == ASSUME NEW S, NEW s \in Seq(S) PROVE IsSeq(s)
  BY DEF IsSeq

LEMMA TailSeq == ASSUME NEW s, IsSeq(s), s # <<>> PROVE IsSeq(Tail(s))
<1>1. PICK S : s \in Seq(S)
  BY DEF IsSeq
<1>2. Tail(s) \in Seq(S)
  BY <1>1
<1> QED BY <1>2 DEF IsSeq

(* Sequences written as functions. *)
LEMMA FunctionSeq ==
  ASSUME NEW k \in Nat, NEW f, f = [i \in 1..k |-> f[i]]
  PROVE  IsSeq(f) /\ Len(f) = k
<1> DEFINE S == {f[i] : i \in 1..k}
<1>1. \A i \in 1..k : f[i] \in S
  OBVIOUS
<1> HIDE DEF S
<1>2. f \in [1..k -> S]
  BY <1>1
<1>3. f \in Seq(S) /\ DOMAIN f = 1..k
  BY <1>2
<1>4. Len(f) = k
  BY <1>3
<1>5. IsSeq(f)
  BY <1>3 DEF IsSeq
<1> QED BY <1>4, <1>5

LEMMA ConcatSeq ==
  ASSUME NEW s, NEW t, IsSeq(s), IsSeq(t)
  PROVE  IsSeq(s \o t) /\ Len(s \o t) = Len(s) + Len(t)
<1>1. PICK S : s \in Seq(S)
  BY DEF IsSeq
<1>2. PICK T : t \in Seq(T)
  BY DEF IsSeq
<1>3. s \in Seq(S \cup T) /\ t \in Seq(S \cup T)
  BY <1>1, <1>2
<1>4. s \o t \in Seq(S \cup T) /\ Len(s \o t) = Len(s) + Len(t)
  BY <1>3
<1> QED BY <1>4 DEF IsSeq

LEMMA PrefixSeq ==
  ASSUME NEW s, IsSeq(s), NEW l \in 0..Len(s)
  PROVE  IsSeq(SubSeq(s, 1, l)) /\ Len(SubSeq(s, 1, l)) = l
<1>1. PICK S : s \in Seq(S)
  BY DEF IsSeq
<1>2. SubSeq(s, 1, l) \in Seq(S) /\ Len(SubSeq(s, 1, l)) = l
  BY <1>1
<1> QED BY <1>2 DEF IsSeq

-----------------------------------------------------------------------------
(* What printstr adds fits, with one byte to spare for the NUL. *)
LEMMA PrintstrFits ==
  ASSUME IsSeq(out), job.n \in Nat, out = <<>> \/ Len(out) < job.n,
         NEW s, IsSeq(s), NEW width \in Int
  PROVE  /\ IsSeq(printstr(s, width))
         /\ printstr(s, width) = <<>> \/ Len(printstr(s, width)) < job.n
         /\ job.n > 0 => Len(printstr(s, width)) < job.n
<1> DEFINE len == IF width < 0 THEN -width ELSE width
           room == job.n - Len(out)
           want == IF Len(s) < len THEN len ELSE Len(s)
           m == IF want >= room THEN room - 1 ELSE want
           l == IF Len(s) > m THEN m ELSE Len(s)
           pad == [i \in 1..m - l |-> " "]
           sub == SubSeq(s, 1, l)
<1>1. Len(out) \in Nat /\ Len(s) \in Nat
  BY SeqLen
<1>2. CASE room <= 0
  <2>1. printstr(s, width) = out
    BY <1>2 DEF printstr
  <2>2. job.n = 0
    BY <1>1, <1>2
  <2> QED BY <1>1, <2>1, <2>2
<1>3. CASE ~(room <= 0)
  <2>1. m \in Nat /\ l \in 0..Len(s) /\ l <= m /\ Len(out) + m < job.n
    BY <1>1, <1>3
  <2>2. IsSeq(sub) /\ Len(sub) = l
    BY <2>1, PrefixSeq
  <2>3. IsSeq(pad) /\ Len(pad) = m - l
    <3>1. m - l \in Nat /\ pad = [i \in 1..m - l |-> pad[i]]
      BY <1>1, <2>1
    <3> HIDE DEF pad, m, l
    <3> QED BY <3>1, FunctionSeq
  <2>4. /\ IsSeq(sub \o pad) /\ Len(sub \o pad) = m
        /\ IsSeq(pad \o sub) /\ Len(pad \o sub) = m
    <3> HIDE DEF pad, sub, m, l
    <3>1. /\ IsSeq(sub \o pad) /\ Len(sub \o pad) = l + (m - l)
          /\ IsSeq(pad \o sub) /\ Len(pad \o sub) = (m - l) + l
      BY <2>2, <2>3, ConcatSeq
    <3>2. l + (m - l) = m /\ (m - l) + l = m
      BY <1>1, <2>1
    <3> QED BY <3>1, <3>2
  <2>5. printstr(s, width) = out \o (IF width < 0 THEN sub \o pad ELSE pad \o sub)
    BY <1>3 DEF printstr
  <2>6. IsSeq(printstr(s, width)) /\ Len(printstr(s, width)) = Len(out) + m
    <3> HIDE DEF pad, sub, m, l
    <3>1. CASE width < 0
      BY <2>4, <2>5, <3>1, ConcatSeq
    <3>2. CASE ~(width < 0)
      BY <2>4, <2>5, <3>2, ConcatSeq
    <3> QED BY <3>1, <3>2
  <2> QED BY <1>1, <2>1, <2>6
<1> QED BY <1>2, <1>3

(* A number is a sequence, whatever its value. *)
LEMMA NumberSeq == ASSUME NEW x, NEW base PROVE IsSeq(number(x, base))
<1> DEFINE v == va_arg(x)
           neg == "u" \notin fl /\ v >= 2^(LongBits - 1)
           luv == IF neg THEN (-v) % 2^LongBits ELSE v
           D == {i \in 0..LongBits \div 3 : base^i <= luv}
           k == Cardinality(D)
           zero == IF base = 8 \/ luv = 0 THEN <<"0">> ELSE <<>>
           hex == IF base = 16 THEN <<"0", "x">> ELSE <<>>
<1>1. k \in Nat
  <2>1. LongBits \div 3 \in Int
    BY PrintAssumption
  <2>2. IsFiniteSet(0..LongBits \div 3)
    BY <2>1, FS_Interval
  <2>3. IsFiniteSet(D)
    BY <2>2, FS_Subset
  <2> QED BY <2>3, FS_CardinalityType
<1>2. IsSeq(digits(luv, base))
  <2>1. digits(luv, base) = [j \in 1..k |-> Digit[((luv \div base^(k - j)) % base) + 1]]
    BY DEF digits
  <2>2. digits(luv, base) = [j \in 1..k |-> digits(luv, base)[j]]
    <3> HIDE DEF luv, k
    <3> QED BY <2>1
  <2> HIDE DEF luv, k
  <2> QED BY <1>1, <2>2, FunctionSeq
<1>3. zero \in Seq({"0"}) /\ hex \in Seq({"0", "x"})
  <2>1. <<>> \in Seq({"0"}) /\ <<"0">> \in Seq({"0"}) /\ <<>> \in Seq({"0", "x"}) /\ <<"0", "x">> \in Seq({"0", "x"})
    OBVIOUS
  <2>2. zero \in {<<>>, <<"0">>} /\ hex \in {<<>>, <<"0", "x">>}
    BY Zenon
  <2> HIDE DEF zero, hex
  <2> QED BY <2>1, <2>2
<1>4. IsSeq(zero) /\ IsSeq(hex)
  BY <1>3, TypedSeq
<1>5. IsSeq(zero \o hex)
  BY <1>4, ConcatSeq
<1>6. IsSeq(zero \o hex \o digits(luv, base))
  <2> HIDE DEF zero, hex, luv
  <2> QED BY <1>2, <1>5, ConcatSeq
<1> QED BY <1>6 DEF number

(* One field: the step of every verb that prints. *)
LEMMA FieldInv ==
  ASSUME IInv, pc = "verb", fmt # <<>>, NEW s, IsSeq(s), field(s), args' \in Seq(Arg)
  PROVE  IInv'
<1>1. size * sign \in Int
  BY DEF IInv
<1>2. job.n \in Nat
  BY PrintAssumption DEF IInv
<1>3. /\ IsSeq(out')
      /\ out' = <<>> \/ Len(out') < job.n
  BY <1>1, <1>2, PrintstrFits DEF field, IInv, InBounds
<1>4. IsSeq(fmt')
  BY TailSeq DEF field, IInv
<1>5. pc' = "text" /\ UNCHANGED <<job, spec>>
  BY DEF field
<1> QED BY <1>3, <1>4, <1>5 DEF IInv, InBounds, spec

(* The type of a digit's value. *)
LEMMA ValueNat == ASSUME NEW c \in {Digit[i] : i \in 1..10} PROVE value(c) \in Nat
<1>1. \E i \in 1..16 : Digit[i] = c
  OBVIOUS
<1>2. (CHOOSE i \in 1..16 : Digit[i] = c) \in 1..16
  BY <1>1
<1> QED BY <1>2 DEF value

(* Every step keeps the invariant. *)
LEMMA NextInv == IInv /\ [Next]_vars => IInv'
<1> SUFFICES ASSUME IInv, [Next]_vars
             PROVE  IInv'
  OBVIOUS
<1>n. job.n \in Nat /\ job.fn \in {"text", "strecpy"}
  BY PrintAssumption DEF IInv
<1>o. Len(out) \in Nat
  BY SeqLen DEF IInv
<1>1. CASE literal
  <2>1. IsSeq(out') /\ Len(out') = Len(out) + 1
    <3>1. PICK S : out \in Seq(S)
      BY DEF IInv, IsSeq
    <3>2. out \in Seq(S \cup {Head(fmt)})
      BY <3>1
    <3>3. out' \in Seq(S \cup {Head(fmt)}) /\ Len(out') = Len(out) + 1
      BY <1>1, <3>2 DEF literal
    <3> QED BY <3>3 DEF IsSeq
  <2>2. Len(out') < job.n
    BY <1>1, <1>n, <1>o, <2>1 DEF literal, room_left
  <2>3. IsSeq(fmt')
    BY <1>1, TailSeq DEF literal, IInv
  <2> QED BY <1>1, <2>1, <2>2, <2>3 DEF literal, IInv, InBounds, spec
<1>2. CASE percent
  <2>1. IsSeq(fmt')
    BY <1>2, TailSeq DEF percent, IInv
  <2> QED BY <1>2, <2>1 DEF percent, IInv, InBounds
<1>3. CASE flag
  <2>1. IsSeq(fmt')
    BY <1>3, TailSeq DEF flag, InVerb, IInv
  <2>2. size' \in Nat
    <3>1. Head(fmt) \in {"-", "l", "u"} \/ Head(fmt) \in {Digit[i] : i \in 1..10}
      BY <1>3 DEF flag, InVerb, Flags
    <3>2. Head(fmt) \notin {"-", "l", "u"} => value(Head(fmt)) \in Nat
      BY <3>1, ValueNat
    <3>3. size' = IF Head(fmt) \in {"-", "l", "u"} THEN size ELSE size * 10 + value(Head(fmt))
      BY <1>3 DEF flag
    <3>4. size \in Nat
      BY DEF IInv
    <3> QED BY <3>2, <3>3, <3>4
  <2>3. sign' \in {1, -1}
    BY <1>3 DEF flag, IInv
  <2> QED BY <1>3, <2>1, <2>2, <2>3 DEF flag, IInv, InBounds
<1>4. CASE num
  <2>1. args' \in Seq(Arg)
    BY <1>4 DEF num, IInv
  <2> QED BY <1>4, <2>1, FieldInv, NumberSeq DEF num, InVerb
<1>5. CASE string
  <2>1. args' \in Seq(Arg) /\ Head(args) \in Arg
    BY <1>5 DEF string, IInv
  <2>2. IsSeq(Head(args).str)
    BY <2>1, TypedSeq DEF Arg
  <2> QED BY <1>5, <2>1, <2>2, FieldInv DEF string, InVerb
<1>6. CASE error
  <2>1. args' \in Seq(Arg)
    BY <1>6 DEF error, IInv
  <2>2. IsSeq(Strerror)
    BY PrintAssumption, TypedSeq
  <2> QED BY <1>6, <2>1, <2>2, FieldInv DEF error, InVerb
<1>7. CASE unknown
  <2>1. IsSeq(fmt')
    <3>1. fmt' \in Seq({"*", "v", "e", "r", "b"})
      BY <1>7 DEF unknown
    <3> QED BY <3>1, TypedSeq
  <2> QED BY <1>7, <2>1 DEF unknown, IInv, InBounds, spec
<1>8. CASE runaway
  BY <1>8 DEF runaway, IInv, InBounds, spec
<1>9. CASE finish
  <2>1. CASE Len(out) < job.n
    BY <1>9, <2>1 DEF finish, IInv, InBounds, spec
  <2>2. CASE ~(Len(out) < job.n)
    <3>1. Len(out) = 0
      BY <2>2 DEF IInv, InBounds
    <3>2. job.n = 0
      BY <1>n, <2>2, <3>1
    <3> QED BY <1>9, <2>2, <3>2 DEF finish, IInv, InBounds, spec
  <2> QED BY <2>1, <2>2
<1>10. CASE strecpy
  <2>1. IsSeq(fmt)
    BY DEF IInv
  <2>2. /\ IsSeq(out') /\ (out' = <<>> \/ Len(out') < job.n)
        /\ job.n > 0 => Len(out') < job.n
    BY <1>10, <1>n, <2>1, PrintstrFits DEF strecpy, IInv, InBounds
  <2>3. CASE Len(out') < job.n
    BY <1>10, <2>2, <2>3 DEF strecpy, IInv, InBounds, spec
  <2>4. CASE ~(Len(out') < job.n)
    <3>1. job.n = 0 /\ job.fn = "strecpy"
      BY <1>10, <1>n, <2>2, <2>4 DEF strecpy, IInv
    <3> QED BY <1>10, <2>2, <2>4, <3>1 DEF strecpy, IInv, InBounds, spec
  <2> QED BY <2>3, <2>4
<1>11. CASE overflow
  BY <1>11 DEF overflow, InVerb, IInv, InBounds, spec
<1>12. CASE UNCHANGED vars
  BY <1>12 DEF vars, spec, IInv, InBounds
<1> QED
  BY <1>1, <1>2, <1>3, <1>4, <1>5, <1>6, <1>7, <1>8, <1>9, <1>10, <1>11, <1>12 DEF Next

(* vseprint stays inside its buffer and leaves room for the NUL, for every *)
(* format, all arguments and every size, and so does strecpy for every     *)
(* buffer that has a byte.  Only in a buffer without one can the assert at *)
(* the end of vseprint fail, or strecpy store its NUL outside.             *)
THEOREM PrintInBounds == Spec => []InBounds
<1>1. Init => IInv
  <2> SUFFICES ASSUME Init
               PROVE  IInv
    OBVIOUS
  <2>1. job \in Jobs /\ job.fmt \in Seq(STRING) /\ job.args \in Seq(Arg) /\ job.fn \in {"text", "strecpy"}
    BY PrintAssumption DEF Init, Arg
  <2>2. IsSeq(out) /\ IsSeq(fmt)
    <3>1. out \in Seq({})
      BY DEF Init
    <3>2. fmt \in Seq(STRING)
      BY <2>1 DEF Init
    <3> QED BY <3>1, <3>2, TypedSeq
  <2> QED BY <2>1, <2>2 DEF Init, IInv, InBounds
<1>2. IInv => InBounds
  BY DEF IInv
<1> QED BY <1>1, <1>2, NextInv, PTL DEF Spec
=============================================================================
