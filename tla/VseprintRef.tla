---------------------------- MODULE VseprintRef -----------------------------
(***************************************************************************)
(* What vseprint should print: what printf prints, with the prefixes 0 and *)
(* 0x that printf gives to %#o and %#x.  A job here is made from a list of *)
(* items: a literal character, or a verb with its flags and its argument;  *)
(* verb "" is a format that stops before the verb.                         *)
(***************************************************************************)
EXTENDS Addr

lit(c) == [lit |-> c]
verb(flags, v, arg) == [lit |-> "", flags |-> flags, verb |-> v, arg |-> arg]

(* How an item is written in a format, and the argument it needs. *)
written(it) ==
  IF it.lit # "" THEN <<it.lit>>
  ELSE <<"%">> \o it.flags \o (IF it.verb = "" THEN <<>> ELSE <<it.verb>>)
passed(it) ==
  IF it.lit # "" THEN <<>>
  ELSE CASE it.verb \in DOMAIN Base -> <<[num |-> it.arg, str |-> <<>>]>>
         [] it.verb \in {"c", "s"} -> <<[num |-> 0, str |-> it.arg]>>
         [] OTHER -> <<>>

call(items, n) ==
  [fn |-> "text", addr |-> <<>>, items |-> items, n |-> n,
   fmt |-> FlattenSeq([i \in DOMAIN items |-> written(items[i])]),
   args |-> FlattenSeq([i \in DOMAIN items |-> passed(items[i])])]
copy(s, n) ==
  [fn |-> "strecpy", addr |-> <<>>, items |-> [i \in DOMAIN s |-> lit(s[i])], n |-> n,
   fmt |-> s, args |-> <<>>]

(* netaccept prints the address a of its peer. *)
peer(a) ==
  LET d(i) == verb(<<>>, "d", a[i])
  IN  [call(<<d(1), lit("."), d(2), lit("."), d(3), lit("."), d(4)>>, 16) EXCEPT !.addr = a]

-----------------------------------------------------------------------------
has(it, c) == \E i \in DOMAIN it.flags : it.flags[i] = c

(* The value of the argument, seen with the width and the signedness the   *)
(* flags name.                                                             *)
number_of(it) ==
  LET w == 2^(IF has(it, "l") THEN LongBits ELSE IntBits)
      u == it.arg % w
  IN  IF ~has(it, "u") /\ 2 * u >= w THEN u - w ELSE u

(* A number: its sign, a prefix that tells the base, and the digits, by    *)
(* repeated division.  minus is how the sign of a negative number is       *)
(* written.                                                                *)
numeral(x, base, minus) ==
  LET ds[y \in Nat] == IF y = 0 THEN <<>> ELSE Append(ds[y \div base], Digit[(y % base) + 1])
      prefix == CASE base = 8 -> <<"0">> [] base = 16 -> <<"0", "x">> [] OTHER -> <<>>
      zero == IF x = 0 /\ base # 8 THEN <<"0">> ELSE <<>>
  IN  (IF x < 0 THEN minus ELSE <<>>) \o prefix \o zero \o ds[IF x < 0 THEN -x ELSE x]

(* The width that the digits among the flags name, and a string in a field *)
(* of that width.                                                          *)
width(it) ==
  FoldLeft(LAMBDA v, c : 10 * v + value(c), 0,
           SelectSeq(it.flags, LAMBDA c : c \notin {"-", "l", "u"}))
infield(it, s) ==
  LET pad == [i \in 1..width(it) - Len(s) |-> " "]
  IN  IF has(it, "-") THEN s \o pad ELSE pad \o s

text(it, minus) ==
  CASE it.lit # "" -> <<it.lit>>
    [] it.lit = "" /\ it.verb \in DOMAIN Base -> infield(it, numeral(number_of(it), Base[it.verb], minus))
    [] it.lit = "" /\ it.verb \in {"c", "s"} -> infield(it, it.arg)
    [] it.lit = "" /\ it.verb = "r" -> infield(it, Strerror)
    [] OTHER -> <<"*", "v", "e", "r", "b", "*">>

(* The items up to the first verb that is not one. *)
known(items) ==
  LET other == SelectInSeq(items, LAMBDA it : it.lit = "" /\
                 it.verb \notin DOMAIN Base \cup {"c", "s", "r"})
  IN  IF other = 0 THEN items ELSE SubSeq(items, 1, other)

(* What the first k items should give. *)
whole(items, k, minus) == FlattenSeq([i \in 1..k |-> text(items[i], minus)])

-----------------------------------------------------------------------------
(* What is in the buffer is the whole text if it fits, with every field in *)
(* its width and every number in its base.  If it does not fit, the buffer *)
(* is full, and the items that did fit are intact.                         *)
Shows(minus) ==
  LET items == known(job.items)
      fits == {k \in 0..Len(items) : Len(whole(items, k, minus)) < job.n}
  IN  pc = "done" =>
        /\ \A k \in fits : IsPrefix(whole(items, k, minus), out)
        /\ Len(out) = IF Len(items) \in fits THEN Len(whole(items, Len(items), minus)) ELSE job.n - 1

(* Zero in hexadecimal: the code puts the digit in front of the prefix     *)
(* (print.c:142-147): README.md, section 4.                                *)
hexzero(it) == it.lit = "" /\ it.verb \in {"p", "x"} /\ number_of(it) = 0


(* taskname and taskstate, which print with vseprint, take "an argument    *)
(* list like printf" (README:67).  So a negative number has its sign.      *)
LikePrintf == Shows(<<"-">>)

(* netaccept prints the address of the peer with "%d.%d.%d.%d" into 16     *)
(* bytes (README:133-134).  The text is complete for every address, and    *)
(* given to netdial it means the same address again, although parseip      *)
(* takes a leading 0 for octal and has short forms.                        *)
ReadsBack == pc = "done" /\ job.addr # <<>> => parseip(out) = {job.addr}
=============================================================================
