-------------------------------- MODULE Addr --------------------------------
(***************************************************************************)
(* parseip (net.c:96-148): the text of an IPv4 address as four bytes.      *)
(* Characters and digits are those of module Vseprint.                     *)
(***************************************************************************)
EXTENDS Vseprint, SequencesExt

(* What a byte of addr holds that was never assigned, and the failure -1. *)
junk == "junk"
Fail == <<>>

-----------------------------------------------------------------------------
(* The digits of a number in this base at the front of s. *)
leading(s, base) ==
  LET other == SelectInSeq(s, LAMBDA c : c \notin {Digit[d] : d \in 1..base})
  IN  IF other = 0 THEN s ELSE SubSeq(s, 1, other - 1)

(* strtoul(s, &rest, 0), for text without sign or blanks: the number, and  *)
(* how many characters it took.                                            *)
strtoul(s) ==
  LET hex == Len(s) > 2 /\ s[1] = "0" /\ s[2] = "x" /\ leading(SubSeq(s, 3, 3), 16) # <<>>
      base == CASE hex -> 16
                [] ~hex /\ s # <<>> /\ s[1] = "0" -> 8
                [] OTHER -> 10
      skip == IF hex THEN 2 ELSE 0
      ds == leading(SubSeq(s, skip + 1, Len(s)), base)
  IN  [x |-> FoldLeft(LAMBDA v, c : v * base + value(c), 0, ds), len |-> skip + Len(ds)]

(* Mutant: the largest byte is refused. *)
byte_less(x, rest) == x >= 0 /\ x < 255 /\ (rest = <<>> \/ rest[1] = ".")

(* A number that may be part of an address, with what follows it. *)
byte(x, rest) == x >= 0 /\ x < 256 /\ (rest = <<>> \/ rest[1] = ".")

(* The loop: addr holds the first i numbers of name. *)
numbers(name) ==
  LET turn(s) ==
        LET r == strtoul(s.p)
            rest == SubSeq(s.p, r.len + 1, Len(s.p))
            x == ((r.x + 2^(IntBits - 1)) % 2^IntBits) - 2^(IntBits - 1)
        IN  CASE s.bad \/ s.p = <<>> -> s
              [] ~s.bad /\ s.p # <<>> /\ ~byte(x, rest) -> [s EXCEPT !.bad = TRUE]
              [] OTHER -> [s EXCEPT !.p = IF rest = <<>> THEN rest ELSE Tail(rest),
                                    !.addr = Append(@, x)]
      after[i \in 0..4] ==
        IF i = 0 THEN [p |-> name, addr |-> <<>>, bad |-> FALSE] ELSE turn(after[i - 1])
  IN  after[4]

(* CLASS(addr): what is not assigned may be anything. *)
CLASS(a) == IF Len(a) = 0 THEN 0..3 ELSE {a[1] \div 64}

(* The address for the numbers a of class c. *)
expand(a, c) ==
  LET i == Len(a)
  IN  CASE i = 4 -> a
        [] i = 3 /\ c \in {0, 1} -> <<a[1], 0, a[2], a[3]>>
        [] i = 2 /\ c \in {0, 1} -> <<a[1], 0, 0, a[2]>>
        [] i = 3 /\ c = 2 -> <<a[1], a[2], 0, a[3]>>
        [] c = 3 /\ i < 4 -> a \o [j \in 1..4 - i |-> junk]
        [] OTHER -> Fail

(* All that parseip(name) may answer. *)
parseip(name) ==
  LET s == numbers(name)
  IN  IF s.bad THEN {Fail} ELSE {expand(s.addr, c) : c \in CLASS(s.addr)}
=============================================================================
