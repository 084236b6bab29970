------------------------------ MODULE Vseprint ------------------------------
(***************************************************************************)
(* Formatted printing into a bounded buffer (print.c): one call of         *)
(* vseprint, a step for every character of the format, or one call of      *)
(* strecpy.  A job is the call: its function fn ("text" for vseprint,      *)
(* "strecpy"), the format (for strecpy the string to copy), the arguments  *)
(* and n = edst - dst.                                                     *)
(*                                                                         *)
(* Characters are strings of length one; out is what is in the buffer, so  *)
(* that w = dst + Len(out).  Integers are IntBits wide, longs LongBits     *)
(* (LP64: 32 and 64).  An argument has a meaning as a number and one as a  *)
(* string; the verb chooses.  The string of a %c is one character, or none *)
(* for a zero.                                                             *)
(***************************************************************************)
EXTENDS Integers, Sequences, FiniteSets

CONSTANTS Jobs,      \* the calls
          Strerror,  \* what strerror(errno) returns
          IntBits, LongBits

ASSUME PrintAssumption ==
  /\ \A j \in Jobs : j.n \in Nat /\ j.fn \in {"text", "strecpy"}
  /\ \A j \in Jobs : j.fmt \in Seq(STRING) /\ j.args \in Seq([num : Int, str : Seq(STRING)])
  /\ Strerror \in Seq(STRING)
  /\ IntBits \in Nat \ {0} /\ LongBits \in Nat \ {0} /\ IntBits <= LongBits

VARIABLES job,   \* the call
          fmt,   \* the rest of the format
          args,  \* the rest of the arguments
          out,   \* the characters written
          pc,    \* in the text, in a verb, or how the call ended
          fl, size, sign

spec == <<fl, size, sign>>
vars == <<job, fmt, args, out, pc, spec>>

Init ==
  /\ job \in Jobs
  /\ fmt = job.fmt
  /\ args = job.args
  /\ out = <<>>
  /\ pc = job.fn
  /\ fl = {} /\ size = 0 /\ sign = 1

-----------------------------------------------------------------------------
Digit == <<"0", "1", "2", "3", "4", "5", "6", "7", "8", "9", "a", "b", "c", "d", "e", "f">>
value(c) == (CHOOSE i \in 1..16 : Digit[i] = c) - 1

(* Mutant: the last character goes where the NUL has to go. *)
printstr_full(s, width) ==
  LET len == IF width < 0 THEN -width ELSE width
      room == job.n - Len(out)
      want == IF Len(s) < len THEN len ELSE Len(s)
      m == IF want > room THEN room ELSE want
      l == IF Len(s) > m THEN m ELSE Len(s)
      pad == [i \in 1..m - l |-> " "]
  IN  IF room <= 0 THEN out
      ELSE out \o (IF width < 0 THEN SubSeq(s, 1, l) \o pad ELSE pad \o SubSeq(s, 1, l))

(* The buffer after printstr(w, edst, s, width). *)
printstr(s, width) ==
  LET len == IF width < 0 THEN -width ELSE width
      room == job.n - Len(out)
      want == IF Len(s) < len THEN len ELSE Len(s)
      m == IF want >= room THEN room - 1 ELSE want
      l == IF Len(s) > m THEN m ELSE Len(s)
      pad == [i \in 1..m - l |-> " "]
  IN  IF room <= 0 THEN out
      ELSE out \o (IF width < 0 THEN SubSeq(s, 1, l) \o pad ELSE pad \o SubSeq(s, 1, l))

(* The digits of x, most significant first; none for zero.  (The smallest  *)
(* base is 8.)                                                             *)
digits(x, base) ==
  LET k == Cardinality({i \in 0..LongBits \div 3 : base^i <= x})
  IN  [j \in 1..k |-> Digit[((x \div base^(k - j)) % base) + 1]]


(* luv: the argument, of the width and signedness the flags name. *)
va_arg(x) ==
  LET w == 2^(IF fl \cap {"l", "ll"} = {} THEN IntBits ELSE LongBits)
      u == x % w
  IN  IF "u" \in fl \/ u < w \div 2 THEN u ELSE (u - w) % 2^LongBits

(* The number as printed: there is no sign, whatever neg says. *)
number(x, base) ==
  LET v == va_arg(x)
      neg == "u" \notin fl /\ v >= 2^(LongBits - 1)
      luv == IF neg THEN (-v) % 2^LongBits ELSE v
  IN  (IF base = 8 \/ luv = 0 THEN <<"0">> ELSE <<>>)
        \o (IF base = 16 THEN <<"0", "x">> ELSE <<>>) \o digits(luv, base)

-----------------------------------------------------------------------------
room_left == Len(out) < job.n - 1

literal ==
  /\ pc = "text" /\ fmt # <<>> /\ room_left
  /\ Head(fmt) # "%"
  /\ out' = Append(out, Head(fmt))
  /\ fmt' = Tail(fmt)
  /\ UNCHANGED <<job, args, pc, spec>>

percent ==
  /\ pc = "text" /\ fmt # <<>> /\ room_left
  /\ Head(fmt) = "%"
  /\ pc' = "verb"
  /\ fl' = {} /\ size' = 0 /\ sign' = 1
  /\ fmt' = Tail(fmt)
  /\ UNCHANGED <<job, args, out>>

Flags == {Digit[i] : i \in 1..10} \cup {"-", "l", "u"}
Base == [d |-> 10, o |-> 8, p |-> 16, x |-> 16]

InVerb(chars) == pc = "verb" /\ fmt # <<>> /\ Head(fmt) \in chars

(* size*10 + *p - '0' does not fit into an int; '0' is 48. *)
toowide ==
  /\ Head(fmt) \notin {"-", "l", "u"}
  /\ size * 10 + value(Head(fmt)) + 48 >= 2^(IntBits - 1)

flag ==
  /\ InVerb(Flags)
  /\ ~toowide
  /\ LET c == Head(fmt)
     IN  /\ sign' = IF c = "-" THEN -1 ELSE sign
         /\ size' = IF c \in {"-", "l", "u"} THEN size ELSE size * 10 + value(c)
         /\ fl' = CASE c = "u" -> fl \cup {"u"}
                    [] c = "l" -> fl \cup {IF "l" \in fl THEN "ll" ELSE "l"}
                    [] OTHER -> fl
  /\ fmt' = Tail(fmt)
  /\ UNCHANGED <<job, args, out, pc>>

(* Signed overflow: anything may happen. *)
overflow ==
  /\ InVerb(Flags)
  /\ toowide
  /\ pc' = "undefined"
  /\ UNCHANGED <<job, fmt, args, out, spec>>

(* The verb prints s. *)
field(s) ==
  /\ out' = printstr(s, size * sign)
  /\ fmt' = Tail(fmt)
  /\ pc' = "text"
  /\ UNCHANGED <<job, spec>>

num ==
  /\ InVerb(DOMAIN Base)
  /\ args # <<>>
  /\ field(number(Head(args).num, Base[Head(fmt)]))
  /\ args' = Tail(args)

string ==
  /\ InVerb({"c", "s"})
  /\ args # <<>>
  /\ field(Head(args).str)
  /\ args' = Tail(args)

error ==
  /\ InVerb({"r"})
  /\ field(Strerror)
  /\ UNCHANGED args

(* Any other verb: p now points into another string. *)
unknown ==
  /\ pc = "verb" /\ fmt # <<>>
  /\ Head(fmt) \notin Flags \cup DOMAIN Base \cup {"c", "s", "r"}
  /\ fmt' = <<"*", "v", "e", "r", "b", "*">>
  /\ pc' = "text"
  /\ UNCHANGED <<job, args, out, spec>>

(* The format ends inside a verb: the loop goes on behind its NUL, where   *)
(* anything may be.                                                        *)
runaway ==
  /\ pc = "verb" /\ fmt = <<>>
  /\ pc' = "undefined"
  /\ UNCHANGED <<job, fmt, args, out, spec>>

finish ==
  /\ pc = "text"
  /\ fmt = <<>> \/ ~room_left
  /\ pc' = IF Len(out) < job.n THEN "done" ELSE "aborted"
  /\ UNCHANGED <<job, fmt, args, out, spec>>

(* The NUL goes behind what printstr wrote, whether or not that is still   *)
(* inside the buffer.                                                      *)
strecpy ==
  /\ pc = "strecpy"
  /\ out' = printstr(fmt, 0)
  /\ pc' = IF Len(out') < job.n THEN "done" ELSE "overrun"
  /\ UNCHANGED <<job, fmt, args, spec>>

Next ==
  \/ literal \/ percent \/ flag \/ overflow \/ num \/ string \/ error \/ unknown
  \/ runaway \/ finish \/ strecpy

Spec == Init /\ [][Next]_vars

-----------------------------------------------------------------------------
(* No character is written outside the buffer, and what the loop and       *)
(* printstr have written always leaves room for the NUL.  The only calls   *)
(* that cannot store it are those with a buffer of no bytes at all: the    *)
(* assert at the end of vseprint aborts them, and strecpy, which has none, *)
(* stores its NUL behind the buffer (print.c:247).                         *)
InBounds ==
  /\ out = <<>> \/ Len(out) < job.n
  /\ pc = "done" => Len(out) < job.n
  /\ pc = "aborted" => job.n = 0 /\ job.fn = "text"
  /\ pc = "overrun" => job.n = 0 /\ job.fn = "strecpy"
=============================================================================
