----------------------------- MODULE MCVseprint -----------------------------
(* The model-checking instance of VseprintRef. *)
EXTENDS VseprintRef

hi == <<"h", "i">>

(* Numbers at the edges of both widths, strings, characters, the error     *)
(* text, a verb that is none, a format that breaks off, and a width too    *)
(* large for an int.                                                       *)
Numbers ==
  {verb(f, v, x) : f \in {<<>>, <<"4">>, <<"-", "4">>}, v \in {"d", "o", "x"}, x \in {-512, -7, 0, 511}}
    \cup {verb(f, v, x) : f \in {<<"u">>, <<"l">>, <<"l", "l", "u">>}, v \in {"d", "p"}, x \in {-2048, -9, 100}}
Others ==
  {verb(f, "s", s) : f \in {<<>>, <<"3">>, <<"-", "3">>, <<"1", "0">>}, s \in {<<>>, hi}}
    \cup {verb(<<>>, "c", s) : s \in {<<>>, <<"c">>}}
    \cup {verb(<<>>, v, 0) : v \in {"r", "z", ""}}
    \cup {verb(<<"9", "9", "9">>, "s", hi)}
    \cup {lit("a"), lit("9")}
Items == Numbers \cup Others

(* Only the last item may break off. *)
First == {a \in Others : a.lit # "" \/ a.verb # ""} \cup {verb(<<"-", "4">>, "d", -7)}

MCJobs ==
  {call(its, n) : its \in {<<>>} \cup {<<a>> : a \in Items}, n \in {0, 1, 2, 4, 5, 16}}
    \cup {call(<<a, b>>, n) : a \in First, b \in Items, n \in {3, 6, 16}}
    \cup {copy(s, n) : s \in {<<>>, hi}, n \in 0..4}
    \cup {peer(a) : a \in [1..4 -> {0, 8, 64, 192, 255}]}

(* Decimal numbers in an ample buffer. *)
Decimals ==
  {call(<<verb(f, "d", x)>>, 16) : f \in {<<>>, <<"4">>, <<"-", "4">>, <<"u">>, <<"l">>}, x \in {-7, 0, 7}}
=============================================================================
