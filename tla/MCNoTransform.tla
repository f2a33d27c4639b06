---------------------------- MODULE MCNoTransform ----------------------------
(* Every short value, and lists of up to three parts.                       *)
EXTENDS NoTransform

MCChars == {"n", "N", "=", ";", ",", "\"", "\\", " "}

MCLower == [c \in MCChars |-> IF c = "N" THEN "n" ELSE c]

MCDirective == <<"n">>

Line(v) == [live |-> TRUE, cache_control |-> TRUE, value |-> v]

Words(chars, lengths) == UNION {[1..k -> chars] : k \in lengths}

Values ==
  Words(MCChars, 1..4) \cup Words(MCChars \ {"N"}, {5}) \cup Words({"n", ",", "\"", "\\"}, {6})

Quoted == <<"n", "n", "=", "\"", "n", ",", "n", "\\", "\"", ",", "n", "\"">>

(* Lines to put in the parts: one that says it, one that does not, one that *)
(* has it in quotes only, an empty one, one removed, one of another name.   *)
Lines ==
  {Line(<<"N">>), Line(<<"n", "n", ",", "=">>), Line(Quoted), Line(Quoted \o <<",", "n">>),
   Line(<<>>), [Line(<<"n">>) EXCEPT !.live = FALSE],
   [Line(<<"n">>) EXCEPT !.cache_control = FALSE]}

Parts(n) == UNION {[1..k -> Lines] : k \in 1..n}

MCLists ==
  {<<<<Line(v)>>>> : v \in Values} \cup {<<<<>>>>}
    \cup {<<a>> : a \in Parts(2)} \cup {<<a, b>> : a \in Parts(2), b \in Parts(1)}
    \cup {<<a, b, c>> : a, b, c \in Parts(1)}
=============================================================================
