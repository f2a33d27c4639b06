--------------------------- MODULE MCAcceptEncoding ---------------------------
(* Lines put together from every few of these pieces, and well-formed and    *)
(* malformed elements of br and "*" on up to two lines.                      *)
EXTENDS AcceptEncodingOracle, AcceptEncodingFields

MCChars ==
  {"b", "B", "r", "R", "q", "Q", "a", "x", "*", ",", ";", " ", "\t", "=", ".", "\"", "\\"}
    \cup Digit

MCNameChars == {"b", "B", "r", "R", "q", "Q", "a", "x", "*"} \cup Digit

MCLower == [c \in MCChars |-> IF c = "B" THEN "b" ELSE IF c = "R" THEN "r" ELSE c]

MCCoding == <<"b", "r">>

br == <<"b", "r">>
qeq == <<";", "q", "=">>

Element(text, form, weight) == [text |-> text, form |-> form, weight |-> weight]

(* The values of "q" a field may give, and those that are none.              *)
Weighted ==
  {Element(br \o text, "coding", 0) : text \in {qeq \o <<"0">>, qeq \o <<"0", ".">>}}
  \cup {Element(<<"B", "R", " ", ";", " ", "Q", "=", "0", ".", "5", " ">>, "coding", 500),
        Element(br \o qeq \o <<"0", ".", "1", "2", "3">>, "coding", 123),
        Element(br \o qeq \o <<"1", ".", "0", "0", "0">>, "coding", 1000),
        Element(<<"*">>, "star", 1000), Element(<<"*">> \o qeq \o <<"0">>, "star", 0)}

(* A value with delimiters in a quoted-string, and an escaped quote.         *)
Quoted == <<";", "a", "=", "\"", ";", "q", "=", "0", ",", "\\", "\"", ",", "b", "r", "\"">>

Parametric ==
  {Element(br \o Quoted, "coding", 1000),
   Element(br \o Quoted \o qeq \o <<"0", ".", "0", "0", "1">>, "coding", 1),
   Element(<<"x">> \o Quoted, "none", 0)}

Refused ==
  {Element(t, "none", 0) :
     t \in {<<>>, br \o <<" ", "x">>, br \o qeq, br \o qeq \o <<"2">>, br \o <<";", "q">>,
            br \o qeq \o <<"0", ".", "1", "2", "3", "4">>, br \o qeq \o <<"1", ".", "0", "1">>,
            br \o qeq \o <<"0">> \o qeq \o <<"1">>, br \o <<";">> \o qeq \o <<"1">>,
            br \o qeq \o <<"1", " ", "x">>}}

MCElements == Weighted \cup Parametric \cup Refused

Line(l) ==
  LET upto[i \in DOMAIN l] ==
        IF i = 1 THEN l[1].text ELSE upto[i - 1] \o <<",">> \o l[i].text
  IN  upto[Len(l)]

Combined ==
  {<<Line(<<a, b>>)>> : a, b \in MCElements}
    \cup {<<Line(<<a>>), Line(<<b, c>>)>> : a, b \in Weighted, c \in MCElements}

(* What these elements mean is what was meant.                               *)
ASSUME ElementsRead ==
  \A e \in MCElements, form \in {"coding", "star"} :
    IF e.form = form THEN Saying(e.text, form) = {1} /\ MemberWeight(e.text, 1) = e.weight
    ELSE Saying(e.text, form) = {}

Pieces ==
  {<<"b", "r">>, <<"*">>, <<",">>, <<";">>, <<" ">>, <<"a">>, <<"=">>, <<"\"">>, <<"\\">>,
   <<";", "q", "=", "0">>, <<";", "q", "=", "1">>, <<".", "0", "0">>, <<"1">>}

(* An empty piece makes the shorter lines.                                   *)
Some == Pieces \cup {<<>>}

(* At the start, after a name, inside a value and inside a quoted-string;    *)
(* the last two with one piece less.                                         *)
Ends ==
  {<<>>, <<"b", "r">>} \X Some
    \cup {<<"b", "r", ";", "a", "=">>, <<"\"", ",", "b", "r">>} \X {<<>>}

MCFields == Combined \cup {<<e[1] \o a \o b \o c \o e[2]>> : e \in Ends, a, b, c \in Some}
=============================================================================
