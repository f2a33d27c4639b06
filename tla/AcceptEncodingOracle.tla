------------------------ MODULE AcceptEncodingOracle ------------------------
(***************************************************************************)
(* The reference parser the fuzz target compares the walker with            *)
(* (src/fuzz/fuzz_accept_encoding.c).  It answers for "br", with "*"        *)
(* allowed, and declines to answer where its small grammar ends.  A loop of *)
(* it is a function of the cursor, and a pass of the loop an operator,      *)
(* whose argument rest says what the passes after it return.                *)
(***************************************************************************)
EXTENDS AcceptEncoding

CONSTANT NameChars      \* the octets of a coding's name: letters, digits, "*", "-", "_"

ASSUME OracleAssumption ==
  /\ NameChars \subseteq Chars \ (OWS \cup {";", ",", Quote})
  /\ {"b", "r", "*"} \subseteq NameChars
  /\ \A c \in Chars : Lower[c] \in {"b", "r"} => c \in NameChars

Unsure == -1

RefEnd(t) == Len(t) + 1

RefIs(t, i, set) == i <= Len(t) /\ t[i] \in set

(* Where a loop that moves on from i while the octet is in set stops.       *)
RefPast(t, i, set) ==
  LET stops == {j \in i..Len(t) : t[j] \notin set} \cup {RefEnd(t)}
  IN  CHOOSE j \in stops : \A k \in stops : j <= k

RefUpto(t, i, set) == RefPast(t, i, Chars \ set)

(* Past a quoted-string at i without escapes, Unsure about any other.       *)
RefQuoted(t, i) ==
  LET close == RefUpto(t, i + 1, {Quote, Backslash})
  IN  IF RefIs(t, close, {Quote}) THEN close + 1 ELSE Unsure

(* To the comma that ends an element beginning with a quote.                *)
RefBlobPass(t, rest, i) ==
  IF ~RefIs(t, i, Chars \ {","}) THEN i
  ELSE IF t[i] # Quote THEN rest[i + 1]
  ELSE IF RefQuoted(t, i) = Unsure THEN Unsure
  ELSE rest[RefQuoted(t, i)]

RefBlob(t) == LET blob[i \in 1..RefEnd(t)] == RefBlobPass(t, blob, i) IN blob

(* To the comma, Unsure if a quote comes first.                             *)
RefRest(t, i) ==
  LET next == RefUpto(t, i, {",", Quote})
  IN  IF RefIs(t, next, {Quote}) THEN Unsure ELSE next

(* What the parameters come to: where they end, the weight, and whether the *)
(* element can match at all.                                                *)
Result(i, weight, matches) == [i |-> i, q |-> weight, matches |-> matches]

NoAnswer == Result(Unsure, 0, FALSE)

RefDigit(t, i, end) == IF i < end THEN CHOOSE d \in 0..9 : Digits[d + 1] = t[i] ELSE 0

(* The weight at i and where it ends.                                       *)
RefWeight(t, i) ==
  LET point == RefIs(t, i + 1, {"."})
      run == RefPast(t, i + 2, IF t[i] = "0" THEN Digit ELSE {"0"})
      end == IF ~point THEN i + 1 ELSE IF run < i + 5 THEN run ELSE i + 5
  IN  [i |-> end,
       q |-> IF t[i] = "1" THEN 1000
             ELSE IF ~point THEN 0
             ELSE 100 * RefDigit(t, i + 2, end) + 10 * RefDigit(t, i + 3, end) + RefDigit(t, i + 4, end)]

(* Past the value of a parameter other than q.                              *)
RefValue(t, i) ==
  IF RefIs(t, i, {Quote}) THEN RefQuoted(t, i) ELSE RefUpto(t, i, OWS \cup {";", ",", Quote})

(* On to the next parameter after a value that ended at i.                  *)
RefThen(t, rest, i, weight, seen) ==
  IF i = Unsure \/ RefIs(t, RefPast(t, i, OWS), Chars \ {";", ","}) THEN NoAnswer
  ELSE rest[RefPast(t, i, OWS)][weight][seen]

RefParameter(t, rest, i, weight, seen) ==
  LET ps == RefPast(t, i + 1, OWS)
      pe == RefUpto(t, ps, OWS \cup {"=", ";", ",", Quote})
      is_qp == pe = ps + 1 /\ t[ps] \in {"q", "Q"}
      eq == RefPast(t, pe, OWS)
      value == RefPast(t, eq + 1, OWS)
  IN  IF ~RefIs(t, i, {";"}) THEN Result(i, weight, TRUE)
      ELSE IF pe = ps THEN Result(RefRest(t, pe), weight, FALSE)
      ELSE IF ~RefIs(t, eq, {"="}) THEN IF is_qp THEN NoAnswer ELSE rest[eq][weight][seen]
      ELSE IF ~is_qp THEN RefThen(t, rest, RefValue(t, value), weight, seen)
      ELSE IF seen \/ ~RefIs(t, value, {"0", "1"}) THEN NoAnswer
      ELSE RefThen(t, rest, RefWeight(t, value).i, RefWeight(t, value).q, TRUE)

RefParameters(t) ==
  LET parameters[i \in 1..RefEnd(t)] ==
        [weight \in Qs |-> [seen \in BOOLEAN |-> RefParameter(t, parameters, i, weight, seen)]]
  IN  parameters

RefVerdict(br_q, ref_star_q) ==
  IF (IF br_q >= 0 THEN br_q ELSE ref_star_q) > 0 THEN 1 ELSE 0

(* On to the next element after one that ended at i, the comma consumed.    *)
RefNext(t, rest, i, br_q, ref_star_q) ==
  IF i = Unsure \/ RefIs(t, i, Chars \ {","}) THEN Unsure
  ELSE rest[IF i <= Len(t) THEN i + 1 ELSE i][br_q][ref_star_q]

RefElement(t, rest, i, br_q, ref_star_q) ==
  LET ts == RefPast(t, i, OWS \cup {","})
      te == RefPast(t, ts, NameChars)
      after == RefPast(t, te, OWS)
      junk == RefIs(t, after, Chars \ {";", ","})
      from == IF junk THEN RefRest(t, after) ELSE after
      r == IF from = Unsure THEN NoAnswer ELSE RefParameters(t)[from][1000][FALSE]
      is_br == /\ te = ts + 2 /\ ~junk /\ r.matches
               /\ Lower[t[ts]] = "b" /\ Lower[t[ts + 1]] = "r"
      ref_is_star == te = ts + 1 /\ ~junk /\ r.matches /\ t[ts] = "*"
  IN  IF ts = RefEnd(t) THEN RefVerdict(br_q, ref_star_q)
      ELSE IF t[ts] = Quote THEN RefNext(t, rest, RefBlob(t)[ts], br_q, ref_star_q)
      ELSE IF te = ts THEN Unsure
      ELSE RefNext(t, rest, r.i, IF is_br THEN r.q ELSE br_q,
                   IF ref_is_star THEN r.q ELSE ref_star_q)

RefElements(t) ==
  LET elements_from[i \in 1..RefEnd(t)] ==
        [br_q \in Qs |-> [ref_star_q \in Qs |-> RefElement(t, elements_from, i, br_q, ref_star_q)]]
  IN  elements_from

(* ref_accepts                                                              *)
RefAccepts(t) == RefElements(t)[1][-1][-1]

(***************************************************************************)
(* Properties.                                                              *)
(***************************************************************************)
(* "A divergence on an input the reference is confident about is a real     *)
(* semantic defect": on a single line the walker accepts br exactly where   *)
(* the oracle does, unless that is unsure.                                  *)
AgreesWithOracle ==
  pc = "done" /\ Len(field) = 1 =>
    RefAccepts(field[1]) \in {Unsure, IF FieldWeight > 0 THEN 1 ELSE 0}
=============================================================================
