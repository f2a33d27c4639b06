------------------------- MODULE AcceptEncodingProofs -------------------------
(***************************************************************************)
(* Theorems about AcceptEncoding, for every field, every coding and every   *)
(* set of octets: its agreement with the oracle of the fuzz target, and     *)
(* that a field means to it what the grammar says of its octets.            *)
(***************************************************************************)
EXTENDS AcceptEncodingOracle, AcceptEncodingFields, SequenceTheorems, Recursion

(***************************************************************************)
(* The cursor loops.                                                        *)
(***************************************************************************)

TextType == Text \in Seq(Chars)

LEMMA TextTyped == TypeOK => TextType
BY DEF TypeOK, TextType, Text

(* The loop stops at the first octet outside the set, or at the end.        *)
LEMMA PastStops ==
  ASSUME TextType, NEW i \in 1..End, NEW set
  PROVE  /\ Past(i, set) \in i..End
         /\ Past(i, set) < End => Text[Past(i, set)] \notin set
         /\ \A k \in i..(Past(i, set) - 1) : Text[k] \in set
<1> DEFINE stops == {j \in i..Len(Text) : Text[j] \notin set}
<1>0. Len(Text) \in Nat /\ End = Len(Text) + 1
  BY DEF TextType, End
<1>1. CASE stops # {}
  <2>1. stops \in SUBSET Nat
    BY <1>0
  <2>2. PICK j \in stops : \A y \in stops : j <= y
    BY <1>1, <2>1, LeastElement
  <2>3. \A k \in i..(j - 1) : Text[k] \in set
    BY <1>0, <2>2
  <2> DEFINE good(x) == Text[x] \notin set /\ \A k \in i..(x - 1) : Text[k] \in set
  <2>4. Past(i, set) = CHOOSE x \in i..Len(Text) : good(x)
    BY <2>2 DEF Past
  <2>5. j \in i..Len(Text) /\ good(j)
    BY <2>2, <2>3
  <2>6. Past(i, set) \in i..Len(Text) /\ good(Past(i, set))
    BY <2>4, <2>5
  <2> QED BY <1>0, <2>6
<1>2. CASE stops = {}
  <2>1. Past(i, set) = End
    BY <1>2 DEF Past
  <2> QED BY <1>0, <1>2, <2>1
<1> QED BY <1>1, <1>2

LEMMA UptoStops ==
  ASSUME TextType, NEW i \in 1..End, NEW set
  PROVE  /\ Upto(i, set) \in i..End
         /\ Upto(i, set) < End => Text[Upto(i, set)] \in set
         /\ \A k \in i..(Upto(i, set) - 1) : Text[k] \notin set
<1>1. Upto(i, set) \in i..End /\ \A k \in i..(Upto(i, set) - 1) : Text[k] \in Chars \ set
  BY PastStops DEF Upto
<1>2. Upto(i, set) < End => Text[Upto(i, set)] \notin Chars \ set
  BY PastStops DEF Upto
<1>3. Upto(i, set) < End => Text[Upto(i, set)] \in Chars
  BY <1>1 DEF TextType, End
<1> QED BY <1>1, <1>2, <1>3

LEMMA EndTyped ==
  ASSUME TextType
  PROVE  End \in Nat \ {0} /\ Len(Text) \in Nat /\ End = Len(Text) + 1
         /\ \A i \in 1..End : i < End => i + 1 \in 1..End /\ Text[i] \in Chars
BY DEF TextType, End

(***************************************************************************)
(* Where the pieces of an element and of a parameter lie.                   *)
(***************************************************************************)

LEMMA ElementPlaces ==
  ASSUME TypeOK
  PROVE  /\ Tok \in p..End /\ NameEnd \in Tok..End
         /\ Past(NameEnd, OWS) \in NameEnd..End
         /\ Tok < End => Text[Tok] # ","
<1>1. TextType /\ p \in 1..End /\ End \in Nat
  BY TextTyped, EndTyped DEF TypeOK
<1>2. Tok \in p..End /\ (Tok < End => Text[Tok] \notin OWS \cup {","})
  BY <1>1, PastStops DEF Tok
<1>3. Tok \in 1..End
  <2>1. Tok \in p..End
    BY <1>2
  <2> QED BY <1>1, <2>1
<1>4. NameEnd \in Tok..End
  BY <1>1, <1>3, UptoStops DEF NameEnd
<1>5. NameEnd \in 1..End
  BY <1>1, <1>3, <1>4
<1>6. Past(NameEnd, OWS) \in NameEnd..End
  BY <1>1, <1>5, PastStops
<1> QED BY <1>2, <1>4, <1>6

LEMMA ParameterPlaces ==
  ASSUME TypeOK, Parameter
  PROVE  /\ p + 1 \in 1..End /\ NStart \in (p + 1)..End /\ NEnd \in NStart..End
         /\ After \in NEnd..End
         /\ HasValue => After + 1 \in 1..End /\ Value \in (After + 1)..End
<1>1. TextType /\ p \in 1..End /\ p < End /\ End \in Nat
  BY TextTyped, EndTyped DEF TypeOK, Parameter, Is
<1>2. p + 1 \in 1..End
  BY <1>1
<1>3. NStart \in (p + 1)..End
  BY <1>1, <1>2, PastStops DEF NStart
<1>4. NStart \in 1..End
  BY <1>1, <1>2, <1>3
<1>5. NEnd \in NStart..End
  BY <1>1, <1>4, UptoStops DEF NEnd
<1>6. NEnd \in 1..End
  BY <1>1, <1>4, <1>5
<1>7. After \in NEnd..End
  BY <1>1, <1>6, PastStops DEF After
<1>8. ASSUME HasValue PROVE After + 1 \in 1..End /\ Value \in (After + 1)..End
  <2>1. After + 1 \in 1..End
    BY <1>1, <1>6, <1>7, <1>8 DEF HasValue, Is
  <2> QED BY <1>1, <2>1, PastStops DEF Value
<1> QED BY <1>2, <1>3, <1>5, <1>7, <1>8

(***************************************************************************)
(* The qvalue.                                                              *)
(***************************************************************************)

LEMMA DecimalTyped ==
  ASSUME NEW i, NEW end, i < end => Text[i] \in Digit
  PROVE  Decimal(i, end) \in 0..9
<1>1. CASE i < end
  <2>1. PICK k \in 1..10 : Text[i] = Digits[k]
    BY <1>1 DEF Digit
  <2>2. k - 1 \in 0..9 /\ Digits[(k - 1) + 1] = Text[i]
    BY <2>1
  <2>3. (CHOOSE d \in 0..9 : Digits[d + 1] = Text[i]) \in 0..9
    BY <2>2
  <2> QED BY <1>1, <2>3 DEF Decimal
<1>2. CASE ~(i < end)
  BY <1>2 DEF Decimal
<1> QED BY <1>1, <1>2

(* A qvalue lies within the line and between 0 and 1000 thousandths.        *)
LEMMA QvalueTyped ==
  ASSUME TextType, NEW i \in 1..End, Is(i, {"0", "1"})
  PROVE  QvalueEnd(i) \in (i + 1)..End /\ Qvalue(i) \in 0..1000
<1>1. End \in Nat /\ i < End /\ i + 1 \in 1..End
  BY EndTyped DEF Is
<1> DEFINE set == IF Text[i] = "0" THEN Digit ELSE {"0"}
           end == QvalueEnd(i)
           run == Past(i + 2, set)
<1>2. CASE ~Point(i)
  <2>1. end = i + 1
    BY <1>2 DEF QvalueEnd
  <2> QED BY <1>1, <1>2, <2>1 DEF Qvalue
<1>3. CASE Point(i)
  <2>1. i + 2 \in 1..End
    BY <1>1, <1>3 DEF Point, Is
  <2>2. run \in (i + 2)..End /\ \A k \in (i + 2)..(run - 1) : Text[k] \in set
    BY <2>1, PastStops
  <2>3. end = Least(run, i + 2 + 3)
    BY <1>3 DEF QvalueEnd, DecimalsEnd
  <2> HIDE DEF end, run, set
  <2>4. end \in (i + 2)..End /\ end <= run
    BY <1>1, <2>1, <2>2, <2>3 DEF Least
  <2>5. CASE Text[i] = "1"
    BY <1>1, <2>4, <2>5 DEF Qvalue, end
  <2>6. CASE Text[i] # "1"
    <3>1. set = Digit
      BY <2>6 DEF set, Is
    <3>2. \A k \in {i + 2, i + 3, i + 4} : k < end => Text[k] \in Digit
      BY <1>1, <2>2, <2>4, <3>1
    <3>3. /\ Decimal(i + 2, end) \in 0..9 /\ Decimal(i + 3, end) \in 0..9
          /\ Decimal(i + 4, end) \in 0..9
      BY <3>2, DecimalTyped
    <3>4. Qvalue(i) = 100 * Decimal(i + 2, end) + 10 * Decimal(i + 3, end) + Decimal(i + 4, end)
      BY <1>3, <2>6 DEF Qvalue, end
    <3>5. \A a, b, c \in 0..9 : 100 * a + 10 * b + c \in 0..1000
      OBVIOUS
    <3>6. Qvalue(i) \in 0..1000
      BY <3>3, <3>4, <3>5
    <3> QED BY <1>1, <2>4, <3>6 DEF end
  <2> QED BY <2>5, <2>6
<1> QED BY <1>2, <1>3

(***************************************************************************)
(* Steps.                                                                   *)
(***************************************************************************)

(* The walk never falls behind the cursor of the caller, and quoted-strings *)
(* are walked where the two scanners are.                                   *)
Ahead ==
  /\ pc \in {"param", "value", "rest"} => pp <= p
  /\ quoted => pc \in {"value", "rest"}

Inv == TypeOK /\ Ahead

LEMMA SameText == UNCHANGED <<field, line>> => UNCHANGED <<Text, End>>
BY DEF Text, End

LEMMA RankPrecedes ==
  ASSUME \/ line < line'
         \/ line' = line /\ Ended < Ended'
         \/ line' = line /\ Ended' = Ended /\ Anchor < Anchor'
         \/ line' = line /\ Ended' = Ended /\ Anchor' = Anchor /\ Stage < Stage'
         \/ line' = line /\ Ended' = Ended /\ Anchor' = Anchor /\ Stage' = Stage /\ p < p'
         \/ line' = line /\ Ended' = Ended /\ Anchor' = Anchor /\ Stage' = Stage /\ p' = p
            /\ Pass < Pass'
  PROVE  Precedes(Rank, Rank')
<1> DEFINE r == Rank
           s == Rank'
<1>1. /\ r[1] = line /\ r[2] = Ended /\ r[3] = Anchor /\ r[4] = Stage /\ r[5] = p /\ r[6] = Pass
      /\ s[1] = line' /\ s[2] = Ended' /\ s[3] = Anchor' /\ s[4] = Stage' /\ s[5] = p' /\ s[6] = Pass'
  BY DEF Rank
<1> HIDE DEF r, s
<1>2. CASE r[1] < s[1]
  BY <1>2 DEF Precedes, r, s
<1>3. CASE r[1] = s[1] /\ r[2] < s[2]
  BY <1>3 DEF Precedes, r, s
<1>4. CASE r[1] = s[1] /\ r[2] = s[2] /\ r[3] < s[3]
  BY <1>4 DEF Precedes, r, s
<1>5. CASE r[1] = s[1] /\ r[2] = s[2] /\ r[3] = s[3] /\ r[4] < s[4]
  BY <1>5 DEF Precedes, r, s
<1>6. CASE r[1] = s[1] /\ r[2] = s[2] /\ r[3] = s[3] /\ r[4] = s[4] /\ r[5] < s[5]
  BY <1>6 DEF Precedes, r, s
<1>7. CASE r[1] = s[1] /\ r[2] = s[2] /\ r[3] = s[3] /\ r[4] = s[4] /\ r[5] = s[5] /\ r[6] < s[6]
  BY <1>7 DEF Precedes, r, s
<1> QED BY <1>1, <1>2, <1>3, <1>4, <1>5, <1>6, <1>7

LEMMA NotedTyped ==
  ASSUME TypeOK, NEW w \in Qs, NEW coding, NEW star, Noted(w, coding, star)
  PROVE  line_coding_q' \in Qs /\ line_star_q' \in Qs
BY DEF TypeOK, Noted

(* What is left of the types when the field and its lines stay.             *)
LEMMA TypesKept ==
  ASSUME TypeOK, UNCHANGED <<field, line>>,
         p' \in 1..End, pp' \in 1..End, q' \in Qs, q_seen' \in BOOLEAN, quoted_name' \in BOOLEAN,
         is_coding' \in BOOLEAN, is_star' \in BOOLEAN,
         line_coding_q' \in Qs, line_star_q' \in Qs, coding_q' \in Qs, star_q' \in Qs,
         pc' \in {"line", "element", "param", "value", "rest", "done"}, quoted' \in BOOLEAN
  PROVE  TypeOK'
<1>1. End' = End
  BY SameText
<1> QED BY <1>1 DEF TypeOK, Qs

Good == Inv' /\ Precedes(Rank, Rank')

LEMMA BeginStep ==
  ASSUME Inv, BeginElement
  PROVE  Good
<1> DEFINE after == Past(NameEnd, OWS)
<1>1. TypeOK /\ TextType /\ UNCHANGED <<Text, End>>
  BY TextTyped, SameText DEF BeginElement, Inv
<1>n. End \in Nat /\ p \in 1..End /\ Tok \in p..End /\ NameEnd \in Tok..End /\ after \in NameEnd..End
  BY <1>1, EndTyped, ElementPlaces DEF TypeOK
<1>2. Tok < End /\ Text[Tok] # "," /\ pc = "element"
  BY <1>1, ElementPlaces DEF BeginElement
<1>4. /\ p' = after /\ pp' = after /\ pc' \in {"param", "rest"} /\ quoted' = quoted
      /\ q' = 1000 /\ q_seen' = FALSE /\ quoted_name' = FALSE
      /\ UNCHANGED <<field, line, coding_q, star_q>>
  BY ZenonT(40) DEF BeginElement, request_qs
<1> HIDE DEF after
<1>3. after \in p..End /\ after \in 1..End
  BY <1>n
<1>5. line_coding_q' \in Qs /\ line_star_q' \in Qs
  <2>1. UNCHANGED line_qs \/ Noted(1000, IsCoding /\ Delimited(after), IsStar /\ Delimited(after))
    <3>1. CASE Is(after, {";"})
      BY <3>1, ZenonT(40) DEF BeginElement, after
    <3>2. CASE ~Is(after, {";"})
      BY <3>2, ZenonT(40) DEF BeginElement, after
    <3> QED BY <3>1, <3>2
  <2>2. 1000 \in Qs
    BY DEF Qs
  <2>3. CASE UNCHANGED line_qs
    BY <1>1, <2>3 DEF TypeOK, line_qs
  <2>4. CASE Noted(1000, IsCoding /\ Delimited(after), IsStar /\ Delimited(after))
    BY <1>1, <2>2, <2>4, NotedTyped
  <2> QED BY <2>1, <2>3, <2>4
<1>6. is_coding' \in BOOLEAN /\ is_star' \in BOOLEAN
  BY DEF BeginElement, IsCoding, IsStar, Delimited
<1>7. TypeOK'
  <2>1. 1000 \in Qs /\ coding_q \in Qs /\ star_q \in Qs /\ quoted \in BOOLEAN
    BY <1>1 DEF TypeOK, Qs
  <2> QED BY <1>1, <1>3, <1>4, <1>5, <1>6, <2>1, TypesKept, ZenonT(40)
<1>8. Ahead'
  <2>1. ~quoted
    BY <1>2 DEF Inv, Ahead
  <2> QED BY <1>n, <1>4, <2>1 DEF Ahead
<1>9. Anchor < Anchor' \/ (Anchor' = Anchor /\ Stage < Stage')
  <2>1. Anchor = p /\ Anchor' = after /\ Stage' \in {1, 2}
    BY <1>2, <1>4 DEF Anchor, Stage
  <2>2. CASE Is(p, Chars \ {","})
    <3>1. Stage = 0
      BY <1>2, <2>2 DEF Stage
    <3> QED BY <1>n, <1>3, <2>1, <3>1
  <2>3. CASE ~Is(p, Chars \ {","})
    <3>1. Tok # p
      BY <1>1, <1>n, <1>2, <2>3, EndTyped DEF Is
    <3>2. after > p
      BY <1>n, <3>1
    <3> QED BY <2>1, <3>2
  <2> QED BY <2>2, <2>3
<1>10. line' = line /\ Ended' = Ended
  BY <1>2, <1>4 DEF Ended
<1> QED BY <1>7, <1>8, <1>9, <1>10, RankPrecedes DEF Good, Inv

(* Evaluating stops at i, at or after the caller's cursor.                  *)
LEMMA MalformedStep ==
  ASSUME Inv, pc \in {"param", "value"}, NEW i \in p..End, NEW rewind, Malformed(i, rewind),
         q_seen' \in BOOLEAN, quoted_name' \in BOOLEAN,
         UNCHANGED <<field, line, pp, element, line_qs, request_qs, quoted>>
  PROVE  Good
<1>1. End \in Nat /\ pp \in 1..End /\ p \in 1..End /\ pp <= p
  BY TextTyped, EndTyped DEF Inv, TypeOK, Ahead
<1>2. p' \in {pp, i} /\ q' = -1 /\ pc' = "rest"
  BY DEF Malformed, Cursor
<1>3. p' \in 1..End /\ pp <= p'
  BY <1>1, <1>2
<1>4. TypeOK'
  BY <1>1, <1>2, <1>3, TypesKept DEF Inv, TypeOK, Qs, element, line_qs, request_qs
<1>5. Ahead'
  BY <1>2, <1>3 DEF Ahead
<1>6. line' = line /\ Ended' = Ended /\ Anchor' = Anchor /\ Stage = 1 /\ Stage' = 2
  BY <1>2 DEF Ended, Anchor, Stage
<1> QED BY <1>4, <1>5, <1>6, RankPrecedes DEF Good, Inv

(* A step within the parameters, onwards.                                   *)
LEMMA OnwardStep ==
  ASSUME Inv, pc \in {"param", "value"}, pc' \in {"param", "value"}, p' \in p..End,
         p' > p \/ Pass' > Pass, quoted' => pc' = "value",
         q' \in Qs, q_seen' \in BOOLEAN, quoted_name' \in BOOLEAN, quoted' \in BOOLEAN,
         UNCHANGED <<field, line, pp, element, line_qs, request_qs>>
  PROVE  Good
<1>1. End \in Nat /\ pp \in 1..End /\ p \in 1..End /\ pp <= p
  BY TextTyped, EndTyped DEF Inv, TypeOK, Ahead
<1>2. p' \in 1..End /\ pp <= p'
  BY <1>1
<1>3. TypeOK'
  BY <1>1, <1>2, TypesKept DEF Inv, TypeOK, element, line_qs, request_qs
<1>4. Ahead'
  BY <1>2 DEF Ahead
<1>5. line' = line /\ Ended' = Ended /\ Anchor' = Anchor /\ Stage = 1 /\ Stage' = 1
  BY DEF Ended, Anchor, Stage
<1>6. p < p' \/ (p' = p /\ Pass < Pass')
  <2>1. Pass \in Nat /\ Pass' \in Nat
    BY DEF Pass
  <2> QED BY <1>1, <2>1
<1> QED BY <1>3, <1>4, <1>5, <1>6, RankPrecedes DEF Good, Inv

LEMMA EndParameterStep ==
  ASSUME Inv, pc = "param", NEW i \in (p + 1)..End, NEW weight \in Qs, EndParameter(i, weight),
         q_seen' \in BOOLEAN, quoted_name' \in BOOLEAN,
         UNCHANGED <<field, line, pp, element, line_qs, request_qs, quoted>>
  PROVE  Good
<1>1. TextType /\ End \in Nat /\ p \in 1..End /\ quoted \in BOOLEAN
  BY TextTyped, EndTyped DEF Inv, TypeOK
<1> DEFINE next == Past(i, OWS)
<1>2. i \in 1..End
  BY <1>1
<1>3. next \in i..End
  BY <1>1, <1>2, PastStops
<1>4. CASE Delimited(next)
  <2>1. p' = next /\ q' = weight /\ pc' = "param"
    BY <1>4 DEF EndParameter
  <2> HIDE DEF next
  <2>2. p' \in p..End /\ p' > p
    BY <1>1, <1>3, <2>1
  <2>3. ~quoted'
    BY DEF Inv, Ahead
  <2> QED BY <1>1, <2>1, <2>2, <2>3, OnwardStep
<1>5. CASE ~Delimited(next)
  <2>1. Malformed(next, quoted_name')
    BY <1>5 DEF EndParameter
  <2> HIDE DEF next
  <2>2. next \in p..End
    BY <1>1, <1>3
  <2> QED BY <1>1, <2>1, <2>2, MalformedStep
<1> QED BY <1>4, <1>5

LEMMA ParametersStep ==
  ASSUME Inv, Parameters
  PROVE  Good
<1>1. TypeOK /\ TextType /\ End \in Nat /\ p \in 1..End /\ quoted \in BOOLEAN /\ q \in Qs
      /\ q_seen \in BOOLEAN /\ quoted_name \in BOOLEAN
  BY TextTyped, EndTyped DEF Inv, TypeOK
<1>2. QuotedName \in BOOLEAN
  BY <1>1 DEF QuotedName
<1>3. ASSUME Parameter
      PROVE  /\ pc = "param" /\ NStart \in (p + 1)..End /\ NEnd \in (p + 1)..End
             /\ After \in (p + 1)..End
             /\ HasValue => Value \in (p + 1)..End /\ Value \in 1..End
  <2>1. /\ NStart \in (p + 1)..End /\ NEnd \in NStart..End /\ After \in NEnd..End
        /\ HasValue => Value \in (After + 1)..End
    BY <1>1, <1>3, ParameterPlaces
  <2>2. NStart \in (p + 1)..End /\ NEnd \in (p + 1)..End /\ After \in (p + 1)..End
    BY <1>1, <2>1
  <2>3. HasValue => Value \in (p + 1)..End /\ Value \in 1..End
    BY <1>1, <2>1, <2>2
  <2> QED BY <1>3, <2>2, <2>3 DEF Parameter
<1>4. ASSUME NEW i \in (p + 1)..End PROVE i \in p..End
  BY <1>1, <1>4
<1>5. CASE EmptyName
  <2>1. Parameter /\ Malformed(NStart, quoted_name)
        /\ UNCHANGED <<field, line, pp, q_seen, quoted_name, element, line_qs, request_qs, quoted>>
    BY <1>5 DEF EmptyName
  <2> QED BY <1>1, <1>3, <1>4, <2>1, MalformedStep
<1>6. CASE NoValue
  <2>1. Parameter /\ quoted_name' \in BOOLEAN /\ q_seen' \in BOOLEAN
        /\ UNCHANGED <<field, line, pp, element, line_qs, request_qs, quoted>>
    BY <1>1, <1>2, <1>6 DEF NoValue
  <2>2. CASE IsQ
    <3>1. Malformed(After, quoted_name')
      BY <1>6, <2>2 DEF NoValue
    <3> QED BY <1>3, <1>4, <2>1, <3>1, MalformedStep
  <2>3. CASE ~IsQ
    <3>1. EndParameter(After, q)
      BY <1>6, <2>3 DEF NoValue
    <3> QED BY <1>1, <1>3, <2>1, <3>1, EndParameterStep
  <2> QED BY <2>2, <2>3
<1>7. CASE OtherParameter
  <2>1. Parameter /\ HasValue /\ quoted_name' \in BOOLEAN /\ p' = Value /\ pc' = "value"
        /\ UNCHANGED <<field, line, pp, q, q_seen, element, line_qs, request_qs, quoted>>
    BY <1>2, <1>7 DEF OtherParameter
  <2>2. p' \in p..End /\ p' > p
    BY <1>1, <1>3, <2>1
  <2> QED BY <1>1, <1>3, <2>1, <2>2, OnwardStep
<1>8. CASE Weight
  <2>1. Parameter /\ HasValue /\ quoted_name' \in BOOLEAN /\ q_seen' \in BOOLEAN
        /\ UNCHANGED <<field, line, pp, element, line_qs, request_qs, quoted>>
    BY <1>2, <1>8 DEF Weight
  <2>2. Value \in (p + 1)..End /\ Value \in 1..End
    BY <1>3, <2>1
  <2>3. CASE ~Leads
    <3>1. Malformed(Value, quoted_name')
      BY <1>8, <2>3 DEF Weight
    <3> QED BY <1>3, <1>4, <2>1, <2>2, <3>1, MalformedStep
  <2>4. CASE Leads
    <3>1. QvalueEnd(Value) \in (Value + 1)..End /\ Qvalue(Value) \in 0..1000
      BY <1>1, <2>2, <2>4, QvalueTyped DEF Leads
    <3>2. QvalueEnd(Value) \in (p + 1)..End
      BY <1>1, <2>2, <3>1
    <3>3. Qvalue(Value) \in Qs
      BY <3>1 DEF Qs
    <3>4. EndParameter(QvalueEnd(Value), Qvalue(Value)) \/ Malformed(QvalueEnd(Value), quoted_name')
      BY <1>8, <2>4 DEF Weight
    <3>5. CASE EndParameter(QvalueEnd(Value), Qvalue(Value))
      BY <1>3, <2>1, <3>2, <3>3, <3>5, EndParameterStep
    <3>6. CASE Malformed(QvalueEnd(Value), quoted_name')
      BY <1>3, <1>4, <2>1, <3>2, <3>6, MalformedStep
    <3> QED BY <3>4, <3>5, <3>6
  <2> QED BY <2>3, <2>4
<1>9. CASE EndValue
  <2> DEFINE next == Upto(p, {";", ",", Quote})
  <2>1. pc = "value" /\ ~quoted /\ p' = next /\ pc' = "param"
        /\ UNCHANGED <<field, line, pp, q, q_seen, quoted_name, element, line_qs, request_qs, quoted>>
    BY <1>9 DEF EndValue
  <2>2. next \in p..End
    BY <1>1, UptoStops
  <2> HIDE DEF next
  <2>3. p' \in p..End /\ Pass' > Pass
    BY <2>1, <2>2 DEF Pass
  <2> QED BY <1>1, <2>1, <2>3, OnwardStep
<1>10. CASE EndParameters
  <2>1. pc = "param" /\ p' \in {p, pp} /\ Noted(q, is_coding, is_star) /\ pc' = "rest"
        /\ UNCHANGED <<field, line, pp, q, q_seen, quoted_name, element, request_qs, quoted>>
    BY <1>10 DEF EndParameters, Cursor
  <2>2. pp \in 1..End /\ pp <= p
    BY <2>1 DEF Inv, TypeOK, Ahead
  <2>3. p' \in 1..End /\ pp <= p'
    BY <1>1, <2>1, <2>2
  <2>4. line_coding_q' \in Qs /\ line_star_q' \in Qs
    BY <1>1, <2>1, NotedTyped
  <2>5. TypeOK'
    BY <1>1, <2>1, <2>2, <2>3, <2>4, TypesKept DEF TypeOK, element, request_qs
  <2>6. Ahead'
    BY <2>1, <2>3 DEF Ahead
  <2>7. line' = line /\ Ended' = Ended /\ Anchor' = Anchor /\ Stage = 1 /\ Stage' = 2
    BY <2>1 DEF Ended, Anchor, Stage
  <2> QED BY <2>5, <2>6, <2>7, RankPrecedes DEF Good, Inv
<1> QED BY <1>5, <1>6, <1>7, <1>8, <1>9, <1>10 DEF Parameters

LEMMA QuotesStep ==
  ASSUME Inv, Quotes
  PROVE  Good
<1>0. pc \in {"value", "rest"}
  BY DEF Inv, Ahead, Quotes, OpenQuote, QuotedPair, CloseQuote
<1>1. TypeOK /\ TextType /\ End \in Nat /\ p \in 1..End /\ pp \in 1..End /\ pp <= p
      /\ quoted \in BOOLEAN
  BY <1>0, TextTyped, EndTyped DEF Inv, TypeOK, Ahead
<1>2. UNCHANGED <<field, line, pp, q, q_seen, quoted_name, element, line_qs, request_qs, pc>>
  BY DEF Quotes, OpenQuote, QuotedPair, CloseQuote
<1>3. /\ p' \in p..End /\ quoted' \in BOOLEAN
      /\ p' > p \/ (quoted /\ ~quoted')
  <2>1. CASE OpenQuote
    <3> DEFINE next == Upto(p, Delimiters \cup {Quote})
    <3>1. next \in p..End
      BY <1>1, UptoStops
    <3>2. next < End /\ p' = next + 1 /\ quoted' = TRUE
      BY <2>1 DEF OpenQuote, Is
    <3> HIDE DEF next
    <3> QED BY <1>1, <3>1, <3>2
  <2>2. CASE QuotedPair
    <3> DEFINE next == Upto(p, {Backslash, Quote})
    <3>1. next \in p..End
      BY <1>1, UptoStops
    <3>2. next < End /\ (p' = next + 1 \/ (next + 1 < End /\ p' = next + 2)) /\ quoted' = quoted
      BY <2>2 DEF QuotedPair, Escapes, Is
    <3> HIDE DEF next
    <3> QED BY <1>1, <3>1, <3>2
  <2>3. CASE CloseQuote
    <3> DEFINE next == Upto(p, {Backslash, Quote})
    <3>1. next \in p..End
      BY <1>1, UptoStops
    <3>2. p' = IF next = End THEN End ELSE next + 1
      BY <2>3 DEF CloseQuote
    <3>3. quoted /\ quoted' = FALSE
      BY <2>3 DEF CloseQuote
    <3> HIDE DEF next
    <3>4. p' \in p..End
      BY <1>1, <3>1, <3>2
    <3>5. quoted' \in BOOLEAN /\ quoted /\ ~quoted'
      BY <3>3
    <3> QED BY <3>4, <3>5
  <2> QED BY <2>1, <2>2, <2>3 DEF Quotes
<1>4. p' \in 1..End /\ pp <= p'
  BY <1>1, <1>3
<1>5. TypeOK'
  BY <1>1, <1>2, <1>3, <1>4, TypesKept DEF TypeOK, element, line_qs, request_qs
<1>6. Ahead'
  BY <1>2, <1>4, <1>0 DEF Ahead
<1>7. line' = line /\ Ended' = Ended /\ Anchor' = Anchor /\ Stage' = Stage
  BY <1>2, <1>0 DEF Ended, Anchor, Stage
<1>8. p < p' \/ (p' = p /\ Pass < Pass')
  <2>1. quoted /\ ~quoted' => Pass = 0 /\ Pass' \in {1, 2}
    BY DEF Pass
  <2> QED BY <1>1, <1>3, <2>1
<1> QED BY <1>5, <1>6, <1>7, <1>8, RankPrecedes DEF Good, Inv

LEMMA EndElementStep ==
  ASSUME Inv, EndElement
  PROVE  Good
<1> DEFINE next == Upto(p, {",", Quote})
<1>1. TypeOK /\ TextType /\ End \in Nat /\ p \in 1..End /\ pp \in 1..End
  BY TextTyped, EndTyped DEF Inv, TypeOK
<1>2. pc = "rest" /\ ~quoted /\ p' = next /\ pc' = "element" /\ ~Is(next, {Quote})
      /\ UNCHANGED <<field, line, pp, q, q_seen, quoted_name, element, line_qs, request_qs, quoted>>
  BY DEF EndElement
<1>3. next \in p..End /\ (next < End => Text[next] \in {",", Quote})
  BY <1>1, UptoStops
<1>4. UNCHANGED <<Text, End>>
  BY <1>2, SameText
<1>5. Stage' = 3
  <2>1. next < End => Text[next] = ","
    BY <1>2, <1>3 DEF Is
  <2>2. ~Is(next, Chars \ {","})
    BY <2>1 DEF Is
  <2> QED BY <1>2, <1>4, <2>2 DEF Stage, Is
<1> HIDE DEF next
<1>6. pp <= p
  BY <1>2 DEF Inv, Ahead
<1>7. p' \in 1..End /\ pp <= p'
  <2>1. p' \in p..End
    BY <1>2, <1>3
  <2> QED BY <1>1, <1>6, <2>1
<1>8. TypeOK'
  BY <1>1, <1>2, <1>7, TypesKept DEF TypeOK, element, line_qs, request_qs
<1>9. Ahead'
  BY <1>2 DEF Ahead
<1>10. line' = line /\ Ended' = Ended /\ Anchor = pp /\ Anchor' = p' /\ Stage = 2
  BY <1>2 DEF Ended, Anchor, Stage
<1>11. Anchor < Anchor' \/ (Anchor' = Anchor /\ Stage < Stage')
  BY <1>1, <1>5, <1>7, <1>10
<1> QED BY <1>8, <1>9, <1>10, <1>11, RankPrecedes DEF Good, Inv

LEMMA EndLineStep ==
  ASSUME Inv, EndLine
  PROVE  Good
<1>1. TypeOK /\ TextType /\ End \in Nat \ {0} /\ ~quoted
  BY TextTyped, EndTyped DEF Inv, TypeOK, Ahead, EndLine
<1>2. pc = "element" /\ p' = End /\ pc' = "line"
      /\ UNCHANGED <<field, line, pp, q, q_seen, quoted_name, element, line_qs, quoted>>
  BY DEF EndLine
<1>3. coding_q' \in Qs /\ star_q' \in Qs
  BY <1>1 DEF TypeOK, EndLine, Folded, request_qs
<1>4. p' \in 1..End
  BY <1>1, <1>2
<1>5. TypeOK'
  BY <1>1, <1>2, <1>3, <1>4, TypesKept DEF TypeOK, element, line_qs
<1>6. Ahead'
  BY <1>1, <1>2 DEF Ahead
<1>7. line' = line /\ Ended < Ended'
  BY <1>2 DEF Ended
<1> QED BY <1>5, <1>6, <1>7, RankPrecedes DEF Good, Inv

LEMMA NextLineStep ==
  ASSUME Inv, NextLine
  PROVE  Good
<1>1. TypeOK /\ ~quoted
  BY DEF Inv, Ahead, NextLine
<1>2. pc' = "element" /\ p' = 1 /\ pp' = 1 /\ line' = line + 1 /\ line < Len(field)
      /\ line_coding_q' = -1 /\ line_star_q' = -1
      /\ UNCHANGED <<field, q, q_seen, quoted_name, element, request_qs, quoted>>
  BY DEF NextLine
<1>3. line \in Nat /\ Len(field) \in Nat /\ line <= Len(field)
  BY <1>1 DEF TypeOK
<1>4. line' \in 0..Len(field') /\ line < line' /\ -1 \in Qs
  BY <1>2, <1>3 DEF Qs
<1>5. (End \in Nat \ {0})'
  <2>1. (field \in Seq(Seq(Chars)))'
    BY <1>1, <1>2 DEF TypeOK
  <2>2. TextType'
    BY <2>1 DEF TextType, Text
  <2>3. (Len(Text) \in Nat)'
    BY <2>2 DEF TextType
  <2> QED BY <2>3 DEF End
<1>6. (p \in 1..End /\ pp \in 1..End)'
  BY <1>2, <1>5
<1>7. TypeOK'
  BY <1>1, <1>2, <1>4, <1>6 DEF TypeOK, element, request_qs
<1>8. Ahead'
  BY <1>1, <1>2 DEF Ahead
<1> QED BY <1>4, <1>7, <1>8, RankPrecedes DEF Good, Inv

LEMMA EndFieldStep ==
  ASSUME Inv, EndField
  PROVE  Good
<1>1. TypeOK /\ ~quoted
  BY DEF Inv, Ahead, EndField
<1>2. pc = "line" /\ pc' = "done"
      /\ UNCHANGED <<field, line, p, pp, q, q_seen, quoted_name, element, line_qs, request_qs, quoted>>
  BY DEF EndField
<1>3. UNCHANGED End
  BY <1>2, SameText
<1>4. TypeOK'
  BY <1>1, <1>2, <1>3 DEF TypeOK, element, line_qs, request_qs, Qs
<1>5. Ahead'
  BY <1>1, <1>2 DEF Ahead
<1>6. line' = line /\ Ended < Ended'
  BY <1>2 DEF Ended
<1> QED BY <1>4, <1>5, <1>6, RankPrecedes DEF Good, Inv

LEMMA NextStep ==
  ASSUME Inv, Next
  PROVE  Good
BY BeginStep, ParametersStep, QuotesStep, EndElementStep, EndLineStep, NextLineStep, EndFieldStep
   DEF Next

LEMMA Stuttering ==
  ASSUME Inv, UNCHANGED vars
  PROVE  Inv'
<1>1. UNCHANGED <<field, line, p, pp, q, q_seen, quoted_name, is_coding, is_star,
                  line_coding_q, line_star_q, coding_q, star_q, pc, quoted>>
  BY DEF vars, element, line_qs, request_qs
<1>2. UNCHANGED End
  BY <1>1, SameText
<1> QED BY <1>1, <1>2 DEF Inv, TypeOK, Ahead, Qs

LEMMA Initially == Init => Inv
<1> SUFFICES ASSUME Init PROVE Inv
  OBVIOUS
<1>1. field \in Seq(Seq(Chars)) /\ line = 0 /\ Len(field) \in Nat
  BY EncodingAssumption DEF Init, Start
<1>2. Text = <<>> /\ End = 1
  BY <1>1 DEF Text, End
<1>3. -1 \in Qs /\ 1000 \in Qs
  BY DEF Qs
<1>4. line \in 0..Len(field) /\ p \in 1..End /\ pp \in 1..End
  BY <1>1, <1>2 DEF Init, Start
<1>5. TypeOK
  BY <1>1, <1>3, <1>4, ZenonT(40) DEF TypeOK, Init, Start
<1> QED BY <1>5 DEF Inv, Ahead, Init, Start

THEOREM Invariance == Spec => []Inv
<1>1. Inv /\ [Next]_vars => Inv'
  BY NextStep, Stuttering DEF Good
<1> QED BY Initially, <1>1, PTL DEF Spec

(***************************************************************************)
(* Theorems.                                                                *)
(***************************************************************************)

(* The cursors of ngx_http_brotli_coding_weight_ex and _eval_qvalue stay    *)
(* within the line, whatever the field holds, and a weight that is reported *)
(* is none or one of 0..1000.                                               *)
THEOREM TypeCorrect == Spec => []TypeOK
<1>1. Inv => TypeOK
  BY DEF Inv
<1> QED BY <1>1, Invariance, PTL

(* Every pass of every loop of the walk moves it on, in the order of Rank,  *)
(* whose parts are bounded: no field, however malformed, stalls it.         *)
THEOREM AlwaysProgress == Spec => Progress
<1>1. Inv /\ [Next]_vars => [Precedes(Rank, Rank')]_vars
  BY NextStep DEF Good
<1> QED BY <1>1, Invariance, PTL DEF Spec, Progress

(***************************************************************************)
(* Elements and quoted-strings.                                             *)
(***************************************************************************)

LEMMA Octets ==
  /\ Quote \notin OWS \cup Digit \cup {",", ";", "=", ".", "0", "1", "q", "Q"}
  /\ Quote # Backslash
  /\ \A c : c # Quote => ModeAfter("plain", c) = "plain"
  /\ \A c : c # Quote /\ c # Backslash => ModeAfter("quoted", c) = "quoted"
  /\ ModeAfter("plain", Quote) = "quoted" /\ ModeAfter("quoted", Quote) = "plain"
  /\ ModeAfter("quoted", Backslash) = "escaped"
  /\ \A c : ModeAfter("escaped", c) = "quoted"
<1>1. Quote \notin OWS \cup {",", ";", "=", ".", "0", "1", "q", "Q"} /\ Quote # Backslash
  BY DEF Quote, Backslash, OWS
<1>2. Quote \notin Digit
  <2>1. \A k \in 1..10 : k \in {1, 2, 3, 4, 5, 6, 7, 8, 9, 10}
    OBVIOUS
  <2>2. /\ Quote # Digits[1] /\ Quote # Digits[2] /\ Quote # Digits[3] /\ Quote # Digits[4]
        /\ Quote # Digits[5] /\ Quote # Digits[6] /\ Quote # Digits[7] /\ Quote # Digits[8]
        /\ Quote # Digits[9] /\ Quote # Digits[10]
    BY DEF Digits, Quote
  <2> QED BY <2>1, <2>2 DEF Digit
<1>3. /\ \A c : c # Quote => ModeAfter("plain", c) = "plain"
      /\ \A c : c # Quote /\ c # Backslash => ModeAfter("quoted", c) = "quoted"
      /\ ModeAfter("plain", Quote) = "quoted" /\ ModeAfter("quoted", Quote) = "plain"
      /\ \A c : ModeAfter("escaped", c) = "quoted"
  BY DEF ModeAfter
<1>4. ModeAfter("quoted", Backslash) = "escaped"
  BY <1>1 DEF ModeAfter
<1> QED BY <1>1, <1>2, <1>3, <1>4

(* A cursor at the end, or where the line is in that mode.                  *)
Synced(i, mode) == i = End \/ Mode(Text)[i - 1] = mode

AtMode == IF quoted THEN "quoted" ELSE "plain"

(* The walk knows whether it is inside a quoted-string, except after a      *)
(* parameter name with a quote, when it goes back to the caller's cursor.   *)
Whole ==
  /\ pc \in {"element", "rest"} => Synced(p, AtMode)
  /\ pc \in {"param", "value"} =>
       /\ Synced(pp, "plain")
       /\ ~quoted_name => Synced(p, AtMode)
  /\ pc = "element" => p = 1 \/ p = End \/ Text[p] = ","

LEMMA ModeStep ==
  ASSUME TextType, NEW i \in 1..End, i < End, NEW mode, Synced(i, mode)
  PROVE  Synced(i + 1, ModeAfter(mode, Text[i]))
<1>1. Len(Text) \in Nat /\ End = Len(Text) + 1
  BY EndTyped
<1>2. i \in 1..Len(Text) /\ i # End /\ (i + 1) - 1 = i
  BY <1>1
<1>3. Mode(Text)[i] = ModeAfter(Mode(Text)[i - 1], Text[i])
  BY <1>1, <1>2, ModeEquation
<1> QED BY <1>2, <1>3 DEF Synced

(* Octets that leave the mode as it is.                                     *)
LEMMA Run ==
  ASSUME TextType, NEW i \in 1..End, NEW j \in i..End, NEW mode, Synced(i, mode),
         \A k \in i..(j - 1) : ModeAfter(mode, Text[k]) = mode
  PROVE  Synced(j, mode)
<1>1. End \in Nat /\ i \in Nat /\ j \in Nat /\ i <= j /\ j <= End
  BY EndTyped
<1> DEFINE T == {m \in Nat : i + m <= j => Synced(i + m, mode)}
<1>2. 0 \in T
  BY <1>1
<1>3. ASSUME NEW m \in Nat, m \in T PROVE m + 1 \in T
  <2>1. SUFFICES ASSUME i + (m + 1) <= j PROVE Synced(i + (m + 1), mode)
    OBVIOUS
  <2>2. i + m \in 1..End /\ i + m < End /\ i + m \in i..(j - 1) /\ (i + m) + 1 = i + (m + 1)
    BY <1>1, <2>1
  <2>3. Synced(i + m, mode)
    BY <1>1, <1>3, <2>2
  <2>4. Synced((i + m) + 1, ModeAfter(mode, Text[i + m]))
    BY <2>2, <2>3, ModeStep
  <2> QED BY <2>2, <2>4
<1>4. j - i \in Nat /\ i + (j - i) = j
  BY <1>1
<1> HIDE DEF T
<1>5. j - i \in T
  BY <1>2, <1>3, <1>4, Induction
<1> QED BY <1>1, <1>4, <1>5 DEF T

LEMMA PastPlain ==
  ASSUME TextType, NEW i \in 1..End, NEW set, Quote \notin set, Synced(i, "plain")
  PROVE  Synced(Past(i, set), "plain")
<1>1. Past(i, set) \in i..End /\ \A k \in i..(Past(i, set) - 1) : Text[k] \in set
  BY PastStops
<1>2. \A k \in i..(Past(i, set) - 1) : ModeAfter("plain", Text[k]) = "plain"
  BY <1>1, Octets
<1> QED BY <1>1, <1>2, Run

LEMMA UptoPlain ==
  ASSUME TextType, NEW i \in 1..End, NEW set, Quote \in set, Synced(i, "plain")
  PROVE  Synced(Upto(i, set), "plain")
<1>1. Upto(i, set) \in i..End /\ \A k \in i..(Upto(i, set) - 1) : Text[k] \notin set
  BY UptoStops
<1>2. \A k \in i..(Upto(i, set) - 1) : ModeAfter("plain", Text[k]) = "plain"
  BY <1>1, Octets
<1> QED BY <1>1, <1>2, Run

LEMMA OctetPlain ==
  ASSUME TextType, NEW i \in 1..End, i < End, Text[i] # Quote, Synced(i, "plain")
  PROVE  Synced(i + 1, "plain")
BY ModeStep, Octets

LEMMA ElementPlain ==
  ASSUME TypeOK, Synced(p, "plain")
  PROVE  Synced(Past(NameEnd, OWS), "plain")
<1>1. TextType /\ p \in 1..End /\ Tok \in p..End /\ NameEnd \in Tok..End /\ End \in Nat
  BY TextTyped, EndTyped, ElementPlaces DEF TypeOK
<1>2. Tok \in 1..End /\ NameEnd \in 1..End
  BY <1>1
<1>3. Synced(Tok, "plain")
  <2>1. Quote \notin OWS \cup {","}
    BY Octets
  <2> QED BY <1>1, <2>1, PastPlain DEF Tok
<1>4. Synced(NameEnd, "plain")
  BY <1>1, <1>2, <1>3, UptoPlain DEF NameEnd
<1> QED BY <1>1, <1>2, <1>4, Octets, PastPlain

LEMMA ParameterPlain ==
  ASSUME TypeOK, Parameter, Synced(p, "plain")
  PROVE  /\ Synced(NStart, "plain")
         /\ ~QuotedName => Synced(After, "plain") /\ (HasValue => Synced(Value, "plain"))
<1>1. TextType /\ p \in 1..End /\ p < End /\ Text[p] = ";"
  BY TextTyped DEF TypeOK, Parameter, Is
<1>2. p + 1 \in 1..End /\ NStart \in (p + 1)..End /\ NEnd \in NStart..End /\ After \in NEnd..End
  BY ParameterPlaces
<1>3. NStart \in 1..End /\ NEnd \in 1..End /\ After \in 1..End
  <2>1. End \in Nat
    BY <1>1, EndTyped
  <2> QED BY <1>2, <2>1
<1>4. Synced(p + 1, "plain")
  BY <1>1, Octets, OctetPlain
<1>5. Synced(NStart, "plain")
  BY <1>1, <1>2, <1>4, Octets, PastPlain DEF NStart
<1>6. ASSUME ~QuotedName PROVE Synced(After, "plain") /\ (HasValue => Synced(Value, "plain"))
  <2>1. \A k \in NStart..(NEnd - 1) : ModeAfter("plain", Text[k]) = "plain"
    BY <1>6, Octets DEF QuotedName
  <2>2. Synced(NEnd, "plain")
    BY <1>1, <1>2, <1>3, <1>5, <2>1, Run
  <2>3. Synced(After, "plain")
    BY <1>1, <1>3, <2>2, Octets, PastPlain DEF After
  <2>4. ASSUME HasValue PROVE Synced(Value, "plain")
    <3>1. After < End /\ Text[After] = "=" /\ After + 1 \in 1..End
      BY <2>4, ParameterPlaces DEF HasValue, Is
    <3>2. Synced(After + 1, "plain")
      BY <1>1, <1>3, <2>3, <3>1, Octets, OctetPlain
    <3> QED BY <1>1, <3>1, <3>2, Octets, PastPlain DEF Value
  <2> QED BY <2>3, <2>4
<1> QED BY <1>5, <1>6

LEMMA QvaluePlain ==
  ASSUME TextType, NEW i \in 1..End, Is(i, {"0", "1"}), Synced(i, "plain")
  PROVE  Synced(QvalueEnd(i), "plain")
<1>1. End \in Nat /\ i < End /\ i + 1 \in 1..End /\ Text[i] \in {"0", "1"} /\ (i + 1) + 1 = i + 2
  BY EndTyped DEF Is
<1>2. Synced(i + 1, "plain")
  BY <1>1, Octets, OctetPlain
<1> DEFINE set == IF Text[i] = "0" THEN Digit ELSE {"0"}
           end == QvalueEnd(i)
           run == Past(i + 2, set)
<1>3. CASE ~Point(i)
  BY <1>2, <1>3 DEF QvalueEnd
<1>4. CASE Point(i)
  <2>1. i + 1 < End /\ Text[i + 1] = "." /\ i + 2 \in 1..End
    BY <1>1, <1>4 DEF Point, Is
  <2>2. Synced(i + 2, "plain")
    BY <1>1, <1>2, <2>1, Octets, OctetPlain
  <2>3. run \in (i + 2)..End /\ \A k \in (i + 2)..(run - 1) : Text[k] \in set
    BY <2>1, PastStops
  <2>4. end = Least(run, i + 2 + 3)
    BY <1>4 DEF QvalueEnd, DecimalsEnd
  <2>5. Quote \notin set
    BY Octets
  <2> HIDE DEF end, run, set
  <2>6. end \in (i + 2)..End /\ \A k \in (i + 2)..(end - 1) : k \in (i + 2)..(run - 1)
    BY <1>1, <2>1, <2>3, <2>4 DEF Least
  <2>7. \A k \in (i + 2)..(end - 1) : ModeAfter("plain", Text[k]) = "plain"
    BY <2>3, <2>5, <2>6, Octets
  <2>8. Synced(end, "plain")
    BY <2>1, <2>2, <2>6, <2>7, Run
  <2> QED BY <2>8 DEF end
<1> QED BY <1>3, <1>4

(* The whole of the invariant, and its two shapes after a step.             *)
Sound == Inv /\ Whole

LEMMA AfterParameters ==
  ASSUME UNCHANGED <<field, line>>, pc' = "rest",
         Synced(p', IF quoted' THEN "quoted" ELSE "plain")
  PROVE  Whole'
<1>1. Text' = Text /\ End' = End
  BY SameText
<1> QED BY <1>1 DEF Whole, Synced, AtMode

LEMMA WithinParameters ==
  ASSUME UNCHANGED <<field, line>>, pc' \in {"param", "value"}, Synced(pp', "plain"),
         ~quoted_name' => Synced(p', IF quoted' THEN "quoted" ELSE "plain")
  PROVE  Whole'
<1>1. Text' = Text /\ End' = End
  BY SameText
<1> QED BY <1>1 DEF Whole, Synced, AtMode

LEMMA BeginWhole ==
  ASSUME Sound, BeginElement
  PROVE  Whole'
<1> DEFINE after == Past(NameEnd, OWS)
<1>1. TypeOK /\ ~quoted /\ Synced(p, "plain")
  BY DEF Sound, Inv, Ahead, Whole, AtMode, BeginElement
<1>2. Synced(after, "plain")
  BY <1>1, ElementPlain
<1>3. p' = after /\ pp' = after /\ pc' \in {"param", "rest"} /\ quoted' = quoted
      /\ UNCHANGED <<field, line>>
  BY ZenonT(40) DEF BeginElement
<1> HIDE DEF after
<1> QED BY <1>1, <1>2, <1>3, AfterParameters, WithinParameters

LEMMA MalformedWhole ==
  ASSUME NEW i, NEW rewind, Malformed(i, rewind), Synced(pp, "plain"),
         ~rewind => Synced(i, "plain"), ~quoted', UNCHANGED <<field, line>>
  PROVE  Whole'
BY AfterParameters DEF Malformed, Cursor

LEMMA EndParameterWhole ==
  ASSUME TextType, NEW i \in 1..End, NEW weight, EndParameter(i, weight), Synced(pp, "plain"),
         ~quoted_name' => Synced(i, "plain"), ~quoted', UNCHANGED <<field, line, pp>>
  PROVE  Whole'
<1> DEFINE next == Past(i, OWS)
<1>1. ~quoted_name' => Synced(next, "plain")
  BY Octets, PastPlain
<1>2. \/ p' = next /\ pc' = "param"
      \/ Malformed(next, quoted_name')
  BY DEF EndParameter
<1> HIDE DEF next
<1>3. CASE p' = next /\ pc' = "param"
  BY <1>1, <1>3, WithinParameters
<1>4. CASE Malformed(next, quoted_name')
  BY <1>1, <1>4, MalformedWhole
<1> QED BY <1>2, <1>3, <1>4

LEMMA ParametersWhole ==
  ASSUME Sound, Parameters
  PROVE  Whole'
<1>1. TypeOK /\ TextType /\ p \in 1..End /\ End \in Nat
  BY TextTyped, EndTyped DEF Sound, Inv, TypeOK
<1>2. pc \in {"param", "value"}
  BY DEF Parameters, EmptyName, NoValue, OtherParameter, Weight, EndValue, EndParameters, Parameter
<1>3. Synced(pp, "plain") /\ (~quoted_name => Synced(p, AtMode))
  BY <1>2 DEF Sound, Whole
<1>4. UNCHANGED <<field, line, pp, quoted>>
  BY DEF Parameters, EmptyName, NoValue, OtherParameter, Weight, EndValue, EndParameters
<1>5. ~quoted /\ ~quoted'
  BY <1>4 DEF Sound, Inv, Ahead, Parameters, EmptyName, NoValue, OtherParameter, Weight,
              EndValue, EndParameters, Parameter
<1>6. ~quoted_name => Synced(p, "plain")
  BY <1>3, <1>5 DEF AtMode
<1>7. ASSUME Parameter
      PROVE  After \in 1..End /\ (HasValue => Value \in 1..End)
  <2>1. /\ p + 1 \in 1..End /\ NStart \in (p + 1)..End /\ NEnd \in NStart..End
        /\ After \in NEnd..End
        /\ HasValue => After + 1 \in 1..End /\ Value \in (After + 1)..End
    BY <1>1, <1>7, ParameterPlaces
  <2> QED BY <1>1, <2>1
<1>8. ASSUME Parameter, quoted_name' = QuotedName, ~quoted_name'
      PROVE  Synced(After, "plain") /\ (HasValue => Synced(Value, "plain"))
  <2>1. ~quoted_name /\ ~QuotedName
    BY <1>8 DEF QuotedName
  <2> QED BY <1>1, <1>6, <1>8, <2>1, ParameterPlain
<1>9. CASE EmptyName
  <2>1. Parameter /\ Malformed(NStart, quoted_name)
    BY <1>9 DEF EmptyName
  <2>2. ~quoted_name => Synced(NStart, "plain")
    BY <1>1, <1>6, <2>1, ParameterPlain
  <2> QED BY <1>3, <1>4, <1>5, <2>1, <2>2, MalformedWhole
<1>10. CASE NoValue
  <2>1. Parameter /\ quoted_name' = QuotedName
        /\ (Malformed(After, quoted_name') \/ EndParameter(After, q))
    BY <1>10 DEF NoValue
  <2>2. CASE Malformed(After, quoted_name')
    BY <1>3, <1>4, <1>5, <1>8, <2>1, <2>2, MalformedWhole
  <2>3. CASE EndParameter(After, q)
    BY <1>1, <1>3, <1>4, <1>5, <1>7, <1>8, <2>1, <2>3, EndParameterWhole
  <2> QED BY <2>1, <2>2, <2>3
<1>11. CASE OtherParameter
  <2>1. Parameter /\ HasValue /\ quoted_name' = QuotedName /\ p' = Value /\ pc' = "value"
    BY <1>11 DEF OtherParameter
  <2> QED BY <1>3, <1>4, <1>5, <1>8, <2>1, WithinParameters
<1>12. CASE Weight
  <2>1. Parameter /\ HasValue /\ quoted_name' = QuotedName
        /\ (~Leads => Malformed(Value, quoted_name'))
        /\ (Leads => \/ EndParameter(QvalueEnd(Value), Qvalue(Value))
                     \/ Malformed(QvalueEnd(Value), quoted_name'))
    BY <1>12 DEF Weight
  <2>2. Value \in 1..End /\ (~quoted_name' => Synced(Value, "plain"))
    BY <1>7, <1>8, <2>1
  <2>3. CASE ~Leads
    BY <1>3, <1>4, <1>5, <2>1, <2>2, <2>3, MalformedWhole
  <2>4. CASE Leads
    <3>1. Is(Value, {"0", "1"})
      BY <2>4 DEF Leads
    <3>2. QvalueEnd(Value) \in 1..End
      <4>1. QvalueEnd(Value) \in (Value + 1)..End
        BY <1>1, <2>2, <3>1, QvalueTyped
      <4> QED BY <1>1, <2>2, <4>1
    <3>3. ~quoted_name' => Synced(QvalueEnd(Value), "plain")
      BY <1>1, <2>2, <3>1, QvaluePlain
    <3>4. CASE EndParameter(QvalueEnd(Value), Qvalue(Value))
      BY <1>1, <1>3, <1>4, <1>5, <3>2, <3>3, <3>4, EndParameterWhole
    <3>5. CASE Malformed(QvalueEnd(Value), quoted_name')
      BY <1>3, <1>4, <1>5, <3>3, <3>5, MalformedWhole
    <3> QED BY <2>1, <2>4, <3>4, <3>5
  <2> QED BY <2>3, <2>4
<1>13. CASE EndValue
  <2> DEFINE next == Upto(p, {";", ",", Quote})
  <2>1. p' = next /\ pc' = "param" /\ quoted_name' = quoted_name
    BY <1>13 DEF EndValue
  <2>2. ~quoted_name => Synced(next, "plain")
    BY <1>1, <1>6, UptoPlain
  <2> HIDE DEF next
  <2> QED BY <1>3, <1>4, <1>5, <2>1, <2>2, WithinParameters
<1>14. CASE EndParameters
  <2>1. p' = Cursor(p, quoted_name) /\ pc' = "rest"
    BY <1>14 DEF EndParameters
  <2>2. Synced(p', "plain")
    BY <1>3, <1>6, <2>1 DEF Cursor
  <2> QED BY <1>4, <1>5, <2>1, <2>2, AfterParameters
<1> QED BY <1>9, <1>10, <1>11, <1>12, <1>13, <1>14 DEF Parameters

(* Opening, escaping in and closing a quoted-string move both on.           *)
LEMMA QuotesSynced ==
  ASSUME TypeOK, Quotes, Synced(p, AtMode)
  PROVE  Synced(p', IF quoted' THEN "quoted" ELSE "plain")
<1>1. TextType /\ p \in 1..End /\ End \in Nat
  BY TextTyped, EndTyped DEF TypeOK
<1>2. CASE OpenQuote
  <2> DEFINE next == Upto(p, Delimiters \cup {Quote})
  <2>1. next < End /\ Text[next] = Quote /\ p' = next + 1 /\ quoted' = TRUE /\ ~quoted
    BY <1>2 DEF OpenQuote, Is
  <2>2. Synced(next, "plain")
    BY <1>1, <2>1, UptoPlain DEF AtMode
  <2>3. next \in p..End
    BY <1>1, UptoStops
  <2> HIDE DEF next
  <2>4. next \in 1..End
    BY <1>1, <2>3
  <2>5. Synced(next + 1, "quoted")
    BY <1>1, <2>1, <2>2, <2>4, Octets, ModeStep
  <2> QED BY <2>1, <2>5
<1>3. ASSUME quoted
      PROVE  LET next == Upto(p, {Backslash, Quote})
             IN  next \in 1..End /\ Synced(next, "quoted")
                 /\ (next < End => Text[next] \in {Backslash, Quote})
  <2> DEFINE next == Upto(p, {Backslash, Quote})
  <2>1. next \in p..End /\ \A k \in p..(next - 1) : Text[k] \notin {Backslash, Quote}
    BY <1>1, UptoStops
  <2>2. next < End => Text[next] \in {Backslash, Quote}
    BY <1>1, UptoStops
  <2> HIDE DEF next
  <2>3. \A k \in p..(next - 1) : ModeAfter("quoted", Text[k]) = "quoted"
    BY <2>1, Octets
  <2>4. Synced(next, "quoted")
    BY <1>1, <1>3, <2>1, <2>3, Run DEF AtMode
  <2>5. next \in 1..End
    BY <1>1, <2>1
  <2> QED BY <2>2, <2>4, <2>5 DEF next
<1>4. CASE QuotedPair
  <2> DEFINE next == Upto(p, {Backslash, Quote})
  <2>1. /\ quoted /\ quoted' = quoted /\ next < End /\ Text[next] = Backslash
        /\ p' = IF next + 1 < End THEN next + 2 ELSE next + 1
    BY <1>4 DEF QuotedPair, Escapes, Is
  <2>2. next \in 1..End /\ Synced(next, "quoted")
    BY <1>3, <2>1
  <2> HIDE DEF next
  <2>3. next + 1 \in 1..End /\ (next + 1) + 1 = next + 2
    BY <1>1, <2>1, <2>2
  <2>4. Synced(next + 1, "escaped")
    BY <1>1, <2>1, <2>2, Octets, ModeStep
  <2>5. CASE next + 1 < End
    <3>1. Synced(next + 2, "quoted")
      BY <1>1, <2>3, <2>4, <2>5, Octets, ModeStep
    <3> QED BY <2>1, <2>5, <3>1
  <2>6. CASE ~(next + 1 < End)
    <3>1. p' = End
      BY <1>1, <2>1, <2>3, <2>6
    <3> QED BY <3>1 DEF Synced
  <2> QED BY <2>5, <2>6
<1>5. CASE CloseQuote
  <2> DEFINE next == Upto(p, {Backslash, Quote})
  <2>1. /\ quoted /\ quoted' = FALSE /\ ~Is(next, {Backslash})
        /\ p' = IF next = End THEN End ELSE next + 1
    BY <1>5 DEF CloseQuote
  <2>2. next \in 1..End /\ Synced(next, "quoted") /\ (next < End => Text[next] \in {Backslash, Quote})
    BY <1>3, <2>1
  <2> HIDE DEF next
  <2>3. CASE next = End
    BY <2>1, <2>3 DEF Synced
  <2>4. CASE next # End
    <3>1. next < End
      BY <1>1, <2>2, <2>4
    <3>2. Text[next] = Quote
      BY <2>1, <2>2, <3>1 DEF Is
    <3>3. Synced(next + 1, "plain")
      BY <1>1, <2>2, <3>1, <3>2, Octets, ModeStep
    <3> QED BY <2>1, <2>4, <3>3
  <2> QED BY <2>3, <2>4
<1> QED BY <1>2, <1>4, <1>5 DEF Quotes

LEMMA QuotesWhole ==
  ASSUME Sound, Quotes
  PROVE  Whole'
<1>1. TypeOK /\ pc \in {"value", "rest"}
  BY DEF Sound, Inv, Ahead, Quotes, OpenQuote, QuotedPair, CloseQuote
<1>2. UNCHANGED <<field, line, pp, quoted_name, pc>>
  BY DEF Quotes, OpenQuote, QuotedPair, CloseQuote
<1>3. CASE pc = "rest"
  BY <1>1, <1>2, <1>3, QuotesSynced, AfterParameters DEF Sound, Whole
<1>4. CASE pc = "value"
  BY <1>1, <1>2, <1>4, QuotesSynced, WithinParameters DEF Sound, Whole
<1> QED BY <1>1, <1>3, <1>4

LEMMA EndElementWhole ==
  ASSUME Sound, EndElement
  PROVE  Whole'
<1> DEFINE next == Upto(p, {",", Quote})
<1>1. TextType /\ p \in 1..End /\ End \in Nat
  BY TextTyped, EndTyped DEF Sound, Inv, TypeOK
<1>2. pc = "rest" /\ ~quoted /\ p' = next /\ pc' = "element" /\ ~Is(next, {Quote}) /\ ~quoted'
      /\ UNCHANGED <<field, line>>
  BY DEF EndElement
<1>3. Synced(next, "plain")
  BY <1>1, <1>2, UptoPlain DEF Sound, Whole, AtMode
<1>4. next < End => Text[next] \in {",", Quote}
  BY <1>1, UptoStops
<1>n. next \in p..End
  BY <1>1, UptoStops
<1>5. next = End \/ Text[next] = ","
  <2>1. next = End \/ next < End
    <3> HIDE DEF next
    <3> QED BY <1>1, <1>n
  <2> QED BY <1>2, <1>4, <2>1 DEF Is
<1>6. Text' = Text /\ End' = End
  BY <1>2, SameText
<1> HIDE DEF next
<1> QED BY <1>2, <1>3, <1>5, <1>6 DEF Whole, Synced, AtMode

LEMMA NextLineWhole ==
  ASSUME Sound, NextLine
  PROVE  Whole'
<1>1. pc' = "element" /\ p' = 1 /\ ~quoted'
  BY DEF Sound, Inv, Ahead, NextLine
<1>2. TextType'
  <2>1. (field \in Seq(Seq(Chars)))'
    BY DEF Sound, Inv, TypeOK, NextLine
  <2> QED BY <2>1 DEF TextType, Text
<1>3. Len(Text') \in Nat
  BY <1>2 DEF TextType
<1>4. Mode(Text')[0] = "plain"
  BY <1>3, ModeEquation
<1> QED BY <1>1, <1>4 DEF Whole, Synced, AtMode

LEMMA WholeStep ==
  ASSUME Sound, Next
  PROVE  Whole'
<1>1. CASE EndLine
  BY <1>1 DEF Whole, EndLine
<1>2. CASE EndField
  BY <1>2 DEF Whole, EndField
<1> QED BY <1>1, <1>2, BeginWhole, ParametersWhole, QuotesWhole, EndElementWhole, NextLineWhole
        DEF Next

LEMMA WholeStuttering ==
  ASSUME Sound, UNCHANGED vars
  PROVE  Whole'
<1>1. UNCHANGED <<field, line, p, pp, quoted_name, pc, quoted>>
  BY DEF vars
<1>2. Text' = Text /\ End' = End
  BY <1>1, SameText
<1> QED BY <1>1, <1>2 DEF Sound, Whole, Synced, AtMode

THEOREM Soundness == Spec => []Sound
<1>1. Init => Sound
  BY Initially DEF Sound, Whole, Init, Start
<1>2. Sound /\ [Next]_vars => Sound'
  <2>1. ASSUME Sound, Next PROVE Sound'
    BY <2>1, NextStep, WholeStep DEF Sound, Good
  <2>2. ASSUME Sound, UNCHANGED vars PROVE Sound'
    BY <2>2, Stuttering, WholeStuttering DEF Sound
  <2> QED BY <2>1, <2>2
<1> QED BY <1>1, <1>2, PTL DEF Spec

(* ngx_http_brotli_coding_weight_ex resumes only at commas that no          *)
(* quoted-string holds, also when _eval_qvalue gave up on a parameter.      *)
THEOREM AlwaysElementsWhole == Spec => []ElementsWhole
<1>1. Sound => ElementsWhole
  <2>1. SUFFICES ASSUME Sound, pc = "element", p \in 2..Len(Text)
                 PROVE  Text[p] = "," /\ Mode(Text)[p - 1] = "plain"
    BY DEF ElementsWhole
  <2>2. Len(Text) \in Nat /\ End = Len(Text) + 1
    <3>1. TextType
      BY <2>1, TextTyped DEF Sound, Inv
    <3> QED BY <3>1, EndTyped
  <2>3. p # 1 /\ p # End /\ ~quoted
    BY <2>1, <2>2 DEF Sound, Inv, Ahead
  <2> QED BY <2>1, <2>3 DEF Sound, Whole, Synced, AtMode
<1> QED BY <1>1, Soundness, PTL

(***************************************************************************)
(* The oracle's loops of a single test, which are the walker's.             *)
(***************************************************************************)

LEMMA RefPastStops ==
  ASSUME TextType, NEW i \in 1..End, NEW set
  PROVE  /\ RefPast(Text, i, set) \in i..End
         /\ RefPast(Text, i, set) < End => Text[RefPast(Text, i, set)] \notin set
         /\ \A k \in i..(RefPast(Text, i, set) - 1) : Text[k] \in set
<1> DEFINE stops == {j \in i..Len(Text) : Text[j] \notin set} \cup {End}
           least(j) == \A k \in stops : j <= k
           j == RefPast(Text, i, set)
<1>1. Len(Text) \in Nat /\ End = Len(Text) + 1
  BY EndTyped
<1>2. stops \in SUBSET Nat /\ stops # {}
  BY <1>1
<1>3. PICK x \in stops : \A y \in stops : x <= y
  <2> HIDE DEF stops
  <2> QED BY <1>2, LeastElement
<1>4. j = CHOOSE y \in stops : least(y)
  BY DEF RefPast, RefEnd, End
<1>5. j \in stops /\ \A k \in stops : j <= k
  <2>1. j \in stops /\ least(j)
    <3> HIDE DEF stops, j
    <3> QED BY <1>3, <1>4
  <2> QED BY <2>1
<1> HIDE DEF j
<1>6. j \in i..End /\ (j < End => Text[j] \notin set)
  BY <1>1, <1>5
<1>7. ASSUME NEW k \in i..(j - 1) PROVE Text[k] \in set
  <2>1. k \in i..Len(Text) /\ ~(j <= k)
    BY <1>1, <1>6, <1>7
  <2> QED BY <1>5, <2>1
<1> QED BY <1>1, <1>6, <1>7 DEF j

LEMMA RefUptoStops ==
  ASSUME TextType, NEW i \in 1..End, NEW set
  PROVE  /\ RefUpto(Text, i, set) \in i..End
         /\ RefUpto(Text, i, set) < End => Text[RefUpto(Text, i, set)] \in set
         /\ \A k \in i..(RefUpto(Text, i, set) - 1) : Text[k] \notin set
<1> DEFINE j == RefPast(Text, i, Chars \ set)
<1>1. Len(Text) \in Nat /\ End = Len(Text) + 1
  BY EndTyped
<1>2. /\ j \in i..End /\ (j < End => Text[j] \notin Chars \ set)
      /\ \A k \in i..(j - 1) : Text[k] \in Chars \ set
  BY RefPastStops
<1> HIDE DEF j
<1>3. j < End => Text[j] \in Chars
  BY <1>1, <1>2, EndTyped
<1>4. j = RefUpto(Text, i, set)
  BY DEF j, RefUpto
<1> QED BY <1>2, <1>3, <1>4

(* Where a loop stops is determined by that.                                *)
LEMMA PastIs ==
  ASSUME TextType, NEW i \in 1..End, NEW j \in i..End, NEW set,
         j < End => Text[j] \notin set, \A k \in i..(j - 1) : Text[k] \in set
  PROVE  RefPast(Text, i, set) = j
<1> DEFINE x == RefPast(Text, i, set)
<1>1. /\ End \in Nat /\ x \in i..End /\ (x < End => Text[x] \notin set)
      /\ \A k \in i..(x - 1) : Text[k] \in set
  BY RefPastStops, EndTyped
<1> HIDE DEF x
<1>2. ~(x < j)
  <2>1. x < j => x \in i..(j - 1) /\ x < End
    BY <1>1
  <2> QED BY <1>1, <2>1
<1>3. ~(j < x)
  <2>1. j < x => j \in i..(x - 1) /\ j < End
    BY <1>1
  <2> QED BY <1>1, <2>1
<1>4. x = j
  BY <1>1, <1>2, <1>3
<1> QED BY <1>4 DEF x

LEMMA UptoIs ==
  ASSUME TextType, NEW i \in 1..End, NEW j \in i..End, NEW set,
         j < End => Text[j] \in set, \A k \in i..(j - 1) : Text[k] \notin set
  PROVE  RefUpto(Text, i, set) = j
<1>1. Len(Text) \in Nat /\ End = Len(Text) + 1
  BY EndTyped
<1>2. \A k \in i..(j - 1) : Text[k] \in Chars \ set
  <2>1. \A k \in i..(j - 1) : k \in 1..End /\ k < End
    BY <1>1
  <2> QED BY <2>1, EndTyped
<1>3. RefPast(Text, i, Chars \ set) = j
  BY <1>2, PastIs
<1> QED BY <1>3 DEF RefUpto

(* Setting out later in the same run makes no difference.                   *)
LEMMA UptoOn ==
  ASSUME TextType, NEW i \in 1..End, NEW j \in i..End, NEW set,
         \A k \in i..(j - 1) : Text[k] \notin set
  PROVE  RefUpto(Text, i, set) = RefUpto(Text, j, set)
<1> DEFINE x == RefUpto(Text, j, set)
<1>1. Len(Text) \in Nat /\ End = Len(Text) + 1 /\ j \in 1..End
  BY EndTyped
<1>2. x \in j..End /\ (x < End => Text[x] \in set) /\ \A k \in j..(x - 1) : Text[k] \notin set
  BY <1>1, RefUptoStops
<1> HIDE DEF x
<1>3. x \in i..End
  BY <1>1, <1>2
<1>4. ASSUME NEW k \in i..(x - 1) PROVE Text[k] \notin set
  <2>1. k \in i..(j - 1) \/ k \in j..(x - 1)
    BY <1>1, <1>2
  <2> QED BY <1>2, <2>1
<1>5. RefUpto(Text, i, set) = x
  BY <1>2, <1>3, <1>4, UptoIs
<1> QED BY <1>5 DEF x

LEMMA SameLoops ==
  ASSUME TextType, NEW i \in 1..End, NEW set
  PROVE  Past(i, set) = RefPast(Text, i, set) /\ Upto(i, set) = RefUpto(Text, i, set)
<1>1. Text \in Seq(Chars) /\ End = RefEnd(Text)
  BY DEF TextType, End, RefEnd
<1>2. \A s : Past(i, s) = RefPast(Text, i, s)
  BY <1>1, PastStops, PastIs
<1> QED BY <1>2 DEF Upto, RefUpto

LEMMA SameIs ==
  ASSUME TextType, NEW i \in Int, NEW set
  PROVE  Is(i, set) <=> RefIs(Text, i, set)
BY EndTyped DEF Is, RefIs

(* The oracle reads a weight as the walker does.                            *)
LEMMA SameWeight ==
  ASSUME TextType, NEW i \in 1..End, Is(i, {"0", "1"})
  PROVE  RefWeight(Text, i).i = QvalueEnd(i) /\ RefWeight(Text, i).q = Qvalue(i)
<1> DEFINE point == RefIs(Text, i + 1, {"."})
           set == IF Text[i] = "0" THEN Digit ELSE {"0"}
           run == RefPast(Text, i + 2, set)
           end == IF ~point THEN i + 1 ELSE IF run < i + 5 THEN run ELSE i + 5
<1>1. End \in Nat /\ End = Len(Text) + 1 /\ i < End /\ i \in Nat
  BY EndTyped DEF Is
<1>2. point <=> Point(i)
  <2>1. i + 1 \in Int
    BY <1>1
  <2> QED BY <2>1, SameIs DEF Point
<1>3. end = QvalueEnd(i)
  <2>1. CASE ~point
    BY <1>2, <2>1 DEF QvalueEnd
  <2>2. CASE point
    <3>1. i + 2 \in 1..End
      BY <1>1, <2>2 DEF RefIs
    <3>2. run = Past(i + 2, set)
      BY <3>1, SameLoops
    <3>3. QvalueEnd(i) = Least(Past(i + 2, set), i + 2 + 3) /\ i + 2 + 3 = i + 5
      BY <1>1, <1>2, <2>2 DEF QvalueEnd, DecimalsEnd
    <3> QED BY <2>2, <3>2, <3>3 DEF Least
  <2> QED BY <2>1, <2>2
<1>4. /\ RefWeight(Text, i).i = end
      /\ RefWeight(Text, i).q =
           IF Text[i] = "1" THEN 1000
           ELSE IF ~point THEN 0
           ELSE 100 * RefDigit(Text, i + 2, end) + 10 * RefDigit(Text, i + 3, end)
                  + RefDigit(Text, i + 4, end)
  BY DEF RefWeight
<1>5. \A j : RefDigit(Text, j, end) = Decimal(j, end)
  BY DEF RefDigit, Decimal
<1> HIDE DEF end, point
<1>6. /\ RefDigit(Text, i + 2, end) = Decimal(i + 2, end)
      /\ RefDigit(Text, i + 3, end) = Decimal(i + 3, end)
      /\ RefDigit(Text, i + 4, end) = Decimal(i + 4, end)
  BY <1>5
<1>7. CASE Text[i] = "1"
  BY <1>3, <1>4, <1>7 DEF Qvalue
<1>8. CASE Text[i] # "1" /\ ~point
  BY <1>2, <1>3, <1>4, <1>8 DEF Qvalue
<1>9. CASE Text[i] # "1" /\ point
  <2>1. Qvalue(i) = 100 * Decimal(i + 2, end) + 10 * Decimal(i + 3, end) + Decimal(i + 4, end)
    BY <1>2, <1>3, <1>9 DEF Qvalue
  <2> QED BY <1>3, <1>4, <1>6, <1>9, <2>1
<1> QED BY <1>7, <1>8, <1>9

(***************************************************************************)
(* Its loops over quoted elements, parameters and elements.                 *)
(***************************************************************************)

LEMMA QuotedTyped ==
  ASSUME TextType, NEW i \in 1..End, i < End, RefQuoted(Text, i) # Unsure
  PROVE  RefQuoted(Text, i) \in (i + 1)..End
<1> DEFINE close == RefUpto(Text, i + 1, {Quote, Backslash})
<1>1. Len(Text) \in Nat /\ End = Len(Text) + 1 /\ i + 1 \in 1..End
  BY EndTyped
<1>2. close \in (i + 1)..End
  BY <1>1, RefUptoStops
<1>3. RefQuoted(Text, i) = close + 1 /\ close <= Len(Text)
  BY DEF RefQuoted, RefIs
<1> HIDE DEF close
<1> QED BY <1>1, <1>2, <1>3

LEMMA BlobEquation ==
  ASSUME TextType
  PROVE  \A i \in 1..End : RefBlob(Text)[i] = RefBlobPass(Text, RefBlob(Text), i)
<1> DEFINE N == End
           S == {Unsure} \cup 1..N
           equation(f) == f = [i \in 1..N |-> RefBlobPass(Text, f, i)]
           step == [i \in 1..N |-> [f \in [1..N -> S] |-> RefBlobPass(Text, f, i)]]
<1>1. Len(Text) \in Nat /\ N = Len(Text) + 1
  BY EndTyped
<1>2. ASSUME NEW i \in 1..N, RefIs(Text, i, Chars \ {","})
      PROVE  i < N /\ i + 1 \in (i + 1)..N /\ (RefQuoted(Text, i) # Unsure => RefQuoted(Text, i) \in (i + 1)..N)
  <2>1. i <= Len(Text)
    BY <1>2 DEF RefIs
  <2>2. i < End /\ i + 1 \in (i + 1)..N
    BY <1>1, <2>1
  <2> QED BY <2>2, QuotedTyped
<1>3. ASSUME NEW i \in 1..N, NEW f \in [1..N -> S] PROVE RefBlobPass(Text, f, i) \in S
  <2>1. CASE ~RefIs(Text, i, Chars \ {","})
    BY <2>1 DEF RefBlobPass
  <2>2. CASE RefIs(Text, i, Chars \ {","})
    <3>1. \A j \in (i + 1)..N : f[j] \in S
      BY <1>1
    <3>2. RefBlobPass(Text, f, i) \in {f[i + 1], Unsure} \/ (RefQuoted(Text, i) # Unsure /\ RefBlobPass(Text, f, i) = f[RefQuoted(Text, i)])
      BY <2>2 DEF RefBlobPass
    <3> QED BY <1>2, <2>2, <3>1, <3>2
  <2> QED BY <2>1, <2>2
<1>4. ASSUME NEW i \in 1..N, NEW g \in [1..N -> S], NEW h \in [1..N -> S],
             \A j \in (i + 1)..N : g[j] = h[j]
      PROVE  RefBlobPass(Text, g, i) = RefBlobPass(Text, h, i)
  BY <1>2, <1>4 DEF RefBlobPass
<1> HIDE DEF N
<1>5. step \in [1..N -> [[1..N -> S] -> S]]
  BY <1>3
<1>6. \A i \in 1..N : \A g, h \in [1..N -> S] :
        (\A j \in (i + 1)..N : g[j] = h[j]) => step[i][g] = step[i][h]
  BY <1>4
<1>7. \E f \in [1..N -> S] : FollowsDown(f, 1, N, step)
  <2>1. Unsure \in S /\ 1 \in Int /\ N \in Int
    BY <1>1
  <2> HIDE DEF S, step
  <2> QED BY <1>5, <1>6, <2>1, DownwardRecursion
<1>8. PICK f \in [1..N -> S] : FollowsDown(f, 1, N, step)
  BY <1>7
<1>9. equation(f)
  BY <1>8 DEF FollowsDown
<1>10. RefBlob(Text) = CHOOSE g : equation(g)
  BY DEF RefBlob, RefEnd, End, N
<1>11. equation(RefBlob(Text))
  <2> HIDE DEF equation
  <2> QED BY <1>9, <1>10
<1> QED BY <1>11 DEF N

LEMMA BlobTyped ==
  ASSUME TextType
  PROVE  \A i \in 1..End : RefBlob(Text)[i] \in {Unsure} \cup i..End
<1> DEFINE T == {i \in 1..End : RefBlob(Text)[i] \in {Unsure} \cup i..End}
<1>1. ASSUME NEW k \in 1..End, \A j \in (k + 1)..End : j \in T PROVE k \in T
  <2>0. End \in Nat
    BY EndTyped
  <2>1. \A j \in (k + 1)..End : RefBlob(Text)[j] \in {Unsure} \cup k..End
    BY <2>0, <1>1
  <2>2. RefBlob(Text)[k] = RefBlobPass(Text, RefBlob(Text), k)
    BY BlobEquation
  <2>3. CASE ~RefIs(Text, k, Chars \ {","})
    <3>1. RefBlob(Text)[k] = k
      BY <2>2, <2>3 DEF RefBlobPass
    <3> QED BY <2>0, <3>1
  <2>4. CASE RefIs(Text, k, Chars \ {","})
    <3>1. k < End
      <4>1. k <= Len(Text)
        BY <2>4 DEF RefIs
      <4> QED BY <4>1, EndTyped
    <3>2. k + 1 \in (k + 1)..End
      BY <2>0, <3>1
    <3>3. RefQuoted(Text, k) # Unsure => RefQuoted(Text, k) \in (k + 1)..End
      BY <3>1, QuotedTyped
    <3>4. \/ RefBlob(Text)[k] \in {RefBlob(Text)[k + 1], Unsure}
          \/ RefQuoted(Text, k) # Unsure /\ RefBlob(Text)[k] = RefBlob(Text)[RefQuoted(Text, k)]
      BY <2>2, <2>4 DEF RefBlobPass
    <3>5. RefBlob(Text)[k] \in {Unsure} \cup k..End
      BY <2>1, <3>2, <3>3, <3>4
    <3> QED BY <3>5
  <2> QED BY <2>3, <2>4
<1>2. 1 \in Int /\ End \in Int
  BY EndTyped
<1>3. \A i \in 1..End : i \in T
  <2> HIDE DEF T
  <2> QED BY <1>1, <1>2, DownwardInduction
<1> QED BY <1>3

(* No comma and no quote from i up to j; and a comma, or the end, at i.     *)
Unbroken(i, j) == \A k \in i..(j - 1) : Text[k] \notin {",", Quote}

AtComma(i) == i < End => Text[i] = ","

(* The octets before the next comma or quote are passed over.               *)
LEMMA BlobOn ==
  ASSUME TextType, NEW i \in 1..End, NEW j \in i..End, Unbroken(i, j)
  PROVE  RefBlob(Text)[i] = RefBlob(Text)[j]
<1>1. Len(Text) \in Nat /\ End = Len(Text) + 1 /\ i \in Nat /\ j \in Nat
  BY EndTyped
<1> DEFINE T == {n \in Nat : i + n <= j => RefBlob(Text)[i] = RefBlob(Text)[i + n]}
<1>2. 0 \in T
  BY <1>1
<1>3. ASSUME NEW n \in Nat, n \in T PROVE n + 1 \in T
  <2> SUFFICES ASSUME i + (n + 1) <= j PROVE RefBlob(Text)[i] = RefBlob(Text)[i + (n + 1)]
    OBVIOUS
  <2> DEFINE k == i + n
  <2>1. k \in i..(j - 1) /\ k \in 1..End /\ k <= Len(Text) /\ k + 1 = i + (n + 1)
    BY <1>1
  <2>2. i + n <= j
    BY <1>1
  <2>3. RefBlob(Text)[k] = RefBlob(Text)[k + 1]
    <3> HIDE DEF k
    <3>1. Text[k] # "," /\ Text[k] # Quote
      BY <2>1 DEF Unbroken
    <3>2. Text[k] \in Chars
      <4>1. k < End
        BY <1>1, <2>1
      <4> QED BY <2>1, <4>1, EndTyped
    <3>3. RefIs(Text, k, Chars \ {","})
      BY <2>1, <3>1, <3>2 DEF RefIs
    <3>4. RefBlob(Text)[k] = RefBlobPass(Text, RefBlob(Text), k)
      BY <2>1, BlobEquation
    <3> QED BY <3>1, <3>3, <3>4 DEF RefBlobPass
  <2> QED BY <1>3, <2>1, <2>2, <2>3
<1>4. j - i \in Nat /\ i + (j - i) = j
  BY <1>1
<1>5. j - i \in T
  <2> HIDE DEF T
  <2> QED BY <1>2, <1>3, <1>4, Induction
<1> QED BY <1>1, <1>4, <1>5

LEMMA BlobStops ==
  ASSUME TextType, NEW i \in 1..End, AtComma(i)
  PROVE  RefBlob(Text)[i] = i
<1>1. ASSUME RefIs(Text, i, Chars \ {","}) PROVE FALSE
  <2>1. i <= Len(Text)
    BY <1>1 DEF RefIs
  <2>2. i < End
    BY <2>1, EndTyped
  <2> QED BY <1>1, <2>2 DEF AtComma, RefIs
<1> QED BY <1>1, BlobEquation DEF RefBlobPass

(* Where no quote is left, both of its loops find the comma.                *)
LEMMA RestIs ==
  ASSUME TextType, NEW i \in 1..End, RefRest(Text, i) # Unsure
  PROVE  /\ RefRest(Text, i) \in i..End
         /\ AtComma(RefRest(Text, i))
         /\ Unbroken(i, RefRest(Text, i))
         /\ RefBlob(Text)[i] = RefRest(Text, i)
<1> DEFINE next == RefUpto(Text, i, {",", Quote})
<1>1. next \in i..End /\ Unbroken(i, next)
  BY RefUptoStops DEF Unbroken
<1>2. next < End => Text[next] \in {",", Quote}
  BY RefUptoStops
<1>3. RefRest(Text, i) = next /\ ~RefIs(Text, next, {Quote})
  BY DEF RefRest
<1> HIDE DEF next
<1>4. next \in 1..End /\ (next < End => next <= Len(Text))
  BY <1>1, EndTyped
<1>5. AtComma(next)
  BY <1>2, <1>3, <1>4 DEF RefIs, AtComma
<1>6. RefBlob(Text)[i] = next
  BY <1>1, <1>4, <1>5, BlobStops, BlobOn
<1> QED BY <1>1, <1>3, <1>5, <1>6

LEMMA RestOn ==
  ASSUME TextType, NEW i \in 1..End, NEW j \in i..End, Unbroken(i, j)
  PROVE  RefRest(Text, i) = RefRest(Text, j)
<1>1. RefUpto(Text, i, {",", Quote}) = RefUpto(Text, j, {",", Quote})
  BY UptoOn DEF Unbroken
<1> QED BY <1>1 DEF RefRest

(* Whether a parameter begins at i, and where its pieces lie.               *)
Begins(i) == RefIs(Text, i, {";"})
PStart(i) == RefPast(Text, i + 1, OWS)
PEnd(i) == RefUpto(Text, PStart(i), OWS \cup {"=", ";", ",", Quote})
PEq(i) == RefPast(Text, PEnd(i), OWS)
PValue(i) == RefPast(Text, PEq(i) + 1, OWS)
PHasValue(i) == RefIs(Text, PEq(i), {"="})
PLeads(i) == RefIs(Text, PValue(i), {"0", "1"})
PIsQ(i) == PEnd(i) = PStart(i) + 1 /\ Text[PStart(i)] \in {"q", "Q"}

PWeighed(rest, i) ==
  RefThen(Text, rest, RefWeight(Text, PValue(i)).i, RefWeight(Text, PValue(i)).q, TRUE)

(* What a pass at i comes to: r.                                            *)
ParameterCases(rest, i, weight, seen, r) ==
  /\ ~Begins(i) => r = Result(i, weight, TRUE)
  /\ Begins(i) /\ PEnd(i) = PStart(i) => r = Result(RefRest(Text, PEnd(i)), weight, FALSE)
  /\ Begins(i) /\ PEnd(i) # PStart(i) =>
       /\ ~PHasValue(i) /\ PIsQ(i) => r = NoAnswer
       /\ ~PHasValue(i) /\ ~PIsQ(i) => r = rest[PEq(i)][weight][seen]
       /\ PHasValue(i) /\ ~PIsQ(i) =>
            r = RefThen(Text, rest, RefValue(Text, PValue(i)), weight, seen)
       /\ PHasValue(i) /\ PIsQ(i) /\ (seen \/ ~PLeads(i)) => r = NoAnswer
       /\ PHasValue(i) /\ PIsQ(i) /\ ~seen /\ PLeads(i) => r = PWeighed(rest, i)

LEMMA ParameterIs ==
  ASSUME NEW rest, NEW i, NEW weight, NEW seen \in BOOLEAN
  PROVE  ParameterCases(rest, i, weight, seen, RefParameter(Text, rest, i, weight, seen))
BY DEF ParameterCases, RefParameter, PWeighed, Begins, PStart, PEnd, PEq, PValue, PHasValue,
       PLeads, PIsQ

LEMMA IsBefore ==
  ASSUME TextType, NEW i \in 1..End, NEW set, RefIs(Text, i, set)
  PROVE  i < End /\ i + 1 \in 1..End /\ Text[i] \in set
<1>1. i <= Len(Text) /\ Text[i] \in set
  BY DEF RefIs
<1> QED BY <1>1, EndTyped

LEMMA OracleParameterPlaces ==
  ASSUME TextType, NEW i \in 1..End, Begins(i)
  PROVE  /\ PStart(i) \in (i + 1)..End /\ PEnd(i) \in PStart(i)..End /\ PEq(i) \in PEnd(i)..End
         /\ PStart(i) \in 1..End /\ PEnd(i) \in 1..End /\ PEq(i) \in 1..End
         /\ PHasValue(i) =>
              /\ PEq(i) + 1 \in 1..End /\ PValue(i) \in (PEq(i) + 1)..End /\ PValue(i) \in 1..End
<1>0. End \in Nat
  BY EndTyped
<1>1. i + 1 \in 1..End
  BY IsBefore DEF Begins
<1>2. PStart(i) \in (i + 1)..End
  BY <1>1, RefPastStops DEF PStart
<1>3. PStart(i) \in 1..End
  BY <1>0, <1>1, <1>2
<1>4. PEnd(i) \in PStart(i)..End
  BY <1>3, RefUptoStops DEF PEnd
<1>5. PEnd(i) \in 1..End
  BY <1>0, <1>3, <1>4
<1>6. PEq(i) \in PEnd(i)..End
  BY <1>5, RefPastStops DEF PEq
<1>7. PEq(i) \in 1..End
  BY <1>0, <1>5, <1>6
<1>8. ASSUME PHasValue(i)
      PROVE  PEq(i) + 1 \in 1..End /\ PValue(i) \in (PEq(i) + 1)..End /\ PValue(i) \in 1..End
  <2>1. PEq(i) + 1 \in 1..End
    BY <1>7, <1>8, IsBefore DEF PHasValue
  <2>2. PValue(i) \in (PEq(i) + 1)..End
    BY <2>1, RefPastStops DEF PValue
  <2>3. PValue(i) \in 1..End
    BY <1>0, <2>1, <2>2
  <2> QED BY <2>1, <2>2, <2>3
<1> QED BY <1>2, <1>3, <1>4, <1>5, <1>6, <1>7, <1>8

(* The value of a parameter ends at or after its beginning.                 *)
LEMMA ValueTyped ==
  ASSUME TextType, NEW i \in 1..End
  PROVE  RefValue(Text, i) \in {Unsure} \cup i..End
<1>0. End \in Nat
  BY EndTyped
<1>1. CASE RefIs(Text, i, {Quote})
  <2>1. i < End
    BY <1>1, IsBefore
  <2>2. RefQuoted(Text, i) = Unsure \/ RefQuoted(Text, i) \in (i + 1)..End
    BY <2>1, QuotedTyped
  <2>3. RefValue(Text, i) = RefQuoted(Text, i)
    BY <1>1 DEF RefValue
  <2> QED BY <1>0, <2>2, <2>3
<1>2. CASE ~RefIs(Text, i, {Quote})
  BY <1>2, RefUptoStops DEF RefValue
<1> QED BY <1>1, <1>2

LEMMA WeightTyped ==
  ASSUME TextType, NEW i \in 1..End, RefIs(Text, i, {"0", "1"})
  PROVE  RefWeight(Text, i).i \in (i + 1)..End /\ RefWeight(Text, i).q \in 0..1000
<1>1. Is(i, {"0", "1"})
  BY SameIs
<1>2. RefWeight(Text, i).i = QvalueEnd(i) /\ RefWeight(Text, i).q = Qvalue(i)
  BY <1>1, SameWeight
<1>3. QvalueEnd(i) \in (i + 1)..End /\ Qvalue(i) \in 0..1000
  BY <1>1, QvalueTyped
<1> DEFINE above == (i + 1)..End
           weights == 0..1000
<1>4. QvalueEnd(i) \in above /\ Qvalue(i) \in weights
  BY <1>3
<1> HIDE DEF above, weights
<1>5. RefWeight(Text, i).i \in above /\ RefWeight(Text, i).q \in weights
  BY <1>2, <1>4
<1> QED BY <1>5 DEF above, weights

(* What the parameters from i on may come to.                               *)
Results(i) == [i : {Unsure} \cup i..End, q : Qs, matches : BOOLEAN]

(* The passes after one in a parameter that begins at i are asked about     *)
(* places after i only.                                                     *)
LEMMA ThenAbove ==
  ASSUME TextType, NEW k \in 1..End, NEW i \in {Unsure} \cup (k + 1)..End, NEW weight \in Qs,
         NEW seen \in BOOLEAN, NEW g, NEW h, \A j \in (k + 1)..End : g[j] = h[j]
  PROVE  RefThen(Text, g, i, weight, seen) = RefThen(Text, h, i, weight, seen)
<1>1. CASE i = Unsure
  BY <1>1 DEF RefThen
<1>2. CASE i # Unsure
  <2>0. i \in (k + 1)..End /\ End \in Nat
    BY <1>2, EndTyped
  <2>1. i \in 1..End
    BY <2>0
  <2>2. RefPast(Text, i, OWS) \in i..End
    BY <2>1, RefPastStops
  <2>3. RefPast(Text, i, OWS) \in (k + 1)..End
    BY <2>0, <2>2
  <2> QED BY <1>2, <2>3 DEF RefThen
<1> QED BY <1>1, <1>2

LEMMA ThenTyped ==
  ASSUME TextType, NEW k \in 1..End, NEW i \in {Unsure} \cup (k + 1)..End, NEW weight \in Qs,
         NEW seen \in BOOLEAN, NEW g, NEW S, NoAnswer \in S,
         \A j \in (k + 1)..End : g[j] \in [Qs -> [BOOLEAN -> S]]
  PROVE  RefThen(Text, g, i, weight, seen) \in S
<1>1. CASE i = Unsure
  BY <1>1 DEF RefThen
<1>2. CASE i # Unsure
  <2>0. i \in (k + 1)..End /\ End \in Nat
    BY <1>2, EndTyped
  <2>1. i \in 1..End
    BY <2>0
  <2>2. RefPast(Text, i, OWS) \in i..End
    BY <2>1, RefPastStops
  <2>3. RefPast(Text, i, OWS) \in (k + 1)..End
    BY <2>0, <2>2
  <2>4. g[RefPast(Text, i, OWS)][weight][seen] \in S
    BY <2>3
  <2> QED BY <1>2, <2>4 DEF RefThen
<1> QED BY <1>1, <1>2

(* Each of the places at which a pass asks.                                 *)
LEMMA PassPlaces ==
  ASSUME TextType, NEW k \in 1..End, Begins(k), PEnd(k) # PStart(k)
  PROVE  /\ PEq(k) \in (k + 1)..End
         /\ PHasValue(k) => RefValue(Text, PValue(k)) \in {Unsure} \cup (k + 1)..End
         /\ PHasValue(k) /\ PLeads(k) =>
              /\ RefWeight(Text, PValue(k)).i \in {Unsure} \cup (k + 1)..End
              /\ RefWeight(Text, PValue(k)).q \in Qs
<1>0. End \in Nat
  BY EndTyped
<1>1. PStart(k) \in (k + 1)..End /\ PEnd(k) \in PStart(k)..End /\ PEq(k) \in PEnd(k)..End
  BY OracleParameterPlaces
<1>2. PEq(k) \in (k + 1)..End
  BY <1>0, <1>1
<1>3. ASSUME PHasValue(k)
      PROVE  PValue(k) \in 1..End /\ \A x \in PValue(k)..End : x \in (k + 1)..End
  <2>1. PValue(k) \in (PEq(k) + 1)..End /\ PValue(k) \in 1..End
    BY <1>3, OracleParameterPlaces
  <2> QED BY <1>0, <1>2, <2>1
<1>4. 0..1000 \subseteq Qs
  BY DEF Qs
<1>5. ASSUME PHasValue(k) PROVE RefValue(Text, PValue(k)) \in {Unsure} \cup (k + 1)..End
  BY <1>3, <1>5, ValueTyped
<1>6. ASSUME PHasValue(k), PLeads(k)
      PROVE  /\ RefWeight(Text, PValue(k)).i \in {Unsure} \cup (k + 1)..End
             /\ RefWeight(Text, PValue(k)).q \in Qs
  <2> DEFINE w == RefWeight(Text, PValue(k))
  <2>a. PValue(k) \in 1..End
    BY <1>3, <1>6
  <2>b. RefIs(Text, PValue(k), {"0", "1"})
    BY <1>6 DEF PLeads
  <2>1. w.i \in (PValue(k) + 1)..End /\ w.q \in 0..1000
    BY <2>a, <2>b, WeightTyped, ZenonT(30)
  <2> HIDE DEF w
  <2>2. w.i \in PValue(k)..End
    BY <1>0, <1>3, <1>6, <2>1
  <2> QED BY <1>3, <1>4, <1>6, <2>1, <2>2 DEF w
<1> QED BY <1>2, <1>5, <1>6

LEMMA ParameterAbove ==
  ASSUME TextType, NEW k \in 1..End, NEW weight \in Qs, NEW seen \in BOOLEAN, NEW g, NEW h,
         \A j \in (k + 1)..End : g[j] = h[j]
  PROVE  RefParameter(Text, g, k, weight, seen) = RefParameter(Text, h, k, weight, seen)
<1>p. /\ ParameterCases(g, k, weight, seen, RefParameter(Text, g, k, weight, seen))
      /\ ParameterCases(h, k, weight, seen, RefParameter(Text, h, k, weight, seen))
  BY ParameterIs
<1>1. CASE ~Begins(k) \/ PEnd(k) = PStart(k)
  BY <1>1, <1>p DEF ParameterCases
<1>2. CASE Begins(k) /\ PEnd(k) # PStart(k)
  <2>1. g[PEq(k)] = h[PEq(k)]
    BY <1>2, PassPlaces
  <2>2. ASSUME PHasValue(k)
        PROVE  RefThen(Text, g, RefValue(Text, PValue(k)), weight, seen)
                 = RefThen(Text, h, RefValue(Text, PValue(k)), weight, seen)
    BY <1>2, <2>2, PassPlaces, ThenAbove
  <2>3. ASSUME PHasValue(k), PLeads(k)
        PROVE  PWeighed(g, k) = PWeighed(h, k)
    <3> DEFINE i == RefWeight(Text, PValue(k)).i
               w == RefWeight(Text, PValue(k)).q
    <3>1. i \in {Unsure} \cup (k + 1)..End /\ w \in Qs
      BY <1>2, <2>3, PassPlaces
    <3> HIDE DEF i, w
    <3>2. \A s \in BOOLEAN : RefThen(Text, g, i, w, s) = RefThen(Text, h, i, w, s)
      BY <3>1, ThenAbove
    <3>3. RefThen(Text, g, i, w, TRUE) = RefThen(Text, h, i, w, TRUE)
      BY <3>2, Zenon
    <3> QED BY <3>3, Zenon DEF i, w, PWeighed
  <2>4. CASE ~PHasValue(k)
    BY <1>2, <2>1, <2>4, <1>p DEF ParameterCases
  <2>5. CASE PHasValue(k) /\ ~PIsQ(k)
    BY <1>2, <2>2, <2>5, <1>p DEF ParameterCases
  <2>6. CASE PHasValue(k) /\ PIsQ(k) /\ (seen \/ ~PLeads(k))
    BY <1>2, <2>6, <1>p DEF ParameterCases
  <2>7. CASE PHasValue(k) /\ PIsQ(k) /\ ~seen /\ PLeads(k)
    BY <1>2, <2>3, <2>7, <1>p DEF ParameterCases
  <2> QED BY <2>4, <2>5, <2>6, <2>7
<1> QED BY <1>1, <1>2

LEMMA ParameterTyped ==
  ASSUME TextType, NEW k \in 1..End, NEW lo \in 1..k, NEW weight \in Qs, NEW seen \in BOOLEAN, NEW g,
         \A j \in (k + 1)..End : g[j] \in [Qs -> [BOOLEAN -> Results(lo)]]
  PROVE  RefParameter(Text, g, k, weight, seen) \in Results(lo)
<1>p. ParameterCases(g, k, weight, seen, RefParameter(Text, g, k, weight, seen))
  BY ParameterIs
<1>0. End \in Nat /\ NoAnswer \in Results(lo) /\ k \in lo..End
  <2>1. End \in Nat /\ k \in lo..End
    BY EndTyped
  <2>2. 0 \in Qs
    BY DEF Qs
  <2> QED BY <2>1, <2>2 DEF NoAnswer, Result, Results
<1>1. CASE ~Begins(k)
  <2>1. Result(k, weight, TRUE) \in Results(lo)
    BY <1>0 DEF Result, Results
  <2> QED BY <1>1, <2>1, <1>p DEF ParameterCases
<1>2. CASE Begins(k) /\ PEnd(k) = PStart(k)
  <2>1. PEnd(k) \in (k + 1)..End /\ PEnd(k) \in 1..End
    BY <1>2, OracleParameterPlaces
  <2>2. RefRest(Text, PEnd(k)) \in {Unsure} \cup PEnd(k)..End
    BY <2>1, RestIs
  <2>3. RefRest(Text, PEnd(k)) \in {Unsure} \cup lo..End
    BY <1>0, <2>1, <2>2
  <2>4. Result(RefRest(Text, PEnd(k)), weight, FALSE) \in Results(lo)
    BY <2>3 DEF Result, Results
  <2> QED BY <1>2, <2>4, <1>p DEF ParameterCases
<1>3. CASE Begins(k) /\ PEnd(k) # PStart(k)
  <2>1. g[PEq(k)][weight][seen] \in Results(lo)
    BY <1>3, PassPlaces
  <2>2. ASSUME PHasValue(k)
        PROVE  RefThen(Text, g, RefValue(Text, PValue(k)), weight, seen) \in Results(lo)
    BY <1>0, <1>3, <2>2, PassPlaces, ThenTyped
  <2>3. ASSUME PHasValue(k), PLeads(k)
        PROVE  PWeighed(g, k) \in Results(lo)
    <3> DEFINE i == RefWeight(Text, PValue(k)).i
               w == RefWeight(Text, PValue(k)).q
    <3>1. i \in {Unsure} \cup (k + 1)..End /\ w \in Qs
      BY <1>3, <2>3, PassPlaces
    <3> HIDE DEF i, w
    <3>2. \A s \in BOOLEAN : RefThen(Text, g, i, w, s) \in Results(lo)
      BY <1>0, <3>1, ThenTyped
    <3>3. RefThen(Text, g, i, w, TRUE) \in Results(lo)
      BY <3>2, Zenon
    <3> QED BY <3>3, Zenon DEF i, w, PWeighed
  <2> QED BY <1>0, <1>3, <2>1, <2>2, <2>3, <1>p DEF ParameterCases
<1> QED BY <1>1, <1>2, <1>3

LEMMA ParametersEquation ==
  ASSUME TextType
  PROVE  /\ \A i \in 1..End : \A weight \in Qs : \A seen \in BOOLEAN :
              RefParameters(Text)[i][weight][seen]
                = RefParameter(Text, RefParameters(Text), i, weight, seen)
         /\ \A i \in 1..End : RefParameters(Text)[i] \in [Qs -> [BOOLEAN -> Results(i)]]
<1> DEFINE pass(f, i) == [weight \in Qs |-> [seen \in BOOLEAN |-> RefParameter(Text, f, i, weight, seen)]]
           equation(f) == f = [i \in 1..End |-> pass(f, i)]
           S == [Qs -> [BOOLEAN -> Results(1)]]
           step == [i \in 1..End |-> [f \in [1..End -> S] |-> pass(f, i)]]
           P == RefParameters(Text)
<1>0. End \in Nat \ {0} /\ 0 \in Qs
  BY EndTyped DEF Qs
<1>1. ASSUME NEW k \in 1..End, NEW lo \in 1..k, NEW f,
             \A j \in (k + 1)..End : f[j] \in [Qs -> [BOOLEAN -> Results(lo)]]
      PROVE  pass(f, k) \in [Qs -> [BOOLEAN -> Results(lo)]]
  <2>1. \A weight \in Qs : \A seen \in BOOLEAN : RefParameter(Text, f, k, weight, seen) \in Results(lo)
    BY <1>1, ParameterTyped
  <2> QED BY <2>1
<1>2. ASSUME NEW k \in 1..End, NEW f \in [1..End -> S] PROVE pass(f, k) \in S
  <2>1. 1 \in 1..k /\ \A j \in (k + 1)..End : j \in 1..End
    OBVIOUS
  <2>2. \A j \in (k + 1)..End : f[j] \in S
    BY <2>1
  <2> HIDE DEF pass
  <2> QED BY <1>1, <2>1, <2>2
<1>3. ASSUME NEW k \in 1..End, NEW g \in [1..End -> S], NEW h \in [1..End -> S],
             \A j \in (k + 1)..End : g[j] = h[j]
      PROVE  pass(g, k) = pass(h, k)
  <2>1. ASSUME NEW weight \in Qs, NEW seen \in BOOLEAN
        PROVE  RefParameter(Text, g, k, weight, seen) = RefParameter(Text, h, k, weight, seen)
    <3> HIDE DEF S
    <3> QED BY <1>3, ParameterAbove, ZenonT(40)
  <2> QED BY <2>1
<1>4. \E f \in [1..End -> S] : FollowsDown(f, 1, End, step)
  <2>1. step \in [1..End -> [[1..End -> S] -> S]]
    <3> HIDE DEF pass, S
    <3> QED BY <1>2
  <2>2. \A i \in 1..End : \A g, h \in [1..End -> S] :
          (\A j \in (i + 1)..End : g[j] = h[j]) => step[i][g] = step[i][h]
    <3> HIDE DEF pass, S
    <3> QED BY <1>3
  <2>3. [weight \in Qs |-> [seen \in BOOLEAN |-> NoAnswer]] \in S
    <3>1. NoAnswer \in Results(1)
      BY <1>0 DEF NoAnswer, Result, Results
    <3> QED BY <3>1
  <2>4. 1 \in Int /\ End \in Int
    BY <1>0
  <2> HIDE DEF S, step
  <2> QED BY <2>1, <2>2, <2>3, <2>4, DownwardRecursion
<1>5. \E f : equation(f)
  <2>1. PICK f \in [1..End -> S] : FollowsDown(f, 1, End, step)
    BY <1>4
  <2> HIDE DEF S, pass
  <2>2. equation(f)
    BY <2>1 DEF FollowsDown
  <2> QED BY <2>2
<1>6. equation(P)
  <2>1. P = CHOOSE f : equation(f)
    BY DEF RefParameters, RefEnd, End
  <2> HIDE DEF equation, P
  <2> QED BY <1>5, <2>1
<1>7. \A i \in 1..End : P[i] = pass(P, i)
  <2> HIDE DEF P, pass
  <2> QED BY <1>6
<1>8. \A i \in 1..End : \A weight \in Qs : \A seen \in BOOLEAN :
        P[i][weight][seen] = RefParameter(Text, P, i, weight, seen)
  <2> HIDE DEF P
  <2> SUFFICES ASSUME NEW i \in 1..End, NEW weight \in Qs, NEW seen \in BOOLEAN
               PROVE  P[i][weight][seen] = RefParameter(Text, P, i, weight, seen)
    OBVIOUS
  <2>1. P[i] = pass(P, i)
    BY <1>7
  <2>2. pass(P, i)[weight] = [s \in BOOLEAN |-> RefParameter(Text, P, i, weight, s)]
    OBVIOUS
  <2>3. pass(P, i)[weight][seen] = RefParameter(Text, P, i, weight, seen)
    BY <2>2, Zenon
  <2> HIDE DEF pass
  <2> QED BY <2>1, <2>3, Zenon
<1> DEFINE typed(i) == P[i] \in [Qs -> [BOOLEAN -> Results(i)]]
<1>9. ASSUME NEW k \in 1..End, \A j \in (k + 1)..End : typed(j) PROVE typed(k)
  <2>1. ASSUME NEW j \in (k + 1)..End PROVE P[j] \in [Qs -> [BOOLEAN -> Results(k)]]
    <3>1. j..End \subseteq k..End
      BY <1>0
    <3>2. Results(j) \subseteq Results(k)
      BY <3>1 DEF Results
    <3>3. typed(j)
      BY <1>9
    <3> HIDE DEF P
    <3> QED BY <3>2, <3>3
  <2>2. k \in 1..k
    OBVIOUS
  <2>3. pass(P, k) \in [Qs -> [BOOLEAN -> Results(k)]]
    <3> HIDE DEF pass, P
    <3> QED BY <1>1, <2>1, <2>2
  <2> HIDE DEF pass, P
  <2> QED BY <1>7, <2>3
<1>10. \A i \in 1..End : typed(i)
  <2> HIDE DEF typed
  <2> DEFINE T == {i \in 1..End : typed(i)}
  <2>1. ASSUME NEW k \in 1..End, \A j \in (k + 1)..End : j \in T PROVE k \in T
    BY <1>9, <2>1
  <2>2. 1 \in Int /\ End \in Int
    BY <1>0
  <2>3. \A i \in 1..End : i \in T
    <3> HIDE DEF T
    <3> QED BY <2>1, <2>2, DownwardInduction
  <2> QED BY <2>3
<1> QED BY <1>8, <1>10 DEF typed

(* The pieces of the element that the oracle reads from i on.               *)
ETok(i) == RefPast(Text, i, OWS \cup {","})
EName(i) == RefPast(Text, ETok(i), NameChars)
EAfter(i) == RefPast(Text, EName(i), OWS)
EJunk(i) == RefIs(Text, EAfter(i), Chars \ {";", ","})
EFrom(i) == IF EJunk(i) THEN RefRest(Text, EAfter(i)) ELSE EAfter(i)
EResult(i) == IF EFrom(i) = Unsure THEN NoAnswer ELSE RefParameters(Text)[EFrom(i)][1000][FALSE]
EIsBr(i) ==
  /\ EName(i) = ETok(i) + 2 /\ ~EJunk(i) /\ EResult(i).matches
  /\ Lower[Text[ETok(i)]] = "b" /\ Lower[Text[ETok(i) + 1]] = "r"
EIsStar(i) ==
  EName(i) = ETok(i) + 1 /\ ~EJunk(i) /\ EResult(i).matches /\ Text[ETok(i)] = "*"
InQuotes(i) == Text[ETok(i)] = Quote

ElementCases(rest, i, a, b, r) ==
  /\ ETok(i) = End => r = RefVerdict(a, b)
  /\ ETok(i) # End /\ InQuotes(i) => r = RefNext(Text, rest, RefBlob(Text)[ETok(i)], a, b)
  /\ ETok(i) # End /\ ~InQuotes(i) /\ EName(i) = ETok(i) => r = Unsure
  /\ ETok(i) # End /\ ~InQuotes(i) /\ EName(i) # ETok(i) =>
       r = RefNext(Text, rest, EResult(i).i, IF EIsBr(i) THEN EResult(i).q ELSE a,
                   IF EIsStar(i) THEN EResult(i).q ELSE b)

LEMMA ElementIs ==
  ASSUME NEW rest, NEW i, NEW a, NEW b
  PROVE  ElementCases(rest, i, a, b, RefElement(Text, rest, i, a, b))
<1>1. End = RefEnd(Text)
  BY DEF End, RefEnd
<1> QED BY <1>1 DEF ElementCases, RefElement, ETok, EName, EAfter, EJunk, EFrom, EResult, EIsBr,
                    EIsStar, InQuotes

LEMMA OracleElementPlaces ==
  ASSUME TextType, NEW i \in 1..End
  PROVE  /\ ETok(i) \in i..End /\ ETok(i) \in 1..End
         /\ EName(i) \in ETok(i)..End /\ EName(i) \in 1..End
         /\ EAfter(i) \in EName(i)..End /\ EAfter(i) \in 1..End
         /\ EFrom(i) \in {Unsure} \cup EAfter(i)..End
         /\ EFrom(i) \in {Unsure} \cup i..End
<1>0. End \in Nat
  BY EndTyped
<1>1. ETok(i) \in i..End
  BY RefPastStops DEF ETok
<1>2. ETok(i) \in 1..End
  BY <1>0, <1>1
<1>3. EName(i) \in ETok(i)..End
  BY <1>2, RefPastStops DEF EName
<1>4. EName(i) \in 1..End
  BY <1>0, <1>2, <1>3
<1>5. EAfter(i) \in EName(i)..End
  BY <1>4, RefPastStops DEF EAfter
<1>6. EAfter(i) \in 1..End
  BY <1>0, <1>4, <1>5
<1>7. EFrom(i) \in {Unsure} \cup EAfter(i)..End
  <2>1. RefRest(Text, EAfter(i)) \in {Unsure} \cup EAfter(i)..End
    BY <1>6, RestIs
  <2>2. EAfter(i) \in EAfter(i)..End
    BY <1>0, <1>6
  <2> QED BY <2>1, <2>2 DEF EFrom
<1>8. EFrom(i) \in {Unsure} \cup i..End
  BY <1>0, <1>1, <1>3, <1>5, <1>7
<1> QED BY <1>1, <1>2, <1>3, <1>4, <1>5, <1>6, <1>7, <1>8

LEMMA TokBefore ==
  ASSUME TextType, NEW i \in 1..End, ETok(i) # End
  PROVE  i < End /\ ETok(i) < End
<1>1. End \in Nat /\ ETok(i) \in i..End
  BY EndTyped, OracleElementPlaces
<1> QED BY <1>1

LEMMA ResultTyped ==
  ASSUME TextType, NEW i \in 1..End
  PROVE  EResult(i).i \in {Unsure} \cup i..End /\ EResult(i).q \in Qs /\ EResult(i).matches \in BOOLEAN
<1>0. End \in Nat /\ 0 \in Qs /\ 1000 \in Qs
  BY EndTyped DEF Qs
<1>1. CASE EFrom(i) = Unsure
  BY <1>0, <1>1 DEF EResult, NoAnswer, Result
<1>2. CASE EFrom(i) # Unsure
  <2>1. EFrom(i) \in i..End
    BY <1>2, OracleElementPlaces
  <2>2. EFrom(i) \in 1..End /\ EFrom(i)..End \subseteq i..End
    BY <1>0, <2>1
  <2>3. RefParameters(Text)[EFrom(i)] \in [Qs -> [BOOLEAN -> Results(EFrom(i))]]
    BY <2>2, ParametersEquation
  <2>4. \A seen \in BOOLEAN : RefParameters(Text)[EFrom(i)][1000][seen] \in Results(EFrom(i))
    BY <1>0, <2>3
  <2>5. RefParameters(Text)[EFrom(i)][1000][FALSE] \in Results(EFrom(i))
    BY <2>4, Zenon
  <2>6. EResult(i) \in Results(EFrom(i))
    BY <1>2, <2>5, Zenon DEF EResult
  <2>7. EResult(i).i \in {Unsure} \cup EFrom(i)..End /\ EResult(i).q \in Qs /\ EResult(i).matches \in BOOLEAN
    BY <2>6 DEF Results
  <2> QED BY <2>2, <2>7
<1> QED BY <1>1, <1>2

Answers == {Unsure, 0, 1}

LEMMA NextTyped ==
  ASSUME TextType, NEW k \in 1..End, k < End, NEW i \in {Unsure} \cup k..End, NEW a \in Qs, NEW b \in Qs,
         NEW g, \A j \in (k + 1)..End : g[j] \in [Qs -> [Qs -> Answers]]
  PROVE  RefNext(Text, g, i, a, b) \in Answers
<1>0. Unsure \in Answers /\ End \in Nat /\ End = Len(Text) + 1 /\ Len(Text) \in Nat
  BY EndTyped DEF Answers
<1>1. i # Unsure => (IF i <= Len(Text) THEN i + 1 ELSE i) \in (k + 1)..End
  BY <1>0
<1>2. i # Unsure => g[IF i <= Len(Text) THEN i + 1 ELSE i][a][b] \in Answers
  BY <1>1
<1> QED BY <1>0, <1>2 DEF RefNext

LEMMA NextAbove ==
  ASSUME TextType, NEW k \in 1..End, k < End, NEW i \in {Unsure} \cup k..End, NEW a, NEW b,
         NEW g, NEW h, \A j \in (k + 1)..End : g[j] = h[j]
  PROVE  RefNext(Text, g, i, a, b) = RefNext(Text, h, i, a, b)
<1>0. End \in Nat /\ End = Len(Text) + 1 /\ Len(Text) \in Nat
  BY EndTyped
<1>1. i # Unsure => (IF i <= Len(Text) THEN i + 1 ELSE i) \in (k + 1)..End
  BY <1>0
<1>2. i # Unsure => g[IF i <= Len(Text) THEN i + 1 ELSE i] = h[IF i <= Len(Text) THEN i + 1 ELSE i]
  BY <1>1
<1> QED BY <1>2 DEF RefNext

LEMMA ElementTyped ==
  ASSUME TextType, NEW k \in 1..End, NEW a \in Qs, NEW b \in Qs,
         NEW g, \A j \in (k + 1)..End : g[j] \in [Qs -> [Qs -> Answers]]
  PROVE  RefElement(Text, g, k, a, b) \in Answers
<1> DEFINE r == RefElement(Text, g, k, a, b)
<1>1. ElementCases(g, k, a, b, r)
  BY ElementIs
<1> HIDE DEF r
<1>2. CASE ETok(k) = End
  <2>1. r = RefVerdict(a, b)
    BY <1>1, <1>2 DEF ElementCases
  <2> QED BY <2>1 DEF RefVerdict, Answers, r
<1>3. CASE ETok(k) # End
  <2>0. End \in Nat /\ ETok(k) \in k..End /\ ETok(k) \in 1..End
    BY EndTyped, OracleElementPlaces
  <2>1. k < End
    BY <1>3, TokBefore
  <2>2. RefBlob(Text)[ETok(k)] \in {Unsure} \cup k..End
    <3>1. RefBlob(Text)[ETok(k)] \in {Unsure} \cup ETok(k)..End
      BY <2>0, BlobTyped
    <3> QED BY <2>0, <3>1
  <2>3. RefNext(Text, g, RefBlob(Text)[ETok(k)], a, b) \in Answers
    BY <2>1, <2>2, NextTyped
  <2>4. EResult(k).i \in {Unsure} \cup k..End /\ EResult(k).q \in Qs
    BY ResultTyped
  <2> DEFINE x == IF EIsBr(k) THEN EResult(k).q ELSE a
             y == IF EIsStar(k) THEN EResult(k).q ELSE b
  <2>5. x \in Qs /\ y \in Qs
    BY <2>4
  <2> HIDE DEF x, y
  <2>6. RefNext(Text, g, EResult(k).i, x, y) \in Answers
    BY <2>1, <2>4, <2>5, NextTyped
  <2> QED BY <1>1, <1>3, <2>3, <2>6 DEF ElementCases, Answers, r, x, y
<1> QED BY <1>2, <1>3

LEMMA ElementAbove ==
  ASSUME TextType, NEW k \in 1..End, NEW a, NEW b,
         NEW g, NEW h, \A j \in (k + 1)..End : g[j] = h[j]
  PROVE  RefElement(Text, g, k, a, b) = RefElement(Text, h, k, a, b)
<1>1. /\ ElementCases(g, k, a, b, RefElement(Text, g, k, a, b))
      /\ ElementCases(h, k, a, b, RefElement(Text, h, k, a, b))
  BY ElementIs
<1>2. CASE ETok(k) = End
  BY <1>1, <1>2 DEF ElementCases
<1>3. CASE ETok(k) # End
  <2>0. End \in Nat /\ ETok(k) \in k..End /\ ETok(k) \in 1..End
    BY EndTyped, OracleElementPlaces
  <2>1. k < End
    BY <1>3, TokBefore
  <2>2. RefBlob(Text)[ETok(k)] \in {Unsure} \cup k..End
    <3>1. RefBlob(Text)[ETok(k)] \in {Unsure} \cup ETok(k)..End
      BY <2>0, BlobTyped
    <3> QED BY <2>0, <3>1
  <2>3. \A x, y : RefNext(Text, g, RefBlob(Text)[ETok(k)], x, y) = RefNext(Text, h, RefBlob(Text)[ETok(k)], x, y)
    BY <2>1, <2>2, NextAbove
  <2>4. EResult(k).i \in {Unsure} \cup k..End
    BY ResultTyped
  <2>5. \A x, y : RefNext(Text, g, EResult(k).i, x, y) = RefNext(Text, h, EResult(k).i, x, y)
    BY <2>1, <2>4, NextAbove
  <2> QED BY <1>1, <1>3, <2>3, <2>5 DEF ElementCases
<1> QED BY <1>2, <1>3

LEMMA ElementsEquation ==
  ASSUME TextType
  PROVE  \A i \in 1..End : \A a, b \in Qs :
           RefElements(Text)[i][a][b] = RefElement(Text, RefElements(Text), i, a, b)
<1> DEFINE pass(f, i) == [a \in Qs |-> [b \in Qs |-> RefElement(Text, f, i, a, b)]]
           equation(f) == f = [i \in 1..End |-> pass(f, i)]
           S == [Qs -> [Qs -> Answers]]
           step == [i \in 1..End |-> [f \in [1..End -> S] |-> pass(f, i)]]
           E == RefElements(Text)
<1>0. End \in Nat \ {0}
  BY EndTyped
<1>1. ASSUME NEW k \in 1..End, NEW f \in [1..End -> S] PROVE pass(f, k) \in S
  <2>1. \A j \in (k + 1)..End : f[j] \in S
    BY <1>0
  <2>2. \A a, b \in Qs : RefElement(Text, f, k, a, b) \in Answers
    BY <2>1, ElementTyped
  <2> QED BY <2>2
<1>2. ASSUME NEW k \in 1..End, NEW g \in [1..End -> S], NEW h \in [1..End -> S],
             \A j \in (k + 1)..End : g[j] = h[j]
      PROVE  pass(g, k) = pass(h, k)
  <2>1. \A a, b \in Qs : RefElement(Text, g, k, a, b) = RefElement(Text, h, k, a, b)
    BY <1>2, ElementAbove
  <2> QED BY <2>1
<1>3. \E f \in [1..End -> S] : FollowsDown(f, 1, End, step)
  <2>1. step \in [1..End -> [[1..End -> S] -> S]]
    <3> HIDE DEF pass, S
    <3> QED BY <1>1
  <2>2. \A i \in 1..End : \A g, h \in [1..End -> S] :
          (\A j \in (i + 1)..End : g[j] = h[j]) => step[i][g] = step[i][h]
    <3> HIDE DEF pass, S
    <3> QED BY <1>2
  <2>3. [a \in Qs |-> [b \in Qs |-> Unsure]] \in S
    BY DEF Answers
  <2>4. 1 \in Int /\ End \in Int
    BY <1>0
  <2> HIDE DEF S, step
  <2> QED BY <2>1, <2>2, <2>3, <2>4, DownwardRecursion
<1>4. \E f : equation(f)
  <2>1. PICK f \in [1..End -> S] : FollowsDown(f, 1, End, step)
    BY <1>3
  <2> HIDE DEF S, pass
  <2>2. equation(f)
    BY <2>1 DEF FollowsDown
  <2> QED BY <2>2
<1>5. equation(E)
  <2>1. E = CHOOSE f : equation(f)
    BY DEF RefElements, RefEnd, End
  <2> HIDE DEF equation, E
  <2> QED BY <1>4, <2>1
<1>6. \A i \in 1..End : E[i] = pass(E, i)
  <2> HIDE DEF E, pass
  <2> QED BY <1>5
<1> QED
  <2> HIDE DEF E
  <2>1. ASSUME NEW i \in 1..End, NEW a \in Qs, NEW b \in Qs
        PROVE  E[i][a][b] = RefElement(Text, E, i, a, b)
    <3>1. pass(E, i)[a][b] = RefElement(Text, E, i, a, b)
      OBVIOUS
    <3> HIDE DEF pass
    <3> QED BY <1>6, <3>1
  <2> QED BY <2>1 DEF E

(***************************************************************************)
(* The oracle next to the walk.                                             *)
(***************************************************************************)

(* What the oracle answers to the line of the walk, and what it goes on to  *)
(* answer: after an element that ends at i, and after parameters that come  *)
(* to r.                                                                    *)
Answer == RefAccepts(Text)

Onward(i) == RefNext(Text, RefElements(Text), i, line_coding_q, line_star_q)

Concluded(r) ==
  RefNext(Text, RefElements(Text), r.i, IF is_coding /\ r.matches THEN r.q ELSE line_coding_q,
          IF is_star /\ r.matches THEN r.q ELSE line_star_q)

(* What its parameters come to after a value that ends at i.                *)
Then(i) == RefThen(Text, RefParameters(Text), i, q, q_seen)

(* Past a quoted-string that the walk is inside of.                         *)
Closed(t, i) ==
  LET close == RefUpto(t, i, {Quote, Backslash})
  IN  IF RefIs(t, close, {Quote}) THEN close + 1 ELSE Unsure

Blob(i) == IF i = Unsure THEN Unsure ELSE RefBlob(Text)[i]

(* The oracle gave the element up where the walk still reads parameters;    *)
(* there is no quote in what is left of it.                                 *)
Hopeless ==
  /\ ~is_coding /\ ~is_star /\ ~quoted
  /\ RefRest(Text, p) # Unsure /\ Answer = Onward(RefRest(Text, p))

Evaluating == pc \in {"param", "value"}

Verdict == IF FieldWeight > 0 THEN 1 ELSE 0

(* The answer is the one the oracle would give from where the walk is.      *)
Followed ==
  /\ Evaluating => ~quoted_name /\ q >= 0 /\ ~(is_coding /\ is_star)
  /\ pc = "element" => Answer = RefElements(Text)[p][line_coding_q][line_star_q]
  /\ pc = "param" => Hopeless \/ Answer = Concluded(RefParameters(Text)[p][q][q_seen])
  /\ pc = "value" /\ ~quoted =>
       Hopeless \/ \E i \in {p, RefValue(Text, p)} : Answer = Concluded(Then(i))
  /\ pc = "value" /\ quoted => Answer = Concluded(Then(Closed(Text, p)))
  /\ pc = "rest" => Answer = Onward(Blob(IF quoted THEN Closed(Text, p) ELSE p))
  /\ pc \in {"line", "done"} => Answer = Verdict

(* Nothing is noted of the field before the end of its first line.          *)
Unfolded ==
  /\ line = 0 => pc = "line"
  /\ line = 0 \/ pc \notin {"line", "done"} => coding_q = -1 /\ star_q = -1

Tracked == Len(field) = 1 => Unfolded /\ (line = 1 /\ Answer # Unsure => Followed)

(* Going on from a comma or from behind it is the same.                     *)
LEMMA NextIs ==
  ASSUME TextType, NEW i \in 1..End, AtComma(i), NEW a \in Qs, NEW b \in Qs
  PROVE  RefNext(Text, RefElements(Text), i, a, b) = RefElements(Text)[i][a][b]
<1> DEFINE E == RefElements(Text)
<1>1. End \in Nat /\ End = Len(Text) + 1 /\ i \in Nat /\ i # Unsure
  BY EndTyped DEF Unsure
<1>2. ~RefIs(Text, i, Chars \ {","})
  <2>1. i <= Len(Text) => i < End
    BY <1>1
  <2> QED BY <2>1 DEF AtComma, RefIs
<1>3. CASE i = End
  <2>1. ~(i <= Len(Text))
    BY <1>1, <1>3
  <2> QED BY <1>1, <1>2, <2>1 DEF RefNext
<1>4. CASE i # End
  <2>1. i < End /\ i <= Len(Text) /\ i + 1 \in 1..End
    BY <1>1, <1>4
  <2>2. ETok(i) = ETok(i + 1)
    <3> DEFINE x == ETok(i + 1)
    <3>1. /\ x \in (i + 1)..End /\ (x < End => Text[x] \notin OWS \cup {","})
          /\ \A k \in (i + 1)..(x - 1) : Text[k] \in OWS \cup {","}
      BY <2>1, RefPastStops DEF ETok
    <3> HIDE DEF x
    <3>2. x \in (i + 1)..End
      BY <3>1
    <3>3. x \in i..End
      BY <1>1, <3>2
    <3>4. ASSUME NEW k \in i..(x - 1) PROVE Text[k] \in OWS \cup {","}
      <4>1. CASE k = i
        BY <2>1, <4>1 DEF AtComma
      <4>2. CASE k # i
        <5>1. k \in (i + 1)..(x - 1)
          BY <1>1, <3>2, <4>2
        <5> QED BY <3>1, <5>1
      <4> QED BY <4>1, <4>2
    <3>5. ETok(i) = x
      BY <3>1, <3>3, <3>4, PastIs DEF ETok
    <3> QED BY <3>5 DEF x
  <2>3. RefElement(Text, E, i, a, b) = RefElement(Text, E, i + 1, a, b)
    <3>1. /\ EName(i) = EName(i + 1) /\ InQuotes(i) = InQuotes(i + 1)
      BY <2>2 DEF EName, InQuotes
    <3>2. EAfter(i) = EAfter(i + 1)
      BY <3>1 DEF EAfter
    <3>3. EJunk(i) = EJunk(i + 1)
      BY <3>2 DEF EJunk
    <3>4. EFrom(i) = EFrom(i + 1)
      BY <3>2, <3>3 DEF EFrom
    <3>5. EResult(i) = EResult(i + 1)
      BY <3>4 DEF EResult
    <3>6. EIsBr(i) = EIsBr(i + 1) /\ EIsStar(i) = EIsStar(i + 1)
      BY <2>2, <3>1, <3>3, <3>5 DEF EIsBr, EIsStar
    <3>7. /\ ElementCases(E, i, a, b, RefElement(Text, E, i, a, b))
          /\ ElementCases(E, i + 1, a, b, RefElement(Text, E, i + 1, a, b))
      BY ElementIs
    <3> QED BY <2>2, <3>1, <3>5, <3>6, <3>7 DEF ElementCases
  <2>4. E[i][a][b] = E[i + 1][a][b]
    BY <2>1, <2>3, ElementsEquation
  <2>5. RefNext(Text, E, i, a, b) = E[i + 1][a][b]
    BY <1>1, <1>2, <2>1 DEF RefNext
  <2> QED BY <2>4, <2>5
<1> QED BY <1>3, <1>4

(* The oracle is sure to go on only from a comma or the end.                *)
LEMMA NextSure ==
  ASSUME TextType, NEW i \in {Unsure} \cup 1..End, NEW a, NEW b,
         RefNext(Text, RefElements(Text), i, a, b) # Unsure
  PROVE  i \in 1..End /\ AtComma(i)
<1>1. i # Unsure /\ ~RefIs(Text, i, Chars \ {","})
  BY DEF RefNext
<1>2. i \in 1..End
  BY <1>1
<1>3. ASSUME i < End PROVE Text[i] = ","
  <2>1. i <= Len(Text) /\ Text[i] \in Chars
    BY <1>2, <1>3, EndTyped
  <2> QED BY <1>1, <2>1 DEF RefIs
<1> QED BY <1>2, <1>3 DEF AtComma

LEMMA ConcludedSure ==
  ASSUME TextType, NEW r, r.i \in {Unsure} \cup 1..End, Concluded(r) # Unsure
  PROVE  r.i \in 1..End /\ AtComma(r.i)
BY NextSure DEF Concluded

LEMMA NoAnswerUnsure == Concluded(NoAnswer) = Unsure
BY DEF Concluded, NoAnswer, Result, RefNext

(* Parameters have a sure result only from a delimiter on.                  *)
LEMMA ParameterSure ==
  ASSUME TextType, NEW i \in 1..End, NEW weight \in Qs, NEW seen \in BOOLEAN,
         Concluded(RefParameters(Text)[i][weight][seen]) # Unsure
  PROVE  Delimited(i)
<1> SUFFICES ASSUME ~Delimited(i) PROVE FALSE
  OBVIOUS
<1>0. End \in Nat /\ i <= End
  BY EndTyped
<1>1. i # End /\ Text[i] # ";" /\ Text[i] # ","
  BY DEF Delimited
<1>2. ~Begins(i)
  BY <1>1 DEF Begins, RefIs
<1>3. RefParameters(Text)[i][weight][seen] = Result(i, weight, TRUE)
  <2>1. ParameterCases(RefParameters(Text), i, weight, seen, RefParameters(Text)[i][weight][seen])
    BY ParametersEquation, ParameterIs
  <2> QED BY <1>2, <2>1 DEF ParameterCases
<1>4. RefParameters(Text)[i][weight][seen].i = i
  BY <1>3 DEF Result
<1>5. AtComma(i)
  BY <1>4, ConcludedSure
<1>6. i < End
  <2>1. i # End
    BY <1>1
  <2> QED BY <1>0, <2>1
<1> QED BY <1>1, <1>5, <1>6 DEF AtComma

LEMMA ThenSure ==
  ASSUME TextType, NEW i \in {Unsure} \cup 1..End, NEW weight \in Qs, NEW seen \in BOOLEAN,
         Concluded(RefThen(Text, RefParameters(Text), i, weight, seen)) # Unsure
  PROVE  /\ i \in 1..End /\ Delimited(Past(i, OWS))
         /\ RefThen(Text, RefParameters(Text), i, weight, seen)
              = RefParameters(Text)[Past(i, OWS)][weight][seen]
<1> DEFINE next == RefPast(Text, i, OWS)
           r == RefThen(Text, RefParameters(Text), i, weight, seen)
<1>1. r # NoAnswer
  BY NoAnswerUnsure
<1>2. i # Unsure /\ ~RefIs(Text, next, Chars \ {";", ","}) /\ r = RefParameters(Text)[next][weight][seen]
  BY <1>1 DEF RefThen
<1>3. i \in 1..End
  BY <1>2
<1>4. next = Past(i, OWS) /\ next \in i..End
  BY <1>3, SameLoops, RefPastStops
<1>5. Delimited(next)
  <2>1. End \in Nat
    BY EndTyped
  <2> HIDE DEF next
  <2>2. next \in 1..End
    BY <1>3, <1>4, <2>1
  <2>3. CASE next = End
    BY <2>3 DEF Delimited
  <2>4. CASE next # End
    <3>1. next < End
      BY <2>1, <2>2, <2>4
    <3>2. next <= Len(Text) /\ Text[next] \in Chars
      BY <2>2, <3>1, EndTyped
    <3>3. Text[next] \in {";", ","}
      BY <1>2, <3>2 DEF RefIs
    <3> QED BY <3>3 DEF Delimited
  <2> QED BY <2>3, <2>4
<1> QED BY <1>2, <1>3, <1>4, <1>5

(***************************************************************************)
(* Steps of the walk, and the answer.                                       *)
(***************************************************************************)

LEMMA KeptAnswer ==
  ASSUME UNCHANGED <<field, line>>
  PROVE  Text' = Text /\ End' = End /\ Answer' = Answer
BY SameText DEF Answer

LEMMA KeptOnward ==
  ASSUME UNCHANGED <<field, line, line_qs>>
  PROVE  \A i : Onward(i)' = Onward(i)
BY SameText DEF Onward, line_qs

LEMMA KeptConcluded ==
  ASSUME UNCHANGED <<field, line, element, line_qs>>
  PROVE  \A r : Concluded(r)' = Concluded(r)
BY SameText DEF Concluded, element, line_qs

LEMMA ToRest ==
  ASSUME UNCHANGED <<field, line>>, pc' = "rest", ~quoted', p' \in 1..End,
         Answer = RefNext(Text, RefElements(Text), RefBlob(Text)[p'], line_coding_q', line_star_q')
  PROVE  Followed'
<1>1. Text' = Text /\ End' = End /\ Answer' = Answer
  BY KeptAnswer
<1>2. p' # Unsure
  BY DEF Unsure
<1>3. Blob(IF quoted THEN Closed(Text, p) ELSE p)' = RefBlob(Text)[p']
  BY <1>1, <1>2 DEF Blob
<1> QED BY <1>1, <1>3 DEF Followed, Evaluating, Onward

LEMMA ToParam ==
  ASSUME UNCHANGED <<field, line>>, pc' = "param", ~quoted_name', q' >= 0, ~(is_coding' /\ is_star'),
         Hopeless' \/ Answer = Concluded(RefParameters(Text)[p][q][q_seen])'
  PROVE  Followed'
<1>1. Answer' = Answer
  BY KeptAnswer
<1> QED BY <1>1 DEF Followed, Evaluating

LEMMA ToValue ==
  ASSUME UNCHANGED <<field, line, element, line_qs, q, q_seen>>, pc' = "value", ~quoted', ~quoted_name',
         Followed, Evaluating,
         Hopeless' \/ \E i \in {p', RefValue(Text, p')} : Answer = Concluded(Then(i))
  PROVE  Followed'
<1>1. Text' = Text /\ Answer' = Answer
  BY KeptAnswer
<1>2. \A r : Concluded(r)' = Concluded(r)
  BY KeptConcluded
<1>3. \A i : Then(i)' = Then(i)
  BY <1>1 DEF Then
<1>4. \A i : Concluded(Then(i))' = Concluded(Then(i))
  BY <1>2, <1>3
<1>5. ~quoted_name' /\ q' >= 0 /\ ~(is_coding' /\ is_star')
  BY DEF Followed, element
<1> QED BY <1>1, <1>4, <1>5 DEF Followed, Evaluating

(* A comma ends every loop that reads on to one.                            *)
LEMMA NotBeyond ==
  ASSUME TextType, NEW c \in 1..End, AtComma(c), NEW i \in 1..c, NEW set
  PROVE  /\ "," \notin set => Past(i, set) \in i..c
         /\ "," \in set => Upto(i, set) \in i..c
<1>1. End \in Nat /\ i \in 1..End
  BY EndTyped
<1>2. /\ Past(i, set) \in i..End /\ \A k \in i..(Past(i, set) - 1) : Text[k] \in set
      /\ Upto(i, set) \in i..End /\ \A k \in i..(Upto(i, set) - 1) : Text[k] \notin set
  BY <1>1, PastStops, UptoStops
<1>3. ASSUME NEW x \in i..End, x \notin i..c
      PROVE  c \in i..(x - 1) /\ c < End
  BY <1>1, <1>3
<1>4. ASSUME "," \notin set, Past(i, set) \notin i..c PROVE FALSE
  <2>1. c \in i..(Past(i, set) - 1) /\ c < End
    BY <1>2, <1>3, <1>4
  <2> QED BY <1>2, <1>4, <2>1 DEF AtComma
<1>5. ASSUME "," \in set, Upto(i, set) \notin i..c PROVE FALSE
  <2>1. c \in i..(Upto(i, set) - 1) /\ c < End
    BY <1>2, <1>3, <1>5
  <2> QED BY <1>2, <1>5, <2>1 DEF AtComma
<1> QED BY <1>4, <1>5

LEMMA Below ==
  ASSUME NEW e \in Nat, NEW c \in 1..e, NEW i \in 1..c, i # c
  PROVE  i < c /\ i + 1 \in 1..c
OBVIOUS

(* Before the comma at c, with an octet at i other than that: i + 1 too.    *)
LEMMA NotYet ==
  ASSUME TextType, NEW c \in 1..End, AtComma(c), NEW i \in 1..c, NEW set, "," \notin set, Is(i, set)
  PROVE  i < c /\ i + 1 \in 1..c
<1>1. End \in Nat /\ i < End /\ Text[i] # ","
  BY EndTyped DEF Is
<1>2. i # c
  BY <1>1 DEF AtComma
<1> QED BY <1>1, <1>2, Below

(* Setting out later from a place without quotes before the comma.          *)
LEMMA RestFrom ==
  ASSUME TextType, NEW i \in 1..End, RefRest(Text, i) # Unsure, NEW j \in i..RefRest(Text, i)
  PROVE  RefRest(Text, j) = RefRest(Text, i) /\ RefBlob(Text)[j] = RefRest(Text, i) /\ j \in 1..End
<1> DEFINE c == RefRest(Text, i)
<1>1. End \in Nat /\ c \in i..End /\ Unbroken(i, c)
  BY RestIs, EndTyped
<1> HIDE DEF c
<1>2. j \in i..c
  BY DEF c
<1>3. j \in 1..End /\ j \in i..End /\ \A k \in i..(j - 1) : k \in i..(c - 1)
  BY <1>1, <1>2
<1>4. Unbroken(i, j)
  BY <1>1, <1>3 DEF Unbroken
<1>5. RefRest(Text, j) = c
  BY <1>3, <1>4, RestOn DEF c
<1>6. c # Unsure
  BY DEF c
<1> QED BY <1>3, <1>5, <1>6, RestIs DEF c

(* What the parameters of an element come to, those from i on; none are     *)
(* read at a comma or at the end.                                           *)
AllParameters(i) == RefParameters(Text)[i][1000][FALSE]

LEMMA NoParameters ==
  ASSUME TextType, NEW i \in 1..End, AtComma(i)
  PROVE  AllParameters(i).i = i /\ AllParameters(i).q = 1000 /\ AllParameters(i).matches
<1>0. 1000 \in Qs
  BY DEF Qs
<1>1. ~Begins(i)
  <2>1. SUFFICES ASSUME Begins(i) PROVE FALSE
    OBVIOUS
  <2>2. i < End /\ Text[i] \in {";"}
    BY <2>1, IsBefore DEF Begins
  <2> QED BY <2>2 DEF AtComma
<1>2. \A weight \in Qs : \A seen \in BOOLEAN : RefParameters(Text)[i][weight][seen] = Result(i, weight, TRUE)
  <2>1. SUFFICES ASSUME NEW weight \in Qs, NEW seen \in BOOLEAN
                 PROVE  RefParameters(Text)[i][weight][seen] = Result(i, weight, TRUE)
    OBVIOUS
  <2>2. ParameterCases(RefParameters(Text), i, weight, seen, RefParameters(Text)[i][weight][seen])
    BY ParametersEquation, ParameterIs
  <2> QED BY <1>1, <2>2 DEF ParameterCases
<1> DEFINE full == 1000
<1>3. AllParameters(i) = Result(i, full, TRUE)
  <2>1. full \in Qs /\ AllParameters(i) = RefParameters(Text)[i][full][FALSE]
    BY <1>0 DEF AllParameters
  <2> HIDE DEF full
  <2> QED BY <1>2, <2>1, Zenon
<1> QED BY <1>3 DEF Result

(***************************************************************************)
(* Elements the oracle has given up.                                        *)
(***************************************************************************)
Comma == RefRest(Text, p)

LEMMA HopelessComma ==
  ASSUME TypeOK, Hopeless
  PROVE  /\ Comma \in p..End /\ Comma \in 1..End /\ AtComma(Comma) /\ p \in 1..Comma
         /\ \A i \in p..Comma : RefRest(Text, i) = Comma /\ RefBlob(Text)[i] = Comma
         /\ \A k \in p..(Comma - 1) : Text[k] # Quote
<1>1. TextType /\ p \in 1..End /\ End \in Nat
  BY TextTyped, EndTyped DEF TypeOK
<1>2. Comma \in p..End /\ AtComma(Comma) /\ Unbroken(p, Comma) /\ Comma # Unsure
  BY <1>1, RestIs DEF Hopeless, Comma
<1>3. Comma \in 1..End /\ p \in 1..Comma
  BY <1>1, <1>2
<1>4. \A i \in p..Comma : RefRest(Text, i) = Comma /\ RefBlob(Text)[i] = Comma
  BY <1>1, <1>2, RestFrom DEF Comma
<1> QED BY <1>2, <1>3, <1>4 DEF Unbroken

LEMMA HopelessRest ==
  ASSUME TypeOK, Hopeless, UNCHANGED <<field, line, line_qs, quoted>>, pc' = "rest", p' \in p..Comma
  PROVE  Followed'
<1>1. /\ Comma \in 1..End /\ AtComma(Comma) /\ End \in Nat /\ p \in 1..End
      /\ RefBlob(Text)[p'] = Comma /\ Comma \in p..End /\ ~quoted'
  BY HopelessComma, TextTyped, EndTyped DEF TypeOK, Hopeless
<1>2. p' \in 1..End
  BY <1>1
<1>3. Answer = RefNext(Text, RefElements(Text), RefBlob(Text)[p'], line_coding_q', line_star_q')
  BY <1>1 DEF Hopeless, Comma, Onward, line_qs
<1> QED BY <1>1, <1>2, <1>3, ToRest

LEMMA StillHopeless ==
  ASSUME TypeOK, Hopeless, UNCHANGED <<field, line, element, line_qs, quoted>>, p' \in p..Comma
  PROVE  Hopeless'
<1>1. RefRest(Text, p') = Comma
  BY HopelessComma
<1>2. Text' = Text /\ Answer' = Answer
  BY KeptAnswer
<1>4. RefRest(Text', p') = Comma
  BY <1>1, <1>2
<1>5. Onward(RefRest(Text, p))' = Onward(Comma)
  BY <1>2, <1>4 DEF Onward, line_qs
<1> QED BY <1>2, <1>4, <1>5 DEF Hopeless, Comma, element

LEMMA HopelessMalformed ==
  ASSUME TypeOK, Hopeless, UNCHANGED <<field, line, line_qs, quoted>>,
         NEW i \in p..Comma, NEW rewind, ~rewind, Malformed(i, rewind)
  PROVE  Followed'
<1>1. p' = i /\ pc' = "rest"
  BY DEF Malformed, Cursor
<1> QED BY <1>1, HopelessRest

LEMMA HopelessEnd ==
  ASSUME TypeOK, Hopeless, UNCHANGED <<field, line, element, line_qs, quoted>>,
         ~(is_coding /\ is_star), ~quoted_name',
         NEW i \in p..Comma, NEW weight \in Nat, EndParameter(i, weight)
  PROVE  Followed'
<1> DEFINE next == Past(i, OWS)
<1>1. TextType /\ p \in 1..End /\ End \in Nat
  BY TextTyped, EndTyped DEF TypeOK
<1>0. p \in 1..Comma /\ Comma \in 1..End
  BY HopelessComma
<1>2. i \in 1..Comma
  BY <1>0, <1>1
<1>3. next \in i..Comma
  <2>1. AtComma(Comma) /\ "," \notin OWS
    BY HopelessComma DEF OWS
  <2> QED BY <1>0, <1>1, <1>2, <2>1, NotBeyond
<1>4. \/ p' = next /\ q' = weight /\ pc' = "param"
      \/ Malformed(next, quoted_name')
  BY DEF EndParameter
<1> HIDE DEF next
<1>5. next \in p..Comma
  BY <1>0, <1>1, <1>2, <1>3
<1>6. CASE p' = next /\ q' = weight /\ pc' = "param"
  <2>1. Hopeless'
    BY <1>5, <1>6, StillHopeless
  <2>2. weight >= 0 /\ ~quoted'
    BY DEF Hopeless
  <2>3. ~(is_coding' /\ is_star')
    BY DEF element
  <2> QED BY <1>6, <2>1, <2>2, <2>3, ToParam
<1>7. CASE Malformed(next, quoted_name')
  BY <1>5, <1>7, HopelessMalformed
<1> QED BY <1>4, <1>6, <1>7

(* The parameter is read before the comma too.                              *)
LEMMA HopelessPlaces ==
  ASSUME TypeOK, Hopeless, Parameter, ~quoted_name
  PROVE  /\ NStart \in p..Comma /\ After \in p..Comma /\ ~QuotedName
         /\ HasValue =>
              /\ Value \in p..Comma
              /\ Is(Value, {"0", "1"}) =>
                   QvalueEnd(Value) \in p..Comma /\ Qvalue(Value) \in Nat
<1>1. TextType /\ p \in 1..End /\ End \in Nat
  BY TextTyped, EndTyped DEF TypeOK
<1>2. /\ Comma \in 1..End /\ AtComma(Comma) /\ p \in 1..Comma
      /\ \A k \in p..(Comma - 1) : Text[k] # Quote
  BY HopelessComma
<1>3. /\ "," \notin OWS /\ "," \notin {";"} /\ "," \notin {"="} /\ "," \notin {"0", "1"} /\ "," \notin {"."}
      /\ "," \notin {"0"} /\ "," \in OWS \cup {"=", ";", ","}
  BY DEF OWS
<1>4. "," \notin Digit
  <2>1. \A k \in 1..10 : k \in {1, 2, 3, 4, 5, 6, 7, 8, 9, 10}
    OBVIOUS
  <2>2. /\ "," # Digits[1] /\ "," # Digits[2] /\ "," # Digits[3] /\ "," # Digits[4]
        /\ "," # Digits[5] /\ "," # Digits[6] /\ "," # Digits[7] /\ "," # Digits[8]
        /\ "," # Digits[9] /\ "," # Digits[10]
    BY DEF Digits
  <2> QED BY <2>1, <2>2 DEF Digit
<1>0. p \in 1..Comma /\ Comma \in 1..End
  BY HopelessComma
<1>n. p \in Nat /\ Comma \in Nat /\ \A k \in Nat : \A j \in k..Comma : \A i \in j..Comma : i \in k..Comma
  BY <1>0, <1>1
<1>5. p + 1 \in 1..Comma
  <2>1. Is(p, {";"})
    BY DEF Parameter
  <2> QED BY <1>1, <1>2, <1>3, <2>1, NotYet
<1>6. NStart \in (p + 1)..Comma /\ NStart \in 1..Comma
  <2>1. NStart \in (p + 1)..Comma
    BY <1>1, <1>2, <1>3, <1>5, NotBeyond DEF NStart
  <2> QED BY <1>5, <1>n, <2>1
<1>7. NEnd \in NStart..Comma /\ NEnd \in 1..Comma
  <2>1. NEnd \in NStart..Comma
    BY <1>1, <1>2, <1>3, <1>6, NotBeyond DEF NEnd
  <2> QED BY <1>6, <1>n, <2>1
<1>8. After \in NEnd..Comma /\ After \in 1..Comma
  <2>1. After \in NEnd..Comma
    BY <1>1, <1>2, <1>3, <1>7, NotBeyond DEF After
  <2> QED BY <1>7, <1>n, <2>1
<1>9. NStart \in p..Comma /\ NEnd \in p..Comma /\ After \in p..Comma
  <2>1. p + 1 \in p..Comma
    BY <1>5, <1>n
  <2> QED BY <1>6, <1>7, <1>8, <1>n, <2>1
<1>10. ~QuotedName
  <2>1. \A k \in NStart..(NEnd - 1) : k \in p..(Comma - 1)
    BY <1>9, <1>n
  <2> QED BY <1>2, <2>1 DEF QuotedName
<1>11. ASSUME HasValue PROVE Value \in p..Comma /\ Value \in 1..Comma
  <2>1. After + 1 \in 1..Comma
    BY <1>1, <1>2, <1>3, <1>8, <1>11, NotYet DEF HasValue
  <2>2. Value \in (After + 1)..Comma
    BY <1>1, <1>2, <1>3, <2>1, NotBeyond DEF Value
  <2>3. After + 1 \in p..Comma
    BY <1>9, <1>n, <2>1
  <2> QED BY <1>n, <2>1, <2>2, <2>3
<1>12. ASSUME HasValue, Is(Value, {"0", "1"})
       PROVE  QvalueEnd(Value) \in p..Comma /\ Qvalue(Value) \in Nat
  <2> DEFINE end == QvalueEnd(Value)
             set == IF Text[Value] = "0" THEN Digit ELSE {"0"}
  <2>1. Value \in 1..End /\ Value \in 1..Comma /\ Value \in p..Comma
    <3>1. Value \in 1..Comma /\ Value \in p..Comma
      BY <1>11, <1>12
    <3> QED BY <1>0, <1>1, <3>1
  <2>2. end \in (Value + 1)..End /\ Qvalue(Value) \in 0..1000
    BY <1>1, <1>12, <2>1, QvalueTyped
  <2>3. Value + 1 \in 1..Comma
    BY <1>1, <1>2, <1>3, <1>12, <2>1, NotYet
  <2>4. ASSUME Point(Value) PROVE end \in p..Comma
    <3>1. Value + 1 + 1 \in 1..Comma /\ Value + 1 + 1 = Value + 2
      <4>1. Value + 1 + 1 \in 1..Comma
        BY <1>1, <1>2, <1>3, <2>3, <2>4, NotYet DEF Point
      <4> QED BY <2>1, <4>1
    <3>2. Past(Value + 2, set) \in (Value + 2)..Comma
      <4>1. "," \notin set
        BY <1>3, <1>4
      <4> HIDE DEF set
      <4> QED BY <1>1, <1>2, <3>1, <4>1, NotBeyond
    <3>3. end = Least(Past(Value + 2, set), Value + 2 + 3)
      BY <2>4 DEF QvalueEnd, DecimalsEnd
    <3> HIDE DEF end, set
    <3>4. end <= Comma
      BY <1>n, <2>1, <3>2, <3>3 DEF Least
    <3>5. end \in Nat /\ p <= end
      BY <1>n, <2>1, <2>2
    <3> QED BY <1>n, <3>4, <3>5
  <2>5. ASSUME ~Point(Value) PROVE end \in p..Comma
    <3>1. end = Value + 1
      BY <2>5 DEF QvalueEnd
    <3> HIDE DEF end
    <3> QED BY <1>n, <2>1, <2>3, <3>1
  <2> QED BY <2>2, <2>4, <2>5
<1> QED BY <1>9, <1>10, <1>11, <1>12

LEMMA HopelessStep ==
  ASSUME TypeOK, Followed, Evaluating, Hopeless, Parameters
  PROVE  Followed'
<1>1. TextType /\ p \in 1..End /\ End \in Nat /\ Comma \in Nat /\ Comma \in p..End /\ Comma \in 1..End
      /\ p \in 1..Comma
  BY HopelessComma, TextTyped, EndTyped DEF TypeOK
<1>2. ~quoted_name /\ q >= 0 /\ q \in Nat /\ ~(is_coding /\ is_star)
  BY DEF Followed, TypeOK, Qs
<1>3. UNCHANGED <<field, line, quoted>>
  BY DEF Parameters, EmptyName, NoValue, OtherParameter, Weight, EndValue, EndParameters
<1>4. CASE EmptyName
  <2>1. Parameter /\ Malformed(NStart, quoted_name) /\ UNCHANGED line_qs
    BY <1>4 DEF EmptyName
  <2>2. NStart \in p..Comma
    BY <1>2, <2>1, HopelessPlaces
  <2> QED BY <1>2, <1>3, <2>1, <2>2, HopelessMalformed
<1>5. CASE NoValue
  <2>1. /\ Parameter /\ UNCHANGED <<element, line_qs>> /\ quoted_name' = QuotedName
        /\ Malformed(After, quoted_name') \/ EndParameter(After, q)
    BY <1>5 DEF NoValue
  <2>2. After \in p..Comma /\ ~quoted_name'
    BY <1>2, <2>1, HopelessPlaces
  <2>3. CASE Malformed(After, quoted_name')
    BY <1>3, <2>1, <2>2, <2>3, HopelessMalformed
  <2>4. CASE EndParameter(After, q)
    BY <1>2, <1>3, <2>1, <2>2, <2>4, HopelessEnd
  <2> QED BY <2>1, <2>3, <2>4
<1>6. CASE OtherParameter
  <2>1. /\ Parameter /\ HasValue /\ UNCHANGED <<element, line_qs, q, q_seen>>
        /\ quoted_name' = QuotedName /\ p' = Value /\ pc' = "value"
    BY <1>6 DEF OtherParameter
  <2>2. Value \in p..Comma /\ ~QuotedName
    BY <1>2, <2>1, HopelessPlaces
  <2>3. Hopeless'
    BY <1>3, <2>1, <2>2, StillHopeless
  <2>4. ~quoted_name' /\ ~quoted'
    BY <1>3, <2>1, <2>2 DEF Hopeless
  <2> QED BY <1>3, <2>1, <2>3, <2>4, ToValue
<1>7. CASE Weight
  <2>1. /\ Parameter /\ HasValue /\ UNCHANGED <<element, line_qs>> /\ quoted_name' = QuotedName
        /\ ~Leads => Malformed(Value, quoted_name')
        /\ Leads => \/ EndParameter(QvalueEnd(Value), Qvalue(Value))
                    \/ Malformed(QvalueEnd(Value), quoted_name')
    BY <1>7 DEF Weight
  <2>2. Value \in p..Comma /\ ~quoted_name'
    BY <1>2, <2>1, HopelessPlaces
  <2>3. CASE ~Leads
    BY <1>3, <2>1, <2>2, <2>3, HopelessMalformed
  <2>4. CASE Leads
    <3>1. QvalueEnd(Value) \in p..Comma /\ Qvalue(Value) \in Nat
      BY <1>2, <2>1, <2>4, HopelessPlaces DEF Leads
    <3>2. CASE EndParameter(QvalueEnd(Value), Qvalue(Value))
      BY <1>2, <1>3, <2>1, <2>2, <3>1, <3>2, HopelessEnd
    <3>3. CASE Malformed(QvalueEnd(Value), quoted_name')
      BY <1>3, <2>1, <2>2, <3>1, <3>3, HopelessMalformed
    <3> QED BY <2>1, <2>4, <3>2, <3>3
  <2> QED BY <2>3, <2>4
<1>8. CASE EndValue
  <2>1. p' = Upto(p, {";", ",", Quote}) /\ pc' = "param" /\ UNCHANGED <<element, line_qs, q, quoted_name>>
    BY <1>8 DEF EndValue
  <2>2. p' \in p..Comma
    <3>1. AtComma(Comma) /\ "," \in {";", ",", Quote}
      BY HopelessComma
    <3> QED BY <1>1, <2>1, <3>1, NotBeyond
  <2>3. Hopeless'
    BY <1>3, <2>1, <2>2, StillHopeless
  <2> QED BY <1>2, <1>3, <2>1, <2>3, ToParam DEF element
<1>9. CASE EndParameters
  <2>1. p' = Cursor(p, quoted_name) /\ Noted(q, is_coding, is_star) /\ pc' = "rest"
    BY <1>9 DEF EndParameters
  <2>2. p' = p
    BY <1>2, <2>1 DEF Cursor
  <2>3. UNCHANGED line_qs
    BY <2>1 DEF Noted, Hopeless, line_qs
  <2>4. p' \in p..Comma
    BY <1>1, <2>2
  <2> QED BY <1>3, <2>1, <2>3, <2>4, HopelessRest
<1> QED BY <1>4, <1>5, <1>6, <1>7, <1>8, <1>9 DEF Parameters

(* There is no quote to open.                                               *)
LEMMA HopelessQuote ==
  ASSUME TypeOK, Evaluating, Hopeless
  PROVE  ~OpenQuote
<1> DEFINE next == Upto(p, {";", ",", Quote})
<1> SUFFICES ASSUME OpenQuote PROVE FALSE
  OBVIOUS
<1>1. TextType /\ p \in 1..End /\ Comma \in p..End /\ Comma \in 1..End /\ p \in 1..Comma /\ AtComma(Comma)
      /\ End \in Nat
  BY HopelessComma, TextTyped, EndTyped DEF TypeOK
<1>2. pc = "value" /\ Is(next, {Quote})
  <2>1. pc = "value" /\ Delimiters \cup {Quote} = {";", ",", Quote}
    BY DEF OpenQuote, Evaluating, Delimiters
  <2> QED BY <2>1 DEF OpenQuote
<1>3. next \in p..Comma
  <2>1. "," \in {";", ",", Quote}
    OBVIOUS
  <2> QED BY <1>1, <2>1, NotBeyond
<1> HIDE DEF next
<1>4. next < End /\ Text[next] = Quote
  BY <1>2 DEF Is
<1>5. next # Comma
  BY <1>1, <1>4, Octets DEF AtComma
<1>6. next \in p..(Comma - 1)
  BY <1>1, <1>3, <1>5
<1> QED BY <1>4, <1>6, HopelessComma

(***************************************************************************)
(* Parameters the oracle reads too.                                         *)
(***************************************************************************)
Live ==
  /\ TypeOK /\ Answer # Unsure
  /\ ~quoted_name /\ q >= 0 /\ ~(is_coding /\ is_star) /\ ~quoted
  /\ Answer = Concluded(RefParameters(Text)[p][q][q_seen])

LEMMA LiveCases ==
  ASSUME Live
  PROVE  /\ TextType /\ p \in 1..End /\ End \in Nat /\ q \in Nat /\ q \in Qs /\ q_seen \in BOOLEAN
         /\ ParameterCases(RefParameters(Text), p, q, q_seen, RefParameters(Text)[p][q][q_seen])
         /\ Parameter => Begins(p)
<1>1. TextType /\ p \in 1..End /\ End \in Nat /\ q \in Nat /\ q \in Qs /\ q_seen \in BOOLEAN
  BY TextTyped, EndTyped DEF Live, TypeOK, Qs
<1>2. ParameterCases(RefParameters(Text), p, q, q_seen, RefParameters(Text)[p][q][q_seen])
  BY <1>1, ParametersEquation, ParameterIs
<1>3. Parameter => Begins(p)
  <2>1. p \in Int
    BY <1>1
  <2> QED BY <1>1, <2>1, SameIs DEF Parameter, Begins
<1> QED BY <1>1, <1>2, <1>3

(* The weight that the element ends with.                                   *)
LEMMA NotedConcluded ==
  ASSUME NEW w \in Nat, NEW i, ~(is_coding' /\ is_star'), Noted(w, is_coding', is_star')
  PROVE  RefNext(Text, RefElements(Text), i, IF is_coding' THEN w ELSE line_coding_q, IF is_star' THEN w ELSE line_star_q)
           = RefNext(Text, RefElements(Text), i, line_coding_q', line_star_q')
<1>1. /\ line_coding_q' = IF is_coding' THEN w ELSE line_coding_q
      /\ line_star_q' = IF is_star' THEN w ELSE line_star_q
  BY DEF Noted
<1> QED BY <1>1

LEMMA LiveEnd ==
  ASSUME Live, EndParameters
  PROVE  Followed'
<1>1. /\ TextType /\ p \in 1..End /\ q \in Nat
      /\ ParameterCases(RefParameters(Text), p, q, q_seen, RefParameters(Text)[p][q][q_seen])
  BY LiveCases
<1>2. p' = p /\ Noted(q, is_coding, is_star) /\ pc' = "rest" /\ ~quoted'
      /\ UNCHANGED <<field, line, is_coding, is_star>>
  BY DEF EndParameters, Live, Cursor, element
<1>3. RefParameters(Text)[p][q][q_seen] = Result(p, q, TRUE)
  <2>0. p \in Int
    BY <1>1
  <2>1. ~Begins(p)
    BY <1>1, <2>0, SameIs DEF EndParameters, Begins
  <2> QED BY <1>1, <2>1 DEF ParameterCases
<1> DEFINE r == RefParameters(Text)[p][q][q_seen]
<1>4. r.i = p /\ r.q = q /\ r.matches
  BY <1>3 DEF Result
<1> HIDE DEF r
<1>5. Answer = Concluded(r) /\ Answer # Unsure
  BY DEF Live, r
<1>6. AtComma(p)
  BY <1>1, <1>4, <1>5, ConcludedSure
<1>7. RefBlob(Text)[p] = p
  BY <1>1, <1>6, BlobStops
<1>8. Answer = RefNext(Text, RefElements(Text), p, IF is_coding THEN q ELSE line_coding_q, IF is_star THEN q ELSE line_star_q)
  BY <1>4, <1>5 DEF Concluded
<1>9. Answer = RefNext(Text, RefElements(Text), p, line_coding_q', line_star_q')
  BY <1>1, <1>2, <1>8, NotedConcluded DEF Live
<1> QED BY <1>1, <1>2, <1>7, <1>9, ToRest

(* The oracle ends a name at a quote, and is then unsure.                   *)
Named ==
  /\ NEnd = PEnd(p) /\ HasName /\ ~QuotedName /\ After = PEq(p)
  /\ (HasValue <=> PHasValue(p)) /\ (IsQ <=> PIsQ(p))
  /\ NEnd \in 1..End /\ After \in 1..End
  /\ HasValue => Value = PValue(p) /\ Value \in 1..End

LEMMA LiveName ==
  ASSUME Live, Parameter
  PROVE  /\ NStart = PStart(p) /\ NStart \in 1..End
         /\ \/ /\ PEnd(p) = PStart(p) /\ ~HasName
               /\ RefRest(Text, NStart) # Unsure /\ Answer = Onward(RefRest(Text, NStart))
            \/ PEnd(p) # PStart(p) /\ Named
<1> DEFINE r == RefParameters(Text)[p][q][q_seen]
           set == OWS \cup {"=", ";", ",", Quote}
<1>1. /\ TextType /\ p \in 1..End /\ End \in Nat /\ q \in Qs /\ q_seen \in BOOLEAN
      /\ ParameterCases(RefParameters(Text), p, q, q_seen, r) /\ Begins(p)
  BY LiveCases
<1>2. Answer = Concluded(r) /\ Answer # Unsure
  BY DEF Live
<1>3. /\ p + 1 \in 1..End /\ PStart(p) \in 1..End /\ PEnd(p) \in PStart(p)..End /\ PEnd(p) \in 1..End
      /\ PEq(p) \in 1..End
      /\ PHasValue(p) => PEq(p) + 1 \in 1..End /\ PValue(p) \in 1..End
  BY <1>1, OracleParameterPlaces, IsBefore DEF Begins
<1>4. NStart = PStart(p)
  BY <1>1, <1>3, SameLoops DEF NStart, PStart
<1> HIDE DEF r
<1>n. NStart \in 1..End /\ NStart \in NStart..End /\ NStart \in Int
      /\ NStart..(NStart - 1) = {}
  BY <1>1, <1>3, <1>4
<1>5. PEnd(p) = RefUpto(Text, NStart, set)
  BY <1>4 DEF PEnd
<1>6. /\ PEnd(p) < End => Text[PEnd(p)] \in set
      /\ \A k \in NStart..(PEnd(p) - 1) : Text[k] \notin set
  <2> HIDE DEF set
  <2> QED BY <1>1, <1>n, <1>5, RefUptoStops
<1>7. ASSUME ~Is(PEnd(p), {Quote}) PROVE NEnd = PEnd(p)
  <2>1. PEnd(p) < End => Text[PEnd(p)] \in OWS \cup {"=", ";", ","}
    BY <1>6, <1>7 DEF Is
  <2>2. NEnd = RefUpto(Text, NStart, OWS \cup {"=", ";", ","})
    BY <1>1, <1>n, SameLoops DEF NEnd
  <2>3. PEnd(p) \in NStart..End
    BY <1>3, <1>4
  <2>4. \A k \in NStart..(PEnd(p) - 1) : Text[k] \notin OWS \cup {"=", ";", ","}
    BY <1>6
  <2> HIDE DEF set
  <2> QED BY <1>1, <1>n, <2>1, <2>2, <2>3, <2>4, UptoIs
<1>8. CASE PEnd(p) = PStart(p)
  <2>1. r = Result(RefRest(Text, NStart), q, FALSE)
    BY <1>1, <1>4, <1>8 DEF ParameterCases
  <2>2. r.i = RefRest(Text, NStart) /\ ~r.matches
    BY <2>1 DEF Result
  <2>3. Answer = Onward(RefRest(Text, NStart))
    BY <1>2, <2>2 DEF Concluded, Onward
  <2>4. RefRest(Text, NStart) # Unsure
    BY <1>2, <2>3 DEF Onward, RefNext
  <2>5. ~Is(PEnd(p), {Quote})
    <3>1. SUFFICES ASSUME Is(NStart, {Quote}) PROVE RefRest(Text, NStart) = Unsure
      BY <1>4, <1>8, <2>4
    <3>2. NStart < End /\ Text[NStart] = Quote
      BY <3>1 DEF Is
    <3>4. \A k \in NStart..(NStart - 1) : Text[k] \notin {",", Quote}
      BY <1>n
    <3>5. RefUpto(Text, NStart, {",", Quote}) = NStart
      BY <1>1, <1>n, <3>2, <3>4, UptoIs
    <3> QED BY <1>1, <1>n, <3>1, <3>5, SameIs DEF RefRest
  <2>6. NEnd = NStart
    BY <1>4, <1>7, <1>8, <2>5
  <2>7. ~HasName
    BY <1>n, <2>6 DEF HasName
  <2> QED BY <1>4, <1>n, <1>8, <2>3, <2>4, <2>7
<1>9. CASE PEnd(p) # PStart(p)
  <2>1. ASSUME Is(PEnd(p), {Quote}) PROVE FALSE
    <3>1. PEnd(p) < End /\ Text[PEnd(p)] = Quote
      BY <2>1 DEF Is
    <3>2. PEq(p) = PEnd(p)
      <4>1. PEnd(p) \in PEnd(p)..End /\ \A k \in PEnd(p)..(PEnd(p) - 1) : Text[k] \in OWS
        BY <1>1, <1>3
      <4> QED BY <1>1, <1>3, <3>1, <4>1, PastIs, Octets DEF PEq
    <3>3. ~PHasValue(p)
      <4>1. Quote # "="
        BY Octets
      <4> QED BY <3>1, <3>2, <4>1 DEF PHasValue, RefIs
    <3>4. r # NoAnswer
      BY <1>2, NoAnswerUnsure
    <3>5. r = RefParameters(Text)[PEnd(p)][q][q_seen]
      BY <1>1, <1>9, <3>2, <3>3, <3>4 DEF ParameterCases
    <3>6. Delimited(PEnd(p))
      BY <1>1, <1>2, <1>3, <3>5, ParameterSure
    <3>7. PEnd(p) # End
      BY <1>1, <1>3, <3>1
    <3> QED BY <3>1, <3>6, <3>7, Octets DEF Delimited
  <2>2. NEnd = PEnd(p)
    BY <1>7, <2>1
  <2>3. HasName
    BY <1>1, <1>3, <1>4, <1>9, <2>2 DEF HasName
  <2>4. ~QuotedName
    BY <1>6, <2>2 DEF QuotedName, Live
  <2>5. After = PEq(p)
    BY <1>1, <1>3, <2>2, SameLoops DEF After, PEq
  <2>6. HasValue <=> PHasValue(p)
    BY <1>1, <1>3, <2>5, SameIs DEF HasValue, PHasValue
  <2>7. IsQ <=> PIsQ(p)
    BY <1>4, <2>2 DEF IsQ, PIsQ
  <2>8. HasValue => Value = PValue(p)
    BY <1>1, <1>3, <2>5, <2>6, SameLoops DEF Value, PValue
  <2> QED BY <1>3, <1>4, <1>n, <1>9, <2>2, <2>3, <2>4, <2>5, <2>6, <2>7, <2>8 DEF Named
<1> QED BY <1>8, <1>9

LEMMA LiveNext ==
  ASSUME Live, UNCHANGED <<field, line, element, line_qs, quoted>>, ~quoted_name',
         NEW i \in 1..End, NEW weight \in Nat, EndParameter(i, weight), Delimited(Past(i, OWS)),
         Answer = Concluded(RefParameters(Text)[Past(i, OWS)][weight][q_seen'])
  PROVE  Followed'
<1>1. p' = Past(i, OWS) /\ q' = weight /\ pc' = "param"
  BY DEF EndParameter
<1>2. Text' = Text
  BY KeptAnswer
<1>3. q' >= 0 /\ ~(is_coding' /\ is_star')
  BY <1>1 DEF Live, element
<1>4. Answer = Concluded(RefParameters(Text)[p][q][q_seen])'
  BY <1>1, <1>2 DEF Concluded, element, line_qs
<1> QED BY <1>1, <1>3, <1>4, ToParam

LEMMA LiveStep ==
  ASSUME Live, pc = "param", Followed, Parameters
  PROVE  Followed'
<1> DEFINE r == RefParameters(Text)[p][q][q_seen]
<1>1. /\ TextType /\ p \in 1..End /\ End \in Nat /\ q \in Nat /\ q \in Qs /\ q_seen \in BOOLEAN
      /\ ParameterCases(RefParameters(Text), p, q, q_seen, r) /\ (Parameter => Begins(p))
  BY LiveCases
<1>2. Answer = Concluded(r) /\ Answer # Unsure
  BY DEF Live
<1>3. UNCHANGED <<field, line, quoted>>
  BY DEF Parameters, EmptyName, NoValue, OtherParameter, Weight, EndValue, EndParameters
<1>4. r # NoAnswer
  BY <1>2, NoAnswerUnsure
<1>5. ASSUME Parameter, HasName PROVE Named /\ PEnd(p) # PStart(p) /\ Begins(p)
  BY <1>1, <1>5, LiveName
<1> HIDE DEF r
<1>6. CASE EmptyName
  <2>1. /\ Parameter /\ ~HasName /\ p' = Cursor(NStart, quoted_name) /\ pc' = "rest"
        /\ UNCHANGED line_qs
    BY <1>6 DEF EmptyName, Malformed
  <2>2. p' = NStart
    BY <2>1 DEF Cursor, Live
  <2>3. NStart \in 1..End /\ RefRest(Text, NStart) # Unsure /\ Answer = Onward(RefRest(Text, NStart))
    BY <2>1, LiveName DEF Named
  <2>4. RefBlob(Text)[NStart] = RefRest(Text, NStart)
    BY <1>1, <2>3, RestIs
  <2>5. Answer = RefNext(Text, RefElements(Text), RefBlob(Text)[p'], line_coding_q', line_star_q')
    BY <2>1, <2>2, <2>3, <2>4 DEF Onward, line_qs
  <2>6. ~quoted' /\ p' \in 1..End
    BY <1>3, <2>2, <2>3 DEF Live
  <2> QED BY <1>3, <2>1, <2>5, <2>6, ToRest
<1>7. CASE NoValue
  <2>1. /\ Parameter /\ HasName /\ ~HasValue /\ quoted_name' = QuotedName
        /\ (~IsQ => EndParameter(After, q)) /\ UNCHANGED <<element, line_qs, q_seen>>
    BY <1>7 DEF NoValue
  <2>2. /\ ~quoted_name' /\ ~PHasValue(p) /\ After = PEq(p) /\ After \in 1..End /\ (IsQ <=> PIsQ(p))
        /\ PEnd(p) # PStart(p) /\ Begins(p) /\ NEnd \in 1..End
    BY <1>5, <2>1 DEF Named
  <2>3. ~IsQ /\ r = RefParameters(Text)[After][q][q_seen]
    BY <1>1, <1>4, <2>2 DEF ParameterCases
  <2>4. Delimited(After)
    BY <1>1, <1>2, <2>2, <2>3, ParameterSure
  <2>5. Past(After, OWS) = After
    <3>1. After < End => Text[After] \notin OWS
      BY <1>1, <2>2, PastStops DEF After
    <3>2. After \in After..End /\ After..(After - 1) = {}
      BY <1>1, <2>2
    <3>3. RefPast(Text, After, OWS) = After
      BY <1>1, <2>2, <3>1, <3>2, PastIs
    <3> QED BY <1>1, <2>2, <3>3, SameLoops
  <2>6. EndParameter(After, q) /\ Answer = Concluded(RefParameters(Text)[Past(After, OWS)][q][q_seen'])
    BY <1>2, <2>1, <2>3, <2>5
  <2>7. Delimited(Past(After, OWS))
    BY <2>4, <2>5
  <2> QED BY <1>1, <1>3, <2>1, <2>2, <2>6, <2>7, LiveNext
<1>8. CASE OtherParameter
  <2>1. /\ Parameter /\ HasName /\ HasValue /\ ~IsQ /\ quoted_name' = QuotedName
        /\ p' = Value /\ pc' = "value" /\ UNCHANGED <<element, line_qs, q, q_seen>>
    BY <1>8 DEF OtherParameter
  <2>2. /\ ~quoted_name' /\ PHasValue(p) /\ Value = PValue(p) /\ ~PIsQ(p)
        /\ PEnd(p) # PStart(p) /\ Begins(p)
    BY <1>5, <2>1 DEF Named
  <2>3. r = Then(RefValue(Text, Value))
    BY <1>1, <2>2 DEF ParameterCases, Then
  <2>4. Answer = Concluded(Then(RefValue(Text, p')))
    BY <1>2, <2>1, <2>3
  <2>5. Evaluating /\ ~quoted'
    BY <1>3 DEF Evaluating, Live
  <2> QED BY <1>3, <2>1, <2>2, <2>4, <2>5, ToValue
<1>9. CASE Weight
  <2>1. /\ Parameter /\ HasName /\ HasValue /\ IsQ /\ quoted_name' = QuotedName /\ q_seen' = TRUE
        /\ UNCHANGED <<element, line_qs>>
    BY <1>9 DEF Weight
  <2>2. /\ ~quoted_name' /\ PHasValue(p) /\ Value = PValue(p) /\ Value \in 1..End /\ PIsQ(p)
        /\ PEnd(p) # PStart(p) /\ Begins(p)
    BY <1>5, <2>1 DEF Named
  <2>3. ~q_seen /\ PLeads(p) /\ r = PWeighed(RefParameters(Text), p)
    BY <1>1, <1>4, <2>2 DEF ParameterCases
  <2>4. Is(Value, {"0", "1"}) /\ Leads
    <3>1. Value \in Int
      BY <2>2
    <3> QED BY <1>1, <2>2, <2>3, <3>1, SameIs DEF PLeads, Leads
  <2> DEFINE end == QvalueEnd(Value)
             weight == Qvalue(Value)
  <2>5. end \in (Value + 1)..End /\ weight \in 0..1000
    BY <1>1, <2>2, <2>4, QvalueTyped
  <2>6. r = RefThen(Text, RefParameters(Text), end, weight, q_seen')
    <3>1. RefWeight(Text, Value).i = end /\ RefWeight(Text, Value).q = weight
      BY <1>1, <2>2, <2>4, SameWeight
    <3> HIDE DEF end, weight
    <3> QED BY <2>1, <2>2, <2>3, <3>1, Zenon DEF PWeighed
  <2>7. IF end = End \/ Text[end] \in OWS \cup {";", ","}
        THEN EndParameter(end, weight) ELSE Malformed(end, quoted_name')
    BY <1>9, <2>4 DEF Weight
  <2> HIDE DEF end, weight
  <2>8. end \in 1..End /\ weight \in Nat
    BY <1>1, <2>2, <2>5
  <2>9. weight \in Qs /\ q_seen' \in BOOLEAN
    BY <2>1, <2>5 DEF Qs
  <2>10. Delimited(Past(end, OWS)) /\ r = RefParameters(Text)[Past(end, OWS)][weight][q_seen']
    BY <1>1, <1>2, <2>6, <2>8, <2>9, ThenSure
  <2>11. end = End \/ Text[end] \in OWS \cup {";", ","}
    <3>1. Past(end, OWS) \in end..End /\ \A k \in end..(Past(end, OWS) - 1) : Text[k] \in OWS
      BY <1>1, <2>8, PastStops
    <3>2. CASE Past(end, OWS) = end
      BY <2>10, <3>2 DEF Delimited
    <3>3. CASE Past(end, OWS) # end
      <4>1. end \in end..(Past(end, OWS) - 1)
        BY <1>1, <2>8, <3>1, <3>3
      <4> QED BY <3>1, <4>1
    <3> QED BY <3>2, <3>3
  <2>12. EndParameter(end, weight) /\ Answer = Concluded(RefParameters(Text)[Past(end, OWS)][weight][q_seen'])
    BY <1>2, <2>7, <2>10, <2>11
  <2> QED BY <1>3, <2>1, <2>2, <2>8, <2>10, <2>12, LiveNext
<1>10. CASE EndValue
  BY <1>10 DEF EndValue
<1> QED BY <1>6, <1>7, <1>8, <1>9, <1>10, LiveEnd DEF Parameters

(***************************************************************************)
(* Values.                                                                  *)
(***************************************************************************)
ValueEnd == Upto(p, {";", ",", Quote})

NoDelimiter(i, j) == \A k \in i..(j - 1) : Text[k] \notin {";", ",", Quote}

(* The octets before i are no delimiters, and neither are the blanks then.  *)
LEMMA RunToDelimiter ==
  ASSUME TextType, p \in 1..End, NEW i \in p..End, Delimited(Past(i, OWS)),
         NoDelimiter(p, i)
  PROVE  ValueEnd = Past(i, OWS) /\ ~Is(ValueEnd, {Quote})
<1> DEFINE d == Past(i, OWS)
<1>0. End \in Nat /\ i \in 1..End /\ i \in Int /\ p \in Int /\ End \in Int
  BY EndTyped
<1>1. d \in i..End /\ \A k \in i..(d - 1) : Text[k] \in OWS
  BY <1>0, PastStops
<1>n. d < End => d # End
  BY <1>0, <1>1
<1>2. d < End => Text[d] \in {";", ","}
  BY <1>n DEF Delimited
<1> HIDE DEF d
<1>3. d \in p..End
  BY <1>0, <1>1
<1>4. ASSUME NEW k \in p..(d - 1) PROVE Text[k] \notin {";", ",", Quote}
  <2>1. k \in p..(i - 1) \/ k \in i..(d - 1)
    BY <1>0, <1>1, <1>4
  <2>2. \A c \in OWS : c \notin {";", ",", Quote}
    BY Octets DEF OWS
  <2> QED BY <1>1, <2>1, <2>2 DEF NoDelimiter
<1>5. RefUpto(Text, p, {";", ",", Quote}) = d
  BY <1>2, <1>3, <1>4, UptoIs
<1>6. ValueEnd = d
  BY <1>5, SameLoops DEF ValueEnd
<1>7. ~Is(d, {Quote})
  <2>1. Quote \notin {";", ","}
    BY Octets
  <2> QED BY <1>2, <2>1 DEF Is
<1> QED BY <1>6, <1>7 DEF d

(* A value the oracle reads too: unquoted, it ends where the walk finds the *)
(* next delimiter; and it may be a quoted-string.                           *)
LEMMA ValueCases ==
  ASSUME TypeOK, Answer # Unsure, q \in Qs, q_seen \in BOOLEAN,
         NEW i \in {p, RefValue(Text, p)}, Answer = Concluded(Then(i))
  PROVE  \/ /\ ~Is(ValueEnd, {Quote})
            /\ Answer = Concluded(RefParameters(Text)[ValueEnd][q][q_seen])
         \/ /\ ValueEnd = p /\ Is(p, {Quote}) /\ i = RefQuoted(Text, p)
<1>1. TextType /\ p \in 1..End /\ End \in Nat /\ p \in p..End /\ p..(p - 1) = {} /\ p \in Int
  BY TextTyped, EndTyped DEF TypeOK
<1>2. i \in {Unsure} \cup p..End
  BY <1>1, ValueTyped
<1>3. i \in {Unsure} \cup 1..End
  BY <1>1, <1>2
<1>4. /\ i \in 1..End /\ Delimited(Past(i, OWS))
      /\ Then(i) = RefParameters(Text)[Past(i, OWS)][q][q_seen]
  BY <1>1, <1>3, ThenSure DEF Then
<1>5. i \in p..End
  BY <1>2, <1>4 DEF Unsure
<1>6. ASSUME NoDelimiter(p, i)
      PROVE  /\ ~Is(ValueEnd, {Quote})
             /\ Answer = Concluded(RefParameters(Text)[ValueEnd][q][q_seen])
  <2>1. ValueEnd = Past(i, OWS) /\ ~Is(ValueEnd, {Quote})
    BY <1>1, <1>4, <1>5, <1>6, RunToDelimiter
  <2> QED BY <1>4, <2>1
<1>7. CASE i = p
  BY <1>1, <1>6, <1>7 DEF NoDelimiter
<1>8. CASE i # p /\ ~RefIs(Text, p, {Quote})
  <2>1. i = RefUpto(Text, p, OWS \cup {";", ",", Quote})
    BY <1>8 DEF RefValue
  <2>2. \A k \in p..(i - 1) : Text[k] \notin OWS \cup {";", ",", Quote}
    BY <1>1, <2>1, RefUptoStops
  <2> QED BY <1>6, <2>2 DEF NoDelimiter
<1>9. CASE i # p /\ RefIs(Text, p, {Quote})
  <2>1. i = RefQuoted(Text, p)
    BY <1>9 DEF RefValue
  <2>2. Is(p, {Quote})
    BY <1>1, <1>9, SameIs
  <2>3. RefUpto(Text, p, {";", ",", Quote}) = p
    <3>1. p < End => Text[p] \in {";", ",", Quote}
      BY <2>2 DEF Is
    <3>2. \A k \in p..(p - 1) : Text[k] \notin {";", ",", Quote}
      BY <1>1
    <3> QED BY <1>1, <3>1, <3>2, UptoIs
  <2>4. ValueEnd = p
    BY <1>1, <2>3, SameLoops DEF ValueEnd
  <2> QED BY <2>1, <2>2, <2>4
<1> QED BY <1>7, <1>8, <1>9

(* An unquoted value ends, or a quoted-string begins.                       *)
LEMMA ValueStep ==
  ASSUME TypeOK, Answer # Unsure, Followed, pc = "value", ~quoted, ~Hopeless, EndValue \/ OpenQuote
  PROVE  Followed'
<1>1. p \in 1..End /\ End \in Nat /\ q \in Qs /\ q_seen \in BOOLEAN
  BY TextTyped, EndTyped DEF TypeOK
<1>2. ~quoted_name /\ q >= 0 /\ ~(is_coding /\ is_star)
  BY DEF Followed, Evaluating
<1>3. PICK i \in {p, RefValue(Text, p)} : Answer = Concluded(Then(i))
  BY DEF Followed
<1>4. \/ /\ ~Is(ValueEnd, {Quote})
         /\ Answer = Concluded(RefParameters(Text)[ValueEnd][q][q_seen])
      \/ /\ ValueEnd = p /\ Is(p, {Quote}) /\ i = RefQuoted(Text, p)
  BY <1>1, <1>3, ValueCases
<1>5. CASE EndValue
  <2>1. /\ p' = ValueEnd /\ ~Is(ValueEnd, {Quote}) /\ pc' = "param"
        /\ UNCHANGED <<field, line, q, q_seen, quoted_name, element, line_qs>>
    BY <1>5 DEF EndValue, ValueEnd
  <2>2. Answer = Concluded(RefParameters(Text)[ValueEnd][q][q_seen])
    BY <1>4, <2>1
  <2>3. Answer = Concluded(RefParameters(Text)[p][q][q_seen])'
    BY <2>1, <2>2, KeptAnswer DEF Concluded, element, line_qs
  <2> QED BY <1>2, <2>1, <2>3, ToParam DEF element
<1>6. CASE OpenQuote
  <2>1. Is(ValueEnd, {Quote}) /\ p' = ValueEnd + 1
    <3>1. Delimiters \cup {Quote} = {";", ",", Quote}
      BY DEF Delimiters
    <3> QED BY <1>6, <3>1 DEF OpenQuote, ValueEnd
  <2>2. /\ quoted' /\ pc' = "value"
        /\ UNCHANGED <<field, line, q, q_seen, quoted_name, element, line_qs>>
    BY <1>6 DEF OpenQuote
  <2>3. p' = p + 1 /\ i = RefQuoted(Text, p)
    BY <1>4, <2>1
  <2>4. RefQuoted(Text, p) = Closed(Text, p')
    BY <2>3 DEF RefQuoted, Closed
  <2>5. Text' = Text /\ Answer' = Answer
    BY <2>2, KeptAnswer
  <2>6. Answer = Concluded(Then(Closed(Text, p')))
    BY <1>3, <2>3, <2>4
  <2>7. Answer' = Concluded(Then(Closed(Text, p)))'
    BY <2>2, <2>5, <2>6 DEF Concluded, Then, element, line_qs
  <2> QED BY <1>2, <2>2, <2>7 DEF Followed, Evaluating, element
<1> QED BY <1>5, <1>6

(***************************************************************************)
(* Quoted-strings and the rest of the element.                              *)
(***************************************************************************)

(* The oracle is sure of a quoted-string that is closed without an escape.  *)
LEMMA ClosedAt ==
  ASSUME TypeOK, Closed(Text, p) # Unsure, QuotedPair \/ CloseQuote
  PROVE  CloseQuote /\ p' = Closed(Text, p) /\ p' \in 1..End
<1> DEFINE close == RefUpto(Text, p, {Quote, Backslash})
           next == Upto(p, {Backslash, Quote})
<1>1. TextType /\ p \in 1..End /\ End \in Nat
  BY TextTyped, EndTyped DEF TypeOK
<1>2. close \in p..End /\ close \in Int
  BY <1>1, RefUptoStops
<1>3. next = close
  <2>1. {Backslash, Quote} = {Quote, Backslash}
    OBVIOUS
  <2>2. Upto(p, {Quote, Backslash}) = close
    BY <1>1, SameLoops
  <2> QED BY <2>1, <2>2
<1>4. RefIs(Text, close, {Quote}) /\ Closed(Text, p) = close + 1
  BY DEF Closed
<1> HIDE DEF close, next
<1>5. Is(close, {Quote})
  BY <1>1, <1>2, <1>4, SameIs
<1>6. close < End /\ close # End /\ Text[close] = Quote /\ close + 1 \in 1..End
  <2>1. close < End /\ Text[close] = Quote
    BY <1>5 DEF Is
  <2> QED BY <1>1, <1>2, <2>1
<1>7. ~Is(next, {Backslash})
  BY <1>3, <1>6, Octets DEF Is
<1>8. CloseQuote
  BY <1>7 DEF QuotedPair, next
<1>9. p' = next + 1
  BY <1>3, <1>6, <1>8 DEF CloseQuote, next
<1> QED BY <1>3, <1>4, <1>6, <1>8, <1>9

LEMMA QuotedStep ==
  ASSUME Sound, Answer # Unsure, Followed, quoted, QuotedPair \/ CloseQuote
  PROVE  Followed'
<1>1. pc \in {"value", "rest"} /\ TypeOK
  BY DEF Sound, Inv, Ahead
<1>2. UNCHANGED <<field, line, q, q_seen, quoted_name, element, line_qs, pc>>
  BY DEF QuotedPair, CloseQuote
<1>3. Text' = Text /\ Answer' = Answer
  BY <1>2, KeptAnswer
<1>4. CASE pc = "value"
  <2>1. Answer = Concluded(Then(Closed(Text, p)))
    BY <1>4 DEF Followed
  <2>2. Closed(Text, p) # Unsure
    <3>1. Then(Unsure) = NoAnswer
      BY DEF Then, RefThen
    <3> QED BY <2>1, <3>1, NoAnswerUnsure
  <2>3. CloseQuote /\ p' = Closed(Text, p)
    BY <1>1, <2>2, ClosedAt
  <2>4. ~quoted' /\ pc' = "value"
    BY <1>2, <1>4, <2>3 DEF CloseQuote
  <2>5. Evaluating /\ ~quoted_name'
    BY <1>2, <1>4 DEF Evaluating, Followed
  <2>6. Answer = Concluded(Then(p'))
    BY <2>1, <2>3
  <2> QED BY <1>2, <2>4, <2>5, <2>6, ToValue
<1>5. CASE pc = "rest"
  <2>1. Answer = Onward(Blob(Closed(Text, p)))
    BY <1>5 DEF Followed
  <2>2. Closed(Text, p) # Unsure
    BY <2>1 DEF Blob, Onward, RefNext
  <2>3. CloseQuote /\ p' = Closed(Text, p) /\ p' \in 1..End
    BY <1>1, <2>2, ClosedAt
  <2>4. ~quoted' /\ pc' = "rest"
    BY <1>2, <1>5, <2>3 DEF CloseQuote
  <2>5. Answer = RefNext(Text, RefElements(Text), RefBlob(Text)[p'], line_coding_q', line_star_q')
    BY <1>2, <2>1, <2>2, <2>3 DEF Blob, Onward, line_qs
  <2> QED BY <1>2, <2>3, <2>4, <2>5, ToRest
<1> QED BY <1>1, <1>4, <1>5

LEMMA RestStep ==
  ASSUME TypeOK, Followed, pc = "rest", ~quoted, OpenQuote \/ EndElement
  PROVE  Followed'
<1> DEFINE next == Upto(p, {",", Quote})
<1>1. TextType /\ p \in 1..End /\ End \in Nat /\ Len(Text) \in Nat /\ End = Len(Text) + 1
  BY TextTyped, EndTyped DEF TypeOK
<1>2. Answer = Onward(RefBlob(Text)[p])
  BY <1>1 DEF Followed, Blob, Unsure
<1>3. next \in p..End /\ Unbroken(p, next)
  BY <1>1, UptoStops DEF Unbroken
<1>4. next < End => Text[next] \in {",", Quote}
  BY <1>1, UptoStops
<1>5. RefBlob(Text)[p] = RefBlob(Text)[next]
  BY <1>1, <1>3, BlobOn
<1>6. next \in 1..End /\ next \in Int
  <2> HIDE DEF next
  <2> QED BY <1>1, <1>3
<1>7. CASE OpenQuote
  <2>1. Is(next, {Quote}) /\ p' = next + 1
    <3>1. Delimiters \cup {Quote} = {",", Quote}
      BY DEF Delimiters
    <3> QED BY <1>7, <3>1 DEF OpenQuote
  <2>2. quoted' /\ pc' = "rest" /\ UNCHANGED <<field, line, line_qs>>
    BY <1>7 DEF OpenQuote
  <2> HIDE DEF next
  <2>3. RefIs(Text, next, Chars \ {","}) /\ Text[next] = Quote
    <3>1. next < End /\ Text[next] = Quote
      BY <2>1 DEF Is
    <3>2. next <= Len(Text) /\ Text[next] \in Chars
      BY <1>1, <1>6, <3>1, EndTyped
    <3> QED BY <3>1, <3>2, Octets DEF RefIs
  <2>4. RefBlob(Text)[next] = Blob(RefQuoted(Text, next))
    <3>1. RefBlob(Text)[next] = RefBlobPass(Text, RefBlob(Text), next)
      BY <1>1, <1>6, BlobEquation
    <3> QED BY <2>3, <3>1 DEF RefBlobPass, Blob
  <2>5. RefQuoted(Text, next) = Closed(Text, p')
    BY <2>1 DEF RefQuoted, Closed
  <2>6. Answer = Onward(Blob(Closed(Text, p')))
    BY <1>2, <1>5, <2>4, <2>5
  <2>7. Answer' = Onward(Blob(Closed(Text, p)))'
    BY <2>2, <2>6, KeptAnswer DEF Onward, Blob, line_qs
  <2> QED BY <2>2, <2>7 DEF Followed, Evaluating
<1>8. CASE EndElement
  <2>1. /\ ~Is(next, {Quote}) /\ p' = next /\ pc' = "element"
        /\ UNCHANGED <<field, line, line_qs>>
    BY <1>8 DEF EndElement
  <2> HIDE DEF next
  <2>2. AtComma(next)
    BY <1>4, <2>1 DEF AtComma, Is
  <2>3. RefBlob(Text)[next] = next
    BY <1>1, <1>6, <2>2, BlobStops
  <2>4. Answer = RefElements(Text)[next][line_coding_q][line_star_q]
    <3>1. line_coding_q \in Qs /\ line_star_q \in Qs
      BY DEF TypeOK
    <3> QED BY <1>1, <1>2, <1>5, <1>6, <2>2, <2>3, <3>1, NextIs DEF Onward
  <2>5. Answer' = RefElements(Text')[p'][line_coding_q'][line_star_q']
    BY <2>1, <2>4, KeptAnswer DEF line_qs
  <2> QED BY <2>1, <2>5 DEF Followed, Evaluating
<1> QED BY <1>7, <1>8

(***************************************************************************)
(* Elements.                                                                *)
(***************************************************************************)
ForBr == Coding = <<"b", "r">> /\ AllowWildcard

(* The two agree on where the name begins; the oracle's ends no later.      *)
NamePlaces ==
  /\ Tok < End /\ Tok \in 1..End /\ ETok(p) = Tok /\ ETok(p) # End
  /\ NameEnd \in Tok..End /\ NameEnd \in 1..End
  /\ EName(p) \in Tok..NameEnd /\ EName(p) \in 1..End

BeginsName ==
  /\ NamePlaces
  /\ \A k \in Tok..(EName(p) - 1) : Text[k] \in NameChars
  /\ EName(p) < NameEnd =>
       /\ Text[EName(p)] \notin NameChars
       /\ RefIs(Text, EName(p), Chars \ (OWS \cup {";", ",", Quote}))
  /\ InQuotes(p) => NameEnd = Tok

LEMMA NameBegins ==
  ASSUME TypeOK, BeginElement
  PROVE  BeginsName
<1> DEFINE set == OWS \cup {";", ",", Quote}
<1>1. TextType /\ p \in 1..End /\ End \in Nat /\ Len(Text) \in Nat /\ End = Len(Text) + 1
  BY TextTyped, EndTyped DEF TypeOK
<1>2. Tok < End /\ Tok \in p..End /\ NameEnd \in Tok..End
  BY ElementPlaces DEF BeginElement
<1>3. Tok \in 1..End /\ NameEnd \in 1..End /\ Tok # End
  BY <1>1, <1>2
<1>4. ETok(p) = Tok
  BY <1>1, SameLoops DEF ETok, Tok
<1>5. EName(p) \in Tok..End /\ EName(p) \in 1..End
  BY <1>1, <1>4, OracleElementPlaces
<1>6. /\ EName(p) < End => Text[EName(p)] \notin NameChars
      /\ \A k \in Tok..(EName(p) - 1) : Text[k] \in NameChars
  BY <1>1, <1>3, <1>4, RefPastStops DEF EName
<1>7. NameEnd < End => Text[NameEnd] \in set
  BY <1>1, <1>3, UptoStops DEF NameEnd
<1>8. \A k \in Tok..(NameEnd - 1) : Text[k] \notin set
  BY <1>1, <1>3, UptoStops DEF NameEnd
<1>9. \A c \in NameChars : c \notin set
  BY OracleAssumption
<1> HIDE DEF set
<1>10. EName(p) \in Tok..NameEnd
  <2>1. SUFFICES ASSUME NameEnd < EName(p) PROVE FALSE
    BY <1>1, <1>2, <1>5
  <2>2. NameEnd \in Tok..(EName(p) - 1) /\ NameEnd < End
    BY <1>1, <1>2, <1>5, <2>1
  <2> QED BY <1>6, <1>7, <1>9, <2>2
<1>11. ASSUME EName(p) < NameEnd
       PROVE  Text[EName(p)] \notin NameChars /\ RefIs(Text, EName(p), Chars \ set)
  <2>1. EName(p) \in Tok..(NameEnd - 1) /\ EName(p) < End /\ EName(p) <= Len(Text)
    BY <1>1, <1>2, <1>5, <1>11
  <2>2. Text[EName(p)] \in Chars
    BY <1>1, <1>5, <2>1, EndTyped
  <2> QED BY <1>6, <1>8, <2>1, <2>2 DEF RefIs
<1>12. ASSUME InQuotes(p) PROVE NameEnd = Tok
  <2>1. Text[Tok] \in set
    BY <1>4, <1>12 DEF InQuotes, set
  <2>2. Tok \notin Tok..(NameEnd - 1)
    BY <1>8, <2>1
  <2> QED BY <1>2, <1>1, <1>3, <2>2
<1>13. NamePlaces
  BY <1>2, <1>3, <1>4, <1>5, <1>10 DEF NamePlaces
<1> QED BY <1>6, <1>11, <1>12, <1>13 DEF BeginsName, set

(* The walk's name is br, or *, only if the oracle's name is as long.       *)
LEMMA Names ==
  ASSUME ForBr, TypeOK, BeginsName
  PROVE  /\ IsCoding <=> /\ NameEnd = Tok + 2
                         /\ Lower[Text[Tok]] = "b" /\ Lower[Text[Tok + 1]] = "r"
         /\ IsCoding \/ IsStar => EName(p) = NameEnd /\ EName(p) # Tok
         /\ ~(IsCoding /\ IsStar)
<1>0. NamePlaces
  BY DEF BeginsName
<1>1. TextType /\ End \in Nat /\ Tok \in Nat /\ NameEnd \in Nat /\ EName(p) \in Nat
  <2>1. TextType /\ End \in Nat
    BY TextTyped, EndTyped
  <2> QED BY <1>0, <2>1 DEF NamePlaces
<1>2. IsCoding <=> /\ NameEnd = Tok + 2
                   /\ Lower[Text[Tok]] = "b" /\ Lower[Text[Tok + 1]] = "r"
  <2>1. Len(Coding) = 2 /\ Coding[1] = "b" /\ Coding[2] = "r"
    BY DEF ForBr
  <2>2. \A i \in 1..2 : i = 1 \/ i = 2
    OBVIOUS
  <2>3. Tok + 1 - 1 = Tok /\ Tok + 2 - 1 = Tok + 1
    BY <1>1
  <2>4. (\A i \in 1..2 : Lower[Text[Tok + i - 1]] = Coding[i])
          <=> Lower[Text[Tok]] = "b" /\ Lower[Text[Tok + 1]] = "r"
    BY <2>1, <2>2, <2>3
  <2>5. NameEnd - Tok = 2 <=> NameEnd = Tok + 2
    BY <1>1
  <2> QED BY <2>1, <2>4, <2>5 DEF IsCoding
<1>3. ASSUME \A k \in Tok..(NameEnd - 1) : Text[k] \in NameChars PROVE EName(p) = NameEnd
  <2>1. SUFFICES ASSUME EName(p) < NameEnd PROVE FALSE
    BY <1>0, <1>1 DEF NamePlaces
  <2>2. EName(p) \in Tok..(NameEnd - 1)
    BY <1>0, <1>1, <2>1 DEF NamePlaces
  <2> QED BY <1>3, <2>1, <2>2 DEF BeginsName
<1>4. ASSUME IsCoding PROVE EName(p) = NameEnd /\ EName(p) # Tok
  <2>1. NameEnd = Tok + 2 /\ Tok + 1 < End /\ Tok + 1 \in 1..End
    <3>1. NameEnd = Tok + 2
      BY <1>2, <1>4
    <3> QED BY <1>0, <1>1, <3>1 DEF NamePlaces
  <2>2. Text[Tok] \in Chars /\ Text[Tok + 1] \in Chars
    BY <1>0, <1>1, <2>1, EndTyped DEF NamePlaces
  <2>3. Text[Tok] \in NameChars /\ Text[Tok + 1] \in NameChars
    BY <1>2, <1>4, <2>2, OracleAssumption
  <2>4. \A k \in Tok..(NameEnd - 1) : k = Tok \/ k = Tok + 1
    BY <1>1, <2>1
  <2>5. EName(p) = NameEnd
    BY <1>3, <2>3, <2>4
  <2> QED BY <1>1, <2>1, <2>5
<1>5. ASSUME IsStar PROVE EName(p) = NameEnd /\ EName(p) # Tok
  <2>1. NameEnd = Tok + 1
    BY <1>5 DEF IsStar
  <2>2. Text[Tok] \in NameChars
    BY <1>5, OracleAssumption DEF IsStar
  <2>3. \A k \in Tok..(NameEnd - 1) : k = Tok
    BY <1>1, <2>1
  <2>4. EName(p) = NameEnd
    BY <1>3, <2>2, <2>3
  <2> QED BY <1>1, <2>1, <2>4
<1>6. ~(IsCoding /\ IsStar)
  <2>1. NameEnd = Tok + 2 => NameEnd # Tok + 1
    BY <1>1
  <2> QED BY <1>2, <2>1 DEF IsStar
<1> QED BY <1>2, <1>4, <1>5, <1>6

Blanks == Past(NameEnd, OWS)

Began ==
  /\ UNCHANGED <<field, line>> /\ ~quoted' /\ ~quoted_name'
  /\ p' = Blanks /\ Blanks \in NameEnd..End /\ Blanks \in 1..End
  /\ q' = 1000 /\ q_seen' = FALSE
  /\ (is_coding' <=> IsCoding /\ Delimited(Blanks)) /\ (is_star' <=> IsStar /\ Delimited(Blanks))
  /\ Is(Blanks, {";"}) => pc' = "param" /\ UNCHANGED line_qs
  /\ ~Is(Blanks, {";"}) => pc' = "rest" /\ Noted(1000, is_coding', is_star')

LEMMA NotedSame ==
  ASSUME NEW w, NEW a \in BOOLEAN, NEW b \in BOOLEAN, NEW c \in BOOLEAN, NEW d \in BOOLEAN,
         a <=> c, b <=> d, Noted(w, a, b)
  PROVE  Noted(w, c, d)
BY DEF Noted

LEMMA Beginning ==
  ASSUME Sound, BeginElement
  PROVE  Began
<1>1. TextType /\ p \in 1..End /\ End \in Nat /\ NameEnd \in 1..End /\ NameEnd \in Nat
  <2>1. TypeOK /\ TextType
    BY TextTyped DEF Sound, Inv
  <2>2. p \in 1..End /\ End \in Nat
    BY <2>1, EndTyped DEF TypeOK
  <2>3. Tok \in p..End /\ NameEnd \in Tok..End
    BY <2>1, ElementPlaces
  <2> QED BY <2>1, <2>2, <2>3
<1>2. Blanks \in NameEnd..End
  BY <1>1, PastStops DEF Blanks
<1>3. Blanks \in 1..End
  BY <1>1, <1>2
<1>4. ~quoted
  BY DEF Sound, Inv, Ahead, BeginElement
<1>5. /\ UNCHANGED <<field, line, quoted>> /\ p' = Blanks /\ q' = 1000
      /\ q_seen' = FALSE /\ quoted_name' = FALSE
  BY DEF BeginElement, Blanks
<1>6. /\ is_coding' = (IsCoding /\ Delimited(Blanks)) /\ is_star' = (IsStar /\ Delimited(Blanks))
      /\ IF Is(Blanks, {";"})
         THEN pc' = "param" /\ UNCHANGED line_qs
         ELSE pc' = "rest" /\ Noted(1000, IsCoding /\ Delimited(Blanks), IsStar /\ Delimited(Blanks))
  BY ZenonT(40) DEF BeginElement, Blanks
<1>7. ~Is(Blanks, {";"}) => Noted(1000, is_coding', is_star')
  <2> DEFINE coding == IsCoding /\ Delimited(Blanks)
             star == IsStar /\ Delimited(Blanks)
  <2>1. ~Is(Blanks, {";"}) => Noted(1000, coding, star)
    BY <1>6, ZenonT(40)
  <2>2. (is_coding' <=> coding) /\ (is_star' <=> star)
    BY <1>6, ZenonT(40)
  <2>3. coding \in BOOLEAN /\ star \in BOOLEAN /\ is_coding' \in BOOLEAN /\ is_star' \in BOOLEAN
    <3>1. coding \in BOOLEAN /\ star \in BOOLEAN
      BY DEF IsCoding, IsStar, Delimited
    <3> HIDE DEF coding, star
    <3>2. is_coding' = coding /\ is_star' = star
      BY <1>6 DEF coding, star
    <3> QED BY <3>1, <3>2, Zenon
  <2> HIDE DEF coding, star
  <2>4. \A w : Noted(w, coding, star) => Noted(w, is_coding', is_star')
    BY <2>2, <2>3, NotedSame
  <2> QED BY <2>1, <2>4, ZenonT(40)
<1> QED BY <1>2, <1>3, <1>4, <1>5, <1>6, <1>7, ZenonT(40) DEF Began

(* The walk reads the parameters of an element that the oracle gave up.     *)
LEMMA BeginHopeless ==
  ASSUME TypeOK, Began, ~is_coding', ~is_star',
         RefRest(Text, Blanks) # Unsure, Answer = Onward(RefRest(Text, Blanks))
  PROVE  Followed'
<1>1. UNCHANGED line_qs
  <2>1. UNCHANGED line_qs \/ Noted(1000, is_coding', is_star')
    BY DEF Began
  <2>2. Noted(1000, is_coding', is_star') => UNCHANGED line_qs
    BY DEF Noted, line_qs
  <2> QED BY <2>1, <2>2
<1>2. UNCHANGED <<field, line>> /\ p' = Blanks /\ Blanks \in 1..End /\ ~quoted'
  BY DEF Began
<1>3. Text' = Text /\ Answer' = Answer
  BY <1>2, KeptAnswer
<1>4. CASE Is(Blanks, {";"})
  <2>1. pc' = "param" /\ q' = 1000 /\ ~quoted_name'
    BY <1>4 DEF Began
  <2>2. Hopeless'
    BY <1>1, <1>2, <1>3 DEF Hopeless, Onward, line_qs
  <2> QED BY <1>2, <2>1, <2>2, ToParam
<1>5. CASE ~Is(Blanks, {";"})
  <2>1. pc' = "rest"
    BY <1>5 DEF Began
  <2>2. RefBlob(Text)[Blanks] = RefRest(Text, Blanks)
    BY <1>2, TextTyped, RestIs
  <2>3. Answer = RefNext(Text, RefElements(Text), RefBlob(Text)[p'], line_coding_q', line_star_q')
    BY <1>1, <1>2, <2>2 DEF Onward, line_qs
  <2> QED BY <1>2, <2>1, <2>3, ToRest
<1> QED BY <1>4, <1>5

LEMMA BeginFollowed ==
  ASSUME ForBr, Sound, Answer # Unsure, Followed, BeginElement
  PROVE  Followed'
<1> DEFINE E == RefElements(Text)
           r == EResult(p)
<1>1. TypeOK /\ TextType /\ p \in 1..End /\ End \in Nat /\ Len(Text) \in Nat /\ End = Len(Text) + 1
  BY TextTyped, EndTyped DEF Sound, Inv, TypeOK
<1>2. BeginsName /\ NamePlaces /\ Began
  BY <1>1, NameBegins, Beginning DEF BeginsName
<1>3. UNCHANGED <<field, line>> /\ p' = Blanks /\ Blanks \in NameEnd..End /\ Blanks \in 1..End /\ ~quoted'
  BY <1>2 DEF Began
<1>4. ElementCases(E, p, line_coding_q, line_star_q, Answer)
  <2>1. Answer = E[p][line_coding_q][line_star_q]
    BY DEF Followed, BeginElement
  <2>2. line_coding_q \in Qs /\ line_star_q \in Qs
    BY <1>1 DEF TypeOK
  <2>3. Answer = RefElement(Text, E, p, line_coding_q, line_star_q)
    BY <1>1, <2>1, <2>2, ElementsEquation
  <2> QED BY <2>3, ElementIs
<1>5. /\ IsCoding <=> /\ NameEnd = Tok + 2
                      /\ Lower[Text[Tok]] = "b" /\ Lower[Text[Tok + 1]] = "r"
      /\ IsCoding \/ IsStar => EName(p) = NameEnd /\ EName(p) # Tok
      /\ ~(IsCoding /\ IsStar)
  BY <1>1, <1>2, Names
<1>6. Blanks < End => Text[Blanks] \notin OWS
  <2>1. NameEnd \in 1..End
    BY <1>2 DEF NamePlaces
  <2> QED BY <1>1, <2>1, PastStops DEF Blanks
<1>7. CASE InQuotes(p)
  <2>1. NameEnd = Tok /\ Text[Tok] = Quote /\ Tok < End /\ Tok \in 1..End /\ ETok(p) = Tok /\ ETok(p) # End
    BY <1>2, <1>7 DEF BeginsName, NamePlaces, InQuotes
  <2>2. Blanks = Tok
    <3>1. Text[Tok] \notin OWS
      BY <2>1, Octets
    <3>2. Tok \in Tok..End /\ Tok..(Tok - 1) = {}
      BY <1>1, <2>1
    <3>3. RefPast(Text, Tok, OWS) = Tok
      BY <1>1, <2>1, <3>1, <3>2, PastIs
    <3> QED BY <1>1, <2>1, <3>3, SameLoops DEF Blanks
  <2>3. ~IsCoding /\ ~IsStar
    <3>1. EName(p) \in Tok..NameEnd /\ Tok \in Nat
      BY <1>2, <2>1 DEF NamePlaces
    <3>2. EName(p) = Tok
      BY <2>1, <3>1
    <3> QED BY <1>5, <3>2
  <2>4. ~is_coding' /\ ~is_star' /\ pc' = "rest" /\ UNCHANGED line_qs
    <3>1. ~Is(Blanks, {";"})
      BY <2>1, <2>2, Octets DEF Is
    <3>2. ~is_coding' /\ ~is_star'
      BY <1>2, <2>3 DEF Began
    <3>3. pc' = "rest" /\ Noted(1000, is_coding', is_star')
      BY <1>2, <3>1 DEF Began
    <3> QED BY <3>2, <3>3 DEF Noted, line_qs
  <2>5. Answer = RefNext(Text, E, RefBlob(Text)[Tok], line_coding_q, line_star_q)
    BY <1>4, <1>7, <2>1 DEF ElementCases
  <2> QED BY <1>3, <2>2, <2>4, <2>5, ToRest DEF line_qs
<1>8. CASE ~InQuotes(p)
  <2>1. /\ ETok(p) = Tok /\ EName(p) # Tok
        /\ Answer = RefNext(Text, E, r.i, IF EIsBr(p) THEN r.q ELSE line_coding_q, IF EIsStar(p) THEN r.q ELSE line_star_q)
    BY <1>2, <1>4, <1>8 DEF ElementCases, NamePlaces
  <2>2. r.i # Unsure
    BY <2>1 DEF RefNext
  <2>3. EFrom(p) # Unsure /\ r = AllParameters(EFrom(p))
    BY <2>2 DEF EResult, NoAnswer, Result, AllParameters
  <2>4. EName(p) \in 1..End /\ EAfter(p) \in EName(p)..End /\ EAfter(p) \in 1..End /\ Tok \in 1..End
        /\ NameEnd \in 1..End /\ EName(p) \in Tok..NameEnd
    BY <1>1, <1>2, OracleElementPlaces DEF NamePlaces
  <2>5. EName(p) = NameEnd => EAfter(p) = Blanks
    BY <1>1, <2>4, SameLoops DEF EAfter, Blanks
  <2>6. ASSUME EName(p) # NameEnd PROVE EAfter(p) = EName(p) /\ EJunk(p) /\ EName(p) < NameEnd
    <3>0. EName(p) < NameEnd
      BY <1>1, <2>4, <2>6
    <3>1. RefIs(Text, EName(p), Chars \ (OWS \cup {";", ",", Quote}))
      BY <1>2, <3>0 DEF BeginsName
    <3>2. EName(p) < End => Text[EName(p)] \notin OWS
      BY <3>1 DEF RefIs
    <3>3. EName(p) \in EName(p)..End /\ EName(p)..(EName(p) - 1) = {}
      BY <1>1, <2>4
    <3>4. EAfter(p) = EName(p)
      BY <1>1, <2>4, <3>2, <3>3, PastIs DEF EAfter
    <3> QED BY <3>0, <3>1, <3>4 DEF EJunk, RefIs
  <2>7. CASE EJunk(p)
    <3> DEFINE c == RefRest(Text, EAfter(p))
    <3>1. c # Unsure /\ r = AllParameters(c)
      BY <2>3, <2>7 DEF EFrom
    <3>2. c \in EAfter(p)..End /\ AtComma(c)
      BY <1>1, <2>4, <3>1, RestIs
    <3> HIDE DEF c
    <3>3. c \in 1..End
      BY <1>1, <2>4, <3>2
    <3>4. r.i = c
      BY <1>1, <3>1, <3>2, <3>3, NoParameters
    <3>5. Answer = Onward(c)
      BY <2>1, <2>7, <3>4 DEF EIsBr, EIsStar, Onward
    <3>6. Blanks \in EAfter(p)..c
      <4>1. CASE EName(p) = NameEnd
        BY <1>1, <2>4, <2>5, <3>2, <4>1
      <4>2. CASE EName(p) # NameEnd
        <5>1. Tok \in 1..c /\ EAfter(p) = EName(p)
          BY <1>1, <2>4, <2>6, <3>2, <4>2
        <5>2. NameEnd \in Tok..c
          <6>1. "," \in OWS \cup {";", ",", Quote}
            OBVIOUS
          <6> QED BY <1>1, <3>2, <3>3, <5>1, <6>1, NotBeyond DEF NameEnd
        <5>3. NameEnd \in 1..c
          BY <1>1, <2>4, <5>2
        <5>4. Blanks \in NameEnd..c
          <6>1. "," \notin OWS
            BY DEF OWS
          <6> QED BY <1>1, <3>2, <3>3, <5>3, <6>1, NotBeyond DEF Blanks
        <5> QED BY <1>1, <2>4, <5>1, <5>4
      <4> QED BY <4>1, <4>2
    <3>7. RefRest(Text, Blanks) = c
      BY <1>1, <2>4, <3>1, <3>6, RestFrom DEF c
    <3>8. ~is_coding' /\ ~is_star'
      <4>1. CASE EName(p) = NameEnd
        <5>1. RefIs(Text, Blanks, Chars \ {";", ","})
          BY <2>5, <2>7, <4>1 DEF EJunk
        <5>2. Blanks <= Len(Text)
          BY <5>1 DEF RefIs
        <5>3. Blanks # End
          BY <1>1, <1>3, <5>2
        <5>4. ~Delimited(Blanks)
          BY <5>1, <5>3 DEF RefIs, Delimited
        <5> QED BY <1>2, <5>4 DEF Began
      <4>2. CASE EName(p) # NameEnd
        BY <1>2, <1>5, <4>2 DEF Began
      <4> QED BY <4>1, <4>2
    <3> QED BY <1>1, <1>2, <3>1, <3>5, <3>7, <3>8, BeginHopeless
  <2>8. CASE ~EJunk(p)
    <3>1. EName(p) = NameEnd /\ EAfter(p) = Blanks /\ EFrom(p) = Blanks
      BY <2>5, <2>6, <2>8 DEF EFrom
    <3>2. Delimited(Blanks)
      <4>1. SUFFICES ASSUME Blanks # End PROVE Text[Blanks] \in {";", ","}
        BY DEF Delimited
      <4>2. Blanks <= Len(Text) /\ Blanks < End
        BY <1>1, <1>3, <4>1
      <4>3. Text[Blanks] \in Chars
        BY <1>1, <1>3, <4>2, EndTyped
      <4> QED BY <2>8, <3>1, <4>2, <4>3 DEF EJunk, RefIs
    <3>3. (is_coding' <=> IsCoding) /\ (is_star' <=> IsStar)
      BY <1>2, <3>2 DEF Began
    <3>4. EIsBr(p) <=> is_coding' /\ r.matches
      BY <1>5, <2>1, <2>8, <3>1, <3>3 DEF EIsBr
    <3>5. EIsStar(p) <=> is_star' /\ r.matches
      BY <2>1, <2>8, <3>1, <3>3 DEF EIsStar, IsStar
    <3>6. r = AllParameters(Blanks)
      BY <2>3, <3>1
    <3> HIDE DEF r, E
    <3>7. Answer = RefNext(Text, E, r.i, IF is_coding' /\ r.matches THEN r.q ELSE line_coding_q,
                           IF is_star' /\ r.matches THEN r.q ELSE line_star_q)
      BY <2>1, <3>4, <3>5
    <3>8. ~(is_coding' /\ is_star')
      BY <1>5, <3>3
    <3>9. CASE Is(Blanks, {";"})
      <4>1. pc' = "param" /\ q' = 1000 /\ q_seen' = FALSE /\ ~quoted_name' /\ UNCHANGED line_qs
        BY <1>2, <3>9 DEF Began
      <4>2. Text' = Text
        BY <1>3, KeptAnswer
      <4>3. RefParameters(Text')[p'][q'][q_seen'] = r
        BY <1>3, <3>6, <4>1, <4>2, Zenon DEF AllParameters
      <4>4. Answer = Concluded(RefParameters(Text)[p][q][q_seen])'
        BY <3>7, <4>1, <4>2, <4>3 DEF Concluded, line_qs, E
      <4>5. q' >= 0
        BY <4>1
      <4> QED BY <1>3, <3>8, <4>1, <4>4, <4>5, ToParam
    <3>10. CASE ~Is(Blanks, {";"})
      <4>1. pc' = "rest" /\ Noted(1000, is_coding', is_star')
        BY <1>2, <3>10 DEF Began
      <4>2. AtComma(Blanks)
        <5>1. Blanks < End => Blanks # End
          BY <1>1, <1>3
        <5> QED BY <3>2, <3>10, <5>1 DEF AtComma, Delimited, Is
      <4>3. r.i = Blanks /\ r.q = 1000 /\ r.matches
        BY <1>1, <1>3, <3>6, <4>2, NoParameters
      <4>5. Answer = RefNext(Text, RefElements(Text), Blanks, IF is_coding' THEN 1000 ELSE line_coding_q,
                             IF is_star' THEN 1000 ELSE line_star_q)
        BY <3>7, <4>3 DEF E
      <4>6. Answer = RefNext(Text, RefElements(Text), Blanks, line_coding_q', line_star_q')
        BY <3>8, <4>1, <4>5, NotedConcluded
      <4>7. RefBlob(Text)[Blanks] = Blanks
        BY <1>1, <1>3, <4>2, BlobStops
      <4> QED BY <1>3, <4>1, <4>6, <4>7, ToRest
    <3> QED BY <3>9, <3>10
  <2> QED BY <2>7, <2>8
<1> QED BY <1>7, <1>8

(***************************************************************************)
(* The whole walk.                                                          *)
(***************************************************************************)
InLine == BeginElement \/ Parameters \/ Quotes \/ EndElement

LEMMA FollowedStep ==
  ASSUME ForBr, Sound, Answer # Unsure, Followed, InLine
  PROVE  Followed'
<1>1. TypeOK
  BY DEF Sound, Inv
<1>2. CASE BeginElement
  BY <1>2, BeginFollowed
<1>3. CASE Parameters
  <2>1. Evaluating /\ ~quoted /\ ~quoted_name /\ q >= 0 /\ ~(is_coding /\ is_star)
    <3>1. Evaluating /\ (pc = "param" \/ ~quoted)
      BY <1>3 DEF Parameters, EmptyName, NoValue, OtherParameter, Weight, EndValue, EndParameters,
                  Parameter, Evaluating
    <3> QED BY <3>1 DEF Followed, Sound, Inv, Ahead
  <2>2. CASE Hopeless
    BY <1>1, <1>3, <2>1, <2>2, HopelessStep
  <2>3. CASE ~Hopeless /\ pc = "param"
    <3>1. Live
      BY <1>1, <2>1, <2>3 DEF Live, Followed
    <3> QED BY <1>3, <2>3, <3>1, LiveStep
  <2>4. CASE ~Hopeless /\ pc = "value"
    <3>1. EndValue
      BY <1>3, <2>4 DEF Parameters, EmptyName, NoValue, OtherParameter, Weight, EndParameters, Parameter
    <3> QED BY <1>1, <2>1, <2>4, <3>1, ValueStep
  <2> QED BY <2>1, <2>2, <2>3, <2>4 DEF Evaluating
<1>4. CASE QuotedPair \/ CloseQuote
  <2>1. quoted
    BY <1>4 DEF QuotedPair, CloseQuote
  <2> QED BY <1>4, <2>1, QuotedStep
<1>5. CASE OpenQuote
  <2>1. pc \in {"value", "rest"} /\ ~quoted
    BY <1>5 DEF OpenQuote
  <2>2. CASE pc = "rest"
    BY <1>1, <1>5, <2>1, <2>2, RestStep
  <2>3. CASE pc = "value"
    <3>1. ~Hopeless
      BY <1>1, <1>5, <2>3, HopelessQuote DEF Evaluating
    <3> QED BY <1>1, <1>5, <2>1, <2>3, <3>1, ValueStep
  <2> QED BY <2>1, <2>2, <2>3
<1>6. CASE EndElement
  <2>1. pc = "rest" /\ ~quoted
    BY <1>6 DEF EndElement
  <2> QED BY <1>1, <1>6, <2>1, RestStep
<1> QED BY <1>2, <1>3, <1>4, <1>5, <1>6 DEF InLine, Quotes

LEMMA LineStays ==
  ASSUME InLine
  PROVE  /\ UNCHANGED <<field, line, coding_q, star_q>>
         /\ pc \in {"element", "param", "value", "rest"} \/ quoted
BY DEF InLine, BeginElement, Parameters, EmptyName, NoValue, OtherParameter, Weight, EndValue,
       EndParameters, Parameter, Quotes, OpenQuote, QuotedPair, CloseQuote, EndElement, request_qs

(* At the end of the line its weights, and the oracle's, are the field's.   *)
LEMMA LineEnds ==
  ASSUME ForBr, Sound, Followed, coding_q = -1, star_q = -1, EndLine
  PROVE  Followed'
<1>1. /\ TypeOK /\ TextType /\ p \in 1..End /\ End \in Nat
      /\ line_coding_q \in Qs /\ line_star_q \in Qs
  BY TextTyped, EndTyped DEF Sound, Inv, TypeOK
<1>2. /\ pc = "element" /\ Tok = End /\ pc' = "line" /\ UNCHANGED <<field, line>>
      /\ Folded
  BY DEF EndLine
<1>3. Answer = RefVerdict(line_coding_q, line_star_q)
  <2>1. Answer = RefElements(Text)[p][line_coding_q][line_star_q]
    BY <1>2 DEF Followed
  <2>2. Answer = RefElement(Text, RefElements(Text), p, line_coding_q, line_star_q)
    BY <1>1, <2>1, ElementsEquation
  <2>3. ElementCases(RefElements(Text), p, line_coding_q, line_star_q, Answer)
    BY <2>2, ElementIs
  <2>4. ETok(p) = End
    BY <1>1, <1>2, SameLoops DEF ETok, Tok
  <2> QED BY <2>3, <2>4 DEF ElementCases
<1>4. Verdict' = RefVerdict(line_coding_q, line_star_q)
  <2>1. line_coding_q \in Int /\ line_star_q \in Int
    BY <1>1 DEF Qs
  <2>2. /\ line_coding_q >= 0 => coding_q' = line_coding_q /\ star_q' = -1
        /\ ~(line_coding_q >= 0) /\ line_star_q >= 0 => coding_q' = -1 /\ star_q' = line_star_q
        /\ ~(line_coding_q >= 0) /\ ~(line_star_q >= 0) => coding_q' = -1 /\ star_q' = -1
    BY <1>2 DEF Folded, ForBr, request_qs
  <2>3. AllowWildcard
    BY DEF ForBr
  <2> QED BY <2>1, <2>2, <2>3 DEF Verdict, FieldWeight, RefVerdict
<1>5. Answer' = Answer
  BY <1>2, KeptAnswer
<1> QED BY <1>2, <1>3, <1>4, <1>5 DEF Followed, Evaluating

LEMMA LineBegins ==
  ASSUME NextLine
  PROVE  Followed'
<1>1. /\ p' = 1 /\ line_coding_q' = -1 /\ line_star_q' = -1 /\ pc' = "element"
  BY DEF NextLine
<1>2. Answer' = RefElements(Text')[p'][line_coding_q'][line_star_q']
  BY <1>1 DEF Answer, RefAccepts
<1> QED BY <1>1, <1>2 DEF Followed, Evaluating

LEMMA TrackedStep ==
  ASSUME ForBr, Sound, Tracked, Next
  PROVE  Tracked'
<1>1. field' = field
  BY DEF Next, BeginElement, Parameters, EmptyName, NoValue, OtherParameter, Weight, EndValue,
         EndParameters, Quotes, OpenQuote, QuotedPair, CloseQuote, EndElement, EndLine, NextLine, EndField
<1> SUFFICES ASSUME Len(field) = 1 PROVE Unfolded' /\ (line' = 1 /\ Answer' # Unsure => Followed')
  BY <1>1 DEF Tracked
<1>2. Unfolded /\ (line = 1 /\ Answer # Unsure => Followed) /\ line \in 0..1
  BY DEF Tracked, Sound, Inv, TypeOK
<1>3. quoted => pc \in {"value", "rest"}
  BY DEF Sound, Inv, Ahead
<1>4. CASE InLine
  <2>1. UNCHANGED <<field, line, coding_q, star_q>> /\ pc \notin {"line", "done"}
    BY <1>3, <1>4, LineStays
  <2>2. line = 1 /\ coding_q = -1 /\ star_q = -1
    BY <1>2, <2>1 DEF Unfolded
  <2>3. Answer' = Answer
    BY <2>1, KeptAnswer
  <2> QED BY <1>2, <1>4, <2>1, <2>2, <2>3, FollowedStep DEF Unfolded
<1>5. CASE EndLine
  <2>1. UNCHANGED <<field, line>> /\ pc = "element" /\ pc' = "line"
    BY <1>5 DEF EndLine
  <2>2. line = 1 /\ coding_q = -1 /\ star_q = -1
    BY <1>2, <2>1 DEF Unfolded
  <2>3. Answer' = Answer
    BY <2>1, KeptAnswer
  <2> QED BY <1>2, <1>5, <2>1, <2>2, <2>3, LineEnds DEF Unfolded
<1>6. CASE NextLine
  <2>1. line < Len(field) /\ line' = line + 1 /\ pc' = "element" /\ UNCHANGED <<coding_q, star_q>>
    BY <1>6 DEF NextLine, request_qs
  <2>2. line = 0 /\ line' = 1
    BY <1>2, <2>1
  <2>3. coding_q = -1 /\ star_q = -1
    BY <1>2, <2>2 DEF Unfolded
  <2> QED BY <1>6, <2>1, <2>2, <2>3, LineBegins DEF Unfolded
<1>7. CASE EndField
  <2>1. /\ UNCHANGED <<field, line, coding_q, star_q>> /\ pc = "line" /\ pc' = "done"
        /\ line = Len(field)
    BY <1>7 DEF EndField, request_qs
  <2>2. Answer' = Answer /\ Verdict' = Verdict
    BY <2>1, KeptAnswer DEF Verdict, FieldWeight
  <2>3. line = 1 /\ line' = 1
    BY <2>1
  <2> QED BY <1>2, <2>1, <2>2, <2>3 DEF Unfolded, Followed, Evaluating
<1> QED BY <1>4, <1>5, <1>6, <1>7 DEF Next, InLine

LEMMA TrackedStuttering ==
  ASSUME Tracked, UNCHANGED vars
  PROVE  Tracked'
<1>1. UNCHANGED <<field, line, p, q, q_seen, quoted_name, is_coding, is_star, line_coding_q,
                  line_star_q, coding_q, star_q, pc, quoted>>
  BY DEF vars, element, line_qs, request_qs
<1>2. Text' = Text /\ Answer' = Answer
  BY <1>1, KeptAnswer
<1>3. Unfolded' = Unfolded
  BY <1>1 DEF Unfolded
<1>4. Verdict' = Verdict /\ Evaluating' = Evaluating
  BY <1>1 DEF Verdict, FieldWeight, Evaluating
<1>5. Hopeless => Hopeless'
  BY <1>1, <1>2 DEF Hopeless, Onward
<1>6. Followed => Followed'
  BY <1>1, <1>2, <1>4, <1>5 DEF Followed, Onward, Blob, Concluded, Then, Evaluating
<1> QED BY <1>1, <1>2, <1>3, <1>6 DEF Tracked

(* ref_accepts of the fuzz target, wherever it is sure of an answer, and    *)
(* ngx_http_brotli_field_weight say the same of br in a field of one line,  *)
(* of any length: "a divergence [...] is a real semantic defect".           *)
THEOREM AlwaysAgrees ==
  ASSUME ForBr
  PROVE  Spec => []AgreesWithOracle
<1>1. Init => Sound /\ Tracked
  BY Initially DEF Sound, Whole, Init, Start, Tracked, Unfolded
<1>2. Sound /\ Tracked /\ [Next]_vars => Tracked'
  BY TrackedStep, TrackedStuttering
<1>3. Sound /\ Tracked => AgreesWithOracle
  <2>1. SUFFICES ASSUME Sound, Tracked, pc = "done", Len(field) = 1
                 PROVE  RefAccepts(field[1]) \in {Unsure, IF FieldWeight > 0 THEN 1 ELSE 0}
    BY DEF AgreesWithOracle
  <2>2. line \in 0..1 /\ Unfolded
    BY <2>1 DEF Sound, Inv, TypeOK, Tracked
  <2>3. line = 1
    BY <2>1, <2>2 DEF Unfolded
  <2>4. Text = field[1]
    BY <2>1, <2>3 DEF Text, Sound, Inv, TypeOK
  <2>5. Answer = Unsure \/ Answer = Verdict
    BY <2>1, <2>3 DEF Tracked, Followed
  <2> QED BY <2>4, <2>5 DEF Answer, Verdict
<1> QED BY <1>1, <1>2, <1>3, Soundness, PTL DEF Spec

(***************************************************************************)
(* What the walk has read of the line, next to what its members say.        *)
(***************************************************************************)
Proper == \A i \in DOMAIN field : NamesUnquoted(field[i])

Commas(t) == Unquoted(t, {","})
Semicolons(t) == Unquoted(t, {";"})

(* The latest of the members before u that say a form, and its weight.      *)
Told(t, u, form, x) ==
  IF \A m \in Saying(t, form) : u <= m THEN x = -1
  ELSE \E m \in Saying(t, form) :
         m < u /\ x = MemberWeight(t, m) /\ \A n \in Saying(t, form) : n <= m \/ u <= n

BothTold(u, x, y) == Told(Text, u, "coding", x) /\ Told(Text, u, "star", y)

HeadSays(t, m, form) ==
  \E w \in Words(t, m, Until(t, m)) : IF form = "coding" THEN NamesCoding(t, w) ELSE NamesStar(t, w)

Heads(m, coding, star) ==
  /\ coding <=> HeadSays(Text, m, "coding")
  /\ ~coding /\ star <=> HeadSays(Text, m, "star")

(* The octet at i is in the member m, or ends it.                           *)
InMember(m, i) ==
  /\ m \in Members(Text) /\ m <= i /\ m < End /\ Text[m] # ","
  /\ \A k \in m..(i - 1) : k \notin Commas(Text)

Before(m, i) == {s \in ParametersOf(Text, m) : s < i}

(* The parameters of m before i, and what they come to.                     *)
HasRead(m, i, weight, seen) ==
  /\ \A s \in Before(m, i) : WellFormed(Text, s)
  /\ \A r, s \in Before(m, i) : IsWeight(Text, r) /\ IsWeight(Text, s) => r = s
  /\ seen <=> \E s \in Before(m, i) : IsWeight(Text, s)
  /\ IF seen THEN \A s \in Before(m, i) : IsWeight(Text, s) => WeightsGiven(Text, s) = {weight}
     ELSE weight = 1000

Headed(m) == BothTold(m, line_coding_q, line_star_q) /\ Heads(m, is_coding, is_star)

(* The parameter at s has been read up to i, in the value.                  *)
InValue(m, s, i) ==
  /\ s \in ParametersOf(Text, m) /\ s < i /\ WellFormed(Text, s) /\ ~IsWeight(Text, s)
  /\ \A k \in (s + 1)..(i - 1) : k \notin Semicolons(Text)

OnLine ==
  /\ pc = "element" => BothTold(p, line_coding_q, line_star_q)
  /\ pc = "param" => ~quoted_name /\ q \in 0..1000 /\ Delimited(p)
       /\ \E m \in Members(Text) : InMember(m, p) /\ Headed(m) /\ HasRead(m, p, q, q_seen)
  /\ pc = "value" => ~quoted_name /\ q \in 0..1000
       /\ \E m \in Members(Text), s \in Semicolons(Text) :
            InMember(m, p) /\ Headed(m) /\ HasRead(m, s, q, q_seen) /\ InValue(m, s, p)
  /\ pc = "rest" =>
       \E m \in Members(Text) : InMember(m, p) /\ BothTold(m + 1, line_coding_q, line_star_q)

(* The same over the lines.                                                 *)
PlacesIn(n, form) == UNION {{<<i, m>> : m \in Saying(field[i], form)} : i \in 1..n}

NotAfter(x, y) == y[1] < x[1] \/ (y[1] = x[1] /\ y[2] <= x[2])

FieldTold(n, form, x) ==
  IF PlacesIn(n, form) = {} THEN x = -1
  ELSE \E y \in PlacesIn(n, form) :
         x = MemberWeight(field[y[1]], y[2]) /\ \A z \in PlacesIn(n, form) : NotAfter(y, z)

Folds(n) ==
  /\ n \in 0..Len(field)
  /\ FieldTold(n, "coding", coding_q)
  /\ coding_q = -1 /\ AllowWildcard => FieldTold(n, "star", star_q)

InField ==
  /\ pc \in {"line", "done"} => Folds(line)
  /\ pc \notin {"line", "done"} => Folds(line - 1)
  /\ pc = "done" => line = Len(field)

Meant == Proper => InField /\ (line \in DOMAIN field => OnLine)

(***************************************************************************)
(* The grammar's pieces of a line.                                          *)
(***************************************************************************)
(* An octet outside quoted-strings, where the walk knows that it is one.    *)
LEMMA UnquotedIs ==
  ASSUME TextType, NEW i \in 1..End, NEW set, i < End, Text[i] \in set, Synced(i, "plain")
  PROVE  i \in Unquoted(Text, set)
<1>1. Len(Text) \in Nat /\ End = Len(Text) + 1 /\ i # End
  BY EndTyped
<1>2. i \in 1..Len(Text)
  BY <1>1
<1>3. i \in DOMAIN Text
  BY <1>2 DEF TextType
<1> QED BY <1>1, <1>3 DEF Unquoted, Synced

LEMMA UnquotedHas ==
  ASSUME TextType, NEW set, NEW k \in Unquoted(Text, set)
  PROVE  k \in 1..Len(Text) /\ k \in 1..End /\ k < End /\ Text[k] \in set /\ Mode(Text)[k - 1] = "plain"
<1>1. Len(Text) \in Nat /\ End = Len(Text) + 1
  BY EndTyped
<1>2. k \in DOMAIN Text /\ Text[k] \in set /\ Mode(Text)[k - 1] = "plain"
  BY DEF Unquoted
<1>3. k \in 1..Len(Text)
  BY <1>2 DEF TextType
<1> QED BY <1>1, <1>2, <1>3

Delims == Unquoted(Text, {",", ";"})

LEMMA DelimsAre == Delims = Commas(Text) \cup Semicolons(Text)
BY DEF Delims, Unquoted, Commas, Semicolons

LEMMA DelimsHave ==
  ASSUME TextType, NEW k \in Delims
  PROVE  k \in 1..End /\ k < End /\ Text[k] \in {",", ";"}
BY UnquotedHas DEF Delims

Ending(i, j) ==
  /\ j \in i..End /\ (j = End \/ j \in Delims)
  /\ \A k \in i..(j - 1) : k \notin Delims

LEMMA UntilEnds ==
  ASSUME TextType, NEW i \in 1..End
  PROVE  Ending(i, Until(Text, i))
<1> DEFINE ends == {k \in Delims : k >= i} \cup {End}
           least(k) == \A j \in ends : k <= j
<1>1. Len(Text) + 1 = End /\ End \in Nat
  BY EndTyped
<1>2. \A k \in Delims : k \in 1..End /\ k < End
  BY DelimsHave
<1>3. ends \in SUBSET Nat /\ ends # {}
  BY <1>1, <1>2
<1>4. \E k \in ends : least(k)
  <2> HIDE DEF ends
  <2> QED BY <1>3, LeastElement
<1>5. Until(Text, i) = CHOOSE k \in ends : least(k)
  BY <1>1 DEF Until, Delims
<1>6. Until(Text, i) \in ends /\ least(Until(Text, i))
  <2> HIDE DEF ends, least
  <2> QED BY <1>4, <1>5
<1> DEFINE u == Until(Text, i)
<1>7. u \in ends /\ \A j \in ends : u <= j
  BY <1>6
<1> HIDE DEF u
<1>8. u \in i..End /\ (u = End \/ u \in Delims)
  BY <1>1, <1>2, <1>7
<1>9. ASSUME NEW k \in i..(u - 1) PROVE k \notin Delims
  BY <1>1, <1>7, <1>8
<1> QED BY <1>8, <1>9 DEF Ending, u

LEMMA EndingOnce ==
  ASSUME TextType, NEW i \in 1..End, NEW j, NEW k, Ending(i, j), Ending(i, k)
  PROVE  j = k
<1>1. End \in Nat /\ j \in i..End /\ k \in i..End
  BY EndTyped DEF Ending
<1>2. \A b \in Delims : b < End
  BY DelimsHave
<1>3. ~(j < k)
  BY <1>1 DEF Ending
<1>4. ~(k < j)
  BY <1>1 DEF Ending
<1> QED BY <1>1, <1>3, <1>4

LEMMA UntilIs ==
  ASSUME TextType, NEW i \in 1..End, NEW j, Ending(i, j)
  PROVE  Until(Text, i) = j
BY UntilEnds, EndingOnce

(* The end of a name: an "=" or the end of its parameter.                   *)
Naming(s, j) ==
  /\ j \in (s + 1)..Until(Text, s + 1) /\ (j = Until(Text, s + 1) \/ Text[j] = "=")
  /\ \A k \in (s + 1)..(j - 1) : Text[k] # "="

LEMMA NameUntilEnds ==
  ASSUME TextType, NEW s \in 1..End, s < End
  PROVE  Naming(s, NameUntil(Text, s))
<1> DEFINE u == Until(Text, s + 1)
           ends == {k \in (s + 1)..(u - 1) : Text[k] = "="} \cup {u}
           least(k) == \A j \in ends : k <= j
<1>1. End \in Nat /\ s + 1 \in 1..End
  BY EndTyped
<1>2. u \in (s + 1)..End
  BY <1>1, UntilEnds DEF Ending
<1>3. ends \in SUBSET Nat /\ ends # {}
  <2> HIDE DEF u
  <2> QED BY <1>1, <1>2
<1>4. \E k \in ends : least(k)
  <2> HIDE DEF ends
  <2> QED BY <1>3, LeastElement
<1>5. NameUntil(Text, s) = CHOOSE k \in ends : least(k)
  BY DEF NameUntil
<1> DEFINE e == NameUntil(Text, s)
<1>6. e \in ends /\ least(e)
  <2> HIDE DEF ends, least
  <2> QED BY <1>4, <1>5
<1> HIDE DEF e, u
<1>7. e \in (s + 1)..u /\ (e = u \/ Text[e] = "=")
  BY <1>1, <1>2, <1>6
<1>8. ASSUME NEW k \in (s + 1)..(e - 1) PROVE Text[k] # "="
  <2>1. k \in (s + 1)..(u - 1) /\ k < e
    BY <1>1, <1>2, <1>7
  <2> QED BY <1>1, <1>2, <1>6, <1>7, <2>1
<1> QED BY <1>7, <1>8 DEF Naming, e, u

LEMMA NameUntilIs ==
  ASSUME TextType, NEW s \in 1..End, s < End, NEW j, Naming(s, j)
  PROVE  NameUntil(Text, s) = j
<1> DEFINE e == NameUntil(Text, s)
           u == Until(Text, s + 1)
<1>1. End \in Nat /\ s + 1 \in 1..End
  BY EndTyped
<1>2. u \in (s + 1)..End
  BY <1>1, UntilEnds DEF Ending
<1>3. Naming(s, e)
  BY NameUntilEnds
<1> HIDE DEF e, u
<1>4. e \in (s + 1)..u /\ j \in (s + 1)..u
  BY <1>3 DEF Naming, u
<1>5. ~(e < j)
  <2>1. SUFFICES ASSUME e < j PROVE FALSE
    OBVIOUS
  <2>2. e \in (s + 1)..(j - 1) /\ e # u
    BY <1>1, <1>2, <1>4, <2>1
  <2> QED BY <1>3, <2>2 DEF Naming, u
<1>6. ~(j < e)
  <2>1. SUFFICES ASSUME j < e PROVE FALSE
    OBVIOUS
  <2>2. j \in (s + 1)..(e - 1) /\ j # u
    BY <1>1, <1>2, <1>4, <2>1
  <2> QED BY <1>3, <2>2 DEF Naming, u
<1>7. e = j
  BY <1>1, <1>2, <1>4, <1>5, <1>6
<1> QED BY <1>7 DEF e

(* A word is all that is not blank.                                         *)
LEMMA WordIs ==
  ASSUME NEW t, NEW i \in Int, NEW j \in Int, NEW a \in i..(j - 1), NEW b \in a..(j - 1),
         \A k \in a..b : t[k] \notin OWS,
         \A k \in i..(a - 1) : t[k] \in OWS, \A k \in (b + 1)..(j - 1) : t[k] \in OWS
  PROVE  Words(t, i, j) = {<<a, b>>}
<1> DEFINE solid == {k \in i..(j - 1) : t[k] \notin OWS}
<1>1. solid = a..b
  <2>1. ASSUME NEW k \in i..(j - 1) PROVE t[k] \notin OWS <=> k \in a..b
    <3>1. k \in i..(a - 1) \/ k \in a..b \/ k \in (b + 1)..(j - 1)
      OBVIOUS
    <3>2. k \in i..(a - 1) \/ k \in (b + 1)..(j - 1) => k \notin a..b
      OBVIOUS
    <3> QED BY <3>1, <3>2
  <2>2. \A k \in a..b : k \in i..(j - 1)
    OBVIOUS
  <2> QED BY <2>1, <2>2
<1>2. a \in solid /\ b \in solid
  BY <1>1
<1>3. Words(t, i, j) = {w \in solid \X solid : solid = w[1]..w[2]}
  BY DEF Words
<1> HIDE DEF solid
<1>4. <<a, b>> \in Words(t, i, j)
  BY <1>1, <1>2, <1>3
<1>5. ASSUME NEW w \in Words(t, i, j) PROVE w = <<a, b>>
  <2>1. w \in solid \X solid /\ solid = w[1]..w[2]
    BY <1>3
  <2>2. w[1] \in a..b /\ w[2] \in a..b /\ a \in w[1]..w[2] /\ b \in w[1]..w[2]
    BY <1>1, <1>2, <2>1
  <2>3. w[1] = a /\ w[2] = b
    BY <2>2
  <2> QED BY <2>1, <2>3
<1> QED BY <1>4, <1>5

LEMMA WordHas ==
  ASSUME NEW t, NEW i \in Int, NEW j \in Int, NEW w \in Words(t, i, j)
  PROVE  /\ w[1] \in i..(j - 1) /\ w[2] \in w[1]..(j - 1) /\ w = <<w[1], w[2]>>
         /\ \A k \in i..(j - 1) : t[k] \notin OWS <=> k \in w[1]..w[2]
<1> DEFINE solid == {k \in i..(j - 1) : t[k] \notin OWS}
<1>1. w \in solid \X solid /\ solid = w[1]..w[2]
  BY DEF Words
<1>2. \A k \in i..(j - 1) : t[k] \notin OWS <=> k \in w[1]..w[2]
  BY <1>1
<1>3. w[1] \in i..(j - 1) /\ w[2] \in i..(j - 1) /\ w[1] \in w[1]..w[2]
  BY <1>1
<1>4. w = <<w[1], w[2]>>
  BY <1>1
<1> HIDE DEF solid
<1> QED BY <1>2, <1>3, <1>4

LEMMA NoWord ==
  ASSUME NEW t, NEW i \in Int, NEW j \in Int, \A k \in i..(j - 1) : t[k] \in OWS
  PROVE  Words(t, i, j) = {}
<1>1. ASSUME NEW w \in Words(t, i, j) PROVE FALSE
  <2>1. w[1] \in i..(j - 1) /\ w[2] \in w[1]..(j - 1)
        /\ (t[w[1]] \notin OWS <=> w[1] \in w[1]..w[2])
    BY WordHas
  <2> QED BY <2>1
<1> QED BY <1>1

(* Two words are none.                                                      *)
LEMMA NotOneWord ==
  ASSUME NEW t, NEW i \in Int, NEW j \in Int, NEW a \in i..(j - 1), NEW b \in a..(j - 1),
         NEW c \in b..(j - 1), t[a] \notin OWS, t[b] \in OWS, t[c] \notin OWS
  PROVE  Words(t, i, j) = {}
<1>1. ASSUME NEW w \in Words(t, i, j) PROVE FALSE
  <2>1. w[1] \in i..(j - 1) /\ w[2] \in w[1]..(j - 1)
    BY WordHas
  <2>2. \A k \in i..(j - 1) : t[k] \notin OWS <=> k \in w[1]..w[2]
    BY WordHas
  <2>3. a \in i..(j - 1) /\ b \in i..(j - 1) /\ c \in i..(j - 1)
    OBVIOUS
  <2>4. a \in w[1]..w[2] /\ c \in w[1]..w[2] /\ b \notin w[1]..w[2]
    BY <2>2, <2>3
  <2> QED BY <2>1, <2>4
<1> QED BY <1>1

(***************************************************************************)
(* A parameter's name.                                                      *)
(***************************************************************************)
Blank(i, j) == \A k \in i..(j - 1) : Text[k] \in OWS

Solid(i, j) == \A k \in i..(j - 1) : Text[k] \notin OWS

Clear(i, j, set) == \A k \in i..(j - 1) : Text[k] \notin set

LEMMA Apart ==
  /\ \A c \in OWS : c \notin {"=", ",", ";", ".", "0", "1", "*", Quote} /\ c \notin Digit
  /\ \A c \in {"=", ",", ";"} : c \notin Digit /\ c \notin {".", "0", "1", "*", Quote}
  /\ \A c \in {",", ";"} : c # "="
  /\ "." \notin Digit /\ Quote \notin {"0", "1", "*", "."}
<1>1. \A c \in OWS : c \notin {"=", ",", ";", ".", "0", "1", "*", Quote}
  BY DEF OWS, Quote
<1>2. \A c \in {"=", ",", ";"} : c \notin {".", "0", "1", "*", Quote}
  BY DEF Quote
<1>3. \A c \in {" ", "\t", "=", ",", ";", "."} : c \notin Digit
  <2>1. \A k \in 1..10 : k \in {1, 2, 3, 4, 5, 6, 7, 8, 9, 10}
    OBVIOUS
  <2>2. \A c \in {" ", "\t", "=", ",", ";", "."} :
          /\ c # Digits[1] /\ c # Digits[2] /\ c # Digits[3] /\ c # Digits[4]
          /\ c # Digits[5] /\ c # Digits[6] /\ c # Digits[7] /\ c # Digits[8]
          /\ c # Digits[9] /\ c # Digits[10]
    BY DEF Digits
  <2> QED BY <2>1, <2>2 DEF Digit
<1>4. \A c \in OWS : c \notin Digit
  BY <1>3 DEF OWS
<1>5. \A c \in {"=", ",", ";"} : c \notin Digit
  BY <1>3
<1>6. "." \notin Digit
  BY <1>3
<1>7. Quote \notin {"0", "1", "*", "."} /\ \A c \in {",", ";"} : c # "="
  BY DEF Quote
<1> QED BY <1>1, <1>2, <1>4, <1>5, <1>6, <1>7

LEMMA ClearDelims ==
  ASSUME TextType, NEW i \in Int, NEW j \in Int, Clear(i, j, {"=", ",", ";"}) \/ Clear(i, j, {",", ";"})
  PROVE  \A k \in i..(j - 1) : k \notin Delims
BY DelimsHave DEF Clear

(* Where the walk stops at a delimiter there is one, or the end.            *)
LEMMA EndsHere ==
  ASSUME TextType, NEW i \in 1..End, Delimited(i), Synced(i, "plain")
  PROVE  i = End \/ i \in Delims
<1>1. CASE i < End
  <2>0. i # End
    BY <1>1, EndTyped
  <2>1. Text[i] \in {",", ";"}
    BY <2>0 DEF Delimited
  <2> QED BY <1>1, <2>1, UnquotedIs DEF Delims
<1> QED BY <1>1, EndTyped

AtParameter == TypeOK /\ Parameter /\ ~quoted_name /\ NamesUnquoted(Text) /\ Synced(p, "plain")

(* The places of the name, and what is before, between and behind them.     *)
NameSpots ==
  /\ End \in Nat /\ p \in 1..End /\ p < End /\ p + 1 \in 1..End
  /\ NStart \in (p + 1)..End /\ NEnd \in NStart..End /\ After \in NEnd..End /\ After \in 1..End

NameParts ==
  /\ NameSpots
  /\ Blank(p + 1, NStart) /\ Solid(NStart, NEnd) /\ Blank(NEnd, After)
  /\ Clear(p + 1, After, {"=", ",", ";"})
  /\ NStart < End => Text[NStart] \notin OWS
  /\ NEnd < End => Text[NEnd] \in OWS \/ Text[NEnd] \in {"=", ",", ";"}
  /\ After < End => Text[After] \notin OWS

LEMMA NamePlaced ==
  ASSUME TypeOK, Parameter
  PROVE  NameParts
<1>1. TextType /\ p \in 1..End /\ p < End /\ End \in Nat
  BY TextTyped, EndTyped DEF TypeOK, Parameter, Is
<1>2. /\ p + 1 \in 1..End /\ NStart \in (p + 1)..End /\ NEnd \in NStart..End /\ After \in NEnd..End
  BY ParameterPlaces
<1>3. NStart \in 1..End /\ NEnd \in 1..End /\ After \in 1..End
  BY <1>1, <1>2
<1>4. Blank(p + 1, NStart) /\ (NStart < End => Text[NStart] \notin OWS)
  BY <1>1, <1>2, PastStops DEF NStart, Blank
<1>5. Blank(NEnd, After) /\ (After < End => Text[After] \notin OWS)
  BY <1>1, <1>3, PastStops DEF After, Blank
<1> DEFINE set == OWS \cup {"=", ";", ","}
<1>6. (NEnd < End => Text[NEnd] \in set) /\ \A k \in NStart..(NEnd - 1) : Text[k] \notin set
  BY <1>1, <1>3, UptoStops DEF NEnd
<1>7. Solid(NStart, NEnd) /\ Clear(NStart, NEnd, {"=", ",", ";"})
  BY <1>6 DEF Solid, Clear
<1>8. NEnd < End => Text[NEnd] \in OWS \/ Text[NEnd] \in {"=", ",", ";"}
  BY <1>6
<1> HIDE DEF set
<1>9. Clear(p + 1, NStart, {"=", ",", ";"}) /\ Clear(NEnd, After, {"=", ",", ";"})
  BY <1>4, <1>5, Apart DEF Clear, Blank
<1>10. \A k \in (p + 1)..(After - 1) : k \in (p + 1)..(NStart - 1) \/ k \in NStart..(NEnd - 1) \/ k \in NEnd..(After - 1)
  BY <1>1, <1>2, <1>3
<1>11. Clear(p + 1, After, {"=", ",", ";"})
  BY <1>7, <1>9, <1>10 DEF Clear
<1> QED BY <1>1, <1>2, <1>3, <1>4, <1>5, <1>7, <1>8, <1>11 DEF NameParts, NameSpots

(* The name ends at or after the blanks that follow it.                     *)
LEMMA NameReaches ==
  ASSUME TypeOK, Parameter
  PROVE  /\ NameUntil(Text, p) \in After..Until(Text, p + 1) /\ Until(Text, p + 1) \in After..End
         /\ NameUntil(Text, p) = After => HasValue \/ Delimited(After)
<1>1. TextType /\ NameParts /\ NameSpots /\ Naming(p, NameUntil(Text, p)) /\ Ending(p + 1, Until(Text, p + 1))
  BY TextTyped, NamePlaced, NameUntilEnds, UntilEnds DEF NameParts, NameSpots
<1> DEFINE e == NameUntil(Text, p)
           u == Until(Text, p + 1)
<1>2. e \in (p + 1)..u /\ (e = u \/ Text[e] = "=") /\ u \in (p + 1)..End /\ (u = End \/ u \in Delims)
  BY <1>1 DEF Naming, Ending, NameSpots
<1>3. u = End \/ Text[u] \in {",", ";"}
  BY <1>1, <1>2, DelimsHave
<1> HIDE DEF e, u
<1>4. \A k \in (p + 1)..(After - 1) : k # e /\ k # u
  <2>1. \A k \in (p + 1)..(After - 1) : Text[k] \notin {"=", ",", ";"}
    BY <1>1 DEF NameParts, Clear
  <2>2. \A k \in (p + 1)..(After - 1) : k # End
    BY <1>1 DEF NameSpots
  <2> QED BY <1>2, <1>3, <2>1, <2>2
<1>n. e \in (p + 1)..u /\ u \in (p + 1)..End
  BY <1>2
<1>s. p \in Nat /\ After \in Nat /\ End \in Nat /\ e \in Nat /\ u \in Nat
  BY <1>1, <1>n DEF NameSpots
<1>5. e \in After..u /\ u \in After..End
  <2>1. ~(e < After)
    <3>1. e < After => e \in (p + 1)..(After - 1)
      BY <1>s, <1>n
    <3> QED BY <1>4, <3>1
  <2>2. ~(u < After)
    <3>1. u < After => u \in (p + 1)..(After - 1)
      BY <1>s, <1>n
    <3> QED BY <1>4, <3>1
  <2> QED BY <1>s, <1>n, <2>1, <2>2
<1>6. ASSUME e = After PROVE HasValue \/ Delimited(After)
  <2>1. CASE Text[e] = "=" /\ e < End
    BY <1>6, <2>1 DEF HasValue, Is
  <2>2. CASE e = u
    BY <1>3, <1>6, <2>2 DEF Delimited
  <2>3. e = u \/ e < End
    BY <1>1, <1>n DEF NameSpots
  <2>4. e = u \/ (Text[e] = "=" /\ e < End)
    BY <1>2, <2>3
  <2> QED BY <2>1, <2>2, <2>4
<1> QED BY <1>5, <1>6 DEF e, u

(* There is no quoted-string before the blanks' end.                        *)
LEMMA NamePlain ==
  ASSUME AtParameter
  PROVE  ~QuotedName /\ Synced(After, "plain") /\ (HasValue => Synced(Value, "plain"))
<1>1. TypeOK /\ TextType /\ NameSpots /\ NameUntil(Text, p) \in After..Until(Text, p + 1)
      /\ Until(Text, p + 1) \in After..End
  BY TextTyped, NamePlaced, NameReaches DEF AtParameter, NameParts
<1>2. Text[p] = ";" /\ p < End /\ p \in 1..End
  BY <1>1 DEF AtParameter, Parameter, Is, NameSpots
<1>3. p \in Unquoted(Text, {";"})
  BY <1>1, <1>2, UnquotedIs DEF AtParameter
<1>4. \A k \in (p + 1)..(NameUntil(Text, p) - 1) : Text[k] # Quote
  BY <1>3 DEF AtParameter, NamesUnquoted
<1>5. \A k \in NStart..(NEnd - 1) : k \in (p + 1)..(NameUntil(Text, p) - 1)
  BY <1>1 DEF NameSpots
<1>6. ~QuotedName
  BY <1>4, <1>5 DEF QuotedName, AtParameter
<1> QED BY <1>6, ParameterPlain DEF AtParameter

LEMMA NameAt ==
  ASSUME AtParameter, HasValue \/ Delimited(After)
  PROVE  /\ NameUntil(Text, p) = After
         /\ Delimited(After) => Until(Text, p + 1) = After
<1>1. TypeOK /\ TextType /\ NameParts /\ NameSpots /\ NameUntil(Text, p) \in After..Until(Text, p + 1)
      /\ Until(Text, p + 1) \in After..End
  BY TextTyped, NamePlaced, NameReaches DEF AtParameter, NameParts
<1>2. ASSUME Delimited(After) PROVE Until(Text, p + 1) = After
  <2>1. After = End \/ After \in Delims
    BY <1>1, <1>2, EndsHere, NamePlain DEF NameSpots
  <2>2. \A k \in (p + 1)..(After - 1) : k \notin Delims
    <3>1. Clear(p + 1, After, {"=", ",", ";"})
      BY <1>1 DEF NameParts
    <3>2. p + 1 \in Int /\ After \in Int
      BY <1>1 DEF NameSpots
    <3> QED BY <1>1, <3>1, <3>2, ClearDelims
  <2>3. After \in (p + 1)..End
    BY <1>1 DEF NameSpots
  <2>4. Ending(p + 1, After)
    BY <2>1, <2>2, <2>3 DEF Ending
  <2> QED BY <1>1, <2>4, UntilIs DEF NameSpots
<1>3. CASE Delimited(After)
  <2>1. NameUntil(Text, p) \in After..After /\ After \in Nat
    BY <1>1, <1>2, <1>3 DEF NameSpots
  <2>2. NameUntil(Text, p) = After
    BY <2>1
  <2> QED BY <1>2, <2>2
<1>4. CASE HasValue
  <2>1. Text[After] = "="
    BY <1>4 DEF HasValue, Is
  <2>2. \A k \in (p + 1)..(After - 1) : Text[k] # "="
    BY <1>1 DEF NameParts, Clear
  <2>3. After \in (p + 1)..Until(Text, p + 1)
    BY <1>1 DEF NameSpots
  <2>4. Naming(p, After)
    BY <2>1, <2>2, <2>3 DEF Naming
  <2>5. NameUntil(Text, p) = After
    BY <1>1, <2>4, NameUntilIs DEF NameSpots
  <2> QED BY <1>2, <2>5
<1> QED BY <1>3, <1>4

(* The name that the walk found, and where it is none.                      *)
LEMMA NameRead ==
  ASSUME AtParameter
  PROVE  /\ HasName /\ (HasValue \/ Delimited(After)) => NamesOf(Text, p) = {<<NStart, NEnd - 1>>}
         /\ ~(HasName /\ (HasValue \/ Delimited(After))) => NamesOf(Text, p) = {}
<1>1. TypeOK /\ TextType /\ NameParts /\ NameSpots /\ NameUntil(Text, p) \in After..Until(Text, p + 1)
      /\ Until(Text, p + 1) \in After..End
  BY TextTyped, NamePlaced, NameReaches DEF AtParameter, NameParts
<1> DEFINE e == NameUntil(Text, p)
<1>2. NamesOf(Text, p) = Words(Text, p + 1, e)
  BY DEF NamesOf
<1>3. Blank(p + 1, NStart) /\ Solid(NStart, NEnd) /\ Blank(NEnd, After)
  BY <1>1 DEF NameParts
<1>n. e \in Nat /\ e \in After..End /\ p + 1 \in Int
  BY <1>1 DEF NameSpots
<1> HIDE DEF e
<1>4. CASE HasName /\ (HasValue \/ Delimited(After))
  <2>1. e = After
    BY <1>4, NameAt DEF e
  <2>2. /\ NStart \in (p + 1)..(After - 1) /\ NEnd - 1 \in NStart..(After - 1)
        /\ (NEnd - 1) + 1 = NEnd /\ NStart..(NEnd - 1) = NStart..(NEnd - 1) /\ After \in Int
    BY <1>1, <1>4 DEF NameSpots, HasName
  <2>3. Words(Text, p + 1, After) = {<<NStart, NEnd - 1>>}
    BY <1>n, <1>3, <2>2, WordIs DEF Blank, Solid
  <2> QED BY <1>2, <1>4, <2>1, <2>3
<1>5. CASE ~HasName /\ (HasValue \/ Delimited(After))
  <2>1. e = After
    BY <1>5, NameAt DEF e
  <2>2. NStart = NEnd
    BY <1>1, <1>5 DEF NameSpots, HasName
  <2>3. \A k \in (p + 1)..(After - 1) : k \in (p + 1)..(NStart - 1) \/ k \in NEnd..(After - 1)
    BY <1>1, <2>2 DEF NameSpots
  <2>4. \A k \in (p + 1)..(After - 1) : Text[k] \in OWS
    BY <1>3, <2>3 DEF Blank
  <2>5. After \in Int
    BY <1>1 DEF NameSpots
  <2> QED BY <1>2, <1>5, <1>n, <2>1, <2>4, <2>5, NoWord
<1>6. CASE ~(HasValue \/ Delimited(After))
  <2>1. After # End
    BY <1>6 DEF Delimited
  <2>n. e # After
    BY <1>1, <1>6, NameReaches DEF e, AtParameter
  <2>2. After < End /\ e # After /\ e \in Nat
    BY <1>1, <1>n, <2>1, <2>n DEF NameSpots
  <2>3. Text[After] \notin {"=", ",", ";"}
    BY <1>6, <2>2 DEF HasValue, Delimited, Is
  <2>4. Text[After] \notin OWS
    BY <1>1, <2>2 DEF NameParts
  <2>5. ASSUME NEnd = After PROVE FALSE
    BY <1>1, <2>2, <2>3, <2>4, <2>5 DEF NameParts
  <2>6. NEnd < After /\ NEnd < End /\ NEnd \in NEnd..(After - 1)
    BY <1>1, <2>2, <2>5 DEF NameSpots
  <2>7. Text[NEnd] \in OWS
    BY <1>3, <2>6 DEF Blank
  <2>8. NStart # NEnd
    <3>1. SUFFICES ASSUME NStart = NEnd PROVE FALSE
      OBVIOUS
    <3>2. NStart < End
      BY <2>6, <3>1
    <3> QED BY <1>1, <2>7, <3>1, <3>2 DEF NameParts
  <2>9. NStart \in NStart..(NEnd - 1) /\ NStart \in (p + 1)..(e - 1) /\ NEnd \in NStart..(e - 1) /\ After \in NEnd..(e - 1)
    BY <1>1, <1>n, <2>2, <2>6, <2>8 DEF NameSpots
  <2>10. Text[NStart] \notin OWS
    BY <1>3, <2>9 DEF Solid
  <2>11. Words(Text, p + 1, e) = {}
    BY <1>n, <2>4, <2>7, <2>9, <2>10, NotOneWord
  <2> QED BY <1>2, <1>6, <2>11
<1> QED BY <1>4, <1>5, <1>6

LEMMA WeightRead ==
  ASSUME AtParameter
  PROVE  IsWeight(Text, p) <=> HasName /\ (HasValue \/ Delimited(After)) /\ IsQ
<1>1. CASE HasName /\ (HasValue \/ Delimited(After))
  <2>1. NamesOf(Text, p) = {<<NStart, NEnd - 1>>}
    BY <1>1, NameRead
  <2>2. NStart = NEnd - 1 <=> NEnd = NStart + 1
    <3>1. NameSpots
      BY NamePlaced DEF NameParts, AtParameter
    <3> QED BY <3>1 DEF NameSpots
  <2> DEFINE a == NStart
             b == NEnd - 1
  <2>3. NamesOf(Text, p) = {<<a, b>>} /\ (a = b <=> NEnd = NStart + 1) /\ a = NStart
    BY <2>1, <2>2
  <2> HIDE DEF a, b
  <2>4. IsWeight(Text, p) <=> (a = b /\ Text[a] \in {"q", "Q"})
    BY <2>3 DEF IsWeight
  <2> QED BY <1>1, <2>3, <2>4 DEF IsQ
<1>2. CASE ~(HasName /\ (HasValue \/ Delimited(After)))
  <2>1. NamesOf(Text, p) = {}
    BY <1>2, NameRead
  <2> QED BY <1>2, <2>1 DEF IsWeight
<1> QED BY <1>1, <1>2

(***************************************************************************)
(* A weight.                                                                *)
(***************************************************************************)
DecimalsOf(i) == IF Text[i] = "0" THEN Digit ELSE {"0"}

LEMMA DecimalsApart ==
  ASSUME NEW i, NEW c \in DecimalsOf(i)
  PROVE  c \notin OWS \cup {"=", ",", ";", Quote}
<1>1. c \in Digit \/ c = "0"
  BY DEF DecimalsOf
<1>2. CASE c \in Digit
  BY <1>2, Apart, Octets
<1>3. CASE c = "0"
  BY <1>3, Apart, Octets
<1> QED BY <1>1, <1>2, <1>3

(* The octets of what is read as a qvalue.                                  *)
LEMMA QvalueOctets ==
  ASSUME TextType, NEW i \in 1..End, Is(i, {"0", "1"})
  PROVE  /\ QvalueEnd(i) \in (i + 1)..End /\ QvalueEnd(i) - 1 \in i..(i + 4)
         /\ Point(i) => QvalueEnd(i) \in (i + 2)..End
         /\ ~Point(i) => QvalueEnd(i) = i + 1
         /\ \A k \in (i + 2)..(QvalueEnd(i) - 1) : Text[k] \in DecimalsOf(i)
<1>1. End \in Nat /\ i < End /\ i + 1 \in 1..End
  BY EndTyped DEF Is
<1> DEFINE set == DecimalsOf(i)
           end == QvalueEnd(i)
           run == Past(i + 2, set)
<1>2. CASE ~Point(i)
  <2>1. end = i + 1
    BY <1>2 DEF QvalueEnd
  <2> HIDE DEF end, set
  <2>2. end \in (i + 1)..End /\ end - 1 \in i..(i + 4) /\ \A k \in (i + 2)..(end - 1) : FALSE
    BY <1>1, <2>1
  <2> QED BY <1>2, <2>1, <2>2 DEF end
<1>3. CASE Point(i)
  <2>0. i + 1 < End
    BY <1>3 DEF Point, Is
  <2>1. i + 2 \in 1..End
    BY <1>1, <2>0
  <2>2. run \in (i + 2)..End /\ \A k \in (i + 2)..(run - 1) : Text[k] \in set
    BY <2>1, PastStops
  <2>3. end = Least(run, i + 2 + 3)
    BY <1>3 DEF QvalueEnd, DecimalsEnd, DecimalsOf
  <2> HIDE DEF end, run, set
  <2>4. end \in (i + 2)..End /\ end <= run /\ end - 1 \in i..(i + 4) /\ end \in (i + 1)..End
    BY <1>1, <2>1, <2>2, <2>3 DEF Least
  <2>5. \A k \in (i + 2)..(end - 1) : k \in (i + 2)..(run - 1)
    BY <1>1, <2>2, <2>4
  <2>6. \A k \in (i + 2)..(end - 1) : Text[k] \in set
    BY <2>2, <2>5
  <2> QED BY <1>3, <2>4, <2>6 DEF end, set
<1> QED BY <1>2, <1>3

LEMMA QvalueClear ==
  ASSUME TextType, NEW i \in 1..End, Is(i, {"0", "1"})
  PROVE  Solid(i, QvalueEnd(i)) /\ Clear(i, QvalueEnd(i), {"=", ",", ";"})
<1>1. i < End /\ End \in Nat /\ QvalueEnd(i) \in (i + 1)..End
      /\ (~Point(i) => QvalueEnd(i) = i + 1)
      /\ \A k \in (i + 2)..(QvalueEnd(i) - 1) : Text[k] \in DecimalsOf(i)
  BY QvalueOctets, EndTyped DEF Is
<1>2. Text[i] \in {"0", "1"}
  BY DEF Is
<1>3. Text[i] \notin OWS \cup {"=", ",", ";"}
  BY <1>2, Apart
<1>4. Point(i) => Text[i + 1] \notin OWS \cup {"=", ",", ";"}
  BY Apart DEF Point, Is
<1> DEFINE e == QvalueEnd(i)
<1>5. e \in (i + 1)..End /\ (~Point(i) => e = i + 1)
  BY <1>1
<1>6. \A k \in (i + 2)..(e - 1) : Text[k] \notin OWS \cup {"=", ",", ";"}
  BY <1>1, DecimalsApart
<1> HIDE DEF e
<1>7. \A k \in i..(e - 1) : k = i \/ (k = i + 1 /\ Point(i)) \/ k \in (i + 2)..(e - 1)
  BY <1>1, <1>5
<1>8. \A k \in i..(e - 1) : Text[k] \notin OWS \cup {"=", ",", ";"}
  BY <1>3, <1>4, <1>6, <1>7
<1> QED BY <1>8 DEF Solid, Clear, e

LEMMA QvalueMeans ==
  ASSUME TextType, NEW i \in 1..End, Is(i, {"0", "1"}), NEW w, w = <<i, QvalueEnd(i) - 1>>
  PROVE  IsQvalue(Text, w) /\ Thousandths(Text, w) = Qvalue(i)
<1> DEFINE e == QvalueEnd(i)
<1>1. /\ End \in Nat /\ e \in (i + 1)..End /\ e - 1 \in i..(i + 4)
      /\ ~Point(i) => e = i + 1
  BY QvalueOctets, EndTyped
<1>2. \A k \in (i + 2)..(e - 1) : Text[k] \in DecimalsOf(i)
  BY QvalueOctets
<1>3. w[1] = i /\ w[2] = e - 1
  OBVIOUS
<1>e. e = QvalueEnd(i)
  OBVIOUS
<1> HIDE DEF e
<1>4. IsQvalue(Text, w)
  <2>1. Text[i] \in {"0", "1"}
    BY DEF Is
  <2>2. i < e - 1 => Point(i)
    BY <1>1
  <2>3. i < e - 1 => Text[i + 1] = "."
    BY <2>2 DEF Point, Is
  <2>4. e - 1 <= i + 4
    BY <1>1
  <2> QED BY <1>2, <1>3, <2>1, <2>3, <2>4 DEF IsQvalue, DecimalsOf
<1> DEFINE digit(k) == IF k <= e - 1 THEN CHOOSE d \in 0..9 : Digits[d + 1] = Text[k] ELSE 0
<1>5. \A k \in Int : k <= e - 1 <=> k < e
  BY <1>1
<1>6. \A k \in Int : digit(k) = Decimal(k, e)
  BY <1>5 DEF Decimal
<1>7. Thousandths(Text, w) = IF Text[i] = "1" THEN 1000
                             ELSE 100 * digit(i + 2) + 10 * digit(i + 3) + digit(i + 4)
  BY <1>3 DEF Thousandths
<1> HIDE DEF digit
<1>8. CASE Text[i] = "1"
  BY <1>4, <1>7, <1>8 DEF Qvalue
<1>9. CASE Text[i] # "1" /\ Point(i)
  <2>1. digit(i + 2) = Decimal(i + 2, e) /\ digit(i + 3) = Decimal(i + 3, e) /\ digit(i + 4) = Decimal(i + 4, e)
    BY <1>6
  <2> QED BY <1>4, <1>7, <1>9, <1>e, <2>1 DEF Qvalue
<1>10. CASE Text[i] # "1" /\ ~Point(i)
  <2>1. e = i + 1
    BY <1>1, <1>10
  <2>2. digit(i + 2) = 0 /\ digit(i + 3) = 0 /\ digit(i + 4) = 0
    BY <2>1 DEF digit
  <2>3. 100 * digit(i + 2) + 10 * digit(i + 3) + digit(i + 4) = 0
    BY <2>2
  <2>4. Qvalue(i) = 0
    BY <1>10 DEF Qvalue
  <2> QED BY <1>4, <1>7, <1>10, <2>3, <2>4
<1> QED BY <1>8, <1>9, <1>10

(* Blanks and delimiters break a word off.                                  *)
Breaks(i) == i < End => Text[i] \in OWS \/ Text[i] \in {",", ";"}

(* No other word that begins there is one.                                  *)
LEMMA QvalueWhole ==
  ASSUME TextType, NEW i \in 1..End, NEW b \in i..(End - 1), NEW w, w = <<i, b>>, IsQvalue(Text, w),
         Breaks(b + 1)
  PROVE  Is(i, {"0", "1"}) /\ QvalueEnd(i) = b + 1
<1>1. End \in Nat /\ i < End /\ b + 1 \in 1..End /\ i + 1 \in 1..End
  BY EndTyped
<1>2. w[1] = i /\ w[2] = b
  OBVIOUS
<1>3. /\ Text[i] \in {"0", "1"} /\ b <= i + 4
      /\ i < b => Text[i + 1] = "."
      /\ \A k \in (i + 2)..b : Text[k] \in DecimalsOf(i)
  BY <1>2 DEF IsQvalue, DecimalsOf
<1>4. Is(i, {"0", "1"})
  BY <1>1, <1>3 DEF Is
<1>5. CASE i = b
  <2>1. ~Point(i)
    BY <1>5, Apart DEF Point, Is, Breaks
  <2> QED BY <1>4, <1>5, <2>1 DEF QvalueEnd
<1>6. CASE i < b
  <2>1. i + 1 < End /\ i + 2 \in 1..End /\ b + 1 \in (i + 2)..End
    BY <1>1, <1>6
  <2>2. Point(i)
    BY <1>3, <1>6, <2>1 DEF Point, Is
  <2>3. b + 1 < End => Text[b + 1] \notin DecimalsOf(i)
    BY DecimalsApart DEF Breaks
  <2>4. \A k \in (i + 2)..((b + 1) - 1) : k \in (i + 2)..b
    BY <1>1
  <2>5. \A k \in (i + 2)..((b + 1) - 1) : Text[k] \in DecimalsOf(i)
    BY <1>3, <2>4
  <2>6. RefPast(Text, i + 2, DecimalsOf(i)) = b + 1
    BY <2>1, <2>3, <2>5, PastIs
  <2>7. Past(i + 2, DecimalsOf(i)) = b + 1
    BY <2>1, <2>6, SameLoops
  <2>8. QvalueEnd(i) = Least(b + 1, i + 2 + 3)
    BY <2>2, <2>7 DEF QvalueEnd, DecimalsEnd, DecimalsOf
  <2>n. b <= i + 4
    BY <1>3
  <2>9. Least(b + 1, i + 2 + 3) = b + 1
    BY <1>1, <2>n DEF Least
  <2> QED BY <1>4, <2>8, <2>9
<1>7. i = b \/ i < b
  BY <1>1
<1> QED BY <1>5, <1>6, <1>7

(***************************************************************************)
(* A parameter's value.                                                     *)
(***************************************************************************)
ValueSpots ==
  /\ After + 1 \in 1..End /\ Value \in (After + 1)..End /\ Value \in 1..End
  /\ Until(Text, p + 1) \in (After + 1)..End

LEMMA ValuePlaced ==
  ASSUME AtParameter, HasValue
  PROVE  /\ ValueSpots /\ Blank(After + 1, Value)
         /\ Value < End => Text[Value] \notin OWS
<1>1. TypeOK /\ Parameter /\ TextType /\ NameSpots /\ After < End /\ Text[After] = "="
  BY TextTyped, NamePlaced DEF AtParameter, NameParts, HasValue, Is
<1>2. After + 1 \in 1..End /\ Value \in (After + 1)..End
  BY <1>1, ParameterPlaces
<1>3. Blank(After + 1, Value) /\ (Value < End => Text[Value] \notin OWS)
  BY <1>1, <1>2, PastStops DEF Value, Blank
<1> DEFINE u == Until(Text, p + 1)
<1>4. u \in After..End /\ (u = End \/ u \in Delims)
  BY <1>1, NameReaches, UntilEnds DEF NameSpots, Ending
<1>5. u = End \/ Text[u] \in {",", ";"}
  BY <1>1, <1>4, DelimsHave
<1> HIDE DEF u
<1>7. After < End /\ NameSpots
  BY <1>1
<1>n. After # End
  BY <1>7 DEF NameSpots
<1>6. u # After
  BY <1>1, <1>5, <1>n, Apart
<1>8. Value \in 1..End /\ u \in (After + 1)..End
  BY <1>2, <1>4, <1>6, <1>7 DEF NameSpots
<1> QED BY <1>2, <1>3, <1>8 DEF ValueSpots, u

(* The word of the value begins where the walk finds the value.             *)
LEMMA ValueWord ==
  ASSUME AtParameter, HasValue, NEW w \in ValuesOf(Text, p)
  PROVE  /\ w = <<Value, w[2]>> /\ w[2] \in Value..(Until(Text, p + 1) - 1)
         /\ Blank(w[2] + 1, Until(Text, p + 1))
<1> DEFINE u == Until(Text, p + 1)
<1>1. ValueSpots /\ Blank(After + 1, Value) /\ NameUntil(Text, p) = After
  BY ValuePlaced, NameAt
<1>2. w \in Words(Text, After + 1, u)
  BY <1>1 DEF ValuesOf
<1>n. NameSpots
  BY NamePlaced DEF NameParts, AtParameter
<1>3. /\ After + 1 \in Nat /\ u \in Nat /\ End \in Nat /\ Value \in (After + 1)..End
      /\ u \in (After + 1)..End
  BY <1>1, <1>n DEF ValueSpots, NameSpots
<1>s. Value < End => Text[Value] \notin OWS
  BY ValuePlaced
<1> HIDE DEF u
<1>4. /\ w[1] \in (After + 1)..(u - 1) /\ w[2] \in w[1]..(u - 1) /\ w = <<w[1], w[2]>>
      /\ \A k \in (After + 1)..(u - 1) : Text[k] \notin OWS <=> k \in w[1]..w[2]
  BY <1>2, <1>3, WordHas
<1>5. ~(w[1] < Value)
  <2>1. SUFFICES ASSUME w[1] < Value PROVE FALSE
    OBVIOUS
  <2>2. w[1] \in (After + 1)..(Value - 1) /\ w[1] \in w[1]..w[2]
    BY <1>3, <1>4, <2>1
  <2> QED BY <1>1, <1>4, <2>2 DEF Blank
<1>6. ~(Value < w[1])
  <2>1. SUFFICES ASSUME Value < w[1] PROVE FALSE
    OBVIOUS
  <2>2. Value \in (After + 1)..(u - 1) /\ Value < End /\ Value \notin w[1]..w[2]
    BY <1>3, <1>4, <2>1
  <2> QED BY <1>4, <1>s, <2>2
<1>7. w[1] = Value
  BY <1>3, <1>4, <1>5, <1>6
<1>8. \A k \in (w[2] + 1)..(u - 1) : k \in (After + 1)..(u - 1) /\ k \notin w[1]..w[2]
  BY <1>3, <1>4
<1>9. Blank(w[2] + 1, u)
  BY <1>4, <1>8 DEF Blank
<1> QED BY <1>4, <1>7, <1>9 DEF u

(* What the walk takes as a weight, up to where it goes on.                 *)
GoodQ ==
  /\ Is(Value, {"0", "1"})
  /\ Breaks(QvalueEnd(Value)) /\ Delimited(Past(QvalueEnd(Value), OWS))

LEMMA WeightTaken ==
  ASSUME AtParameter, HasValue, GoodQ
  PROVE  WeightsGiven(Text, p) = {Qvalue(Value)}
<1> DEFINE u == Until(Text, p + 1)
           e == QvalueEnd(Value)
           next == Past(e, OWS)
<1>1. ValueSpots /\ Blank(After + 1, Value) /\ NameUntil(Text, p) = After /\ TextType
      /\ Is(Value, {"0", "1"}) /\ NameParts /\ NameSpots
  BY ValuePlaced, NameAt, TextTyped, NamePlaced DEF AtParameter, GoodQ, NameParts
<1>2. Value \in 1..End /\ e \in (Value + 1)..End /\ End \in Nat /\ Synced(e, "plain")
  BY <1>1, QvalueOctets, NamePlain, QvaluePlain DEF ValueSpots, NameSpots
<1>3. Solid(Value, e) /\ Clear(Value, e, {"=", ",", ";"})
  BY <1>1, QvalueClear DEF ValueSpots
<1> HIDE DEF e
<1>4. e \in 1..End
  BY <1>2
<1>5. next \in e..End /\ Blank(e, next) /\ Synced(next, "plain")
  BY <1>1, <1>2, <1>4, PastStops, PastPlain, Octets DEF Blank
<1>6. Delimited(next)
  BY DEF GoodQ, e
<1> HIDE DEF next
<1>7. next \in 1..End /\ next \in (After + 1)..End
  BY <1>1, <1>2, <1>4, <1>5 DEF ValueSpots
<1>8. next = End \/ next \in Delims
  BY <1>1, <1>5, <1>6, <1>7, EndsHere
<1>9. \A k \in (p + 1)..(next - 1) : k \notin Delims
  <2>1. Text[After] = "="
    BY DEF HasValue, Is
  <2>2. Clear(p + 1, After, {",", ";"}) /\ Clear(After + 1, Value, {",", ";"})
        /\ Clear(Value, e, {",", ";"}) /\ Clear(e, next, {",", ";"})
    BY <1>1, <1>3, <1>5, Apart DEF NameParts, Clear, Blank
  <2>3. \A k \in (p + 1)..(next - 1) : \/ k \in (p + 1)..(After - 1) \/ k = After \/ k \in (After + 1)..(Value - 1)
                                       \/ k \in Value..(e - 1) \/ k \in e..(next - 1)
    BY <1>1, <1>2, <1>4, <1>5 DEF NameSpots, ValueSpots
  <2>4. Clear(p + 1, next, {",", ";"})
    BY <2>1, <2>2, <2>3, Apart DEF Clear
  <2>5. p + 1 \in Int /\ next \in Int
    BY <1>1, <1>5, <1>2 DEF NameSpots
  <2> QED BY <1>1, <2>4, <2>5, ClearDelims
<1>10. next \in (p + 1)..End
  BY <1>1, <1>7 DEF NameSpots
<1>11. u = next
  BY <1>1, <1>8, <1>9, <1>10, UntilIs DEF Ending, NameSpots
<1>12. ValuesOf(Text, p) = Words(Text, After + 1, next)
  BY <1>1, <1>11 DEF ValuesOf
<1>13. /\ After + 1 \in Int /\ next \in Int /\ Value \in (After + 1)..(next - 1) /\ e - 1 \in Value..(next - 1)
       /\ (e - 1) + 1 = e
  BY <1>1, <1>2, <1>5 DEF ValueSpots, NameSpots
<1>14. ValuesOf(Text, p) = {<<Value, e - 1>>}
  <2>1. Solid(Value, e) /\ Blank(After + 1, Value) /\ Blank(e, next)
    BY <1>1, <1>3, <1>5
  <2>2. /\ \A k \in Value..(e - 1) : Text[k] \notin OWS
        /\ \A k \in (After + 1)..(Value - 1) : Text[k] \in OWS
        /\ \A k \in ((e - 1) + 1)..(next - 1) : Text[k] \in OWS
    BY <1>13, <2>1 DEF Blank, Solid
  <2>3. Words(Text, After + 1, next) = {<<Value, e - 1>>}
    BY <1>13, <2>2, WordIs
  <2> QED BY <1>12, <2>3
<1>15. IsQvalue(Text, <<Value, e - 1>>) /\ Thousandths(Text, <<Value, e - 1>>) = Qvalue(Value)
  BY <1>1, <1>2, QvalueMeans DEF e
<1> QED BY <1>14, <1>15 DEF WeightsGiven

LEMMA WeightRefused ==
  ASSUME AtParameter, HasValue, ~GoodQ
  PROVE  WeightsGiven(Text, p) = {}
<1>1. SUFFICES ASSUME NEW w \in ValuesOf(Text, p), IsQvalue(Text, w) PROVE FALSE
  BY DEF WeightsGiven
<1> DEFINE u == Until(Text, p + 1)
           b == w[2]
<1>2. w = <<Value, b>> /\ b \in Value..(u - 1) /\ Blank(b + 1, u)
  BY ValueWord
<1>3. TextType /\ ValueSpots /\ NameSpots
  BY ValuePlaced, TextTyped, NamePlaced DEF AtParameter, NameParts
<1>4. (u = End \/ u \in Delims) /\ u \in 1..End /\ u \in Nat /\ End \in Nat /\ Value \in 1..End
  <2>1. Ending(p + 1, u)
    BY <1>3, UntilEnds DEF NameSpots
  <2>2. u \in (After + 1)..End /\ Value \in 1..End
    BY <1>3 DEF ValueSpots
  <2> QED BY <1>3, <2>1, <2>2 DEF Ending, NameSpots
<1>5. u = End \/ Text[u] \in {",", ";"}
  BY <1>3, <1>4, DelimsHave
<1> HIDE DEF u, b
<1>6. b + 1 \in 1..End /\ b \in Value..(End - 1) /\ u \in (b + 1)..End
  BY <1>2, <1>4
<1>7. Breaks(b + 1)
  <2>1. b + 1 = u \/ b + 1 \in (b + 1)..(u - 1)
    BY <1>2, <1>4
  <2>2. u < End => u # End
    BY <1>4
  <2> QED BY <1>2, <1>5, <2>1, <2>2 DEF Breaks, Blank
<1>8. Is(Value, {"0", "1"}) /\ QvalueEnd(Value) = b + 1
  BY <1>1, <1>2, <1>3, <1>4, <1>6, <1>7, QvalueWhole
<1>9. Past(b + 1, OWS) = u
  <2>0. u < End => u # End
    BY <1>4
  <2>1. u < End => Text[u] \notin OWS
    BY <1>5, <2>0, Apart
  <2>2. RefPast(Text, b + 1, OWS) = u
    BY <1>2, <1>3, <1>6, <2>1, PastIs DEF Blank
  <2> QED BY <1>3, <1>6, <2>2, SameLoops
<1>10. Delimited(u)
  BY <1>5 DEF Delimited
<1> QED BY <1>7, <1>8, <1>9, <1>10 DEF GoodQ

(* A "q" without a "=" gives none.                                          *)
LEMMA WeightMissing ==
  ASSUME AtParameter, ~HasValue, Delimited(After)
  PROVE  WeightsGiven(Text, p) = {}
<1>1. NameUntil(Text, p) = After /\ Until(Text, p + 1) = After /\ NameSpots
  BY NameAt, NamePlaced DEF AtParameter, NameParts
<1>2. After + 1 \in Int /\ After \in Int /\ \A k \in (After + 1)..(After - 1) : FALSE
  BY <1>1 DEF NameSpots
<1>3. Words(Text, After + 1, After) = {}
  BY <1>2, NoWord
<1> QED BY <1>1, <1>3 DEF WeightsGiven, ValuesOf

(***************************************************************************)
(* Members.                                                                 *)
(***************************************************************************)
LEMMA CommasHave ==
  ASSUME TextType, NEW k \in Commas(Text)
  PROVE  k \in 1..End /\ k < End /\ k \in Int /\ Text[k] = ","
<1>1. k \in 1..End /\ k < End
  BY UnquotedHas DEF Commas
<1>2. k \in Int
  BY <1>1
<1>3. Text[k] = ","
  BY DEF Commas, Unquoted
<1> QED BY <1>1, <1>2, <1>3

LEMMA SemicolonsHave ==
  ASSUME TextType, NEW k \in Semicolons(Text)
  PROVE  k \in 1..End /\ k < End /\ k \in Int /\ Text[k] = ";"
<1>1. k \in 1..End /\ k < End
  BY UnquotedHas DEF Semicolons
<1>2. k \in Int
  BY <1>1
<1>3. Text[k] = ";"
  BY DEF Semicolons, Unquoted
<1> QED BY <1>1, <1>2, <1>3

LEMMA MembersAre ==
  ASSUME TextType
  PROVE  /\ Members(Text) = {1} \cup {k + 1 : k \in Commas(Text)}
         /\ \A m \in Members(Text) : m \in 1..End /\ m \in Int
<1>1. Members(Text) = {1} \cup {k + 1 : k \in Commas(Text)}
  BY DEF Members, Commas
<1>2. ASSUME NEW m \in Members(Text) PROVE m \in 1..End /\ m \in Int
  <2>1. End \in Nat \ {0}
    BY EndTyped
  <2>2. CASE m = 1
    BY <2>1, <2>2
  <2>3. CASE m # 1
    <3>1. PICK k \in Commas(Text) : m = k + 1
      BY <1>1, <2>3
    <3>2. k \in 1..End /\ k < End
      BY CommasHave
    <3> QED BY <2>1, <3>1, <3>2
  <2> QED BY <2>2, <2>3
<1> QED BY <1>1, <1>2

LEMMA SayingAre ==
  ASSUME TextType, NEW form
  PROVE  /\ \A m : m \in Saying(Text, form) <=>
                     m \in Members(Text) /\ HeadSays(Text, m, form) /\ MemberWeight(Text, m) >= 0
         /\ \A m \in Saying(Text, form) : m \in 1..End /\ m \in Int
<1>1. \A m : m \in Saying(Text, form) <=>
               m \in Members(Text) /\ HeadSays(Text, m, form) /\ MemberWeight(Text, m) >= 0
  BY DEF Saying, HeadSays
<1> QED BY <1>1, MembersAre

(* Nothing said in between changes nothing.                                 *)
LEMMA ToldSkip ==
  ASSUME TextType, NEW form, NEW x, NEW u \in Int, NEW v \in Int, u <= v, Told(Text, u, form, x),
         \A n \in Saying(Text, form) : n < u \/ v <= n
  PROVE  Told(Text, v, form, x)
<1> DEFINE said == Saying(Text, form)
<1>1. \A n \in said : n \in Int
  BY SayingAre
<1>2. \A n \in said : n < u \/ v <= n
  OBVIOUS
<1> HIDE DEF said
<1>3. CASE \A m \in said : u <= m
  <2>1. x = -1
    BY <1>3 DEF Told, said
  <2>2. \A m \in said : v <= m
    BY <1>1, <1>2, <1>3
  <2> QED BY <2>1, <2>2 DEF Told, said
<1>4. CASE ~\A m \in said : u <= m
  <2>1. PICK m \in said : m < u /\ x = MemberWeight(Text, m) /\ \A n \in said : n <= m \/ u <= n
    BY <1>4 DEF Told, said
  <2>2. m < v /\ \A n \in said : n <= m \/ v <= n
    BY <1>1, <1>2, <2>1
  <2>3. ~\A n \in said : v <= n
    BY <1>1, <2>2
  <2> QED BY <2>1, <2>2, <2>3 DEF Told, said
<1> QED BY <1>3, <1>4

LEMMA ToldNext ==
  ASSUME TextType, NEW form, NEW m \in Saying(Text, form)
  PROVE  Told(Text, m + 1, form, MemberWeight(Text, m))
<1> DEFINE said == Saying(Text, form)
<1>1. m \in said /\ \A n \in said : n \in Int
  BY SayingAre
<1> HIDE DEF said
<1>2. m < m + 1 /\ \A n \in said : n <= m \/ m + 1 <= n
  BY <1>1
<1>3. ~\A n \in said : m + 1 <= n
  BY <1>1
<1> QED BY <1>1, <1>2, <1>3 DEF Told, said

LEMMA ToldStay ==
  ASSUME TextType, NEW form, NEW x, NEW m \in Int, Told(Text, m, form, x), m \notin Saying(Text, form)
  PROVE  Told(Text, m + 1, form, x)
<1>1. \A n \in Saying(Text, form) : n \in Int /\ n # m
  BY SayingAre
<1>2. \A n \in Saying(Text, form) : n < m \/ m + 1 <= n
  BY <1>1
<1>3. m + 1 \in Int /\ m <= m + 1
  OBVIOUS
<1> QED BY <1>2, <1>3, ToldSkip

(* What is noted of a member is what it says.                               *)
LEMMA NotedTold ==
  ASSUME TextType, NEW m \in Members(Text), NEW coding \in BOOLEAN, NEW star \in BOOLEAN,
         BothTold(m, line_coding_q, line_star_q), Heads(m, coding, star), NEW w \in Qs,
         coding \/ star => w = MemberWeight(Text, m), Noted(w, coding, star)
  PROVE  BothTold(m + 1, line_coding_q', line_star_q')
<1>1. m \in Int
  BY MembersAre
<1>2. /\ m \in Saying(Text, "coding") <=> coding /\ MemberWeight(Text, m) >= 0
      /\ m \in Saying(Text, "star") <=> ~coding /\ star /\ MemberWeight(Text, m) >= 0
  BY SayingAre DEF Heads
<1>3. Told(Text, m + 1, "coding", line_coding_q')
  <2>1. CASE w >= 0 /\ coding
    <3>1. line_coding_q' = MemberWeight(Text, m) /\ m \in Saying(Text, "coding")
      BY <1>2, <2>1 DEF Noted
    <3> QED BY <3>1, ToldNext
  <2>2. CASE ~(w >= 0 /\ coding)
    <3>1. line_coding_q' = line_coding_q /\ m \notin Saying(Text, "coding")
      BY <1>2, <2>2 DEF Noted
    <3> QED BY <1>1, <3>1, ToldStay DEF BothTold
  <2> QED BY <2>1, <2>2
<1>4. Told(Text, m + 1, "star", line_star_q')
  <2>1. CASE w >= 0 /\ ~coding /\ star
    <3>1. line_star_q' = MemberWeight(Text, m) /\ m \in Saying(Text, "star")
      BY <1>2, <2>1 DEF Noted
    <3> QED BY <3>1, ToldNext
  <2>2. CASE ~(w >= 0 /\ ~coding /\ star)
    <3>1. line_star_q' = line_star_q /\ m \notin Saying(Text, "star")
      BY <1>2, <2>2 DEF Noted
    <3> QED BY <1>1, <3>1, ToldStay DEF BothTold
  <2> QED BY <2>1, <2>2
<1> QED BY <1>3, <1>4 DEF BothTold

LEMMA InMemberOn ==
  ASSUME TextType, NEW m, NEW i \in 1..End, NEW j \in i..End, InMember(m, i),
         \A k \in i..(j - 1) : k \notin Commas(Text)
  PROVE  InMember(m, j)
<1>1. /\ m \in Members(Text) /\ m <= i /\ m < End /\ Text[m] # ","
      /\ \A k \in m..(i - 1) : k \notin Commas(Text)
  BY DEF InMember
<1>2. m \in Int /\ End \in Nat
  BY <1>1, MembersAre, EndTyped
<1>3. m <= i
  BY <1>1
<1>4. m <= j /\ \A k \in m..(j - 1) : k \in m..(i - 1) \/ k \in i..(j - 1)
  BY <1>2, <1>3
<1> QED BY <1>1, <1>4 DEF InMember

LEMMA ParametersAre ==
  ASSUME TextType, NEW m
  PROVE  /\ ParametersOf(Text, m) = {s \in Semicolons(Text) : m <= s /\ \A k \in Commas(Text) : k < m \/ s < k}
         /\ \A s \in ParametersOf(Text, m) : s \in Int /\ s \in 1..End
BY SemicolonsHave DEF ParametersOf, Semicolons, Commas

LEMMA ParameterIn ==
  ASSUME TextType, NEW m, NEW s \in Semicolons(Text), InMember(m, s)
  PROVE  s \in ParametersOf(Text, m)
<1>1. m \in Int /\ s \in Int /\ m <= s /\ \A k \in m..(s - 1) : k \notin Commas(Text)
  BY MembersAre, SemicolonsHave DEF InMember
<1>2. \A k \in Commas(Text) : k \in Int /\ k # s
  BY CommasHave, SemicolonsHave
<1>3. \A k \in Commas(Text) : k < m \/ s < k
  BY <1>1, <1>2
<1> QED BY <1>1, <1>3, ParametersAre

LEMMA BeforeNext ==
  ASSUME TextType, NEW m, NEW s \in ParametersOf(Text, m), NEW j \in Int, s < j,
         \A k \in (s + 1)..(j - 1) : k \notin Semicolons(Text)
  PROVE  Before(m, j) = Before(m, s) \cup {s}
<1>1. s \in Int /\ \A r \in ParametersOf(Text, m) : r \in Int /\ r \in Semicolons(Text)
  BY ParametersAre
<1>2. \A r \in ParametersOf(Text, m) : r < j <=> r < s \/ r = s
  BY <1>1
<1> QED BY <1>2 DEF Before

(* At the member's end all of its parameters are before.                    *)
LEMMA AllBefore ==
  ASSUME TextType, NEW m \in Members(Text), NEW i \in 1..End, InMember(m, i), i = End \/ i \in Commas(Text)
  PROVE  Before(m, i) = ParametersOf(Text, m)
<1>1. /\ End \in Nat /\ m \in Int /\ m <= i
      /\ \A s \in ParametersOf(Text, m) : s \in Int /\ s \in Semicolons(Text)
  BY EndTyped, MembersAre, ParametersAre DEF InMember
<1>2. ASSUME NEW s \in ParametersOf(Text, m) PROVE s < i
  <2>1. s < End /\ m <= s /\ \A k \in Commas(Text) : k < m \/ s < k
    BY <1>1, ParametersAre, SemicolonsHave
  <2> QED BY <1>1, <2>1
<1> QED BY <1>2 DEF Before

LEMMA ReadOther ==
  ASSUME TextType, NEW m, NEW s \in ParametersOf(Text, m), NEW j \in Int, s < j,
         \A k \in (s + 1)..(j - 1) : k \notin Semicolons(Text),
         NEW w, NEW seen \in BOOLEAN, HasRead(m, s, w, seen), WellFormed(Text, s), ~IsWeight(Text, s)
  PROVE  HasRead(m, j, w, seen)
<1>1. Before(m, j) = Before(m, s) \cup {s}
  BY BeforeNext
<1> QED BY <1>1 DEF HasRead

LEMMA ReadWeight ==
  ASSUME TextType, NEW m, NEW s \in ParametersOf(Text, m), NEW j \in Int, s < j,
         \A k \in (s + 1)..(j - 1) : k \notin Semicolons(Text),
         NEW w, HasRead(m, s, w, FALSE), NEW x, WellFormed(Text, s), IsWeight(Text, s),
         WeightsGiven(Text, s) = {x}
  PROVE  HasRead(m, j, x, TRUE)
<1>1. Before(m, j) = Before(m, s) \cup {s}
  BY BeforeNext
<1>2. \A r \in Before(m, s) : WellFormed(Text, r) /\ ~IsWeight(Text, r)
  BY DEF HasRead
<1> QED BY <1>1, <1>2 DEF HasRead

LEMMA WeighsNothing ==
  ASSUME NEW m, NEW s \in ParametersOf(Text, m),
         \/ ~WellFormed(Text, s)
         \/ IsWeight(Text, s) /\ \E r \in ParametersOf(Text, m) : IsWeight(Text, r) /\ r # s
  PROVE  MemberWeight(Text, m) = -1
BY DEF MemberWeight

LEMMA ReadTwice ==
  ASSUME TextType, NEW m, NEW s \in ParametersOf(Text, m), NEW w, HasRead(m, s, w, TRUE), IsWeight(Text, s)
  PROVE  MemberWeight(Text, m) = -1
<1>1. PICK r \in Before(m, s) : IsWeight(Text, r)
  BY DEF HasRead
<1>2. s \in Int /\ r \in ParametersOf(Text, m) /\ r < s
  BY ParametersAre DEF Before
<1>3. r # s
  BY <1>2
<1> QED BY <1>1, <1>2, <1>3, WeighsNothing

LEMMA ReadWhole ==
  ASSUME NEW m, NEW i, NEW w \in 0..1000, NEW seen, HasRead(m, i, w, seen),
         Before(m, i) = ParametersOf(Text, m)
  PROVE  MemberWeight(Text, m) = w
<1> DEFINE params == ParametersOf(Text, m)
           weights == {s \in params : IsWeight(Text, s)}
           given(x) == \A s \in weights : x \in WeightsGiven(Text, s)
<1>1. /\ \A s \in params : WellFormed(Text, s)
      /\ \A r, s \in weights : r = s
      /\ seen <=> weights # {}
      /\ seen => \A s \in weights : WeightsGiven(Text, s) = {w}
      /\ ~seen => w = 1000
  BY DEF HasRead
<1>2. MemberWeight(Text, m) = IF weights = {} THEN 1000 ELSE CHOOSE x \in 0..1000 : given(x)
  BY <1>1 DEF MemberWeight
<1>3. CASE weights = {}
  BY <1>1, <1>2, <1>3
<1>4. CASE weights # {}
  <2>1. given(w) /\ \A x \in 0..1000 : given(x) => x = w
    BY <1>1, <1>4
  <2> HIDE DEF given, weights
  <2>2. (CHOOSE x \in 0..1000 : given(x)) = w
    BY <2>1
  <2> QED BY <1>2, <1>4, <2>2
<1> QED BY <1>3, <1>4

(* What a step has come to, with what it leaves alone.                      *)
LEMMA AtParam ==
  ASSUME UNCHANGED <<field, line>>, pc' = "param", ~quoted_name', q' \in 0..1000, Delimited(p'),
         NEW m \in Members(Text), InMember(m, p'), BothTold(m, line_coding_q', line_star_q'),
         Heads(m, is_coding', is_star'), HasRead(m, p', q', q_seen')
  PROVE  OnLine'
<1>1. Text' = Text /\ End' = End
  BY SameText
<1>2. Delimited(p)' /\ InMember(m, p)' /\ (m \in Members(Text))'
  BY <1>1 DEF Delimited, InMember
<1>3. Headed(m)'
  BY <1>1 DEF Headed, BothTold, Heads
<1>4. HasRead(m, p, q, q_seen)'
  BY <1>1 DEF HasRead, Before
<1> QED BY <1>2, <1>3, <1>4 DEF OnLine

LEMMA AtValue ==
  ASSUME UNCHANGED <<field, line, element, line_qs>>, pc' = "value", ~quoted_name', q' \in 0..1000,
         NEW m \in Members(Text), NEW s \in Semicolons(Text), InMember(m, p'), Headed(m),
         HasRead(m, s, q', q_seen'), InValue(m, s, p')
  PROVE  OnLine'
<1>1. Text' = Text /\ End' = End
  BY SameText
<1>2. InMember(m, p)' /\ (m \in Members(Text))' /\ (s \in Semicolons(Text))' /\ InValue(m, s, p)'
  BY <1>1 DEF InMember, InValue
<1>3. Headed(m)'
  BY <1>1 DEF Headed, BothTold, Heads, element, line_qs
<1>4. HasRead(m, s, q, q_seen)'
  BY <1>1 DEF HasRead, Before
<1> QED BY <1>2, <1>3, <1>4 DEF OnLine

LEMMA AtRest ==
  ASSUME UNCHANGED <<field, line>>, pc' = "rest",
         NEW m \in Members(Text), InMember(m, p'), BothTold(m + 1, line_coding_q', line_star_q')
  PROVE  OnLine'
<1>1. Text' = Text /\ End' = End
  BY SameText
<1>2. InMember(m, p)' /\ (m \in Members(Text))'
  BY <1>1 DEF InMember
<1>3. BothTold(m + 1, line_coding_q, line_star_q)'
  BY <1>1 DEF BothTold
<1> QED BY <1>2, <1>3 DEF OnLine

(***************************************************************************)
(* Steps through parameters.                                                *)
(***************************************************************************)
Undelimited(i, j) == Clear(i, j, {",", ";"})

LEMMA SpanClear ==
  ASSUME AtParameter, NEW j \in (p + 1)..End, Undelimited(p + 1, j)
  PROVE  /\ j \in p..End /\ p < j /\ j \in Int /\ p \in 1..End
         /\ \A k \in p..(j - 1) : k \notin Commas(Text)
         /\ \A k \in (p + 1)..(j - 1) : k \notin Semicolons(Text)
<1>1. TextType /\ p \in 1..End /\ End \in Nat
  BY TextTyped, EndTyped DEF AtParameter, TypeOK
<1>2. p + 1 \in Int /\ j \in Int /\ j \in p..End /\ p < j
  BY <1>1
<1>3. \A k \in (p + 1)..(j - 1) : k \notin Delims
  BY <1>1, <1>2, ClearDelims DEF Undelimited
<1>4. p \notin Commas(Text)
  BY <1>1, CommasHave DEF AtParameter, Parameter, Is
<1>5. \A k \in p..(j - 1) : k = p \/ k \in (p + 1)..(j - 1)
  BY <1>1, <1>2
<1> QED BY <1>1, <1>2, <1>3, <1>4, <1>5, DelimsAre

(* The name, the "=" and the blanks around it have no delimiter.            *)
LEMMA NameClear ==
  ASSUME AtParameter
  PROVE  /\ NStart \in (p + 1)..End /\ Undelimited(p + 1, NStart)
         /\ After \in (p + 1)..End /\ Undelimited(p + 1, After)
         /\ Past(After, OWS) = After
<1>1. TextType /\ NameParts /\ NameSpots
  BY TextTyped, NamePlaced DEF AtParameter, NameParts
<1>2. NStart \in (p + 1)..End /\ After \in (p + 1)..End /\ After \in 1..End /\ End \in Nat
  BY <1>1 DEF NameSpots
<1>3. \A k \in (p + 1)..(NStart - 1) : k \in (p + 1)..(After - 1)
  BY <1>1 DEF NameSpots
<1>4. Undelimited(p + 1, After) /\ Undelimited(p + 1, NStart)
  BY <1>1, <1>3 DEF NameParts, Clear, Undelimited
<1>5. Past(After, OWS) = After
  <2>1. Past(After, OWS) \in After..End /\ \A k \in After..(Past(After, OWS) - 1) : Text[k] \in OWS
    BY <1>1, <1>2, PastStops
  <2>2. After < End => Text[After] \notin OWS
    BY <1>1 DEF NameParts
  <2> DEFINE x == Past(After, OWS)
  <2>3. x \in After..End /\ (After \in After..(x - 1) => Text[After] \in OWS)
    BY <2>1
  <2> HIDE DEF x
  <2>4. x # After => After \in After..(x - 1) /\ After < End
    BY <1>2, <2>3
  <2> QED BY <2>2, <2>3, <2>4 DEF x
<1> QED BY <1>2, <1>4, <1>5

LEMMA ValueClear ==
  ASSUME AtParameter, HasValue
  PROVE  Value \in (p + 1)..End /\ Value \in 1..End /\ Undelimited(p + 1, Value)
<1>1. ValueSpots /\ Blank(After + 1, Value) /\ NameSpots /\ Undelimited(p + 1, After)
  BY ValuePlaced, NamePlaced, NameClear DEF AtParameter, NameParts
<1>2. Value \in (p + 1)..End /\ Value \in 1..End
  BY <1>1 DEF ValueSpots, NameSpots
<1>3. \A k \in (p + 1)..(Value - 1) : k \in (p + 1)..(After - 1) \/ k = After \/ k \in (After + 1)..(Value - 1)
  BY <1>1 DEF ValueSpots, NameSpots
<1>4. Undelimited(After + 1, Value) /\ Text[After] \notin {",", ";"}
  BY <1>1, Apart DEF Clear, Blank, HasValue, Is, Undelimited
<1> QED BY <1>1, <1>2, <1>3, <1>4 DEF Clear, Undelimited

LEMMA QvalueSpan ==
  ASSUME AtParameter, HasValue, Is(Value, {"0", "1"})
  PROVE  /\ QvalueEnd(Value) \in (p + 1)..End /\ QvalueEnd(Value) \in 1..End
         /\ Undelimited(p + 1, QvalueEnd(Value))
         /\ Past(QvalueEnd(Value), OWS) \in (p + 1)..End
         /\ Undelimited(p + 1, Past(QvalueEnd(Value), OWS))
<1> DEFINE e == QvalueEnd(Value)
           next == Past(e, OWS)
<1>1. TextType /\ Value \in (p + 1)..End /\ Value \in 1..End /\ Undelimited(p + 1, Value) /\ NameSpots
  BY TextTyped, ValueClear, NamePlaced DEF AtParameter, NameParts
<1>2. e \in (Value + 1)..End /\ Undelimited(Value, e)
  BY <1>1, QvalueOctets, QvalueClear DEF Clear, Undelimited
<1> HIDE DEF e
<1>3. e \in 1..End /\ e \in (p + 1)..End
  BY <1>1, <1>2 DEF NameSpots
<1>4. next \in e..End /\ \A k \in e..(next - 1) : Text[k] \in OWS
  BY <1>1, <1>3, PastStops
<1>5. Undelimited(e, next)
  BY <1>4, Apart DEF Clear, Undelimited
<1> HIDE DEF next
<1>6. next \in (p + 1)..End
  BY <1>1, <1>3, <1>4 DEF NameSpots
<1>7. \A k \in (p + 1)..(e - 1) : k \in (p + 1)..(Value - 1) \/ k \in Value..(e - 1)
  BY <1>1, <1>2, <1>3 DEF NameSpots
<1>8. \A k \in (p + 1)..(next - 1) : k \in (p + 1)..(e - 1) \/ k \in e..(next - 1)
  BY <1>1, <1>3, <1>4 DEF NameSpots
<1>9. Undelimited(p + 1, e)
  BY <1>1, <1>2, <1>7 DEF Clear, Undelimited
<1>10. Undelimited(p + 1, next)
  BY <1>5, <1>8, <1>9 DEF Clear, Undelimited
<1> QED BY <1>3, <1>6, <1>9, <1>10 DEF e, next

(* Giving up on a parameter, which makes the member say nothing.            *)
LEMMA MalformedMeant ==
  ASSUME AtParameter, NEW m \in Members(Text), InMember(m, p), Headed(m), MemberWeight(Text, m) = -1,
         NEW i \in (p + 1)..End, Undelimited(p + 1, i), Malformed(i, FALSE),
         UNCHANGED <<field, line, element, line_qs>>
  PROVE  OnLine'
<1>1. TextType /\ is_coding \in BOOLEAN /\ is_star \in BOOLEAN
  BY TextTyped DEF AtParameter, TypeOK
<1>n. -1 \in Qs
  BY DEF Qs
<1>2. /\ i \in p..End /\ p \in 1..End
      /\ \A k \in p..(i - 1) : k \notin Commas(Text)
  BY SpanClear
<1>3. p' = i /\ pc' = "rest"
  BY DEF Malformed, Cursor
<1>4. InMember(m, i)
  BY <1>1, <1>2, InMemberOn
<1>5. Noted(-1, is_coding, is_star)
  BY DEF Noted, line_qs
<1>6. BothTold(m + 1, line_coding_q', line_star_q')
  BY <1>1, <1>n, <1>5, NotedTold DEF Headed
<1> QED BY <1>3, <1>4, <1>6, AtRest

(* Ending one that says no weight, or one that does.                        *)
LEMMA OnwardMeant ==
  ASSUME AtParameter, NEW m \in Members(Text), InMember(m, p), Headed(m),
         NEW i \in (p + 1)..End, Undelimited(p + 1, i), Delimited(i), p' = i, pc' = "param",
         ~quoted_name', q' \in 0..1000, UNCHANGED <<field, line, element, line_qs>>,
         HasRead(m, i, q', q_seen')
  PROVE  OnLine'
<1>1. TextType
  BY TextTyped DEF AtParameter
<1>2. /\ i \in p..End /\ p \in 1..End
      /\ \A k \in p..(i - 1) : k \notin Commas(Text)
  BY SpanClear
<1>3. InMember(m, i)
  BY <1>1, <1>2, InMemberOn
<1>4. is_coding' = is_coding /\ is_star' = is_star /\ line_coding_q' = line_coding_q /\ line_star_q' = line_star_q
  BY DEF element, line_qs
<1>5. BothTold(m, line_coding_q', line_star_q') /\ Heads(m, is_coding', is_star')
  BY <1>4 DEF Headed
<1> QED BY <1>3, <1>5, AtParam

(* Where the walk is at a parameter, it is at one of the member's.          *)
LEMMA ParameterMeant ==
  ASSUME Sound, NamesUnquoted(Text), OnLine, Parameter
  PROVE  /\ AtParameter /\ q \in 0..1000 /\ p \in Semicolons(Text)
         /\ \E m \in Members(Text) : InMember(m, p) /\ Headed(m) /\ HasRead(m, p, q, q_seen)
                                     /\ p \in ParametersOf(Text, m)
<1>1. TypeOK /\ TextType /\ p \in 1..End /\ pc = "param" /\ p < End /\ Text[p] \in {";"}
  BY TextTyped DEF Sound, Inv, TypeOK, Parameter, Is
<1>2. ~quoted /\ ~quoted_name /\ q \in 0..1000
  BY <1>1 DEF Sound, Inv, Ahead, OnLine
<1>3. Synced(p, "plain")
  BY <1>1, <1>2 DEF Sound, Whole, AtMode
<1>4. p \in Semicolons(Text)
  BY <1>1, <1>3, UnquotedIs DEF Semicolons
<1>5. PICK m \in Members(Text) : InMember(m, p) /\ Headed(m) /\ HasRead(m, p, q, q_seen)
  BY <1>1 DEF OnLine
<1>6. p \in ParametersOf(Text, m)
  BY <1>1, <1>4, <1>5, ParameterIn
<1> QED BY <1>1, <1>2, <1>3, <1>4, <1>5, <1>6 DEF AtParameter

LEMMA EmptyNameMeant ==
  ASSUME Sound, NamesUnquoted(Text), OnLine, EmptyName
  PROVE  OnLine'
<1>1. Parameter /\ ~HasName /\ Malformed(NStart, quoted_name) /\ UNCHANGED <<field, line, element, line_qs>>
  BY DEF EmptyName
<1>2. AtParameter
  BY <1>1, ParameterMeant
<1>3. PICK m \in Members(Text) : InMember(m, p) /\ Headed(m) /\ p \in ParametersOf(Text, m)
  BY <1>1, ParameterMeant
<1>4. MemberWeight(Text, m) = -1
  BY <1>1, <1>2, <1>3, NameRead, WeighsNothing DEF WellFormed
<1>5. Malformed(NStart, FALSE)
  BY <1>1, <1>2 DEF AtParameter, Malformed, Cursor
<1> QED BY <1>1, <1>2, <1>3, <1>4, <1>5, NameClear, MalformedMeant

LEMMA NoValueMeant ==
  ASSUME Sound, NamesUnquoted(Text), OnLine, NoValue
  PROVE  OnLine'
<1>1. /\ Parameter /\ HasName /\ ~HasValue /\ UNCHANGED <<field, line, element, line_qs, q_seen>>
      /\ quoted_name' = QuotedName
      /\ IF IsQ THEN Malformed(After, quoted_name') ELSE EndParameter(After, q)
  BY DEF NoValue
<1>2. AtParameter /\ q \in 0..1000 /\ TextType
  BY <1>1, ParameterMeant, TextTyped DEF AtParameter
<1>3. PICK m \in Members(Text) : InMember(m, p) /\ Headed(m) /\ HasRead(m, p, q, q_seen) /\ p \in ParametersOf(Text, m)
  BY <1>1, ParameterMeant
<1>4. ~quoted_name'
  BY <1>1, <1>2, NamePlain
<1>5. /\ After \in (p + 1)..End /\ Undelimited(p + 1, After) /\ Past(After, OWS) = After
  BY <1>2, NameClear
<1>6. CASE ~Delimited(After)
  <2>1. MemberWeight(Text, m) = -1
    BY <1>1, <1>2, <1>3, <1>6, NameRead, WeighsNothing DEF WellFormed
  <2>2. Malformed(After, FALSE)
    BY <1>1, <1>4, <1>5, <1>6 DEF EndParameter, Malformed, Cursor
  <2> QED BY <1>1, <1>2, <1>3, <1>5, <2>1, <2>2, MalformedMeant
<1>7. CASE Delimited(After) /\ IsQ
  <2>1. IsWeight(Text, p) /\ WeightsGiven(Text, p) = {}
    BY <1>1, <1>2, <1>7, WeightRead, WeightMissing
  <2>2. MemberWeight(Text, m) = -1
    BY <1>3, <2>1, WeighsNothing DEF WellFormed
  <2>3. Malformed(After, FALSE)
    BY <1>1, <1>4, <1>7 DEF Malformed, Cursor
  <2> QED BY <1>1, <1>2, <1>3, <1>5, <2>2, <2>3, MalformedMeant
<1>8. CASE Delimited(After) /\ ~IsQ
  <2>1. NamesOf(Text, p) # {} /\ ~IsWeight(Text, p)
    BY <1>1, <1>2, <1>8, WeightRead, NameRead
  <2>2. WellFormed(Text, p) /\ ~IsWeight(Text, p)
    BY <2>1 DEF WellFormed
  <2>3. p' = After /\ q' = q /\ pc' = "param"
    BY <1>1, <1>5, <1>8 DEF EndParameter
  <2>4. /\ After \in Int /\ p < After
        /\ \A k \in (p + 1)..(After - 1) : k \notin Semicolons(Text)
    BY <1>2, <1>5, SpanClear
  <2>5. q_seen \in BOOLEAN /\ q_seen' = q_seen
    BY <1>1, <1>2 DEF AtParameter, TypeOK
  <2>6. HasRead(m, After, q, q_seen)
    BY <1>2, <1>3, <2>2, <2>4, <2>5, ReadOther
  <2>7. HasRead(m, After, q', q_seen')
    BY <2>3, <2>5, <2>6
  <2> QED BY <1>1, <1>2, <1>3, <1>4, <1>5, <1>8, <2>3, <2>7, OnwardMeant
<1> QED BY <1>6, <1>7, <1>8

LEMMA OtherParameterMeant ==
  ASSUME Sound, NamesUnquoted(Text), OnLine, OtherParameter
  PROVE  OnLine'
<1>1. /\ Parameter /\ HasName /\ HasValue /\ ~IsQ /\ UNCHANGED <<field, line, element, line_qs, q, q_seen>>
      /\ quoted_name' = QuotedName /\ p' = Value /\ pc' = "value"
  BY DEF OtherParameter
<1>2. AtParameter /\ q \in 0..1000 /\ TextType /\ p \in Semicolons(Text)
  BY <1>1, ParameterMeant, TextTyped DEF AtParameter
<1>3. PICK m \in Members(Text) : InMember(m, p) /\ Headed(m) /\ HasRead(m, p, q, q_seen) /\ p \in ParametersOf(Text, m)
  BY <1>1, ParameterMeant
<1>4. ~quoted_name'
  BY <1>1, <1>2, NamePlain
<1>5. WellFormed(Text, p) /\ ~IsWeight(Text, p)
  BY <1>1, <1>2, WeightRead, NameRead DEF WellFormed
<1>6. Value \in (p + 1)..End /\ Undelimited(p + 1, Value)
  BY <1>1, <1>2, ValueClear
<1>7. /\ Value \in p..End /\ p < Value /\ p \in 1..End
      /\ \A k \in p..(Value - 1) : k \notin Commas(Text)
      /\ \A k \in (p + 1)..(Value - 1) : k \notin Semicolons(Text)
  BY <1>2, <1>6, SpanClear
<1>8. InMember(m, Value)
  BY <1>2, <1>3, <1>7, InMemberOn
<1>9. InValue(m, p, Value)
  BY <1>3, <1>5, <1>7 DEF InValue
<1>10. HasRead(m, p, q', q_seen') /\ q' \in 0..1000
  BY <1>1, <1>2, <1>3
<1> QED BY <1>1, <1>2, <1>3, <1>4, <1>8, <1>9, <1>10, AtValue

LEMMA WeightMeant ==
  ASSUME Sound, NamesUnquoted(Text), OnLine, Weight
  PROVE  OnLine'
<1>1. /\ Parameter /\ HasName /\ HasValue /\ IsQ /\ UNCHANGED <<field, line, element, line_qs>>
      /\ quoted_name' = QuotedName /\ q_seen' = TRUE
  BY DEF Weight
<1>2. AtParameter /\ q \in 0..1000 /\ TextType
  BY <1>1, ParameterMeant, TextTyped DEF AtParameter
<1>3. PICK m \in Members(Text) : InMember(m, p) /\ Headed(m) /\ HasRead(m, p, q, q_seen) /\ p \in ParametersOf(Text, m)
  BY <1>1, ParameterMeant
<1>4. ~quoted_name'
  BY <1>1, <1>2, NamePlain
<1>5. NamesOf(Text, p) # {} /\ IsWeight(Text, p)
  BY <1>1, <1>2, WeightRead, NameRead
<1>6. Value \in (p + 1)..End /\ Value \in 1..End /\ Undelimited(p + 1, Value)
  BY <1>1, <1>2, ValueClear
<1>7. ASSUME ~GoodQ PROVE MemberWeight(Text, m) = -1
  BY <1>1, <1>2, <1>3, <1>5, <1>7, WeightRefused, WeighsNothing DEF WellFormed
<1>8. ASSUME q_seen PROVE MemberWeight(Text, m) = -1
  <2>1. HasRead(m, p, q, TRUE)
    BY <1>3, <1>8 DEF HasRead
  <2> QED BY <1>2, <1>3, <1>5, <2>1, ReadTwice
<1>9. CASE ~Leads
  <2>1. MemberWeight(Text, m) = -1
    BY <1>7, <1>8, <1>9 DEF Leads, GoodQ
  <2>2. Malformed(Value, FALSE)
    BY <1>4, <1>9 DEF Weight, Malformed, Cursor
  <2> QED BY <1>1, <1>2, <1>3, <1>6, <2>1, <2>2, MalformedMeant
<1>10. CASE Leads
  <2> DEFINE e == QvalueEnd(Value)
             next == Past(e, OWS)
  <2>1. ~q_seen /\ Is(Value, {"0", "1"})
    BY <1>10 DEF Leads
  <2>2. /\ e \in (p + 1)..End /\ e \in 1..End /\ Undelimited(p + 1, e)
        /\ next \in (p + 1)..End /\ Undelimited(p + 1, next)
    BY <1>1, <1>2, <2>1, QvalueSpan
  <2>3. Breaks(e) <=> (e = End \/ Text[e] \in OWS \cup {";", ","})
    <3>1. e < End <=> e # End
      <4> HIDE DEF e, next
      <4>1. End \in Nat /\ e \in 1..End
        BY <1>2, <2>2, EndTyped
      <4> QED BY <4>1
    <3> QED BY <3>1 DEF Breaks
  <2>4. IF Breaks(e) THEN EndParameter(e, Qvalue(Value)) ELSE Malformed(e, quoted_name')
    BY <1>10, <2>3 DEF Weight
  <2>5. CASE ~Breaks(e)
    <3>1. MemberWeight(Text, m) = -1
      BY <1>7, <2>5 DEF GoodQ
    <3>2. Malformed(e, FALSE)
      BY <1>4, <2>4, <2>5 DEF Malformed, Cursor
    <3> HIDE DEF e, next
    <3> QED BY <1>1, <1>2, <1>3, <2>2, <3>1, <3>2, MalformedMeant
  <2>6. CASE Breaks(e) /\ ~Delimited(next)
    <3>1. MemberWeight(Text, m) = -1
      BY <1>7, <2>6 DEF GoodQ
    <3>2. Malformed(next, FALSE)
      BY <1>4, <2>4, <2>6 DEF EndParameter, Malformed, Cursor
    <3> HIDE DEF e, next
    <3> QED BY <1>1, <1>2, <1>3, <2>2, <3>1, <3>2, MalformedMeant
  <2>7. CASE Breaks(e) /\ Delimited(next)
    <3>1. WeightsGiven(Text, p) = {Qvalue(Value)}
      BY <1>1, <1>2, <2>1, <2>7, WeightTaken DEF GoodQ
    <3>2. p' = next /\ q' = Qvalue(Value) /\ pc' = "param"
      BY <2>4, <2>7 DEF EndParameter
    <3>3. Qvalue(Value) \in 0..1000
      <4> HIDE DEF e, next
      <4>1. TextType /\ Value \in 1..End
        BY <1>2, <1>6
      <4> QED BY <2>1, <4>1, QvalueTyped
    <3> HIDE DEF e, next
    <3>4. /\ next \in Int /\ p < next
          /\ \A k \in (p + 1)..(next - 1) : k \notin Semicolons(Text)
      BY <1>2, <2>2, SpanClear
    <3>5. WellFormed(Text, p)
      BY <1>5, <3>1 DEF WellFormed
    <3>6. HasRead(m, p, q, FALSE)
      BY <1>3, <2>1 DEF HasRead
    <3>7. HasRead(m, next, Qvalue(Value), TRUE)
      BY <1>2, <1>3, <1>5, <3>1, <3>4, <3>5, <3>6, ReadWeight
    <3>8. HasRead(m, next, q', q_seen')
      BY <1>1, <3>2, <3>7
    <3> QED BY <1>1, <1>2, <1>3, <1>4, <2>2, <2>7, <3>2, <3>3, <3>8, OnwardMeant
  <2> QED BY <2>5, <2>6, <2>7
<1> QED BY <1>9, <1>10

LEMMA EndValueMeant ==
  ASSUME Sound, OnLine, EndValue
  PROVE  OnLine'
<1> DEFINE next == Upto(p, {";", ",", Quote})
<1>1. /\ pc = "value" /\ ~quoted /\ p' = next /\ ~Is(next, {Quote}) /\ pc' = "param"
      /\ UNCHANGED <<field, line, element, line_qs, q, q_seen, quoted_name>>
  BY DEF EndValue
<1>2. TextType /\ p \in 1..End /\ End \in Nat /\ q_seen \in BOOLEAN
  BY TextTyped, EndTyped DEF Sound, Inv, TypeOK
<1>3. ~quoted_name /\ q \in 0..1000
  BY <1>1 DEF OnLine
<1>4. PICK m \in Members(Text), s \in Semicolons(Text) :
        InMember(m, p) /\ Headed(m) /\ HasRead(m, s, q, q_seen) /\ InValue(m, s, p)
  BY <1>1 DEF OnLine
<1>5. next \in p..End /\ (next < End => Text[next] \in {";", ",", Quote})
  BY <1>2, UptoStops
<1>6. \A k \in p..(next - 1) : Text[k] \notin {",", ";"}
  <2>1. \A k \in p..(next - 1) : Text[k] \notin {";", ",", Quote}
    BY <1>2, UptoStops
  <2> QED BY <2>1
<1>7. Delimited(next)
  <2>1. CASE next < End
    BY <1>1, <1>5, <2>1 DEF Delimited, Is
  <2>2. next = End \/ next < End
    <3>1. next \in p..End
      BY <1>5
    <3> HIDE DEF next
    <3> QED BY <1>2, <3>1
  <2> QED BY <2>1, <2>2 DEF Delimited
<1>8. \A k \in p..(next - 1) : k \notin Delims
  BY <1>2, <1>6, DelimsHave
<1>9. next \in p..End
  BY <1>5
<1> HIDE DEF next
<1>10. \A k \in p..(next - 1) : k \notin Commas(Text) /\ k \notin Semicolons(Text)
  BY <1>8, DelimsAre
<1>11. InMember(m, next)
  BY <1>2, <1>4, <1>9, <1>10, InMemberOn
<1>12. /\ s \in ParametersOf(Text, m) /\ s < p /\ WellFormed(Text, s) /\ ~IsWeight(Text, s)
       /\ \A k \in (s + 1)..(p - 1) : k \notin Semicolons(Text)
  BY <1>4 DEF InValue
<1>13. s \in Int
  BY <1>2, SemicolonsHave
<1>14. next \in Int /\ s < next /\ \A k \in (s + 1)..(next - 1) : k \in (s + 1)..(p - 1) \/ k \in p..(next - 1)
  BY <1>2, <1>9, <1>12, <1>13
<1>15. \A k \in (s + 1)..(next - 1) : k \notin Semicolons(Text)
  BY <1>10, <1>12, <1>14
<1>16. HasRead(m, next, q, q_seen)
  BY <1>2, <1>4, <1>12, <1>14, <1>15, ReadOther
<1>17. is_coding' = is_coding /\ is_star' = is_star /\ line_coding_q' = line_coding_q /\ line_star_q' = line_star_q
  BY <1>1 DEF element, line_qs
<1>18. BothTold(m, line_coding_q', line_star_q') /\ Heads(m, is_coding', is_star')
  BY <1>4, <1>17 DEF Headed
<1>19. Delimited(p') /\ InMember(m, p') /\ HasRead(m, p', q', q_seen') /\ q' \in 0..1000 /\ ~quoted_name'
  BY <1>1, <1>3, <1>7, <1>11, <1>16
<1> QED BY <1>1, <1>18, <1>19, AtParam

LEMMA EndParametersMeant ==
  ASSUME Sound, OnLine, EndParameters
  PROVE  OnLine'
<1>1. /\ pc = "param" /\ ~Is(p, {";"}) /\ p' = Cursor(p, quoted_name) /\ Noted(q, is_coding, is_star)
      /\ pc' = "rest" /\ UNCHANGED <<field, line>>
  BY DEF EndParameters
<1>2. TextType /\ p \in 1..End /\ End \in Nat /\ q_seen \in BOOLEAN /\ is_coding \in BOOLEAN /\ is_star \in BOOLEAN
  BY TextTyped, EndTyped DEF Sound, Inv, TypeOK
<1>3. ~quoted /\ ~quoted_name /\ q \in 0..1000 /\ Delimited(p)
  BY <1>1 DEF OnLine, Sound, Inv, Ahead
<1>4. PICK m \in Members(Text) : InMember(m, p) /\ Headed(m) /\ HasRead(m, p, q, q_seen)
  BY <1>1 DEF OnLine
<1>5. p = End \/ p \in Commas(Text)
  <2>1. p # End => p < End
    BY <1>2
  <2>2. p # End => Text[p] \in {","}
    BY <1>1, <1>3, <2>1 DEF Is, Delimited
  <2>3. Synced(p, "plain")
    BY <1>1, <1>3 DEF Sound, Whole, AtMode
  <2> QED BY <1>2, <2>1, <2>2, <2>3, UnquotedIs DEF Commas
<1>6. Before(m, p) = ParametersOf(Text, m)
  BY <1>2, <1>4, <1>5, AllBefore
<1>7. MemberWeight(Text, m) = q
  <2>1. q \in 0..1000 /\ q_seen \in BOOLEAN /\ HasRead(m, p, q, q_seen) /\ Before(m, p) = ParametersOf(Text, m)
    BY <1>2, <1>3, <1>4, <1>6
  <2> QED BY <2>1, ReadWhole
<1>8. q \in Qs
  BY <1>3 DEF Qs
<1>9. BothTold(m + 1, line_coding_q', line_star_q')
  BY <1>1, <1>2, <1>4, <1>7, <1>8, NotedTold DEF Headed
<1>10. p' = p
  BY <1>1, <1>3 DEF Cursor
<1> QED BY <1>1, <1>4, <1>9, <1>10, AtRest

LEMMA ParametersMeant ==
  ASSUME Sound, NamesUnquoted(Text), OnLine, Parameters
  PROVE  OnLine'
BY EmptyNameMeant, NoValueMeant, OtherParameterMeant, WeightMeant, EndValueMeant, EndParametersMeant
   DEF Parameters

(***************************************************************************)
(* Steps through quoted-strings, and to the next member.                    *)
(***************************************************************************)
(* What a step through a quoted-string passes is no delimiter.              *)
LEMMA QuotesClear ==
  ASSUME TypeOK, Quotes, Synced(p, AtMode), pc \in {"value", "rest"}
  PROVE  /\ p' \in p..End
         /\ \A k \in p..(p' - 1) : k \notin Commas(Text)
         /\ pc = "value" => \A k \in p..(p' - 1) : k \notin Semicolons(Text)
<1>1. TextType /\ p \in 1..End /\ End \in Nat
  BY TextTyped, EndTyped DEF TypeOK
<1>2. CASE OpenQuote
  <2> DEFINE next == Upto(p, Delimiters \cup {Quote})
  <2>1. next < End /\ Text[next] = Quote /\ p' = next + 1
    BY <1>2 DEF OpenQuote, Is
  <2>2. next \in p..End /\ \A k \in p..(next - 1) : Text[k] \notin Delimiters
    BY <1>1, UptoStops
  <2>3. "," \in Delimiters /\ (pc = "value" => ";" \in Delimiters)
    BY DEF Delimiters
  <2>4. next \notin Commas(Text) /\ next \notin Semicolons(Text)
    BY <1>1, <2>1, CommasHave, SemicolonsHave, Octets
  <2> HIDE DEF next
  <2>5. p' \in p..End /\ \A k \in p..(p' - 1) : k \in p..(next - 1) \/ k = next
    BY <1>1, <2>1, <2>2
  <2>6. /\ \A k \in p..(next - 1) : k \notin Commas(Text)
        /\ pc = "value" => \A k \in p..(next - 1) : k \notin Semicolons(Text)
    BY <1>1, <2>2, <2>3, CommasHave, SemicolonsHave
  <2>7. p' \in p..End /\ \A k \in p..(p' - 1) : k \notin Commas(Text)
    BY <2>4, <2>5, <2>6
  <2>8. pc = "value" => \A k \in p..(p' - 1) : k \notin Semicolons(Text)
    BY <2>4, <2>5, <2>6
  <2> QED BY <2>7, <2>8
<1>3. ASSUME quoted
      PROVE  LET next == Upto(p, {Backslash, Quote})
             IN  /\ next \in p..End /\ next \in 1..End /\ Synced(next, "quoted")
                 /\ \A k \in p..(next - 1) : k \notin Commas(Text) /\ k \notin Semicolons(Text)
                 /\ next < End => Text[next] \in {Backslash, Quote}
  <2> DEFINE next == Upto(p, {Backslash, Quote})
  <2>1. next \in p..End /\ \A k \in p..(next - 1) : Text[k] \notin {Backslash, Quote}
    BY <1>1, UptoStops
  <2>2. next < End => Text[next] \in {Backslash, Quote}
    BY <1>1, UptoStops
  <2> HIDE DEF next
  <2>3. \A k \in p..(next - 1) : ModeAfter("quoted", Text[k]) = "quoted"
    BY <2>1, Octets
  <2>4. next \in 1..End /\ next \in p..End
    BY <1>1, <2>1
  <2>5. ASSUME NEW j \in p..next PROVE Synced(j, "quoted")
    <3>1. j \in p..End /\ \A k \in p..(j - 1) : k \in p..(next - 1)
      BY <1>1, <2>4
    <3>2. \A k \in p..(j - 1) : ModeAfter("quoted", Text[k]) = "quoted"
      BY <2>3, <3>1
    <3> QED BY <1>1, <1>3, <3>1, <3>2, Run DEF AtMode
  <2>6. ASSUME NEW k \in p..(next - 1) PROVE k \notin Commas(Text) /\ k \notin Semicolons(Text)
    <3>1. k \in p..next /\ k # End
      BY <1>1, <2>4
    <3>2. Mode(Text)[k - 1] = "quoted"
      BY <2>5, <3>1 DEF Synced
    <3> QED BY <3>2 DEF Commas, Semicolons, Unquoted
  <2>7. next \in p..next
    BY <1>1, <2>4
  <2> QED BY <2>2, <2>4, <2>5, <2>6, <2>7 DEF next
<1>4. CASE QuotedPair
  <2> DEFINE next == Upto(p, {Backslash, Quote})
  <2>1. /\ quoted /\ next < End /\ Text[next] = Backslash
        /\ p' = IF next + 1 < End THEN next + 2 ELSE next + 1
    BY <1>4 DEF QuotedPair, Escapes, Is
  <2>2. /\ next \in p..End /\ next \in 1..End /\ Synced(next, "quoted")
        /\ \A k \in p..(next - 1) : k \notin Commas(Text) /\ k \notin Semicolons(Text)
    BY <1>3, <2>1
  <2>3. Text[next] \notin {",", ";"}
    BY <2>1 DEF Backslash
  <2> HIDE DEF next
  <2>4. next \notin Commas(Text) /\ next \notin Semicolons(Text)
    BY <1>1, <2>3, CommasHave, SemicolonsHave
  <2>5. Synced(next + 1, "escaped")
    BY <1>1, <2>1, <2>2, Octets, ModeStep
  <2>6. next + 1 < End => next + 1 \notin Commas(Text) /\ next + 1 \notin Semicolons(Text)
    <3>1. next + 1 < End => next + 1 # End
      BY <1>1, <2>2
    <3>2. next + 1 < End => Mode(Text)[(next + 1) - 1] = "escaped"
      BY <2>5, <3>1 DEF Synced
    <3> QED BY <3>2 DEF Commas, Semicolons, Unquoted
  <2>7. p' \in p..End /\ \A k \in p..(p' - 1) : k \in p..(next - 1) \/ k = next \/ (k = next + 1 /\ next + 1 < End)
    <3>1. CASE next + 1 < End
      <4>1. p' = next + 2
        BY <2>1, <3>1
      <4> QED BY <1>1, <2>2, <3>1, <4>1
    <3>2. CASE ~(next + 1 < End)
      <4>1. p' = next + 1 /\ next < End
        BY <2>1, <3>2
      <4> QED BY <1>1, <2>2, <3>2, <4>1
    <3> QED BY <3>1, <3>2
  <2> QED BY <2>2, <2>4, <2>6, <2>7
<1>5. CASE CloseQuote
  <2> DEFINE next == Upto(p, {Backslash, Quote})
  <2>1. /\ quoted /\ ~Is(next, {Backslash}) /\ p' = IF next = End THEN End ELSE next + 1
    BY <1>5 DEF CloseQuote
  <2>2. /\ next \in p..End /\ next \in 1..End
        /\ \A k \in p..(next - 1) : k \notin Commas(Text) /\ k \notin Semicolons(Text)
    BY <1>3, <2>1
  <2>3. next < End => Text[next] \in {Backslash, Quote}
    BY <1>3, <2>1
  <2>4. next < End => Text[next] \notin {",", ";"}
    BY <2>3 DEF Backslash, Quote
  <2> HIDE DEF next
  <2>5. next \notin Commas(Text) /\ next \notin Semicolons(Text)
    BY <1>1, <2>4, CommasHave, SemicolonsHave
  <2>6. p' \in p..End /\ \A k \in p..(p' - 1) : k \in p..(next - 1) \/ k = next
    <3>1. p' = IF next = End THEN End ELSE next + 1
      BY <2>1
    <3>2. next \in p..End /\ next \in 1..End
      BY <2>2
    <3> QED BY <1>1, <3>1, <3>2
  <2> QED BY <2>2, <2>5, <2>6
<1> QED BY <1>2, <1>4, <1>5 DEF Quotes

LEMMA Joined ==
  ASSUME NEW s \in Int, NEW i \in Int, NEW j \in Int, s < i, i <= j
  PROVE  s < j /\ \A k \in (s + 1)..(j - 1) : k \in (s + 1)..(i - 1) \/ k \in i..(j - 1)
OBVIOUS

LEMMA QuotesMeant ==
  ASSUME Sound, OnLine, Quotes
  PROVE  OnLine'
<1>1. TypeOK /\ TextType /\ p \in 1..End /\ End \in Nat /\ pc \in {"value", "rest"}
  BY TextTyped, EndTyped DEF Sound, Inv, Ahead, TypeOK, Quotes, OpenQuote, QuotedPair, CloseQuote
<1>n. p \in 1..End /\ End \in Nat
  BY <1>1
<1>2. UNCHANGED <<field, line, element, line_qs, q, q_seen, quoted_name, pc>>
  BY DEF Quotes, OpenQuote, QuotedPair, CloseQuote
<1>3. Synced(p, AtMode)
  <2>1. pc = "value" => ~quoted_name
    BY DEF OnLine
  <2> QED BY <1>1, <2>1 DEF Sound, Whole
<1>4. /\ p' \in p..End
      /\ \A k \in p..(p' - 1) : k \notin Commas(Text)
      /\ pc = "value" => \A k \in p..(p' - 1) : k \notin Semicolons(Text)
  BY <1>1, <1>3, QuotesClear
<1>5. ASSUME NEW m, InMember(m, p) PROVE InMember(m, p')
  BY <1>1, <1>4, <1>5, InMemberOn
<1>6. CASE pc = "rest"
  <2>1. PICK m \in Members(Text) : InMember(m, p) /\ BothTold(m + 1, line_coding_q, line_star_q)
    BY <1>6 DEF OnLine
  <2>2. BothTold(m + 1, line_coding_q', line_star_q')
    BY <1>2, <2>1 DEF line_qs
  <2> QED BY <1>2, <1>5, <1>6, <2>1, <2>2, AtRest
<1>7. CASE pc = "value"
  <2>1. PICK m \in Members(Text), s \in Semicolons(Text) :
          InMember(m, p) /\ Headed(m) /\ HasRead(m, s, q, q_seen) /\ InValue(m, s, p)
    BY <1>7 DEF OnLine
  <2>2. /\ s \in ParametersOf(Text, m) /\ s < p /\ WellFormed(Text, s) /\ ~IsWeight(Text, s)
        /\ \A k \in (s + 1)..(p - 1) : k \notin Semicolons(Text)
    BY <2>1 DEF InValue
  <2>3. s \in Int /\ s < p
    BY <1>1, <2>2, SemicolonsHave
  <2>n. p \in Int /\ p' \in Int /\ p <= p'
    BY <1>n, <1>4
  <2>4. s < p' /\ \A k \in (s + 1)..(p' - 1) : k \in (s + 1)..(p - 1) \/ k \in p..(p' - 1)
    BY <2>3, <2>n, Joined
  <2>5. \A k \in (s + 1)..(p' - 1) : k \notin Semicolons(Text)
    BY <1>4, <1>7, <2>2, <2>4
  <2>6. InValue(m, s, p')
    BY <2>2, <2>4, <2>5 DEF InValue
  <2>7. ~quoted_name' /\ q' \in 0..1000 /\ HasRead(m, s, q', q_seen') /\ pc' = "value"
    BY <1>2, <1>7, <2>1 DEF OnLine
  <2> QED BY <1>2, <1>5, <2>1, <2>6, <2>7, AtValue
<1> QED BY <1>1, <1>6, <1>7

LEMMA EndElementMeant ==
  ASSUME Sound, OnLine, EndElement
  PROVE  OnLine'
<1> DEFINE next == Upto(p, {",", Quote})
<1>1. /\ pc = "rest" /\ ~Is(next, {Quote}) /\ p' = next /\ pc' = "element"
      /\ UNCHANGED <<field, line, line_qs>>
  BY DEF EndElement
<1>2. TextType /\ p \in 1..End /\ End \in Nat
  BY TextTyped, EndTyped DEF Sound, Inv, TypeOK
<1>3. PICK m \in Members(Text) : InMember(m, p) /\ BothTold(m + 1, line_coding_q, line_star_q)
  BY <1>1 DEF OnLine
<1>4. next \in p..End
  BY <1>2, UptoStops
<1>5. \A k \in p..(next - 1) : Text[k] \notin {",", Quote}
  BY <1>2, UptoStops
<1>6. next < End => Text[next] = ","
  BY <1>1, <1>2, UptoStops DEF Is
<1> HIDE DEF next
<1>7. /\ m \in Int /\ m <= p /\ m < End /\ \A k \in m..(p - 1) : k \notin Commas(Text)
  BY <1>2, <1>3, MembersAre DEF InMember
<1>8. Text[m] # ","
  BY <1>3 DEF InMember
<1>9. \A k \in p..(next - 1) : k \notin Commas(Text)
  BY <1>2, <1>5, CommasHave
<1>10. next # m
  BY <1>6, <1>7, <1>8
<1>11. next \in Int /\ m + 1 \in Int /\ m + 1 <= next
  BY <1>2, <1>4, <1>7, <1>10
<1>12. ASSUME NEW n \in Members(Text) PROVE n < m + 1 \/ next <= n
  <2>1. SUFFICES ASSUME m + 1 <= n, n < next PROVE FALSE
    BY <1>2, <1>11, MembersAre
  <2>2. n \in Int /\ n # 1
    BY <1>2, <1>3, <1>7, <2>1, MembersAre
  <2>3. PICK k \in Commas(Text) : n = k + 1
    BY <1>2, <2>2, MembersAre
  <2>4. k \in Int
    BY <1>2, CommasHave
  <2>5. k \in m..(p - 1) \/ k \in p..(next - 1)
    BY <1>2, <1>7, <1>11, <2>1, <2>3, <2>4
  <2> QED BY <1>7, <1>9, <2>5
<1>13. \A form : \A n \in Saying(Text, form) : n < m + 1 \/ next <= n
  BY <1>2, <1>12, SayingAre
<1>14. BothTold(next, line_coding_q, line_star_q)
  BY <1>2, <1>3, <1>11, <1>13, ToldSkip DEF BothTold
<1>15. Text' = Text
  BY <1>1, SameText
<1>16. BothTold(p, line_coding_q, line_star_q)'
  BY <1>1, <1>14, <1>15 DEF BothTold, line_qs
<1> QED BY <1>1, <1>16 DEF OnLine

(***************************************************************************)
(* The beginning of a member.                                               *)
(***************************************************************************)
Plainly == Synced(p, "plain")

LEMMA ToTok ==
  ASSUME TypeOK, Plainly
  PROVE  \A k \in p..(Tok - 1) : Text[k] \in OWS \/ k \in Commas(Text)
<1>1. TextType /\ p \in 1..End /\ End \in Nat /\ Tok \in p..End
  BY TextTyped, EndTyped, ElementPlaces DEF TypeOK
<1>2. \A k \in p..(Tok - 1) : Text[k] \in OWS \cup {","}
  BY <1>1, PastStops DEF Tok
<1>3. \A k \in p..(Tok - 1) : ModeAfter("plain", Text[k]) = "plain"
  BY <1>2, Octets
<1>4. ASSUME NEW k \in p..(Tok - 1) PROVE Text[k] \in OWS \/ k \in Commas(Text)
  <2>1. k \in p..End /\ k \in 1..End /\ k < End /\ \A j \in p..(k - 1) : j \in p..(Tok - 1)
    BY <1>1
  <2>2. Synced(k, "plain")
    BY <1>1, <1>3, <2>1, Run DEF Plainly
  <2>3. CASE Text[k] \in OWS
    BY <2>3
  <2>4. CASE Text[k] \in {","}
    BY <1>1, <2>1, <2>2, <2>4, UnquotedIs DEF Commas
  <2> QED BY <1>2, <2>3, <2>4
<1> QED BY <1>4

LEMMA BlankMember ==
  ASSUME TypeOK, Plainly, NEW n \in p..End, Until(Text, n) <= Tok
  PROVE  \A form : ~HeadSays(Text, n, form)
<1> DEFINE u == Until(Text, n)
<1>1. TextType /\ p \in 1..End /\ End \in Nat /\ Tok \in p..End
  BY TextTyped, EndTyped, ElementPlaces DEF TypeOK
<1>2. n \in 1..End
  BY <1>1
<1>3. u \in n..End /\ \A k \in n..(u - 1) : k \notin Delims
  BY <1>1, <1>2, UntilEnds DEF Ending
<1>4. u <= Tok
  OBVIOUS
<1> HIDE DEF u
<1>5. n \in Int /\ u \in Int /\ \A k \in n..(u - 1) : k \in p..(Tok - 1)
  BY <1>1, <1>2, <1>3, <1>4
<1>6. \A k \in n..(u - 1) : Text[k] \in OWS
  BY <1>3, <1>5, ToTok, DelimsAre
<1>7. Words(Text, n, u) = {}
  BY <1>5, <1>6, NoWord
<1> QED BY <1>7 DEF HeadSays, u

(* The member whose first octet that is not blank is at Tok.                *)
AtStart == p = 1 \/ Text[p] = ","

LEMMA TokIn ==
  ASSUME TypeOK, Plainly, AtStart, Tok < End
  PROVE  \E m \in Members(Text) :
           /\ m \in p..Tok /\ m \in 1..Tok /\ Blank(m, Tok)
           /\ \A n \in Members(Text) : n < p \/ m <= n \/ \A form : ~HeadSays(Text, n, form)
<1>1. TextType /\ p \in 1..End /\ End \in Nat /\ Tok \in p..End
  BY TextTyped, EndTyped, ElementPlaces DEF TypeOK
<1>2. \A n \in Members(Text) : n \in Int /\ n \in 1..End
  BY <1>1, MembersAre
<1>3. 1 \in Members(Text) /\ \A k \in Commas(Text) : k + 1 \in Members(Text) /\ k \in Int
  BY <1>1, MembersAre, CommasHave
<1> DEFINE back == {Tok - n : n \in {n \in Members(Text) : n <= Tok}}
<1>n. 1 <= Tok /\ Tok \in Int
  BY <1>1
<1>4. back \in SUBSET Nat /\ back # {}
  BY <1>n, <1>2, <1>3
<1>5. PICK d \in back : \A e \in back : d <= e
  BY <1>4, LeastElement
<1>6. PICK m \in Members(Text) : m <= Tok /\ d = Tok - m
  BY <1>5
<1>7. \A n \in Members(Text) : n <= Tok => n <= m
  <2>1. SUFFICES ASSUME NEW n \in Members(Text), n <= Tok PROVE n <= m
    OBVIOUS
  <2>2. d <= Tok - n
    BY <1>5, <2>1
  <2>3. n \in Int /\ m \in Int
    BY <1>2
  <2> QED BY <1>n, <1>6, <2>2, <2>3
<1>8. m \in Int /\ m \in 1..End
  BY <1>2
<1>9. p <= m
  <2>1. CASE p = 1
    BY <1>8, <2>1
  <2>2. CASE Text[p] = ","
    <3>1. p # Tok
      BY <2>2, ElementPlaces
    <3>2. p < Tok /\ p \in p..(Tok - 1)
      BY <1>1, <3>1
    <3>3. p \in Commas(Text)
      BY <2>2, <3>2, ToTok, Apart
    <3>4. p + 1 \in Members(Text) /\ p + 1 <= Tok
      BY <1>1, <1>3, <3>2, <3>3
    <3>5. p + 1 <= m
      BY <1>7, <3>4
    <3> QED BY <1>1, <1>8, <3>5
  <2> QED BY <2>1, <2>2 DEF AtStart
<1>10. m \in p..Tok /\ m \in 1..Tok
  BY <1>1, <1>6, <1>8, <1>9
<1>11. \A k \in m..(Tok - 1) : k \notin Commas(Text)
  <2>1. SUFFICES ASSUME NEW k \in m..(Tok - 1), k \in Commas(Text) PROVE FALSE
    OBVIOUS
  <2>2. k + 1 \in Members(Text) /\ k + 1 <= Tok
    BY <1>3, <1>n, <1>8, <2>1
  <2>3. k + 1 <= m
    BY <1>7, <2>2
  <2> QED BY <1>8, <1>n, <2>1, <2>3
<1>12. Blank(m, Tok)
  <2>1. \A k \in m..(Tok - 1) : k \in p..(Tok - 1)
    BY <1>1, <1>10
  <2> QED BY <1>11, <2>1, ToTok DEF Blank
<1>13. ASSUME NEW n \in Members(Text), ~(n < p), ~(m <= n) PROVE \A form : ~HeadSays(Text, n, form)
  <2>1. m # 1 /\ n \in Int /\ n < m /\ p <= n /\ n \in 1..End
    BY <1>1, <1>2, <1>8, <1>13
  <2>2. PICK k \in Commas(Text) : m = k + 1
    BY <1>1, <2>1, MembersAre
  <2>3. k \in Int /\ k \in Delims /\ n <= k /\ k < Tok
    BY <1>3, <1>6, <1>8, <1>n, <2>1, <2>2, DelimsAre
  <2> DEFINE u == Until(Text, n)
  <2>4. u \in n..End /\ \A j \in n..(u - 1) : j \notin Delims
    BY <1>1, <2>1, UntilEnds DEF Ending
  <2> HIDE DEF u
  <2>5. ~(k < u)
    <3>1. k < u => k \in n..(u - 1)
      BY <1>1, <2>1, <2>3, <2>4
    <3> QED BY <2>3, <2>4, <3>1
  <2>6. u <= Tok /\ n \in p..End
    BY <1>1, <2>1, <2>3, <2>4, <2>5
  <2> QED BY <2>6, BlankMember DEF u
<1> QED BY <1>10, <1>12, <1>13

(* The places of a member's name, and what is before and behind it.         *)
Junk(i) == i < End /\ Text[i] = Quote

HeadSpots(m) ==
  /\ End \in Nat /\ m \in 1..End /\ m \in Int /\ Tok \in m..End /\ Tok < End
  /\ NameEnd \in Tok..End /\ NameEnd \in 1..End /\ Blanks \in NameEnd..End /\ Blanks \in 1..End

HeadParts(m) ==
  /\ HeadSpots(m)
  /\ Blank(m, Tok) /\ Solid(Tok, NameEnd) /\ Blank(NameEnd, Blanks)
  /\ Undelimited(m, Blanks)
  /\ Text[Tok] \notin OWS
  /\ Blanks < End => Text[Blanks] \notin OWS
  /\ Tok < NameEnd \/ NameEnd = Blanks
  /\ NameEnd = Blanks => Delimited(Blanks) \/ Junk(NameEnd)

LEMMA HeadPlaced ==
  ASSUME TypeOK, Tok < End, NEW m \in 1..Tok, Blank(m, Tok)
  PROVE  HeadParts(m)
<1>1. TextType /\ p \in 1..End /\ End \in Nat /\ Tok \in p..End /\ NameEnd \in Tok..End
  BY TextTyped, EndTyped, ElementPlaces DEF TypeOK
<1>2. Tok \in 1..End /\ NameEnd \in 1..End
  BY <1>1
<1>3. Blanks \in NameEnd..End
  BY <1>1, ElementPlaces DEF Blanks
<1>4. HeadSpots(m)
  BY <1>1, <1>2, <1>3 DEF HeadSpots
<1>5. Text[Tok] \notin OWS \cup {","}
  BY <1>1, PastStops DEF Tok
<1>6. \A k \in Tok..(NameEnd - 1) : Text[k] \notin OWS \cup {";", ",", Quote}
  BY <1>1, <1>2, UptoStops DEF NameEnd
<1>7. NameEnd < End => Text[NameEnd] \in OWS \cup {";", ",", Quote}
  BY <1>1, <1>2, UptoStops DEF NameEnd
<1>8. \A k \in NameEnd..(Blanks - 1) : Text[k] \in OWS
  BY <1>1, <1>2, PastStops DEF Blanks
<1>9. Blanks < End => Text[Blanks] \notin OWS
  BY <1>1, <1>2, PastStops DEF Blanks
<1>10. Solid(Tok, NameEnd)
  BY <1>6 DEF Solid
<1>11. Blank(NameEnd, Blanks)
  BY <1>8 DEF Blank
<1>12. ASSUME NEW k \in m..(Blanks - 1) PROVE Text[k] \notin {",", ";"}
  <2>1. k \in m..(Tok - 1) \/ k \in Tok..(NameEnd - 1) \/ k \in NameEnd..(Blanks - 1)
    BY <1>4 DEF HeadSpots
  <2>2. \A j \in m..(Tok - 1) : Text[j] \in OWS
    BY DEF Blank
  <2> QED BY <1>6, <1>8, <2>1, <2>2, Apart
<1>13. Undelimited(m, Blanks)
  BY <1>12 DEF Undelimited, Clear
<1>14. NameEnd = Blanks \/ NameEnd \in NameEnd..(Blanks - 1)
  BY <1>4 DEF HeadSpots
<1>15. Tok < NameEnd \/ NameEnd = Tok
  BY <1>4 DEF HeadSpots
<1>16. Tok < NameEnd \/ NameEnd = Blanks
  BY <1>5, <1>8, <1>14, <1>15
<1>17. NameEnd = Blanks => Delimited(Blanks) \/ Junk(NameEnd)
  <2>1. NameEnd = End \/ NameEnd < End
    BY <1>4 DEF HeadSpots
  <2> QED BY <1>7, <1>9, <2>1 DEF Delimited, Junk
<1> QED BY <1>4, <1>5, <1>9, <1>10, <1>11, <1>13, <1>16, <1>17 DEF HeadParts

(* The name is a word where a delimiter follows.                            *)
LEMMA HeadWords ==
  ASSUME TypeOK, Plainly, NEW m, HeadParts(m), Delimited(Blanks)
  PROVE  /\ Tok < NameEnd => Words(Text, m, Until(Text, m)) = {<<Tok, NameEnd - 1>>}
         /\ ~(Tok < NameEnd) => Words(Text, m, Until(Text, m)) = {}
<1>1. TextType
  BY TextTyped
<1>2. End \in Nat /\ m \in 1..End /\ m \in Int /\ Tok \in m..End /\ Tok < End
      /\ NameEnd \in Tok..End /\ Blanks \in NameEnd..End /\ Blanks \in 1..End
  BY DEF HeadParts, HeadSpots
<1>3. Blanks = End \/ Blanks \in Delims
  BY <1>1, <1>2, EndsHere, ElementPlain DEF Plainly, Blanks
<1>c. Clear(m, Blanks, {",", ";"})
  BY DEF HeadParts, Undelimited
<1>n. m \in Int /\ Blanks \in Int
  BY <1>2
<1>4. \A k \in m..(Blanks - 1) : k \notin Delims
  BY <1>1, <1>c, <1>n, ClearDelims
<1>5. Blanks \in m..End
  BY <1>2
<1>6. Until(Text, m) = Blanks
  BY <1>1, <1>2, <1>3, <1>4, <1>5, UntilIs DEF Ending
<1>7. /\ \A k \in m..(Tok - 1) : Text[k] \in OWS
      /\ \A k \in Tok..(NameEnd - 1) : Text[k] \notin OWS
      /\ \A k \in NameEnd..(Blanks - 1) : Text[k] \in OWS
  BY DEF HeadParts, Blank, Solid
<1>8. CASE Tok < NameEnd
  <2>1. /\ Tok \in m..(Blanks - 1) /\ NameEnd - 1 \in Tok..(Blanks - 1) /\ Blanks \in Int
        /\ (NameEnd - 1) + 1 = NameEnd
    BY <1>2, <1>8
  <2>2. Blank(m, Tok) /\ Solid(Tok, NameEnd) /\ Blank(NameEnd, Blanks)
    BY DEF HeadParts
  <2>3. Words(Text, m, Blanks) = {<<Tok, NameEnd - 1>>}
    BY <1>n, <2>1, <2>2, WordIs DEF Blank, Solid
  <2> QED BY <1>6, <1>8, <2>3
<1>9. CASE ~(Tok < NameEnd)
  <2>1. NameEnd = Tok /\ NameEnd = Blanks
    BY <1>2, <1>9 DEF HeadParts
  <2>2. Words(Text, m, Blanks) = {}
    BY <1>2, <1>7, <2>1, NoWord
  <2> QED BY <1>6, <1>9, <2>2
<1> QED BY <1>8, <1>9

LEMMA WordNames ==
  ASSUME NEW w, w = <<Tok, NameEnd - 1>>, Tok \in Int, NameEnd \in Int
  PROVE  /\ NamesCoding(Text, w) <=> IsCoding
         /\ NamesStar(Text, w) <=> ~IsCoding /\ IsStar
<1>1. w[1] = Tok /\ w[2] = NameEnd - 1
  OBVIOUS
<1>2. (NameEnd - 1) - Tok + 1 = NameEnd - Tok
  OBVIOUS
<1>3. Tok = NameEnd - 1 <=> NameEnd = Tok + 1
  OBVIOUS
<1>4. NamesCoding(Text, w) <=> IsCoding
  BY <1>1, <1>2 DEF NamesCoding, IsCoding
<1> QED BY <1>1, <1>3, <1>4 DEF NamesStar, IsStar

(* Where none follows no word names anything.                               *)
LEMMA NotNamed ==
  ASSUME TypeOK, NEW m, HeadParts(m), ~Delimited(Blanks), NEW w \in Words(Text, m, Until(Text, m))
  PROVE  ~NamesCoding(Text, w) /\ ~NamesStar(Text, w)
<1> DEFINE u == Until(Text, m)
<1>1. TextType
  BY TextTyped
<1>2. End \in Nat /\ m \in 1..End /\ m \in Int /\ Tok \in m..End /\ Tok < End
      /\ NameEnd \in Tok..End /\ Blanks \in NameEnd..End /\ Blanks \in 1..End
  BY DEF HeadParts, HeadSpots
<1>3. u \in m..End /\ (u = End \/ u \in Delims)
  BY <1>1, <1>2, UntilEnds DEF Ending
<1>4. Blanks # End /\ Text[Blanks] \notin {";", ","}
  BY DEF Delimited
<1>c. Clear(m, Blanks, {",", ";"})
  BY DEF HeadParts, Undelimited
<1>n. m \in Int /\ Blanks \in Int
  BY <1>2
<1>5. \A k \in m..(Blanks - 1) : k \notin Delims
  BY <1>1, <1>c, <1>n, ClearDelims
<1>6. Blanks \notin Delims
  BY <1>1, <1>4, DelimsHave
<1>7. w \in Words(Text, m, u)
  OBVIOUS
<1> HIDE DEF u
<1>8. Blanks < u
  <2>1. SUFFICES ASSUME u <= Blanks PROVE FALSE
    BY <1>2, <1>3
  <2>n. Blanks # End
    BY <1>4
  <2>2. u = Blanks \/ u \in m..(Blanks - 1)
    BY <1>2, <1>3, <2>1
  <2>3. u # End
    BY <1>2, <1>3, <2>1, <2>n
  <2> QED BY <1>3, <1>5, <1>6, <2>2, <2>3
<1>9. /\ w[1] \in m..(u - 1) /\ w[2] \in w[1]..(u - 1)
      /\ \A k \in m..(u - 1) : Text[k] \notin OWS <=> k \in w[1]..w[2]
  BY <1>2, <1>3, <1>7, WordHas
<1>10. Tok \in m..(u - 1) /\ NameEnd \in m..(u - 1) /\ Blanks \in m..(u - 1) /\ u \in Int
  BY <1>2, <1>3, <1>8
<1>11. Text[Tok] \notin OWS /\ Text[Blanks] \notin OWS
  BY <1>2, <1>8, <1>3 DEF HeadParts
<1>12. CASE NameEnd # Blanks
  <2>1. NameEnd \in NameEnd..(Blanks - 1)
    BY <1>2, <1>12
  <2>2. Text[NameEnd] \in OWS
    BY <2>1 DEF HeadParts, Blank
  <2>3. NameEnd \in Tok..(u - 1) /\ Blanks \in NameEnd..(u - 1)
    BY <1>2, <1>10
  <2>4. Words(Text, m, u) = {}
    BY <1>2, <1>10, <1>11, <2>2, <2>3, NotOneWord
  <2> QED BY <1>7, <2>4
<1>13. CASE NameEnd = Blanks
  <2>1. Junk(NameEnd)
    BY <1>13 DEF HeadParts
  <2>2. Text[NameEnd] = Quote /\ Text[NameEnd] \in Chars /\ Text[NameEnd] \notin OWS /\ Quote \in Chars
    BY <1>1, <1>2, <1>11, <1>13, <2>1, EndTyped DEF Junk
  <2>3. Tok \in w[1]..w[2] /\ NameEnd \in w[1]..w[2]
    BY <1>9, <1>10, <1>11, <2>2
  <2>4. w[1] \in w[1]..w[2] /\ w[1] \in Int /\ w[2] \in Int
    BY <1>9
  <2>5. Text[w[1]] \notin OWS
    BY <1>9, <2>4
  <2>6. w[1] \notin m..(Tok - 1)
    BY <2>5 DEF HeadParts, Blank
  <2>7. w[1] = Tok
    BY <1>2, <1>9, <2>3, <2>4, <2>6
  <2>8. ASSUME NamesCoding(Text, w) PROVE FALSE
    <3> DEFINE i == NameEnd - Tok + 1
    <3>1. w[2] - w[1] + 1 = Len(Coding) /\ \A j \in 1..Len(Coding) : Lower[Text[w[1] + j - 1]] = Coding[j]
      BY <2>8 DEF NamesCoding
    <3>2. i \in 1..Len(Coding) /\ w[1] + i - 1 = NameEnd
      BY <1>2, <2>3, <2>4, <2>7, <3>1
    <3> HIDE DEF i
    <3>3. Lower[Quote] = Coding[i]
      BY <2>2, <3>1, <3>2
    <3> QED BY <2>2, <3>2, <3>3, CodingAssumption
  <2>9. ASSUME NamesStar(Text, w) PROVE FALSE
    <3>1. w[1] = w[2]
      BY <2>9 DEF NamesStar
    <3>2. NameEnd = Tok
      BY <1>2, <2>3, <2>4, <2>7, <3>1
    <3> QED BY <2>2, <2>7, <2>9, <3>2, Apart DEF NamesStar
  <2> QED BY <2>8, <2>9
<1> QED BY <1>12, <1>13

LEMMA HeadRead ==
  ASSUME TypeOK, Plainly, NEW m, HeadParts(m)
  PROVE  /\ HeadSays(Text, m, "coding") <=> IsCoding /\ Delimited(Blanks)
         /\ HeadSays(Text, m, "star") <=> ~IsCoding /\ IsStar /\ Delimited(Blanks)
<1> DEFINE words == Words(Text, m, Until(Text, m))
<1>1. /\ HeadSays(Text, m, "coding") <=> \E w \in words : NamesCoding(Text, w)
      /\ HeadSays(Text, m, "star") <=> \E w \in words : NamesStar(Text, w)
  BY DEF HeadSays
<1>2. CASE ~Delimited(Blanks)
  BY <1>1, <1>2, NotNamed
<1>3. CASE Delimited(Blanks)
  <2>1. End \in Nat /\ Tok \in Int /\ NameEnd \in Int /\ (Tok < NameEnd \/ Tok = NameEnd)
    BY DEF HeadParts, HeadSpots
  <2>2. CASE Tok < NameEnd
    <3>1. words = {<<Tok, NameEnd - 1>>}
      BY <1>3, <2>2, HeadWords
    <3> HIDE DEF words
    <3> QED BY <1>1, <1>3, <2>1, <3>1, WordNames
  <2>3. CASE Tok = NameEnd
    <3>1. words = {}
      BY <1>3, <2>1, <2>3, HeadWords
    <3>2. ~IsStar
      BY <2>1, <2>3 DEF IsStar
    <3>3. ~IsCoding
      <4>1. Len(Coding) # 0
        BY EncodingAssumption, CodingAssumption, EmptySeq
      <4> QED BY <2>1, <2>3, <4>1 DEF IsCoding
    <3> QED BY <1>1, <3>1, <3>2, <3>3
  <2> QED BY <2>1, <2>2, <2>3
<1> QED BY <1>2, <1>3

LEMMA BeginsPlainly ==
  ASSUME Sound, BeginElement
  PROVE  TypeOK /\ TextType /\ Plainly /\ AtStart /\ Tok < End /\ pc = "element"
<1>1. TypeOK /\ TextType /\ pc = "element" /\ Tok < End /\ ~quoted
  BY TextTyped DEF Sound, Inv, Ahead, BeginElement
<1>2. Synced(p, "plain")
  BY <1>1 DEF Sound, Whole, AtMode
<1>3. p \in 1..End /\ Tok \in p..End /\ End \in Nat
  BY <1>1, ElementPlaces, EndTyped DEF TypeOK
<1>4. p # End
  <2>1. Tok < End
    BY <1>1
  <2> QED BY <1>3, <2>1
<1>5. AtStart
  BY <1>1, <1>4 DEF Sound, Whole, AtStart
<1> QED BY <1>1, <1>2, <1>5 DEF Plainly

(* Nothing of the member has been read but its name.                        *)
LEMMA HeadIn ==
  ASSUME TypeOK, NEW m \in Members(Text), HeadParts(m)
  PROVE  InMember(m, Blanks) /\ Before(m, Blanks) = {} /\ HasRead(m, Blanks, 1000, FALSE)
<1>1. TextType
  BY TextTyped
<1>2. End \in Nat /\ m \in 1..End /\ m \in Int /\ Tok \in m..End /\ Tok < End
      /\ NameEnd \in Tok..End /\ Blanks \in NameEnd..End /\ Blanks \in 1..End
  BY DEF HeadParts, HeadSpots
<1>3. m \in Int /\ Blanks \in Int /\ m <= Blanks /\ m < End
  BY <1>2
<1>c. Clear(m, Blanks, {",", ";"})
  BY DEF HeadParts, Undelimited
<1>4. \A k \in m..(Blanks - 1) : k \notin Delims
  BY <1>1, <1>3, <1>c, ClearDelims
<1>5. \A k \in m..(Blanks - 1) : k \notin Commas(Text) /\ k \notin Semicolons(Text)
  BY <1>4, DelimsAre
<1>6. m = Tok \/ m \in m..(Tok - 1)
  BY <1>2
<1>7. Text[m] # ","
  BY <1>2, <1>6, ElementPlaces, Apart DEF HeadParts, Blank
<1>8. InMember(m, Blanks)
  BY <1>3, <1>5, <1>7 DEF InMember
<1>9. ASSUME NEW s \in Before(m, Blanks) PROVE FALSE
  <2>1. s \in ParametersOf(Text, m) /\ s < Blanks
    BY DEF Before
  <2>2. s \in Semicolons(Text) /\ m <= s /\ s \in Int
    BY <1>1, <2>1, ParametersAre
  <2>3. s \in m..(Blanks - 1)
    BY <1>3, <2>1, <2>2
  <2> QED BY <1>5, <2>2, <2>3
<1>10. Before(m, Blanks) = {}
  BY <1>9
<1> QED BY <1>8, <1>10 DEF HasRead

LEMMA BeginMeant ==
  ASSUME Sound, OnLine, BeginElement
  PROVE  OnLine'
<1>1. TypeOK /\ TextType /\ Plainly /\ AtStart /\ Tok < End /\ pc = "element"
  BY BeginsPlainly
<1>2. Began
  BY Beginning
<1>3. is_coding' \in BOOLEAN /\ is_star' \in BOOLEAN
  BY BeginStep DEF Sound, Good, Inv, TypeOK
<1>4. PICK m \in Members(Text) :
        /\ m \in p..Tok /\ m \in 1..Tok /\ Blank(m, Tok)
        /\ \A n \in Members(Text) : n < p \/ m <= n \/ \A form : ~HeadSays(Text, n, form)
  BY <1>1, TokIn
<1>5. HeadParts(m)
  BY <1>1, <1>4, HeadPlaced
<1>6. InMember(m, Blanks) /\ Before(m, Blanks) = {} /\ HasRead(m, Blanks, 1000, FALSE)
  BY <1>1, <1>5, HeadIn
<1>7. p \in Int /\ m \in Int /\ p <= m /\ m <= Tok /\ Tok \in Int
  <2>1. p \in 1..End /\ End \in Nat
    BY <1>1, EndTyped DEF TypeOK
  <2>2. m \in Int
    BY <1>1, MembersAre
  <2>3. Tok \in p..End /\ m \in p..Tok
    BY <1>1, <1>4, ElementPlaces
  <2> QED BY <2>1, <2>2, <2>3
<1>8. \A form : \A n \in Saying(Text, form) : n < p \/ m <= n
  BY <1>1, <1>4, SayingAre
<1>9. BothTold(p, line_coding_q, line_star_q)
  BY <1>1 DEF OnLine
<1>10. BothTold(m, line_coding_q, line_star_q)
  BY <1>1, <1>7, <1>8, <1>9, ToldSkip DEF BothTold
<1>11. Heads(m, is_coding', is_star')
  <2>1. /\ HeadSays(Text, m, "coding") <=> IsCoding /\ Delimited(Blanks)
        /\ HeadSays(Text, m, "star") <=> ~IsCoding /\ IsStar /\ Delimited(Blanks)
    BY <1>1, <1>5, HeadRead
  <2>2. (is_coding' <=> IsCoding /\ Delimited(Blanks)) /\ (is_star' <=> IsStar /\ Delimited(Blanks))
    BY <1>2, ZenonT(40) DEF Began
  <2> QED BY <2>1, <2>2, ZenonT(40) DEF Heads
<1>12. p' = Blanks /\ UNCHANGED <<field, line>> /\ ~quoted_name' /\ q' = 1000 /\ q_seen' = FALSE
       /\ Blanks \in 1..End
  BY <1>2 DEF Began
<1>13. InMember(m, p') /\ HasRead(m, p', q', q_seen')
  BY <1>6, <1>12
<1>14. CASE Is(Blanks, {";"})
  <2>1. pc' = "param" /\ UNCHANGED line_qs
    BY <1>2, <1>14 DEF Began
  <2>2. BothTold(m, line_coding_q', line_star_q')
    BY <1>10, <2>1 DEF line_qs
  <2>3. Delimited(p')
    BY <1>12, <1>14 DEF Is, Delimited
  <2>4. q' \in 0..1000
    BY <1>12
  <2> QED BY <1>11, <1>12, <1>13, <2>1, <2>2, <2>3, <2>4, AtParam
<1>15. CASE ~Is(Blanks, {";"})
  <2>1. pc' = "rest" /\ Noted(1000, is_coding', is_star')
    BY <1>2, <1>15 DEF Began
  <2>2. ASSUME is_coding' \/ is_star' PROVE 1000 = MemberWeight(Text, m)
    <3>1. Delimited(Blanks)
      BY <1>2, <2>2, ZenonT(40) DEF Began
    <3>2. Synced(Blanks, "plain")
      BY <1>1, ElementPlain DEF Blanks, Plainly
    <3>3. Blanks = End \/ (Blanks < End /\ Text[Blanks] = ",")
      <4>1. Blanks = End \/ Blanks < End
        BY <1>1, <1>12, EndTyped
      <4> QED BY <1>15, <3>1, <4>1 DEF Delimited, Is
    <3>4. Blanks = End \/ Blanks \in Commas(Text)
      BY <1>1, <1>12, <3>2, <3>3, UnquotedIs DEF Commas
    <3>5. Before(m, Blanks) = ParametersOf(Text, m)
      BY <1>1, <1>6, <1>12, <3>4, AllBefore
    <3>6. MemberWeight(Text, m) = 1000
      <4>1. 1000 \in 0..1000
        OBVIOUS
      <4>2. HasRead(m, Blanks, 1000, FALSE)
        BY <1>6
      <4> QED BY <3>5, <4>1, <4>2, ReadWhole, ZenonT(40)
    <3> QED BY <3>6
  <2>3. 1000 \in Qs
    BY DEF Qs
  <2>4. BothTold(m + 1, line_coding_q', line_star_q')
    BY <1>1, <1>3, <1>10, <1>11, <2>1, <2>2, <2>3, NotedTold
  <2> QED BY <1>12, <1>13, <2>1, <2>4, AtRest
<1> QED BY <1>14, <1>15

(***************************************************************************)
(* Steps through lines.                                                     *)
(***************************************************************************)
LEMMA InLineMeant ==
  ASSUME Sound, NamesUnquoted(Text), OnLine, InLine
  PROVE  OnLine'
BY BeginMeant, ParametersMeant, QuotesMeant, EndElementMeant DEF InLine

(* At the line's end all of its members have been read.                     *)
LEMMA LineTold ==
  ASSUME Sound, OnLine, EndLine
  PROVE  BothTold(End + 1, line_coding_q, line_star_q)
<1>1. TypeOK /\ TextType /\ pc = "element" /\ ~quoted
  BY TextTyped DEF Sound, Inv, Ahead, EndLine
<1>2. Plainly
  BY <1>1 DEF Sound, Whole, AtMode, Plainly
<1>3. Tok = End
  BY DEF EndLine
<1>4. End \in Nat /\ p \in 1..End
  BY <1>1, EndTyped DEF TypeOK
<1>5. ASSUME NEW form, NEW n \in Saying(Text, form) PROVE n < p
  <2>1. n \in Members(Text) /\ HeadSays(Text, n, form)
    BY <1>1, SayingAre
  <2>2. n \in 1..End
    BY <1>1, <2>1, MembersAre
  <2>3. SUFFICES ASSUME ~(n < p) PROVE FALSE
    OBVIOUS
  <2>4. n \in p..End
    BY <1>4, <2>2, <2>3
  <2>5. Until(Text, n) \in n..End
    BY <1>1, <2>2, UntilEnds DEF Ending
  <2>6. Until(Text, n) <= Tok
    BY <1>3, <1>4, <2>4, <2>5
  <2> QED BY <1>1, <1>2, <2>1, <2>4, <2>6, BlankMember
<1>6. p \in Int /\ End + 1 \in Int /\ p <= End + 1
  BY <1>4
<1>7. BothTold(p, line_coding_q, line_star_q)
  BY <1>1 DEF OnLine
<1> QED BY <1>1, <1>5, <1>6, <1>7, ToldSkip DEF BothTold

LEMMA MembersFrom ==
  ASSUME NEW t \in Seq(Chars), NEW form
  PROVE  \A m \in Saying(t, form) : m \in Nat \ {0} /\ MemberWeight(t, m) >= 0
<1>1. DOMAIN t = 1..Len(t) /\ Len(t) \in Nat
  OBVIOUS
<1> DEFINE commas == Unquoted(t, {","})
<1>2. \A k \in commas : k \in 1..Len(t)
  BY <1>1 DEF Unquoted
<1>3. Members(t) = {1} \cup {k + 1 : k \in commas}
  BY DEF Members
<1> HIDE DEF commas
<1>4. \A m \in Members(t) : m \in Nat \ {0}
  BY <1>1, <1>2, <1>3
<1> QED BY <1>4 DEF Saying

(* What a line has said last is what its fold adds.                         *)
SaidIn(n, form) == {<<n, m>> : m \in Saying(field[n], form)}

LEMMA PlacesMore ==
  ASSUME NEW n \in Nat, NEW form
  PROVE  PlacesIn(n + 1, form) = PlacesIn(n, form) \cup SaidIn(n + 1, form)
<1>1. 1..(n + 1) = (1..n) \cup {n + 1}
  OBVIOUS
<1> QED BY <1>1 DEF PlacesIn, SaidIn

LEMMA PlacesTyped ==
  ASSUME field \in Seq(Seq(Chars)), NEW n \in 0..Len(field), NEW form, NEW z \in PlacesIn(n, form)
  PROVE  z = <<z[1], z[2]>> /\ z[1] \in 1..n /\ z[2] \in Nat \ {0}
<1>1. PICK i \in 1..n : \E m \in Saying(field[i], form) : z = <<i, m>>
  BY DEF PlacesIn
<1>2. PICK m \in Saying(field[i], form) : z = <<i, m>>
  BY <1>1
<1>3. field[i] \in Seq(Chars)
  BY <1>1
<1>4. m \in Nat \ {0}
  BY <1>2, <1>3, MembersFrom
<1> QED BY <1>1, <1>2, <1>4

LEMMA LineSays ==
  ASSUME TypeOK, NEW form, NEW x, line \in 1..Len(field), Told(Text, End + 1, form, x)
  PROVE  IF Saying(Text, form) = {} THEN x = -1
         ELSE \E m \in Saying(Text, form) :
                x = MemberWeight(Text, m) /\ \A n \in Saying(Text, form) : n <= m
<1>1. TextType /\ End \in Nat
  BY TextTyped, EndTyped
<1>2. \A m \in Saying(Text, form) : m \in 1..End /\ m \in Int
  BY <1>1, SayingAre
<1>3. \A m \in Saying(Text, form) : ~(End + 1 <= m)
  BY <1>1, <1>2
<1>4. CASE Saying(Text, form) = {}
  BY <1>4 DEF Told
<1>5. CASE Saying(Text, form) # {}
  <2>1. ~(\A m \in Saying(Text, form) : End + 1 <= m)
    BY <1>3, <1>5
  <2>2. \E m \in Saying(Text, form) :
          m < End + 1 /\ x = MemberWeight(Text, m) /\ \A n \in Saying(Text, form) : n <= m \/ End + 1 <= n
    BY <2>1 DEF Told
  <2> QED BY <1>3, <1>5, <2>2
<1> QED BY <1>4, <1>5

LEMMA LineAdds ==
  ASSUME TypeOK, line \in 1..Len(field), NEW form, NEW x, Told(Text, End + 1, form, x),
         NEW y, FieldTold(line - 1, form, y)
  PROVE  /\ x >= 0 => FieldTold(line, form, x)
         /\ x = -1 => FieldTold(line, form, y)
<1>1. field \in Seq(Seq(Chars)) /\ Text = field[line]
  BY DEF TypeOK, Text
<1>2. Text \in Seq(Chars) /\ line \in Nat /\ Len(field) \in Nat
  BY <1>1
<1>3. PlacesIn(line, form) = PlacesIn(line - 1, form) \cup SaidIn(line, form)
  <2>1. line - 1 \in Nat /\ (line - 1) + 1 = line
    BY <1>2
  <2> QED BY <2>1, PlacesMore
<1>4. SaidIn(line, form) = {<<line, m>> : m \in Saying(Text, form)}
  BY <1>1 DEF SaidIn
<1>5. CASE Saying(Text, form) = {}
  <2>1. SaidIn(line, form) = {} /\ x = -1
    BY <1>4, <1>5, LineSays
  <2>2. PlacesIn(line, form) = PlacesIn(line - 1, form)
    BY <1>3, <2>1
  <2>3. FieldTold(line, form, y)
    BY <2>2 DEF FieldTold
  <2> QED BY <2>1, <2>3
<1>6. CASE Saying(Text, form) # {}
  <2>1. PICK m \in Saying(Text, form) : x = MemberWeight(Text, m) /\ \A n \in Saying(Text, form) : n <= m
    BY <1>6, LineSays
  <2>2. m \in Nat /\ x >= 0
    BY <1>2, <2>1, MembersFrom
  <2> DEFINE last == <<line, m>>
  <2>3. last \in PlacesIn(line, form) /\ last[1] = line /\ last[2] = m
    BY <1>3, <1>4, <2>1
  <2>4. x = MemberWeight(field[last[1]], last[2])
    BY <1>1, <2>1
  <2> HIDE DEF last
  <2>5. ASSUME NEW z \in PlacesIn(line, form) PROVE NotAfter(last, z)
    <3>1. CASE z \in PlacesIn(line - 1, form)
      <4>1. line - 1 \in 0..Len(field)
        BY <1>2
      <4>2. z[1] \in 1..(line - 1)
        BY <1>1, <3>1, <4>1, PlacesTyped
      <4>3. z[1] < line
        BY <1>2, <4>2
      <4> QED BY <2>3, <4>3 DEF NotAfter
    <3>2. CASE z \in SaidIn(line, form)
      <4>1. PICK n \in Saying(Text, form) : z = <<line, n>>
        BY <1>4, <3>2
      <4>2. z[1] = line /\ z[2] = n /\ n <= m
        BY <2>1, <4>1
      <4> QED BY <2>3, <4>2 DEF NotAfter
    <3> QED BY <1>3, <3>1, <3>2
  <2>6. PlacesIn(line, form) # {}
    BY <2>3
  <2>7. FieldTold(line, form, x)
    BY <2>3, <2>4, <2>5, <2>6 DEF FieldTold
  <2>8. ~(x = -1)
    BY <2>2
  <2> QED BY <2>7, <2>8
<1> QED BY <1>5, <1>6

LEMMA FoldedTold ==
  ASSUME TypeOK, line \in 1..Len(field), BothTold(End + 1, line_coding_q, line_star_q),
         Folds(line - 1), Folded
  PROVE  /\ FieldTold(line, "coding", coding_q')
         /\ coding_q' = -1 /\ AllowWildcard => FieldTold(line, "star", star_q')
<1>1. /\ line_coding_q >= 0 => FieldTold(line, "coding", line_coding_q)
      /\ line_coding_q = -1 => FieldTold(line, "coding", coding_q)
  BY LineAdds DEF BothTold, Folds
<1>2. ASSUME coding_q = -1, AllowWildcard
      PROVE  /\ line_star_q >= 0 => FieldTold(line, "star", line_star_q)
             /\ line_star_q = -1 => FieldTold(line, "star", star_q)
  BY <1>2, LineAdds DEF BothTold, Folds
<1>3. line_coding_q \in Qs /\ line_star_q \in Qs
  BY DEF TypeOK
<1>4. (line_coding_q >= 0 \/ line_coding_q = -1) /\ (line_star_q >= 0 \/ line_star_q = -1)
      /\ ~(line_coding_q >= 0 /\ line_coding_q = -1) /\ ~(line_star_q >= 0 /\ line_star_q = -1)
  BY <1>3 DEF Qs
<1>5. \/ line_coding_q >= 0 /\ coding_q' = line_coding_q
      \/ /\ line_coding_q = -1 /\ coding_q' = coding_q
         /\ \/ AllowWildcard /\ line_star_q >= 0 /\ star_q' = line_star_q
            \/ ~(AllowWildcard /\ line_star_q >= 0) /\ star_q' = star_q
  BY <1>4 DEF Folded, request_qs
<1>6. CASE line_coding_q >= 0 /\ coding_q' = line_coding_q
  BY <1>1, <1>4, <1>6
<1>7. CASE line_coding_q = -1 /\ coding_q' = coding_q
  BY <1>1, <1>2, <1>4, <1>5, <1>7
<1> QED BY <1>5, <1>6, <1>7

(***************************************************************************)
(* The whole walk.                                                          *)
(***************************************************************************)
LEMMA LineGoesOn ==
  ASSUME Sound, InLine
  PROVE  /\ UNCHANGED <<field, line, coding_q, star_q>>
         /\ pc \in {"element", "param", "value", "rest"} /\ pc' \in {"element", "param", "value", "rest"}
<1>1. pc \in {"element", "param", "value", "rest"} /\ UNCHANGED <<field, line, coding_q, star_q>>
  BY LineStays DEF Sound, Inv, Ahead
<1>2. pc' \in {"element", "param", "value", "rest"}
  <2>1. CASE BeginElement
    BY <2>1, Beginning DEF Began
  <2>2. CASE EmptyName
    BY <2>2 DEF EmptyName, Malformed
  <2>3. CASE NoValue
    BY <2>3 DEF NoValue, Malformed, EndParameter
  <2>4. CASE OtherParameter
    BY <2>4 DEF OtherParameter
  <2>5. CASE Weight
    BY <2>5 DEF Weight, Malformed, EndParameter
  <2>6. CASE EndValue \/ EndParameters
    BY <2>6 DEF EndValue, EndParameters
  <2>7. CASE Quotes
    BY <1>1, <2>7 DEF Quotes, OpenQuote, QuotedPair, CloseQuote
  <2>8. CASE EndElement
    BY <2>8 DEF EndElement
  <2> QED BY <2>1, <2>2, <2>3, <2>4, <2>5, <2>6, <2>7, <2>8 DEF InLine, Parameters
<1> QED BY <1>1, <1>2

LEMMA InitMeant == Init => Meant
<1> SUFFICES ASSUME Init PROVE Meant
  OBVIOUS
<1>1. field \in Fields /\ line = 0 /\ coding_q = -1 /\ star_q = -1 /\ pc = "line"
  BY DEF Init, Start
<1>2. field \in Seq(Seq(Chars))
  BY <1>1, EncodingAssumption
<1>3. Len(field) \in Nat /\ 0 \in 0..Len(field)
  BY <1>2
<1>4. \A form : PlacesIn(0, form) = {}
  <2>1. 1..0 = {}
    OBVIOUS
  <2> QED BY <2>1 DEF PlacesIn
<1>5. \A form : FieldTold(0, form, -1)
  BY <1>4 DEF FieldTold
<1>6. Folds(0)
  BY <1>1, <1>3, <1>5 DEF Folds
<1>7. InField
  BY <1>1, <1>6 DEF InField
<1>8. OnLine
  BY <1>1 DEF OnLine
<1> QED BY <1>7, <1>8 DEF Meant

LEMMA OnSomeLine ==
  ASSUME TypeOK, Folds(line - 1)
  PROVE  line \in 1..Len(field) /\ line \in DOMAIN field
<1>1. field \in Seq(Seq(Chars)) /\ line \in 0..Len(field) /\ line - 1 \in 0..Len(field)
  BY DEF TypeOK, Folds
<1>2. Len(field) \in Nat /\ DOMAIN field = 1..Len(field)
  BY <1>1
<1> QED BY <1>1, <1>2

LEMMA FoldsKept ==
  ASSUME UNCHANGED <<field, coding_q, star_q>>
  PROVE  \A n : Folds(n) => Folds(n)'
BY DEF Folds, FieldTold, PlacesIn

LEMMA LineMeant ==
  ASSUME Sound, Meant, Proper, InLine
  PROVE  Meant'
<1>1. UNCHANGED <<field, line, coding_q, star_q>> /\ pc \notin {"line", "done"} /\ pc' \notin {"line", "done"}
  BY LineGoesOn
<1>2. Folds(line - 1) /\ TypeOK
  BY <1>1 DEF Meant, InField, Sound, Inv
<1>3. line \in DOMAIN field
  BY <1>2, OnSomeLine
<1>4. OnLine /\ NamesUnquoted(Text)
  BY <1>3 DEF Meant, Proper, Text
<1>5. OnLine'
  BY <1>4, InLineMeant
<1>6. Folds(line - 1)'
  BY <1>1, <1>2, FoldsKept
<1>7. InField'
  BY <1>1, <1>6 DEF InField
<1> QED BY <1>5, <1>7 DEF Meant

LEMMA EndLineMeant ==
  ASSUME Sound, Meant, Proper, EndLine
  PROVE  Meant'
<1>1. UNCHANGED <<field, line>> /\ pc = "element" /\ pc' = "line" /\ Folded
  BY DEF EndLine
<1>2. Folds(line - 1) /\ TypeOK
  BY <1>1 DEF Meant, InField, Sound, Inv
<1>3. line \in 1..Len(field) /\ line \in DOMAIN field
  BY <1>2, OnSomeLine
<1>4. BothTold(End + 1, line_coding_q, line_star_q)
  BY <1>3, LineTold DEF Meant
<1>5. /\ FieldTold(line, "coding", coding_q')
      /\ coding_q' = -1 /\ AllowWildcard => FieldTold(line, "star", star_q')
  BY <1>1, <1>2, <1>3, <1>4, FoldedTold
<1>6. line \in 0..Len(field)
  BY <1>2 DEF TypeOK
<1>7. Folds(line)'
  BY <1>1, <1>5, <1>6 DEF Folds, FieldTold, PlacesIn
<1>8. InField'
  BY <1>1, <1>7 DEF InField
<1>9. OnLine'
  BY <1>1 DEF OnLine
<1> QED BY <1>8, <1>9 DEF Meant

LEMMA NextLineMeant ==
  ASSUME Sound, Meant, Proper, NextLine
  PROVE  Meant'
<1>1. /\ UNCHANGED <<field, coding_q, star_q>> /\ pc = "line" /\ pc' = "element"
      /\ p' = 1 /\ line_coding_q' = -1 /\ line_star_q' = -1
  BY DEF NextLine, request_qs
<1>n. line' = line + 1 /\ line < Len(field)
  BY DEF NextLine
<1>2. Folds(line) /\ TypeOK
  BY <1>1 DEF Meant, InField, Sound, Inv
<1>3. field \in Seq(Seq(Chars)) /\ line \in 0..Len(field)
  BY <1>2 DEF TypeOK
<1>4. line' - 1 = line /\ line' \in 1..Len(field)
  BY <1>n, <1>3
<1>5. Folds(line - 1)'
  BY <1>1, <1>2, <1>4, FoldsKept
<1>6. InField'
  BY <1>1, <1>5 DEF InField
<1>7. Text' = field[line'] /\ field[line'] \in Seq(Chars)
  BY <1>1, <1>3, <1>4 DEF Text
<1>8. \A form : \A m \in Saying(field[line'], form) : 1 <= m
  BY <1>7, MembersFrom
<1>9. \A form : Told(field[line'], 1, form, -1)
  BY <1>8 DEF Told
<1>10. OnLine'
  BY <1>1, <1>7, <1>9 DEF OnLine, BothTold
<1> QED BY <1>6, <1>10 DEF Meant

LEMMA EndFieldMeant ==
  ASSUME Sound, Meant, Proper, EndField
  PROVE  Meant'
<1>1. /\ UNCHANGED <<field, line, coding_q, star_q>> /\ pc = "line" /\ pc' = "done"
      /\ line = Len(field)
  BY DEF EndField, request_qs
<1>2. Folds(line)'
  BY <1>1, FoldsKept DEF Meant, InField
<1>3. InField'
  BY <1>1, <1>2 DEF InField
<1>4. OnLine'
  BY <1>1 DEF OnLine
<1> QED BY <1>3, <1>4 DEF Meant

LEMMA FieldStays ==
  ASSUME Next
  PROVE  UNCHANGED field
BY LineStays DEF Next, InLine, EndLine, NextLine, EndField

LEMMA MeantStep ==
  ASSUME Sound, Meant, Next
  PROVE  Meant'
<1>1. Proper' => Proper
  BY FieldStays DEF Proper
<1>2. CASE Proper
  BY <1>2, LineMeant, EndLineMeant, NextLineMeant, EndFieldMeant DEF Next, InLine
<1>3. CASE ~Proper
  BY <1>1, <1>3 DEF Meant
<1> QED BY <1>2, <1>3

LEMMA MeantStuttering ==
  ASSUME Meant, UNCHANGED vars
  PROVE  Meant'
<1>1. UNCHANGED <<field, line, p, q, q_seen, quoted_name, is_coding, is_star, line_coding_q, line_star_q,
                  coding_q, star_q, pc>>
  BY DEF vars, element, line_qs, request_qs
<1>2. Text' = Text /\ End' = End /\ Proper' = Proper
  BY <1>1, SameText DEF Proper
<1>3. InField => InField'
  BY <1>1 DEF InField, Folds, FieldTold, PlacesIn
<1>4. OnLine => OnLine'
  <2>1. \A i, x, y : BothTold(i, x, y) => BothTold(i, x, y)'
    BY <1>2 DEF BothTold
  <2>2. \A m, i : InMember(m, i) => InMember(m, i)'
    BY <1>2 DEF InMember
  <2>3. \A m : Headed(m) => Headed(m)'
    BY <1>1, <1>2, ZenonT(40) DEF Headed, Heads, HeadSays, BothTold
  <2>4. \A m, i, w : HasRead(m, i, w, q_seen) => HasRead(m, i, w, q_seen)'
    <3> SUFFICES ASSUME NEW m, NEW i, NEW w, HasRead(m, i, w, q_seen) PROVE HasRead(m, i, w, q_seen)'
      OBVIOUS
    <3>1. HasRead(m, i, w, q_seen')
      BY <1>1
    <3> QED BY <1>2, <3>1 DEF HasRead, Before
  <2>5. \A m, s, i : InValue(m, s, i) => InValue(m, s, i)'
    BY <1>2 DEF InValue
  <2>6. Delimited(p) => Delimited(p)'
    BY <1>1, <1>2 DEF Delimited
  <2> QED BY <1>1, <1>2, <2>1, <2>2, <2>3, <2>4, <2>5, <2>6 DEF OnLine
<1> QED BY <1>1, <1>2, <1>3, <1>4 DEF Meant

LEMMA LatestIs ==
  ASSUME field \in Seq(Seq(Chars)), NEW form, NEW x, FieldTold(Len(field), form, x)
  PROVE  Latest(field, form) = x
<1> DEFINE places == PlacesIn(Len(field), form)
<1>1. Len(field) \in Nat /\ DOMAIN field = 1..Len(field)
  OBVIOUS
<1> DEFINE said == UNION {{<<i, m>> : m \in Saying(field[i], form)} : i \in DOMAIN field}
<1>2. said = places
  BY <1>1 DEF PlacesIn
<1>3. \A z \in places : z = <<z[1], z[2]>> /\ z[1] \in Nat /\ z[2] \in Nat
  <2>1. Len(field) \in 0..Len(field)
    BY <1>1
  <2> QED BY <1>1, <2>1, PlacesTyped
<1> DEFINE last == CHOOSE z \in said : \A y \in said : NotAfter(z, y)
<1>4. Latest(field, form) = IF said = {} THEN -1 ELSE MemberWeight(field[last[1]], last[2])
  BY DEF Latest, NotAfter
<1>5. CASE places = {}
  BY <1>2, <1>4, <1>5 DEF FieldTold
<1>6. CASE places # {}
  <2>1. PICK y \in places :
          x = MemberWeight(field[y[1]], y[2]) /\ \A z \in places : NotAfter(y, z)
    BY <1>6 DEF FieldTold
  <2>2. last \in said /\ \A z \in said : NotAfter(last, z)
    BY <1>2, <2>1
  <2> HIDE DEF last, places, said
  <2>3. NotAfter(y, last) /\ NotAfter(last, y)
    BY <1>2, <2>1, <2>2
  <2>4. y[1] = last[1] /\ y[2] = last[2]
    BY <1>2, <1>3, <2>1, <2>2, <2>3 DEF NotAfter
  <2> QED BY <1>2, <1>4, <1>6, <2>1, <2>4
<1> QED BY <1>5, <1>6

(* A field means what the grammar says of its octets.                       *)
LEMMA MeantMeans ==
  ASSUME Sound, Meant
  PROVE  FieldMeansItsMembers
<1> SUFFICES ASSUME pc = "done", Proper PROVE FieldWeight = Meaning(field)
  BY DEF FieldMeansItsMembers, Proper
<1>1. Folds(Len(field))
  BY DEF Meant, InField
<1>2. field \in Seq(Seq(Chars)) /\ coding_q \in Qs /\ star_q \in Qs
  BY DEF Sound, Inv, TypeOK
<1>3. Latest(field, "coding") = coding_q
  BY <1>1, <1>2, LatestIs DEF Folds
<1>4. coding_q = -1 /\ AllowWildcard => Latest(field, "star") = star_q
  BY <1>1, <1>2, LatestIs DEF Folds
<1>5. (coding_q >= 0 \/ coding_q = -1) /\ (star_q >= 0 \/ star_q = -1) /\ ~(-1 >= 0)
  BY <1>2 DEF Qs
<1> QED BY <1>3, <1>4, <1>5 DEF FieldWeight, Meaning

(* Whatever the octets of a field's lines are, the weight the walk ends     *)
(* with is the one the grammar gives the latest member that names the       *)
(* coding, else the latest that is "*": however parameters are malformed,   *)
(* quoted-strings cut or lines split, provided that no quoted-string begins *)
(* where a parameter's name should be.                                      *)
THEOREM AlwaysMeansItsMembers == Spec => []FieldMeansItsMembers
<1>1. Init => Meant
  BY InitMeant
<1>2. Sound /\ Meant /\ [Next]_vars => Meant'
  BY MeantStep, MeantStuttering
<1>3. Sound /\ Meant => FieldMeansItsMembers
  BY MeantMeans
<1> QED BY <1>1, <1>2, <1>3, Soundness, PTL DEF Spec
=============================================================================
