-------------------------- MODULE NoTransformProofs --------------------------
(***************************************************************************)
(* The walk finds the directive exactly where a value says it, for every    *)
(* list of headers and every value.                                         *)
(***************************************************************************)
EXTENDS NoTransform, Recursion, SequenceTheorems

LEMMA Octets ==
  Quote # Backslash /\ Quote \notin OWS \cup {",", ";", "="}
  /\ "," \notin OWS \cup {";", "="} /\ ";" \notin OWS /\ "=" \notin OWS
BY DEF Quote, Backslash, OWS

(***************************************************************************)
(* The recursive functions are what their equations say.                    *)
(***************************************************************************)

LEMMA Places ==
  ASSUME NEW v \in Seq(Chars)
  PROVE  Len(v) \in Nat /\ End(v) = Len(v) + 1 /\ \A k \in 1..Len(v) : v[k] \in Chars
BY DEF End

QuoteStep(e, v, j) ==
  IF j = End(v) THEN j
  ELSE IF v[j] = Quote THEN j + 1
  ELSE IF Escapes(v, j) THEN e[j + 2]
  ELSE e[j + 1]

LEMMA QuoteEndEquation ==
  ASSUME NEW v \in Seq(Chars), NEW from \in 1..End(v)
  PROVE  \E e : /\ QuoteEnd(v, from) = e[from]
                /\ \A j \in from..End(v) : e[j] = QuoteStep(e, v, j)
<1> DEFINE places == from..End(v)
           equation(e) == e = [j \in places |-> QuoteStep(e, v, j)]
           step == [j \in places |-> [e \in [places -> Int] |-> QuoteStep(e, v, j)]]
<1>1. Len(v) \in Nat /\ End(v) = Len(v) + 1 /\ End(v) \in Int /\ from \in Int
  BY Places
<1>2. ASSUME NEW j \in places, j # End(v) PROVE j + 1 \in places /\ (Escapes(v, j) => j + 2 \in places)
  BY <1>1, <1>2 DEF Escapes
<1>3. \A j \in places : \A e \in [places -> Int] : QuoteStep(e, v, j) \in Int
  <2> SUFFICES ASSUME NEW j \in places, NEW e \in [places -> Int] PROVE QuoteStep(e, v, j) \in Int
    OBVIOUS
  <2>1. CASE j = End(v)
    BY <1>1, <2>1 DEF QuoteStep
  <2>2. CASE j # End(v)
    <3>1. j + 1 \in Int /\ e[j + 1] \in Int /\ (Escapes(v, j) => e[j + 2] \in Int)
      BY <1>2, <2>2
    <3> QED BY <2>2, <3>1 DEF QuoteStep
  <2> QED BY <2>1, <2>2
<1>4. \A j \in places : \A g, h \in [places -> Int] :
        (\A k \in (j + 1)..End(v) : g[k] = h[k]) => step[j][g] = step[j][h]
  <2> SUFFICES ASSUME NEW j \in places, NEW g \in [places -> Int], NEW h \in [places -> Int],
                      \A k \in (j + 1)..End(v) : g[k] = h[k]
               PROVE  QuoteStep(g, v, j) = QuoteStep(h, v, j)
    OBVIOUS
  <2>1. j # End(v) => g[j + 1] = h[j + 1] /\ (Escapes(v, j) => g[j + 2] = h[j + 2])
    BY <1>1, <1>2
  <2> QED BY <2>1 DEF QuoteStep
<1>5. step \in [places -> [[places -> Int] -> Int]]
  BY <1>3
<1>6. PICK e \in [places -> Int] : FollowsDown(e, from, End(v), step)
  <2> HIDE DEF step
  <2>1. 0 \in Int
    OBVIOUS
  <2> QED BY <1>1, <1>4, <1>5, <2>1, DownwardRecursion
<1>7. \A j \in places : e[j] = QuoteStep(e, v, j)
  BY <1>6 DEF FollowsDown
<1>8. equation(e)
  BY <1>7
<1>9. QuoteEnd(v, from) = (CHOOSE g : equation(g))[from]
  BY DEF QuoteEnd, QuoteStep
<1>10. equation(CHOOSE g : equation(g))
  <2> HIDE DEF equation
  <2> QED BY <1>8
<1> HIDE DEF step
<1>11. from \in places
  BY <1>1
<1> QED BY <1>9, <1>10

(***************************************************************************)
(* The places the loops stop at.                                            *)
(***************************************************************************)

LEMMA MinIs ==
  ASSUME NEW T \in SUBSET Nat, T # {}
  PROVE  Min(T) \in T /\ \A y \in T : Min(T) <= y
<1> DEFINE least(x) == \A y \in T : x <= y
<1>1. PICK x \in T : least(x)
  BY LeastElement
<1>2. Min(T) = CHOOSE z \in T : least(z)
  BY DEF Min
<1> HIDE DEF least
<1>3. Min(T) \in T /\ least(Min(T))
  BY <1>1, <1>2
<1> QED BY <1>3 DEF least

LEMMA UptoStops ==
  ASSUME NEW v \in Seq(Chars), NEW j \in 1..End(v), NEW set
  PROVE  /\ Upto(v, j, set) \in j..End(v)
         /\ Upto(v, j, set) < End(v) => v[Upto(v, j, set)] \in set
         /\ \A k \in j..(Upto(v, j, set) - 1) : v[k] \notin set
<1> DEFINE stops == {k \in j..Len(v) : v[k] \in set} \cup {End(v)}
<1>1. Len(v) \in Nat /\ End(v) = Len(v) + 1 /\ j \in Nat
  BY Places
<1>2. stops \in SUBSET Nat /\ stops # {}
  BY <1>1
<1>3. Upto(v, j, set) = Min(stops)
  BY DEF Upto
<1> HIDE DEF stops
<1>4. Min(stops) \in stops /\ \A y \in stops : Min(stops) <= y
  BY <1>2, MinIs
<1>5. Min(stops) \in j..End(v) /\ (Min(stops) < End(v) => v[Min(stops)] \in set)
  BY <1>1, <1>4 DEF stops
<1>6. ASSUME NEW k \in j..(Min(stops) - 1) PROVE v[k] \notin set
  <2>1. k \notin stops
    BY <1>1, <1>4, <1>5
  <2>2. k \in j..Len(v)
    BY <1>1, <1>5
  <2> QED BY <2>1, <2>2 DEF stops
<1> QED BY <1>3, <1>5, <1>6

(* From within a quoted string, none of it is outside before its end.       *)
LEMMA QuoteEndStops ==
  ASSUME NEW v \in Seq(Chars), NEW from \in 1..End(v)
  PROVE  /\ QuoteEnd(v, from) \in from..End(v)
         /\ from = End(v) \/ Mode(v)[from - 1] = "quoted" =>
              /\ QuoteEnd(v, from) = End(v) \/ Mode(v)[QuoteEnd(v, from) - 1] = "plain"
              /\ \A k \in from..(QuoteEnd(v, from) - 1) : Mode(v)[k - 1] # "plain"
<1>1. PICK e : QuoteEnd(v, from) = e[from] /\ \A j \in from..End(v) : e[j] = QuoteStep(e, v, j)
  BY QuoteEndEquation
<1> DEFINE mode == Mode(v)
           ends(j) ==
             /\ e[j] \in j..End(v)
             /\ j = End(v) \/ mode[j - 1] = "quoted" =>
                  /\ e[j] = End(v) \/ mode[e[j] - 1] = "plain"
                  /\ \A k \in j..(e[j] - 1) : mode[k - 1] # "plain"
           T == {n \in Nat : \A j \in from..End(v) : j >= End(v) - n => ends(j)}
<1>2. Len(v) \in Nat /\ End(v) = Len(v) + 1 /\ from \in Nat \ {0} /\ from <= End(v)
  BY Places
<1>3. \A k \in 1..Len(v) : mode[k] = ModeAfter(mode[k - 1], v[k])
  BY ModeEquation
<1> HIDE DEF mode
<1>4. ends(End(v))
  <2>1. End(v) \in from..End(v)
    BY <1>2
  <2>2. e[End(v)] = End(v)
    BY <1>1, <2>1 DEF QuoteStep
  <2> QED BY <1>2, <2>1, <2>2
<1>5. 0 \in T
  BY <1>2, <1>4
<1>6. ASSUME NEW j \in from..End(v), j # End(v),
             ends(j + 1), j + 2 \in from..End(v) => ends(j + 2)
      PROVE  ends(j)
  <2>1. /\ j \in 1..Len(v) /\ e[j] = QuoteStep(e, v, j) /\ j + 1 \in from..End(v)
        /\ mode[j] = ModeAfter(mode[j - 1], v[j])
    BY <1>1, <1>2, <1>3, <1>6
  <2>2. CASE v[j] = Quote
    <3>1. e[j] = j + 1
      BY <1>6, <2>1, <2>2 DEF QuoteStep
    <3>2. mode[j - 1] = "quoted" => mode[j] = "plain"
      BY <2>1, <2>2 DEF ModeAfter
    <3> QED BY <1>2, <1>6, <2>1, <3>1, <3>2
  <2>3. CASE v[j] # Quote /\ Escapes(v, j)
    <3>1. j < Len(v) /\ v[j] = Backslash /\ e[j] = e[j + 2] /\ j + 2 \in from..End(v)
      BY <1>2, <1>6, <2>1, <2>3 DEF QuoteStep, Escapes
    <3>2. mode[j + 1] = ModeAfter(mode[j], v[j + 1])
      <4>1. j + 1 \in 1..Len(v) /\ (j + 1) - 1 = j
        BY <2>1, <3>1
      <4> QED BY <1>3, <4>1
    <3>3. mode[j - 1] = "quoted" => mode[j] = "escaped" /\ mode[j + 1] = "quoted"
      BY <2>1, <2>3, <3>1, <3>2 DEF ModeAfter
    <3>4. e[j] \in (j + 2)..End(v) /\ e[j] \in j..End(v)
      BY <1>2, <1>6, <2>1, <3>1
    <3>5. ASSUME mode[j - 1] = "quoted"
          PROVE  /\ e[j] = End(v) \/ mode[e[j] - 1] = "plain"
                 /\ \A k \in j..(e[j] - 1) : mode[k - 1] # "plain"
      <4>1. (j + 2) - 1 = j + 1
        BY <2>1
      <4>2. /\ e[j] = End(v) \/ mode[e[j] - 1] = "plain"
            /\ \A k \in (j + 2)..(e[j] - 1) : mode[k - 1] # "plain"
        BY <1>6, <3>1, <3>3, <3>5, <4>1
      <4>3. \A k \in j..(e[j] - 1) : k = j \/ k = j + 1 \/ k \in (j + 2)..(e[j] - 1)
        BY <2>1, <3>4
      <4>4. mode[j - 1] # "plain" /\ mode[(j + 1) - 1] # "plain"
        BY <2>1, <3>3, <3>5
      <4> QED BY <4>2, <4>3, <4>4
    <3> QED BY <1>6, <3>4, <3>5
  <2>4. CASE v[j] # Quote /\ ~Escapes(v, j)
    <3>1. e[j] = e[j + 1]
      BY <1>6, <2>1, <2>4 DEF QuoteStep
    <3>2. mode[j - 1] = "quoted" => mode[j] = "quoted" \/ j + 1 = End(v)
      <4>1. CASE v[j] = Backslash
        <5>1. j = Len(v)
          BY <2>1, <2>4, <4>1, <1>2 DEF Escapes
        <5> QED BY <1>2, <5>1
      <4>2. CASE v[j] # Backslash
        BY <2>1, <2>4, <4>2 DEF ModeAfter
      <4> QED BY <4>1, <4>2
    <3>3. e[j] \in (j + 1)..End(v) /\ e[j] \in j..End(v)
      BY <1>2, <1>6, <2>1, <3>1
    <3>4. ASSUME mode[j - 1] = "quoted"
          PROVE  /\ e[j] = End(v) \/ mode[e[j] - 1] = "plain"
                 /\ \A k \in j..(e[j] - 1) : mode[k - 1] # "plain"
      <4>1. (j + 1) - 1 = j
        BY <2>1
      <4>2. /\ e[j] = End(v) \/ mode[e[j] - 1] = "plain"
            /\ \A k \in (j + 1)..(e[j] - 1) : mode[k - 1] # "plain"
        BY <1>6, <3>1, <3>2, <3>4, <4>1
      <4>3. \A k \in j..(e[j] - 1) : k = j \/ k \in (j + 1)..(e[j] - 1)
        BY <2>1, <3>3
      <4> QED BY <3>4, <4>2, <4>3
    <3> QED BY <1>6, <3>3, <3>4
  <2> QED BY <2>2, <2>3, <2>4
<1>7. ASSUME NEW n \in Nat, n \in T PROVE n + 1 \in T
  <2> SUFFICES ASSUME NEW j \in from..End(v), j >= End(v) - (n + 1) PROVE ends(j)
    OBVIOUS
  <2>1. CASE j >= End(v) - n
    BY <1>7, <2>1
  <2>2. CASE j < End(v) - n
    <3>1. j # End(v) /\ j + 1 \in from..End(v) /\ j + 1 >= End(v) - n /\ j + 2 >= End(v) - n
      BY <1>2, <2>2
    <3>2. ends(j + 1) /\ (j + 2 \in from..End(v) => ends(j + 2))
      BY <1>7, <3>1
    <3> HIDE DEF ends
    <3> QED BY <1>6, <3>1, <3>2
  <2> QED BY <1>2, <2>1, <2>2
<1> HIDE DEF T
<1>8. End(v) \in T
  BY <1>2, <1>5, <1>7, Induction
<1>9. ends(from)
  <2>1. from >= End(v) - End(v) /\ from \in from..End(v)
    BY <1>2
  <2> HIDE DEF ends
  <2> QED BY <1>8, <2>1 DEF T
<1> QED BY <1>1, <1>9 DEF mode

SegmentStep(e, v, j) ==
  LET next == Upto(v, j, {",", Quote})
  IN  IF next < End(v) /\ v[next] = Quote THEN e[QuoteEnd(v, next + 1)] ELSE next

LEMMA SegmentEndEquation ==
  ASSUME NEW v \in Seq(Chars), NEW start \in 1..End(v)
  PROVE  \E e : /\ SegmentEnd(v, start) = e[start]
                /\ \A j \in start..End(v) : e[j] = SegmentStep(e, v, j)
<1> DEFINE places == start..End(v)
           equation(e) == e = [j \in places |-> SegmentStep(e, v, j)]
           step == [j \in places |-> [e \in [places -> Int] |-> SegmentStep(e, v, j)]]
           next(j) == Upto(v, j, {",", Quote})
           Quotes(j) == next(j) < End(v) /\ v[next(j)] = Quote
           after(j) == QuoteEnd(v, next(j) + 1)
<1>1. Len(v) \in Nat /\ End(v) = Len(v) + 1 /\ End(v) \in Int /\ start \in Int
  BY Places
<1>2. ASSUME NEW j \in places PROVE next(j) \in j..End(v)
  <2>1. j \in 1..End(v)
    BY <1>1
  <2> QED BY <2>1, UptoStops
<1>3. ASSUME NEW j \in places, Quotes(j) PROVE after(j) \in (j + 1)..End(v)
  <2>1. next(j) \in j..End(v) /\ next(j) < End(v)
    BY <1>2, <1>3
  <2> HIDE DEF next
  <2>2. next(j) + 1 \in 1..End(v)
    BY <1>1, <2>1
  <2>3. QuoteEnd(v, next(j) + 1) \in (next(j) + 1)..End(v)
    BY <2>2, QuoteEndStops
  <2> QED BY <1>1, <2>1, <2>3
<1>4. \A j \in places : \A e : SegmentStep(e, v, j) = IF Quotes(j) THEN e[after(j)] ELSE next(j)
  BY DEF SegmentStep
<1> HIDE DEF next, Quotes, after
<1>5. \A j \in places : \A e \in [places -> Int] : SegmentStep(e, v, j) \in Int
  <2> SUFFICES ASSUME NEW j \in places, NEW e \in [places -> Int] PROVE SegmentStep(e, v, j) \in Int
    OBVIOUS
  <2>1. CASE Quotes(j)
    <3>1. after(j) \in places
      BY <1>1, <1>3, <2>1
    <3> QED BY <1>4, <2>1, <3>1
  <2>2. CASE ~Quotes(j)
    <3>1. next(j) \in Int
      BY <1>1, <1>2
    <3> QED BY <1>4, <2>2, <3>1
  <2> QED BY <2>1, <2>2
<1>6. \A j \in places : \A g, h \in [places -> Int] :
        (\A k \in (j + 1)..End(v) : g[k] = h[k]) => step[j][g] = step[j][h]
  <2> SUFFICES ASSUME NEW j \in places, NEW g \in [places -> Int], NEW h \in [places -> Int],
                      \A k \in (j + 1)..End(v) : g[k] = h[k]
               PROVE  SegmentStep(g, v, j) = SegmentStep(h, v, j)
    OBVIOUS
  <2>1. Quotes(j) => g[after(j)] = h[after(j)]
    BY <1>3
  <2> QED BY <1>4, <2>1
<1>7. step \in [places -> [[places -> Int] -> Int]]
  BY <1>5
<1>8. PICK e \in [places -> Int] : FollowsDown(e, start, End(v), step)
  <2> HIDE DEF step
  <2>1. 0 \in Int
    OBVIOUS
  <2> QED BY <1>1, <1>6, <1>7, <2>1, DownwardRecursion
<1>9. \A j \in places : e[j] = SegmentStep(e, v, j)
  BY <1>8 DEF FollowsDown
<1>10. equation(e)
  BY <1>9
<1>11. SegmentEnd(v, start) = (CHOOSE g : equation(g))[start]
  BY DEF SegmentEnd, SegmentStep
<1>12. equation(CHOOSE g : equation(g))
  <2> HIDE DEF equation
  <2> QED BY <1>10
<1> HIDE DEF step
<1>13. start \in places
  BY <1>1
<1> QED BY <1>11, <1>12

(* Without a quote, what is outside quoted strings stays outside.           *)
LEMMA PlainRun ==
  ASSUME NEW v \in Seq(Chars), NEW j \in 1..End(v), NEW m \in j..End(v),
         Mode(v)[j - 1] = "plain", \A k \in j..(m - 1) : v[k] # Quote
  PROVE  \A k \in j..m : Mode(v)[k - 1] = "plain"
<1> DEFINE mode == Mode(v)
           T == {n \in Nat : j + n <= m => mode[(j + n) - 1] = "plain"}
<1>1. Len(v) \in Nat /\ End(v) = Len(v) + 1 /\ j \in Nat \ {0} /\ m \in Nat /\ m <= End(v)
  BY Places
<1>2. \A k \in 1..Len(v) : mode[k] = ModeAfter(mode[k - 1], v[k])
  BY ModeEquation
<1> HIDE DEF mode
<1>3. 0 \in T
  BY <1>1 DEF mode
<1>4. ASSUME NEW n \in Nat, n \in T PROVE n + 1 \in T
  <2>1. CASE j + (n + 1) <= m
    <3>1. j + n \in 1..Len(v) /\ j + n \in j..(m - 1) /\ (j + (n + 1)) - 1 = j + n
      BY <1>1, <2>1
    <3>2. mode[(j + n) - 1] = "plain" /\ v[j + n] # Quote
      BY <1>4, <3>1
    <3>3. mode[j + n] = "plain"
      BY <1>2, <3>1, <3>2 DEF ModeAfter
    <3> QED BY <3>1, <3>3
  <2> QED BY <2>1
<1> HIDE DEF T
<1>5. ASSUME NEW k \in j..m PROVE mode[k - 1] = "plain"
  <2>1. k - j \in Nat /\ j + (k - j) = k /\ k <= m
    BY <1>1
  <2>2. k - j \in T
    BY <1>3, <1>4, <2>1, Induction
  <2> QED BY <2>1, <2>2 DEF T
<1> QED BY <1>5 DEF mode

LEMMA CommaPlaces ==
  ASSUME NEW v \in Seq(Chars)
  PROVE  /\ \A k \in 1..Len(v) : k \in Commas(v) <=> v[k] = "," /\ Mode(v)[k - 1] = "plain"
         /\ Commas(v) \in SUBSET (0..End(v)) /\ 0 \in Commas(v) /\ End(v) \in Commas(v)
<1>1. Len(v) \in Nat /\ End(v) = Len(v) + 1
  BY Places
<1>2. \A k \in 1..Len(v) : k # 0 /\ k # End(v) /\ k \in 0..End(v)
  BY <1>1
<1>3. 0 \in 0..End(v) /\ End(v) \in 0..End(v)
  BY <1>1
<1> QED BY <1>2, <1>3 DEF Commas

(* The end of a segment is the next place that parts members.               *)
LEMMA SegmentEndStops ==
  ASSUME NEW v \in Seq(Chars), NEW start \in 1..End(v), Mode(v)[start - 1] = "plain"
  PROVE  /\ SegmentEnd(v, start) \in start..End(v) /\ SegmentEnd(v, start) \in Commas(v)
         /\ \A k \in start..(SegmentEnd(v, start) - 1) : k \notin Commas(v)
<1>1. PICK e : SegmentEnd(v, start) = e[start] /\ \A j \in start..End(v) : e[j] = SegmentStep(e, v, j)
  BY SegmentEndEquation
<1> DEFINE mode == Mode(v)
           stops(j) ==
             /\ e[j] \in j..End(v) /\ e[j] \in Commas(v)
             /\ \A k \in j..(e[j] - 1) : k \notin Commas(v)
           T == {n \in Nat : \A j \in start..End(v) :
                   j >= End(v) - n /\ (j = End(v) \/ mode[j - 1] = "plain") => stops(j)}
<1>2. Len(v) \in Nat /\ End(v) = Len(v) + 1 /\ start \in Nat \ {0} /\ start <= End(v)
  BY Places
<1>3. \A k \in 1..Len(v) : k \in Commas(v) <=> v[k] = "," /\ mode[k - 1] = "plain"
  BY CommaPlaces
<1> HIDE DEF mode
<1>4. ASSUME NEW j \in start..End(v), j = End(v) \/ mode[j - 1] = "plain",
             \A k \in (j + 1)..End(v) : k = End(v) \/ mode[k - 1] = "plain" => stops(k)
      PROVE  stops(j)
  <2> DEFINE next == Upto(v, j, {",", Quote})
  <2>1. /\ next \in j..End(v) /\ (next < End(v) => v[next] \in {",", Quote})
        /\ \A k \in j..(next - 1) : v[k] \notin {",", Quote}
    <3>1. j \in 1..End(v)
      BY <1>2
    <3> QED BY <3>1, UptoStops
  <2>2. e[j] = IF next < End(v) /\ v[next] = Quote THEN e[QuoteEnd(v, next + 1)] ELSE next
    BY <1>1 DEF SegmentStep
  <2> HIDE DEF next, stops
  <2>n. j \in Nat \ {0} /\ next \in Nat /\ j <= next /\ next <= End(v) /\ j <= End(v)
    <3>1. next \in j..End(v) /\ j \in start..End(v)
      BY <2>1
    <3> QED BY <1>2, <3>1
  <2>3. \A k \in j..(next - 1) : k \notin Commas(v)
    <3>1. \A k \in j..(next - 1) : k \in 1..Len(v)
      BY <1>2, <2>n
    <3> QED BY <1>3, <2>1, <3>1
  <2>4. next < End(v) => mode[next - 1] = "plain" /\ next \in 1..Len(v)
    <3> SUFFICES ASSUME next < End(v) PROVE mode[next - 1] = "plain" /\ next \in 1..Len(v)
      OBVIOUS
    <3>1. j # End(v) /\ j \in 1..End(v) /\ next \in 1..Len(v) /\ next \in j..next
      BY <1>2, <2>n
    <3>2. \A k \in j..(next - 1) : v[k] # Quote
      BY <2>1
    <3>3. mode[j - 1] = "plain"
      BY <1>4, <3>1
    <3>4. \A k \in j..next : Mode(v)[k - 1] = "plain"
      BY <2>1, <3>1, <3>2, <3>3, PlainRun DEF mode
    <3> QED BY <3>1, <3>4 DEF mode
  <2>5. CASE next = End(v)
    <3>1. e[j] = End(v) /\ End(v) \in j..End(v)
      BY <1>2, <2>n, <2>2, <2>5
    <3>2. End(v) \in Commas(v)
      BY CommaPlaces
    <3>3. \A k \in j..(e[j] - 1) : k \notin Commas(v)
      BY <2>3, <2>5, <3>1
    <3> QED BY <3>1, <3>2, <3>3 DEF stops
  <2>6. CASE next < End(v) /\ v[next] # Quote
    <3>1. e[j] = next /\ v[next] = ","
      BY <2>1, <2>2, <2>6
    <3>2. next \in Commas(v)
      BY <1>3, <2>4, <2>6, <3>1
    <3> QED BY <2>1, <2>3, <3>1, <3>2 DEF stops
  <2>7. CASE next < End(v) /\ v[next] = Quote
    <3> DEFINE after == QuoteEnd(v, next + 1)
    <3>1. e[j] = e[after] /\ next + 1 \in 1..End(v) /\ (next + 1) - 1 = next
      BY <1>2, <2>n, <2>2, <2>7
    <3>2. mode[next] = "quoted"
      BY <2>4, <2>7, ModeEquation DEF ModeAfter, mode
    <3>3. /\ after \in (next + 1)..End(v) /\ (after = End(v) \/ mode[after - 1] = "plain")
          /\ \A k \in (next + 1)..(after - 1) : mode[k - 1] # "plain"
      BY <3>1, <3>2, QuoteEndStops DEF mode
    <3> HIDE DEF after
    <3>n. after \in Nat /\ next + 1 <= after /\ after <= End(v)
      <4>1. after \in (next + 1)..End(v)
        BY <3>3
      <4> QED BY <1>2, <2>n, <4>1
    <3>4. after \in (j + 1)..End(v)
      BY <1>2, <2>n, <3>n
    <3>5. stops(after)
      BY <1>4, <3>3, <3>4
    <3>6. /\ e[j] \in j..End(v) /\ e[j] \in Commas(v)
          /\ \A k \in after..(e[j] - 1) : k \notin Commas(v)
      <4>1. e[j] \in after..End(v) /\ e[j] \in Commas(v)
        BY <3>1, <3>5 DEF stops
      <4>2. e[j] \in j..End(v)
        BY <1>2, <2>n, <3>n, <4>1
      <4> QED BY <3>1, <3>5, <4>1, <4>2 DEF stops
    <3>7. ASSUME NEW k \in j..(e[j] - 1) PROVE k \notin Commas(v)
      <4>1. k \in j..(next - 1) \/ k = next \/ k \in (next + 1)..(after - 1) \/ k \in after..(e[j] - 1)
        <5>1. k \in Int /\ j <= k /\ k <= e[j] - 1 /\ e[j] \in Int
          BY <2>n, <1>2, <3>6
        <5> QED BY <2>n, <3>n, <5>1
      <4>2. CASE k = next
        BY <1>3, <2>4, <2>7, <4>2, Octets
      <4>3. CASE k \in (next + 1)..(after - 1)
        <5>1. k \in 1..Len(v)
          BY <1>2, <2>n, <3>n, <4>3
        <5> QED BY <1>3, <3>3, <4>3, <5>1
      <4> QED BY <2>3, <3>6, <4>1, <4>2, <4>3
    <3> QED BY <3>6, <3>7 DEF stops
  <2>8. next = End(v) \/ next < End(v)
    BY <1>2, <2>n
  <2> QED BY <2>5, <2>6, <2>7, <2>8
<1>5. 0 \in T
  <2> SUFFICES ASSUME NEW j \in start..End(v), j >= End(v) - 0, j = End(v) \/ mode[j - 1] = "plain"
               PROVE  stops(j)
    OBVIOUS
  <2>1. \A k \in (j + 1)..End(v) : FALSE
    BY <1>2
  <2> HIDE DEF stops
  <2> QED BY <1>4, <2>1
<1>6. ASSUME NEW n \in Nat, n \in T PROVE n + 1 \in T
  <2> SUFFICES ASSUME NEW j \in start..End(v), j >= End(v) - (n + 1), j = End(v) \/ mode[j - 1] = "plain"
               PROVE  stops(j)
    OBVIOUS
  <2>1. \A k \in (j + 1)..End(v) : k \in start..End(v) /\ k >= End(v) - n
    BY <1>2
  <2> HIDE DEF stops
  <2>2. \A k \in (j + 1)..End(v) : k = End(v) \/ mode[k - 1] = "plain" => stops(k)
    BY <1>6, <2>1
  <2> QED BY <1>4, <2>2
<1> HIDE DEF T
<1>7. End(v) \in T
  BY <1>2, <1>5, <1>6, Induction
<1>8. stops(start)
  <2>1. start >= End(v) - End(v) /\ start \in start..End(v)
    BY <1>2
  <2> HIDE DEF stops
  <2> QED BY <1>7, <2>1 DEF T, mode
<1> QED BY <1>1, <1>8

(***************************************************************************)
(* What a member of the list says.                                          *)
(***************************************************************************)

LEMMA MaxIs ==
  ASSUME NEW b \in Nat, NEW T \in SUBSET (0..b), T # {}
  PROVE  Max(T) \in T /\ \A y \in T : y <= Max(T)
<1> DEFINE below == {b - x : x \in T}
           greatest(x) == \A y \in T : x >= y
<1>1. below \in SUBSET Nat /\ below # {}
  <2>1. \A x \in T : x \in 0..b /\ b - x \in Nat
    OBVIOUS
  <2>2. \A y \in below : y \in Nat
    BY <2>1
  <2> QED BY <2>2
<1>2. PICK z \in below : \A y \in below : z <= y
  BY <1>1, LeastElement
<1>3. PICK x \in T : z = b - x
  BY <1>2
<1>4. ASSUME NEW y \in T PROVE x >= y
  <2>1. b - x <= b - y
    BY <1>2, <1>3
  <2>2. x \in 0..b /\ y \in 0..b
    OBVIOUS
  <2> QED BY <2>1, <2>2
<1>5. greatest(x)
  BY <1>4
<1>6. Max(T) = CHOOSE w \in T : greatest(w)
  BY DEF Max
<1>7. Max(T) \in T /\ greatest(Max(T))
  <2> HIDE DEF greatest
  <2> QED BY <1>5, <1>6
<1>8. \A u, w \in 0..b : u >= w => w <= u
  OBVIOUS
<1> QED BY <1>7, <1>8

Delimiting == OWS \cup {",", ";", "=", Quote}

(* The directive holds nothing that delimits.                               *)
LEMMA DirectiveIsWord ==
  ASSUME NEW v \in Seq(Chars), NEW from \in 1..End(v), NEW to \in 0..Len(v),
         IsDirective(SubSeq(v, from, to))
  PROVE  from <= to /\ \A k \in from..to : v[k] \notin Delimiting
<1> DEFINE name == SubSeq(v, from, to)
<1>1. Len(v) \in Nat /\ End(v) = Len(v) + 1 /\ from \in Nat /\ to \in Nat /\ to <= Len(v) /\ from > 0
      /\ \A k \in 1..Len(v) : v[k] \in Chars
  BY Places
<1>2. Directive \in Seq(Chars) /\ Len(Directive) \in Nat \ {0} /\ DOMAIN Directive = 1..Len(Directive)
  <2>1. Directive \in Seq(Chars) /\ Directive # <<>>
    BY DirectiveAssumption
  <2> QED BY <2>1
<1>3. Len(name) = Len(Directive) /\ \A k \in DOMAIN name : Lower[name[k]] = Directive[k]
  BY DEF IsDirective
<1>4. CASE from > to
  <2>1. name = <<>>
    BY <1>1, <1>4, SubSeqEmpty
  <2> QED BY <1>2, <1>3, <2>1
<1>5. CASE from <= to
  <2>1. from \in Int /\ to \in Int /\ \A k \in from..to : v[k] \in Chars
    BY <1>1
  <2>2. /\ name \in Seq(Chars) /\ Len(name) = 1 + to - from
        /\ \A k \in 1..(to - from + 1) : name[k] = v[from + k - 1]
    BY <1>1, <1>5, <2>1, SubSeqProperties
  <2> HIDE DEF name
  <2>3. DOMAIN name = 1..Len(name)
    BY <2>2
  <2>4. ASSUME NEW k \in from..to PROVE v[k] \notin Delimiting
    <3>1. k - from + 1 \in 1..(to - from + 1) /\ from + (k - from + 1) - 1 = k /\ k \in 1..Len(v)
          /\ k - from + 1 \in 1..(1 + to - from)
      BY <1>1, <1>5
    <3>2. name[k - from + 1] = v[k]
      BY <2>2, <3>1
    <3>3. Lower[v[k]] = Directive[k - from + 1] /\ k - from + 1 \in DOMAIN Directive /\ v[k] \in Chars
      BY <1>1, <1>2, <1>3, <2>2, <2>3, <3>1, <3>2
    <3> QED BY <3>3, DirectiveAssumption DEF Delimiting
  <2> QED BY <1>5, <2>4
<1> QED BY <1>1, <1>4, <1>5

Word(v, from) == Upto(v, from, Chars \ OWS)

(* The segment at from is the directive.                                    *)
Found(v, from) ==
  LET start == Word(v, from)
  IN  IsDirective(Name(v, start, Cut(v, start, SegmentEnd(v, start))))

(* A member's word begins outside quoted strings, after blanks only.        *)
LEMMA WordPlace ==
  ASSUME NEW v \in Seq(Chars), NEW a \in Commas(v), a < Len(v)
  PROVE  /\ a \in 0..Len(v) /\ a + 1 \in 1..End(v)
         /\ Word(v, a + 1) \in (a + 1)..End(v)
         /\ \A k \in (a + 1)..(Word(v, a + 1) - 1) : v[k] \in OWS
         /\ Word(v, a + 1) < End(v) => v[Word(v, a + 1)] \notin OWS
         /\ \A k \in (a + 1)..Word(v, a + 1) : Mode(v)[k - 1] = "plain"
         /\ Mode(v)[Word(v, a + 1) - 1] = "plain"
<1> DEFINE word == Word(v, a + 1)
<1>1. Len(v) \in Nat /\ End(v) = Len(v) + 1 /\ a \in 0..Len(v) /\ a + 1 \in 1..End(v)
      /\ \A k \in 1..Len(v) : v[k] \in Chars
  <2>1. Len(v) \in Nat /\ End(v) = Len(v) + 1 /\ \A k \in 1..Len(v) : v[k] \in Chars
    BY Places
  <2>2. a \in 0..End(v)
    BY CommaPlaces
  <2> QED BY <2>1, <2>2
<1>2. /\ word \in (a + 1)..End(v)
      /\ word < End(v) => v[word] \in Chars \ OWS
      /\ \A k \in (a + 1)..(word - 1) : v[k] \notin Chars \ OWS
  BY <1>1, UptoStops DEF Word
<1> HIDE DEF word
<1>3. \A k \in (a + 1)..(word - 1) : v[k] \in OWS
  <2>1. \A k \in (a + 1)..(word - 1) : k \in 1..Len(v)
    BY <1>1, <1>2
  <2> QED BY <1>1, <1>2, <2>1
<1>4. Mode(v)[a] = "plain"
  <2>1. CASE a = 0
    BY <2>1, ModeEquation
  <2>2. CASE a # 0
    <3>0. a \in 1..Len(v)
      BY <1>1, <2>2
    <3>1. v[a] = "," /\ Mode(v)[a - 1] = "plain"
      BY <3>0, CommaPlaces
    <3>2. Mode(v)[a] = ModeAfter("plain", ",")
      BY <1>1, <3>0, <3>1, ModeEquation
    <3> QED BY <3>2, Octets DEF ModeAfter
  <2> QED BY <2>1, <2>2
<1>5. (a + 1) - 1 = a
  BY <1>1
<1>6. \A k \in (a + 1)..(word - 1) : v[k] # Quote
  BY <1>3, Octets
<1>7. \A k \in (a + 1)..word : Mode(v)[k - 1] = "plain"
  BY <1>1, <1>2, <1>4, <1>5, <1>6, PlainRun
<1>8. word \in (a + 1)..word
  BY <1>1, <1>2
<1> QED BY <1>1, <1>2, <1>3, <1>7, <1>8 DEF word

(* Its segment ends with the member.                                        *)
LEMMA SegmentPlace ==
  ASSUME NEW v \in Seq(Chars), NEW a \in Commas(v), a < Len(v)
  PROVE  /\ SegmentEnd(v, Word(v, a + 1)) \in Word(v, a + 1)..End(v)
         /\ SegmentEnd(v, Word(v, a + 1)) \in Commas(v)
         /\ \A k \in (a + 1)..(SegmentEnd(v, Word(v, a + 1)) - 1) : k \notin Commas(v)
<1> DEFINE word == Word(v, a + 1)
           end == SegmentEnd(v, word)
<1>1. /\ a \in 0..Len(v) /\ word \in (a + 1)..End(v) /\ Mode(v)[word - 1] = "plain"
      /\ \A k \in (a + 1)..(word - 1) : v[k] \in OWS
  BY WordPlace
<1>2. Len(v) \in Nat /\ End(v) = Len(v) + 1
  BY Places
<1> HIDE DEF word
<1>3. word \in 1..End(v)
  BY <1>1, <1>2
<1>4. end \in word..End(v) /\ end \in Commas(v) /\ \A k \in word..(end - 1) : k \notin Commas(v)
  BY <1>1, <1>3, SegmentEndStops
<1> HIDE DEF end
<1>5. ASSUME NEW k \in (a + 1)..(end - 1) PROVE k \notin Commas(v)
  <2>1. CASE k \in word..(end - 1)
    BY <1>4, <2>1
  <2>2. CASE k \notin word..(end - 1)
    <3>1. k \in (a + 1)..(word - 1) /\ k \in 1..Len(v)
      BY <1>1, <1>2, <1>3, <1>4, <2>2
    <3>2. v[k] # ","
      BY <1>1, <3>1, Octets
    <3> QED BY <3>1, <3>2, CommaPlaces
  <2> QED BY <2>1, <2>2
<1> QED BY <1>4, <1>5 DEF word, end

Named(v, start, end, cut, last) ==
  /\ cut = Cut(v, start, end) /\ last < cut
  /\ Name(v, start, cut) = SubSeq(v, start, last)
  /\ last >= start => v[last] \notin OWS
  /\ \A k \in (last + 1)..(cut - 1) : v[k] \in OWS
  /\ \A k \in start..(cut - 1) : v[k] \notin {";", "="}
  /\ cut < end => v[cut] \in {";", "="}

(* The name in a segment ends before its first ";" or "=", and blanks.      *)
LEMMA NameIs ==
  ASSUME NEW v \in Seq(Chars), NEW start \in 1..End(v), NEW end \in start..End(v)
  PROVE  \E cut \in start..end, last \in (start - 1)..end : Named(v, start, end, cut, last)
<1> DEFINE stop == Upto(v, start, {";", "="})
           cut == Cut(v, start, end)
           solid == {k \in start..(cut - 1) : v[k] \notin OWS} \cup {start - 1}
           last == Max(solid)
<1>1. Len(v) \in Nat /\ End(v) = Len(v) + 1 /\ start \in Nat \ {0} /\ start <= End(v)
      /\ end \in Nat /\ start <= end /\ end <= End(v)
  <2>1. Len(v) \in Nat /\ End(v) = Len(v) + 1
    BY Places
  <2>2. start \in Nat \ {0} /\ start <= End(v)
    BY <2>1
  <2> QED BY <2>1, <2>2
<1>2. /\ stop \in start..End(v) /\ (stop < End(v) => v[stop] \in {";", "="})
      /\ \A k \in start..(stop - 1) : v[k] \notin {";", "="}
  BY UptoStops
<1> HIDE DEF stop
<1>n. stop \in Nat /\ start <= stop /\ stop <= End(v)
  <2>1. stop \in start..End(v)
    BY <1>2
  <2> QED BY <1>1, <2>1
<1>3. cut \in {end, stop} /\ cut <= end /\ cut <= stop
  <2>1. {end, stop} \in SUBSET Nat /\ {end, stop} # {}
    BY <1>1, <1>n
  <2>2. cut = Min({end, stop})
    BY DEF Cut, stop
  <2> HIDE DEF cut
  <2> QED BY <2>1, <2>2, MinIs
<1>4. cut \in start..end
  <2> HIDE DEF cut
  <2> QED BY <1>1, <1>n, <1>3
<1> HIDE DEF cut
<1>5. solid \in SUBSET (0..End(v)) /\ solid # {} /\ End(v) \in Nat
  <2>1. start - 1 \in 0..End(v) /\ \A k \in start..(cut - 1) : k \in 0..End(v)
    BY <1>1, <1>4
  <2> QED BY <1>1, <2>1
<1>6. Name(v, start, cut) = SubSeq(v, start, last)
  BY DEF Name
<1>7. last \in solid /\ \A k \in solid : k <= last
  <2> HIDE DEF solid
  <2> QED BY <1>5, MaxIs
<1> HIDE DEF last
<1>8. last \in (start - 1)..(cut - 1)
  BY <1>1, <1>4, <1>7
<1>9. last >= start => v[last] \notin OWS
  BY <1>1, <1>7
<1>10. ASSUME NEW k \in (last + 1)..(cut - 1) PROVE v[k] \in OWS
  <2>1. k > last /\ k \in start..(cut - 1)
    BY <1>1, <1>4, <1>8
  <2>2. k \notin solid
    BY <1>7, <1>8, <2>1
  <2> QED BY <2>1, <2>2
<1> HIDE DEF solid
<1>11. \A k \in start..(cut - 1) : v[k] \notin {";", "="}
  <2>1. \A k \in start..(cut - 1) : k \in start..(stop - 1)
    BY <1>1, <1>n, <1>3, <1>4
  <2> QED BY <1>2, <2>1
<1>12. cut < end => v[cut] \in {";", "="}
  <2>1. cut < end => cut = stop /\ stop < End(v)
    BY <1>1, <1>n, <1>3
  <2> QED BY <1>2, <2>1
<1>13. last \in (start - 1)..end /\ last < cut
  BY <1>1, <1>4, <1>8
<1> QED BY <1>4, <1>6, <1>9, <1>10, <1>11, <1>12, <1>13 DEF cut, Named

(* A directive that was found is said.                                      *)
LEMMA FoundIsSaid ==
  ASSUME NEW v \in Seq(Chars), NEW a \in Commas(v), a < Len(v), Found(v, a + 1)
  PROVE  Says(v)
<1> DEFINE word == Word(v, a + 1)
           end == SegmentEnd(v, word)
<1>1. Len(v) \in Nat /\ End(v) = Len(v) + 1 /\ a \in 0..Len(v)
  BY Places, WordPlace
<1>2. /\ word \in (a + 1)..End(v) /\ end \in word..End(v) /\ end \in Commas(v)
      /\ \A k \in (a + 1)..(word - 1) : v[k] \in OWS
  BY WordPlace, SegmentPlace
<1>3. IsDirective(Name(v, word, Cut(v, word, end)))
  BY DEF Found
<1> HIDE DEF word, end
<1>4. word \in 1..End(v) /\ word \in Nat /\ end \in Nat /\ end <= End(v) /\ a + 1 <= word /\ word <= end
  BY <1>1, <1>2
<1>p. PICK cut \in word..end, last \in (word - 1)..end : Named(v, word, end, cut, last)
  BY <1>2, <1>4, NameIs
<1>5. /\ cut = Cut(v, word, end) /\ last < cut
      /\ Name(v, word, cut) = SubSeq(v, word, last)
      /\ \A k \in (last + 1)..(cut - 1) : v[k] \in OWS
      /\ cut < end => v[cut] \in {";", "="}
  BY <1>p DEF Named
<1>6. cut \in Nat /\ last \in Nat /\ word <= cut /\ cut <= end /\ last < cut /\ last \in 0..Len(v)
  <2>1. cut \in word..end /\ last \in (word - 1)..end /\ last < cut
    BY <1>5
  <2> QED BY <1>1, <1>4, <2>1
<1>7. IsDirective(SubSeq(v, word, last))
  BY <1>3, <1>5
<1>8. word <= last
  BY <1>4, <1>6, <1>7, DirectiveIsWord
<1> DEFINE rest == {k \in (last + 1)..(end - 1) : v[k] \notin OWS}
<1>9. ASSUME rest # {} PROVE v[Min(rest)] \in {";", "=", ","}
  <2>1. rest \in SUBSET Nat
    BY <1>6
  <2> DEFINE r == Min(rest)
  <2>2. r \in rest /\ \A k \in rest : r <= k
    <3> HIDE DEF rest
    <3> QED BY <1>9, <2>1, MinIs
  <2> HIDE DEF r
  <2>3. r \in (last + 1)..(end - 1) /\ v[r] \notin OWS /\ r \in Nat
    BY <1>6, <2>2
  <2>4. r >= cut
    <3>1. r < cut => r \in (last + 1)..(cut - 1)
      BY <1>6, <2>3
    <3>2. ~(r < cut)
      BY <1>5, <2>3, <3>1
    <3> QED BY <1>6, <2>3, <3>2
  <2>5. cut < end /\ cut \in (last + 1)..(end - 1)
    BY <1>4, <1>6, <2>3, <2>4
  <2>6. cut \in rest
    BY <1>5, <2>5, Octets
  <2>7. r = cut
    BY <1>6, <2>2, <2>3, <2>4, <2>6
  <2> QED BY <1>5, <2>5, <2>7 DEF r
<1>10. a < end /\ word \in (a + 1)..(end - 1) /\ last \in (a + 1)..(end - 1)
  BY <1>1, <1>4, <1>6, <1>8
<1>11. rest = {} \/ v[Min(rest)] \in {";", "=", ","}
  BY <1>9
<1> QED BY <1>2, <1>7, <1>10, <1>11 DEF Says

(* One that is said is found.                                               *)
LEMMA SaidIsFound ==
  ASSUME NEW v \in Seq(Chars), Says(v)
  PROVE  \E a \in Commas(v) : a < Len(v) /\ Found(v, a + 1)
<1>1. PICK a \in Commas(v), b \in Commas(v) : a < b /\
        \E from, to \in (a + 1)..(b - 1) :
          /\ IsDirective(SubSeq(v, from, to))
          /\ \A k \in (a + 1)..(from - 1) : v[k] \in OWS
          /\ LET rest == {k \in (to + 1)..(b - 1) : v[k] \notin OWS}
             IN  rest = {} \/ v[Min(rest)] \in {";", "=", ","}
  BY DEF Says
<1>2. PICK from \in (a + 1)..(b - 1), to \in (a + 1)..(b - 1) :
        /\ IsDirective(SubSeq(v, from, to))
        /\ \A k \in (a + 1)..(from - 1) : v[k] \in OWS
        /\ LET rest == {k \in (to + 1)..(b - 1) : v[k] \notin OWS}
           IN  rest = {} \/ v[Min(rest)] \in {";", "=", ","}
  BY <1>1
<1> DEFINE rest == {k \in (to + 1)..(b - 1) : v[k] \notin OWS}
<1>3. rest = {} \/ v[Min(rest)] \in {";", "=", ","}
  BY <1>2
<1>4. /\ Len(v) \in Nat /\ End(v) = Len(v) + 1 /\ a \in Nat /\ b \in Nat /\ b <= Len(v) + 1
      /\ from \in Nat /\ to \in Nat /\ a + 1 <= from /\ from <= b - 1 /\ a + 1 <= to /\ to <= b - 1
  <2>1. Len(v) \in Nat /\ End(v) = Len(v) + 1
    BY Places
  <2>2. a \in 0..End(v) /\ b \in 0..End(v)
    BY CommaPlaces
  <2> QED BY <2>1, <2>2
<1>5. a < Len(v) /\ from \in 1..End(v) /\ to \in 0..Len(v)
  BY <1>4
<1>6. from <= to /\ \A k \in from..to : v[k] \notin Delimiting
  BY <1>2, <1>5, DirectiveIsWord
<1> DEFINE word == Word(v, a + 1)
           end == SegmentEnd(v, word)
<1>7. /\ word \in (a + 1)..End(v) /\ end \in word..End(v) /\ end \in Commas(v)
      /\ \A k \in (a + 1)..(word - 1) : v[k] \in OWS
      /\ word < End(v) => v[word] \notin OWS
      /\ Mode(v)[word - 1] = "plain"
      /\ \A k \in (a + 1)..(end - 1) : k \notin Commas(v)
  BY <1>5, WordPlace, SegmentPlace
<1>8. Found(v, a + 1) <=> IsDirective(Name(v, word, Cut(v, word, end)))
  BY DEF Found
<1> HIDE DEF rest, word, end
<1>9. word \in Nat /\ end \in Nat /\ a + 1 <= word /\ word <= end /\ end <= End(v)
  BY <1>4, <1>7
<1>10. word = from
  <2>1. ~(from < word)
    <3>1. from < word => from \in (a + 1)..(word - 1) /\ from \in from..to
      BY <1>4, <1>6, <1>9
    <3> QED BY <1>6, <1>7, <3>1 DEF Delimiting
  <2>2. ~(word < from)
    <3>1. word < from => word \in (a + 1)..(from - 1) /\ word < End(v)
      BY <1>4, <1>9
    <3> QED BY <1>2, <1>7, <3>1
  <2> QED BY <1>4, <1>9, <2>1, <2>2
<1>11. to < end
  <2> SUFFICES ASSUME end <= to PROVE FALSE
    BY <1>4, <1>9
  <2>1. end \in from..to /\ end \in 1..Len(v)
    BY <1>4, <1>9, <1>10
  <2>2. v[end] = ","
    BY <1>7, <2>1, CommaPlaces
  <2> QED BY <1>6, <2>1, <2>2 DEF Delimiting
<1>12. end <= b
  <2> SUFFICES ASSUME b < end PROVE FALSE
    BY <1>4, <1>9
  <2>1. b \in (a + 1)..(end - 1)
    BY <1>4, <1>9
  <2> QED BY <1>7, <2>1
<1>p. PICK cut \in word..end, last \in (word - 1)..end : Named(v, word, end, cut, last)
  <2>1. word \in 1..End(v)
    BY <1>5, <1>10
  <2> QED BY <1>7, <2>1, NameIs
<1>13. /\ cut = Cut(v, word, end) /\ last < cut
       /\ Name(v, word, cut) = SubSeq(v, word, last)
       /\ last >= word => v[last] \notin OWS
       /\ \A k \in (last + 1)..(cut - 1) : v[k] \in OWS
       /\ \A k \in word..(cut - 1) : v[k] \notin {";", "="}
       /\ cut < end => v[cut] \in {";", "="}
  BY <1>p DEF Named
<1>n. word = from /\ word \in Nat \ {0}
  BY <1>4, <1>10
<1>14. cut \in Nat /\ last \in Nat /\ word <= cut /\ cut <= end /\ last < cut
  <2>1. cut \in word..end /\ last \in (word - 1)..end /\ last < cut
    BY <1>13
  <2> QED BY <1>9, <1>n, <2>1
<1>15. to < cut
  <2> SUFFICES ASSUME cut <= to PROVE FALSE
    BY <1>4, <1>14
  <2>1. cut \in from..to /\ cut < end
    BY <1>4, <1>n, <1>9, <1>11, <1>14
  <2> QED BY <1>6, <1>13, <2>1 DEF Delimiting
<1>16. ~(last < to)
  <2>1. last < to => to \in (last + 1)..(cut - 1) /\ to \in from..to
    BY <1>4, <1>6, <1>14, <1>15
  <2> QED BY <1>6, <1>13, <2>1 DEF Delimiting
<1>17. ~(to < last)
  <2> SUFFICES ASSUME to < last PROVE FALSE
    OBVIOUS
  <2>1. last >= word /\ last \in (to + 1)..(b - 1)
    BY <1>4, <1>6, <1>9, <1>n, <1>12, <1>14
  <2>2. last \in rest
    BY <1>13, <2>1 DEF rest
  <2> DEFINE r == Min(rest)
  <2>3. rest \in SUBSET Nat
    BY <1>4 DEF rest
  <2>4. r \in rest /\ \A k \in rest : r <= k
    BY <2>2, <2>3, MinIs
  <2>5. v[r] \in {";", "=", ","}
    BY <1>3, <2>2
  <2> HIDE DEF r
  <2>6. r \in Nat /\ to + 1 <= r /\ r <= last
    <3>1. r \in (to + 1)..(b - 1)
      BY <2>4 DEF rest
    <3> QED BY <1>4, <2>2, <2>4, <3>1
  <2>7. r \in word..(cut - 1) /\ r \in (a + 1)..(end - 1) /\ r \in 1..Len(v) /\ word \in 1..End(v)
        /\ r \in word..End(v) /\ r \in word..r
    BY <1>4, <1>6, <1>9, <1>10, <1>14, <2>6
  <2>8. v[r] = ","
    BY <1>13, <2>5, <2>7
  <2>9. ASSUME NEW k \in word..(r - 1) PROVE v[k] # Quote
    <3>1. CASE k <= to
      <4>1. k \in from..to
        BY <1>4, <1>10, <2>6, <3>1
      <4> QED BY <1>6, <4>1 DEF Delimiting
    <3>2. CASE k > to
      <4>1. k \in (to + 1)..(b - 1) /\ ~(r <= k)
        <5>1. k \in Int /\ k <= r - 1
          BY <1>9, <2>6
        <5> QED BY <1>4, <1>9, <1>12, <1>14, <2>6, <3>2, <5>1
      <4>2. v[k] \in OWS
        BY <2>4, <4>1 DEF rest
      <4> QED BY <4>2, Octets
    <3>3. k \in Int
      BY <1>9
    <3> QED BY <1>4, <3>1, <3>2, <3>3
  <2>10. Mode(v)[r - 1] = "plain"
    BY <1>7, <2>7, <2>9, PlainRun
  <2>11. r \in Commas(v)
    BY <2>7, <2>8, <2>10, CommaPlaces
  <2> QED BY <1>7, <2>7, <2>11
<1>18. last = to
  BY <1>4, <1>14, <1>16, <1>17
<1> QED BY <1>2, <1>5, <1>8, <1>10, <1>13, <1>18

(***************************************************************************)
(* The walk.                                                                *)
(***************************************************************************)

Speaks(h) == h.live /\ h.cache_control /\ Says(h.value)

Said == \E k \in DOMAIN headers : \E h \in {headers[k][j] : j \in DOMAIN headers[k]} : Speaks(h)

Typed ==
  /\ headers \in Lists /\ part \in 1..Len(headers) /\ i \in 1..(Len(headers[part]) + 1)
  /\ p \in Nat \ {0} /\ result \in {"none", "yes", "no"}
  /\ i > Len(headers[part]) => p = 1

(* The cursor is where a member begins, or at the end, and none before it   *)
(* is the directive.                                                        *)
Passed(v, cursor) ==
  /\ cursor \in 1..End(v) /\ cursor - 1 \in Commas(v) \cup {Len(v)}
  /\ \A a \in Commas(v) : a + 1 < cursor => ~Found(v, a + 1)

Walked ==
  /\ \A k \in 1..(part - 1) : \A j \in DOMAIN headers[k] : ~Speaks(headers[k][j])
  /\ \A j \in 1..(i - 1) : ~Speaks(headers[part][j])
  /\ InPart /\ Looked(header) => Passed(header.value, p)

Inv ==
  /\ Typed
  /\ result = "none" => Walked
  /\ result = "yes" => Said
  /\ result = "no" => ~Said

LEMMA ListTyped ==
  ASSUME Typed
  PROVE  /\ Len(headers) \in Nat \ {0} /\ DOMAIN headers = 1..Len(headers)
         /\ \A k \in 1..Len(headers) :
              /\ headers[k] \in Seq(Header) /\ Len(headers[k]) \in Nat
              /\ DOMAIN headers[k] = 1..Len(headers[k])
              /\ \A j \in 1..Len(headers[k]) : headers[k][j].value \in Seq(Chars)
<1>1. headers \in Seq(Seq(Header)) /\ headers # <<>>
  BY ListAssumption DEF Typed
<1>2. Len(headers) \in Nat \ {0} /\ DOMAIN headers = 1..Len(headers)
  BY <1>1
<1>3. ASSUME NEW k \in 1..Len(headers)
      PROVE  /\ headers[k] \in Seq(Header) /\ Len(headers[k]) \in Nat
             /\ DOMAIN headers[k] = 1..Len(headers[k])
             /\ \A j \in 1..Len(headers[k]) : headers[k][j].value \in Seq(Chars)
  <2>1. headers[k] \in Seq(Header)
    BY <1>1, <1>3
  <2>2. \A j \in 1..Len(headers[k]) : headers[k][j] \in Header
    BY <2>1
  <2> QED BY <2>1, <2>2 DEF Header
<1> QED BY <1>2, <1>3

LEMMA EmptySaysNothing ==
  ASSUME NEW v \in Seq(Chars), Len(v) = 0
  PROVE  ~Says(v)
<1>1. Commas(v) \in SUBSET (0..End(v))
  BY CommaPlaces
<1>2. \A a \in Commas(v) : ~(a < 0)
  BY <1>1
<1> QED BY <1>2, SaidIsFound

(* A header that is new begins at its first octet.                          *)
LEMMA PassedFirst ==
  ASSUME NEW v \in Seq(Chars)
  PROVE  Passed(v, 1)
<1>1. Len(v) \in Nat /\ End(v) = Len(v) + 1
  BY Places
<1>2. Commas(v) \in SUBSET (0..End(v)) /\ 0 \in Commas(v)
  BY CommaPlaces
<1>3. \A a \in Commas(v) : ~(a + 1 < 1)
  BY <1>1, <1>2
<1>4. 1 \in 1..End(v) /\ 1 - 1 = 0
  BY <1>1
<1> QED BY <1>2, <1>3, <1>4 DEF Passed

(* All of a value passed over, it does not say it.                          *)
LEMMA PassedSaysNothing ==
  ASSUME NEW v \in Seq(Chars), Passed(v, End(v))
  PROVE  ~Says(v)
<1>1. Len(v) \in Nat /\ End(v) = Len(v) + 1 /\ Commas(v) \in SUBSET (0..End(v))
  BY Places, CommaPlaces
<1>2. ASSUME NEW a \in Commas(v), a < Len(v) PROVE ~Found(v, a + 1)
  <2>1. a + 1 < End(v)
    BY <1>1, <1>2
  <2> QED BY <2>1 DEF Passed
<1> QED BY <1>2, SaidIsFound

LEMMA SegmentInv ==
  ASSUME Inv, Segment
  PROVE  Inv'
<1> DEFINE v == header.value
           start == Word(v, p)
           end == SegmentEnd(v, start)
<1>1. /\ Typed /\ Walked /\ InPart /\ Looked(header) /\ p < End(v) /\ result = "none"
      /\ UNCHANGED <<headers, part, i>>
  BY DEF Segment, Inv, InPart
<1>2. /\ part \in 1..Len(headers) /\ i \in 1..Len(headers[part])
      /\ DOMAIN headers = 1..Len(headers) /\ DOMAIN headers[part] = 1..Len(headers[part])
      /\ v \in Seq(Chars)
  <2>1. part \in 1..Len(headers) /\ i \in 1..(Len(headers[part]) + 1) /\ i <= Len(headers[part])
    BY <1>1 DEF Typed, InPart
  <2>2. Len(headers[part]) \in Nat
    BY <1>1, <2>1, ListTyped
  <2>3. i \in 1..Len(headers[part])
    BY <2>1, <2>2
  <2> QED BY <1>1, <2>1, <2>3, ListTyped DEF header
<1>3. IF Found(v, p) THEN result' = "yes" /\ UNCHANGED p
      ELSE p' = Resume(v, end) /\ UNCHANGED result
  BY DEF Segment, Start, Word, Found
<1>4. Passed(v, p)
  BY <1>1 DEF Walked
<1> HIDE DEF v
<1>5. Len(v) \in Nat /\ End(v) = Len(v) + 1 /\ p \in 1..Len(v) /\ p - 1 \in Commas(v) /\ p - 1 < Len(v)
      /\ (p - 1) + 1 = p
  <2>1. Len(v) \in Nat /\ End(v) = Len(v) + 1
    BY <1>2, Places
  <2>2. p \in 1..End(v) /\ p < End(v) /\ p - 1 \in Commas(v) \cup {Len(v)}
    BY <1>1, <1>4 DEF Passed, v
  <2> QED BY <2>1, <2>2
<1>6. CASE Found(v, p)
  <2>1. result' = "yes" /\ UNCHANGED p
    BY <1>3, <1>6
  <2>2. Says(v)
    BY <1>2, <1>5, <1>6, FoundIsSaid
  <2>3. Speaks(header)
    BY <1>1, <2>2 DEF Speaks, Looked, v
  <2>4. header = headers[part][i]
    BY DEF header
  <2>5. Said
    BY <1>2, <2>3, <2>4 DEF Said
  <2>6. Said'
    BY <1>1, <2>5 DEF Said
  <2> QED BY <1>1, <2>1, <2>6 DEF Inv, Typed
<1>7. CASE ~Found(v, p)
  <2>1. p' = Resume(v, end) /\ result' = "none"
    BY <1>1, <1>3, <1>7
  <2>2. /\ start \in p..End(v) /\ end \in start..End(v) /\ end \in Commas(v)
        /\ \A k \in p..(end - 1) : k \notin Commas(v)
    BY <1>2, <1>5, WordPlace, SegmentPlace
  <2> HIDE DEF start, end
  <2>3. end \in Nat /\ p <= end /\ end <= End(v)
    <3>1. start \in p..End(v) /\ end \in start..End(v)
      BY <2>2
    <3> QED BY <1>5, <3>1
  <2>4. p' = IF end + 1 <= End(v) THEN end + 1 ELSE End(v)
    <3>1. {end + 1, End(v)} \in SUBSET Nat /\ {end + 1, End(v)} # {}
      BY <1>5, <2>3
    <3>2. Min({end + 1, End(v)}) \in {end + 1, End(v)}
          /\ \A y \in {end + 1, End(v)} : Min({end + 1, End(v)}) <= y
      BY <3>1, MinIs
    <3>3. p' = Min({end + 1, End(v)})
      BY <2>1 DEF Resume
    <3> QED BY <1>5, <2>3, <3>2, <3>3
  <2>5. p' \in 1..End(v) /\ (p' - 1 = end \/ p' - 1 = Len(v)) /\ p' - 1 <= end
    BY <1>5, <2>3, <2>4
  <2>6. ASSUME NEW a \in Commas(v), a + 1 < p' PROVE ~Found(v, a + 1)
    <3>1. a \in Nat /\ a < end
      <4>1. a \in 0..End(v)
        BY <1>2, CommaPlaces
      <4>2. a \in Nat
        BY <1>5, <4>1
      <4>3. p' \in Int /\ p' <= end + 1
        <5>1. p' = IF end + 1 <= End(v) THEN end + 1 ELSE End(v)
          BY <2>4
        <5>2. end \in Int /\ End(v) \in Int
          BY <1>5, <2>3
        <5> QED BY <5>1, <5>2
      <4>4. a + 1 < p'
        BY <2>6
      <4> QED BY <2>3, <4>2, <4>3, <4>4
    <3>2. a \notin p..(end - 1)
      BY <2>2
    <3>3. a + 1 <= p
      BY <1>5, <2>3, <3>1, <3>2
    <3>4. CASE a + 1 < p
      BY <1>4, <3>4 DEF Passed
    <3>5. CASE a + 1 = p
      BY <1>7, <3>5
    <3> QED BY <1>5, <3>1, <3>3, <3>4, <3>5
  <2>7. UNCHANGED header
    BY <1>1 DEF header
  <2>8. Passed(v, p')
    BY <2>2, <2>5, <2>6 DEF Passed
  <2>9. Walked'
    BY <1>1, <2>1, <2>7, <2>8 DEF Walked, InPart, v
  <2>10. Typed'
    <3>1. i <= Len(headers[part]) /\ i \in Nat /\ Len(headers[part]) \in Nat
      BY <1>1, <1>2, ListTyped
    <3>2. ~(i > Len(headers[part]))
      BY <3>1
    <3>3. p' \in Nat \ {0}
      BY <1>5, <2>5
    <3> QED BY <1>1, <2>1, <3>2, <3>3 DEF Typed
  <2> QED BY <2>1, <2>9, <2>10 DEF Inv
<1> QED BY <1>6, <1>7

LEMMA NextHeaderInv ==
  ASSUME Inv, NextHeader
  PROVE  Inv'
<1>1. /\ Typed /\ Walked /\ InPart /\ result = "none" /\ result' = "none" /\ i' = i + 1 /\ p' = 1
      /\ UNCHANGED <<headers, part>> /\ (Looked(header) => p = End(header.value))
  BY DEF NextHeader, Inv, InPart
<1>2. /\ part \in 1..Len(headers) /\ i \in Nat \ {0} /\ i <= Len(headers[part])
      /\ Len(headers[part]) \in Nat
      /\ \A j \in 1..Len(headers[part]) : headers[part][j].value \in Seq(Chars)
  <2>1. part \in 1..Len(headers) /\ i \in 1..(Len(headers[part]) + 1) /\ i <= Len(headers[part])
    BY <1>1 DEF Typed, InPart
  <2>2. Len(headers[part]) \in Nat /\ \A j \in 1..Len(headers[part]) : headers[part][j].value \in Seq(Chars)
    BY <1>1, <2>1, ListTyped
  <2> QED BY <2>1, <2>2
<1>3. header.value \in Seq(Chars)
  <2>1. i \in 1..Len(headers[part])
    BY <1>2
  <2> QED BY <1>2, <2>1 DEF header
<1>4. ~Speaks(header)
  <2>1. CASE Looked(header)
    BY <1>1, <1>3, <2>1, PassedSaysNothing DEF Walked, Speaks
  <2>2. CASE ~Looked(header)
    <3>1. Speaks(header) => header.value = <<>>
      BY <2>2 DEF Speaks, Looked
    <3>2. header.value = <<>> => ~Says(header.value)
      BY <1>3, EmptySaysNothing
    <3> QED BY <3>1, <3>2 DEF Speaks
  <2> QED BY <2>1, <2>2
<1>5. \A j \in 1..(i' - 1) : ~Speaks(headers[part][j])
  <2>1. \A j \in 1..(i' - 1) : j \in 1..(i - 1) \/ j = i
    BY <1>1, <1>2
  <2> QED BY <1>1, <1>4, <2>1 DEF Walked, header
<1>6. i' \in 1..(Len(headers[part]) + 1)
  BY <1>1, <1>2
<1>7. InPart' => Passed(header'.value, p')
  <2> SUFFICES ASSUME InPart' PROVE Passed(header'.value, p')
    OBVIOUS
  <2>1. i' \in 1..Len(headers[part])
    BY <1>1, <1>2, <1>6 DEF InPart
  <2>2. header'.value \in Seq(Chars)
    BY <1>1, <1>2, <2>1 DEF header
  <2> QED BY <1>1, <2>2, PassedFirst
<1>8. Walked'
  BY <1>1, <1>5, <1>7 DEF Walked
<1>9. Typed'
  <2>1. 1 \in Nat \ {0}
    OBVIOUS
  <2> QED BY <1>1, <1>6, <2>1 DEF Typed
<1> QED BY <1>1, <1>8, <1>9 DEF Inv

LEMMA NextPartInv ==
  ASSUME Inv, NextPart
  PROVE  Inv'
<1>1. /\ Typed /\ Walked /\ result = "none" /\ i > Len(headers[part]) /\ UNCHANGED <<headers, p>>
      /\ p = 1
  BY DEF NextPart, Inv, Typed
<1>2. /\ Len(headers) \in Nat \ {0} /\ DOMAIN headers = 1..Len(headers)
      /\ part \in 1..Len(headers) /\ Len(headers[part]) \in Nat
      /\ i \in 1..(Len(headers[part]) + 1)
      /\ \A k \in 1..Len(headers) : DOMAIN headers[k] = 1..Len(headers[k]) /\ Len(headers[k]) \in Nat
  <2>1. part \in 1..Len(headers) /\ i \in 1..(Len(headers[part]) + 1)
    BY <1>1 DEF Typed
  <2> QED BY <1>1, <2>1, ListTyped
<1>3. \A k \in 1..part : \A j \in DOMAIN headers[k] : ~Speaks(headers[k][j])
  <2>1. i - 1 = Len(headers[part])
    BY <1>1, <1>2
  <2>2. \A j \in DOMAIN headers[part] : ~Speaks(headers[part][j])
    BY <1>1, <1>2, <2>1 DEF Walked
  <2>3. \A k \in 1..part : k \in 1..(part - 1) \/ k = part
    BY <1>2
  <2> QED BY <1>1, <2>2, <2>3 DEF Walked
<1>4. CASE part < Len(headers)
  <2>1. part' = part + 1 /\ i' = 1 /\ result' = "none" /\ p' = 1
    BY <1>1, <1>4 DEF NextPart
  <2>2. part' \in 1..Len(headers) /\ Len(headers[part']) \in Nat
    BY <1>2, <1>4, <2>1
  <2>3. i' \in 1..(Len(headers[part']) + 1) /\ 1 \in Nat \ {0}
    BY <2>1, <2>2
  <2>4. Typed'
    BY <1>1, <2>1, <2>2, <2>3 DEF Typed
  <2>5. \A k \in 1..(part' - 1) : \A j \in DOMAIN headers[k] : ~Speaks(headers[k][j])
    <3>1. part' - 1 = part
      BY <1>2, <2>1
    <3> QED BY <1>3, <3>1
  <2>6. \A j \in 1..(i' - 1) : FALSE
    BY <2>1
  <2>7. InPart' => Passed(header'.value, p')
    <3> SUFFICES ASSUME InPart' PROVE Passed(header'.value, p')
      OBVIOUS
    <3>1. i' \in 1..Len(headers[part'])
      BY <1>1, <2>1, <2>2 DEF InPart
    <3>2. header'.value \in Seq(Chars)
      BY <1>1, <2>2, <3>1, ListTyped DEF header
    <3> QED BY <2>1, <3>2, PassedFirst
  <2>8. Walked'
    BY <1>1, <2>5, <2>6, <2>7 DEF Walked
  <2> QED BY <2>1, <2>4, <2>8 DEF Inv
<1>5. CASE ~(part < Len(headers))
  <2>1. result' = "no" /\ UNCHANGED <<headers, part, i, p>>
    BY <1>1, <1>5 DEF NextPart
  <2>2. part = Len(headers)
    BY <1>2, <1>5
  <2>3. ~Said
    BY <1>2, <1>3, <2>2 DEF Said
  <2>4. ~Said'
    BY <2>1, <2>3 DEF Said
  <2>5. Typed'
    BY <1>1, <2>1 DEF Typed
  <2> QED BY <2>1, <2>4, <2>5 DEF Inv
<1> QED BY <1>4, <1>5

LEMMA Initially == Init => Inv
<1> SUFFICES ASSUME Init PROVE Inv
  OBVIOUS
<1>1. headers \in Lists /\ part = 1 /\ i = 1 /\ p = 1 /\ result = "none"
  BY DEF Init
<1>2. headers \in Seq(Seq(Header)) /\ headers # <<>>
  BY <1>1, ListAssumption
<1>3. part \in 1..Len(headers) /\ Len(headers[part]) \in Nat
  <2>1. Len(headers) \in Nat \ {0}
    BY <1>2
  <2>2. part \in 1..Len(headers)
    BY <1>1, <2>1
  <2>3. headers[part] \in Seq(Header)
    BY <1>2, <2>2
  <2> QED BY <2>2, <2>3
<1>4. Typed
  <2>1. i \in 1..(Len(headers[part]) + 1) /\ p \in Nat \ {0}
    BY <1>1, <1>3
  <2> QED BY <1>1, <1>3, <2>1 DEF Typed
<1>5. InPart => Passed(header.value, p)
  <2> SUFFICES ASSUME InPart PROVE Passed(header.value, p)
    OBVIOUS
  <2>1. i \in 1..Len(headers[part])
    BY <1>1, <1>3 DEF InPart
  <2>2. header.value \in Seq(Chars)
    BY <1>3, <1>4, <2>1, ListTyped DEF header
  <2> QED BY <1>1, <2>2, PassedFirst
<1>6. (\A k \in 1..(part - 1) : FALSE) /\ \A j \in 1..(i - 1) : FALSE
  BY <1>1
<1>7. Walked
  BY <1>5, <1>6 DEF Walked
<1> QED BY <1>1, <1>4, <1>7 DEF Inv

LEMMA Stuttering ==
  ASSUME Inv, UNCHANGED vars
  PROVE  Inv'
BY DEF Inv, vars, Typed, Walked, Said, InPart, header

THEOREM Invariance == Spec => []Inv
<1>1. Inv /\ [Next]_vars => Inv'
  BY SegmentInv, NextHeaderInv, NextPartInv, Stuttering DEF Next
<1> QED BY Initially, <1>1, PTL DEF Spec

(***************************************************************************)
(* Theorems.                                                                *)
(***************************************************************************)

(* The scan of ngx_http_brotli_cc_value_no_transform stands where a member  *)
(* of the list begins before each of its passes, in no quoted string and    *)
(* not beyond the value, whatever the value holds.                          *)
THEOREM AlwaysWhole == Spec => []SegmentsWhole
<1>1. Inv => SegmentsWhole
  BY DEF Inv, Walked, Passed, SegmentsWhole, InPart, Typed
<1> QED BY <1>1, Invariance, PTL

(* ngx_http_brotli_no_transform answers yes for a list of headers exactly   *)
(* if a live Cache-Control header in it says the directive outside every    *)
(* quoted string, whatever escapes, commas and open quotes are around it.   *)
THEOREM AlwaysFoundIfSaid == Spec => []FoundIfSaid
<1>1. Inv => FoundIfSaid
  BY DEF Inv, FoundIfSaid, Said, Speaks, Typed
<1> QED BY <1>1, Invariance, PTL
=============================================================================
