------------------------------ MODULE Recursion ------------------------------
(***************************************************************************)
(* Induction and recursion over the naturals, with sets and functions in    *)
(* the place of predicates and operators; and what they give for Mode.      *)
(***************************************************************************)
EXTENDS QuotedStrings, WellFoundedInduction, TLAPS

(* A set of naturals that is not empty has a least element.                 *)
LEMMA LeastElement ==
  ASSUME NEW T \in SUBSET Nat, T # {}
  PROVE  \E x \in T : \A y \in T : x <= y
<1> DEFINE R == OpToRel(<, Nat)
<1>1. IsWellFoundedOn(R, Nat)
  BY NatLessThanWellFounded
<1>2. \A x, y \in Nat : y < x => <<y, x>> \in R
  BY DEF OpToRel
<1> HIDE DEF R
<1>3. PICK x \in T : \A y \in T : <<y, x>> \notin R
  BY <1>1, WFMin
<1>4. \A y \in T : ~(y < x)
  BY <1>2, <1>3
<1>5. \A y \in T : x <= y
  BY <1>4
<1> QED BY <1>5

(* A set that has 0, and with every natural the next, has them all.         *)
LEMMA Induction ==
  ASSUME NEW T, 0 \in T, \A n \in Nat : n \in T => n + 1 \in T
  PROVE  \A n \in Nat : n \in T
<1> DEFINE rest == Nat \ T
<1>1. ASSUME rest # {} PROVE FALSE
  <2>1. PICK x \in rest : \A y \in rest : x <= y
    BY <1>1, LeastElement
  <2>2. x \in Nat \ {0} /\ x \notin T
    BY <2>1
  <2>3. x - 1 \in Nat /\ x - 1 \notin rest
    BY <2>1, <2>2
  <2>4. (x - 1) + 1 \in T /\ (x - 1) + 1 = x
    BY <2>2, <2>3
  <2> QED BY <2>2, <2>4
<1> QED BY <1>1

(* The same from the upper end of a range.                                  *)
LEMMA DownwardInduction ==
  ASSUME NEW a \in Int, NEW b \in Int, NEW T,
         \A k \in a..b : (\A j \in (k + 1)..b : j \in T) => k \in T
  PROVE  \A k \in a..b : k \in T
<1> DEFINE U == {n \in Nat : \A k \in a..b : k > b - n => k \in T}
<1>1. 0 \in U
  OBVIOUS
<1>2. ASSUME NEW n \in Nat, n \in U PROVE n + 1 \in U
  <2>1. ASSUME NEW k \in a..b, k > b - (n + 1) PROVE k \in T
    <3>1. \A j \in (k + 1)..b : j \in a..b /\ j > b - n
      BY <2>1
    <3> QED BY <1>2, <3>1
  <2> QED BY <2>1
<1>3. \A n \in Nat : n \in U
  <2> HIDE DEF U
  <2> QED BY <1>1, <1>2, Induction
<1>4. ASSUME NEW k \in a..b PROVE k \in T
  <2>1. b - k + 1 \in U /\ k > b - (b - k + 1)
    BY <1>3
  <2> QED BY <2>1
<1> QED BY <1>4

FollowsUp(f, n, init, step) == f[0] = init /\ \A k \in 1..n : f[k] = step[k][f[k - 1]]

FollowsDown(f, a, b, step) == \A k \in a..b : f[k] = step[k][f]

(* A function may be defined from the values it has at larger arguments.    *)
LEMMA DownwardRecursion ==
  ASSUME NEW a \in Int, NEW b \in Int, NEW S, NEW any \in S,
         NEW step \in [a..b -> [[a..b -> S] -> S]],
         \A k \in a..b : \A g, h \in [a..b -> S] :
            (\A j \in (k + 1)..b : g[j] = h[j]) => step[k][g] = step[k][h]
  PROVE  \E f \in [a..b -> S] : FollowsDown(f, a, b, step)
<1> DEFINE good(n, f) == \A k \in a..b : k > b - n => f[k] = step[k][f]
           T == {n \in Nat : \E f \in [a..b -> S] : good(n, f)}
<1>1. 0 \in T
  <2>1. [k \in a..b |-> any] \in [a..b -> S]
    OBVIOUS
  <2>2. \A f : good(0, f)
    OBVIOUS
  <2> QED BY <2>1, <2>2
<1>2. ASSUME NEW n \in Nat, n \in T PROVE n + 1 \in T
  <2>1. PICK f \in [a..b -> S] : good(n, f)
    BY <1>2
  <2> DEFINE g == [k \in a..b |-> IF k = b - n THEN step[k][f] ELSE f[k]]
  <2>2. g \in [a..b -> S]
    OBVIOUS
  <2>3. ASSUME NEW k \in a..b, k > b - (n + 1) PROVE g[k] = step[k][g]
    <3>1. \A j \in (k + 1)..b : g[j] = f[j]
      BY <2>3
    <3>2. step[k][g] = step[k][f]
      BY <2>2, <3>1
    <3>3. CASE k = b - n
      BY <3>2, <3>3
    <3>4. CASE k # b - n
      <4>1. k > b - n /\ g[k] = f[k]
        BY <2>3, <3>4
      <4> QED BY <2>1, <3>2, <4>1
    <3> QED BY <3>3, <3>4
  <2>4. good(n + 1, g)
    BY <2>3
  <2> HIDE DEF g, good
  <2> QED BY <2>2, <2>4
<1> HIDE DEF T
<1>3. \A n \in Nat : n \in T
  BY <1>1, <1>2, Induction
<1>4. CASE a <= b
  <2>1. b - a + 1 \in T
    BY <1>3, <1>4
  <2> QED BY <2>1 DEF T, FollowsDown
<1>5. CASE a > b
  <2>1. [k \in a..b |-> any] \in [a..b -> S]
    OBVIOUS
  <2> QED BY <1>5, <2>1 DEF FollowsDown
<1> QED BY <1>4, <1>5

(* Or from the value it has at the argument before.                         *)
LEMMA UpwardRecursion ==
  ASSUME NEW n \in Nat, NEW S, NEW init \in S, NEW step \in [1..n -> [S -> S]]
  PROVE  \E f \in [0..n -> S] : FollowsUp(f, n, init, step)
<1> DEFINE good(m, f) == f[0] = init /\ \A k \in 1..n : k <= m => f[k] = step[k][f[k - 1]]
           T == {m \in Nat : \E f \in [0..n -> S] : good(m, f)}
<1>1. 0 \in T
  <2>1. [k \in 0..n |-> init] \in [0..n -> S]
    OBVIOUS
  <2>2. good(0, [k \in 0..n |-> init])
    OBVIOUS
  <2> QED BY <2>1, <2>2
<1>2. ASSUME NEW m \in Nat, m \in T PROVE m + 1 \in T
  <2>1. PICK f \in [0..n -> S] : good(m, f)
    BY <1>2
  <2> DEFINE g == [k \in 0..n |-> IF k = m + 1 THEN step[k][f[k - 1]] ELSE f[k]]
  <2>2. g \in [0..n -> S]
    OBVIOUS
  <2>3. ASSUME NEW k \in 1..n, k <= m + 1 PROVE g[k] = step[k][g[k - 1]]
    <3>1. g[k - 1] = f[k - 1]
      BY <2>3
    <3>2. CASE k = m + 1
      BY <3>1, <3>2
    <3>3. CASE k # m + 1
      <4>1. k <= m /\ g[k] = f[k]
        BY <2>3, <3>3
      <4> QED BY <2>1, <3>1, <4>1
    <3> QED BY <3>2, <3>3
  <2>4. g[0] = init
    BY <2>1
  <2>5. good(m + 1, g)
    BY <2>3, <2>4
  <2> HIDE DEF g, good
  <2> QED BY <2>2, <2>5
<1> HIDE DEF T
<1>3. n \in T
  BY <1>1, <1>2, Induction
<1> QED BY <1>3 DEF T, FollowsUp

(* The mode before the first octet, and after each of them.                 *)
LEMMA ModeEquation ==
  ASSUME NEW v, Len(v) \in Nat
  PROVE  /\ Mode(v) \in [0..Len(v) -> Modes]
         /\ Mode(v)[0] = "plain"
         /\ \A k \in 1..Len(v) : Mode(v)[k] = ModeAfter(Mode(v)[k - 1], v[k])
<1> DEFINE equation(f) == f = [k \in 0..Len(v) |-> IF k = 0 THEN "plain" ELSE ModeAfter(f[k - 1], v[k])]
           step == [k \in 1..Len(v) |-> [m \in Modes |-> ModeAfter(m, v[k])]]
<1>1. Len(v) \in Nat
  OBVIOUS
<1>2. \A m \in Modes : \A c : ModeAfter(m, c) \in Modes
  BY DEF Modes, ModeAfter
<1>3. step \in [1..Len(v) -> [Modes -> Modes]] /\ "plain" \in Modes
  BY <1>2 DEF Modes
<1>4. PICK f \in [0..Len(v) -> Modes] : FollowsUp(f, Len(v), "plain", step)
  <2> HIDE DEF step
  <2> QED BY <1>1, <1>3, UpwardRecursion
<1>5. \A k \in 1..Len(v) : f[k] = ModeAfter(f[k - 1], v[k])
  <2>1. \A k \in 1..Len(v) : f[k - 1] \in Modes
    BY <1>1
  <2> QED BY <1>4, <2>1 DEF FollowsUp
<1>6. equation(f)
  BY <1>1, <1>4, <1>5 DEF FollowsUp
<1>7. Mode(v) = CHOOSE g : equation(g)
  BY DEF Mode
<1>8. equation(Mode(v))
  <2> HIDE DEF equation
  <2> QED BY <1>6, <1>7
<1>9. Mode(v)[0] = "plain" /\ \A k \in 1..Len(v) : Mode(v)[k] = ModeAfter(Mode(v)[k - 1], v[k])
  BY <1>1, <1>8
<1>10. Mode(v) \in [0..Len(v) -> Modes]
  <2> DEFINE T == {k \in Nat : k <= Len(v) => Mode(v)[k] \in Modes}
  <2>1. 0 \in T
    BY <1>9 DEF Modes
  <2>2. ASSUME NEW k \in Nat, k \in T PROVE k + 1 \in T
    <3>1. CASE k + 1 <= Len(v)
      <4>1. k + 1 \in 1..Len(v) /\ Mode(v)[k] \in Modes /\ (k + 1) - 1 = k
        BY <2>2, <3>1, <1>1
      <4>2. Mode(v)[k + 1] = ModeAfter(Mode(v)[k], v[k + 1])
        BY <1>9, <4>1
      <4> QED BY <1>2, <4>1, <4>2
    <3> QED BY <3>1
  <2> HIDE DEF T
  <2>3. \A k \in Nat : k \in T
    BY <2>1, <2>2, Induction
  <2>4. \A k \in 0..Len(v) : Mode(v)[k] \in Modes
    BY <1>1, <2>3 DEF T
  <2> HIDE DEF Mode
  <2>5. DOMAIN Mode(v) = 0..Len(v) /\ Mode(v) = [k \in 0..Len(v) |-> Mode(v)[k]]
    BY <1>8
  <2> QED BY <2>4, <2>5
<1> QED BY <1>9, <1>10
=============================================================================
