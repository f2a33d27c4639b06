--------------------------- MODULE DirectivesProofs ---------------------------
(***************************************************************************)
(* What the directives do.  The hooks follow those of the cycle in force,   *)
(* for any tree of blocks; the window is the configured one, lowered to the *)
(* body, for every range of windows, every size and every length.           *)
(***************************************************************************)
EXTENDS BrotliHooks, FiniteSetTheorems, Recursion

CONSTANTS MinBits, MaxBits, Default, MaxHint, Sizes, Lengths

VARIABLES at, sizes, lg_win, block, bits, content_length, wbits, hint

W == INSTANCE BrotliWindow WITH pc <- at, said <- sizes

Live(v) == v \notin {"unset", "off"}

(* The latch is what the directives of the cycle said, and a block is live  *)
(* only because one said so.                                                *)
Latched ==
  /\ stage = "parse" => said = enable
  /\ stage = "merge" => Root \in merged
  /\ stage # "idle" =>
       \A m \in Modules : any_enabled[m] <=> \E c \in Contexts : Live(said[m][c])
  /\ \A m \in Modules :
       (\E c \in Contexts : Live(enable[m][c])) => \E d \in Contexts : Live(said[m][d])

(* The hooks are what the latch said.                                       *)
Hooked ==
  /\ stage \in {"filter", "rest"} => appended = any_enabled["static"]
  /\ stage \in {"static", "filter"} => top = "core"
  /\ stage = "rest" => top = IF any_enabled["filter"] THEN "brotli" ELSE "core"
  /\ top = "brotli" => next = "core"
  /\ Working => top # "none"

Serves == LiveMeansHooked /\ HookedMeansAsked /\ ChainEnds

Inv == TypeOK /\ Latched /\ Hooked /\ Serves

LEMMA InitInv == ContextsAssumption /\ Init => Inv
<1> SUFFICES ASSUME ContextsAssumption, Init PROVE Inv
  OBVIOUS
<1>1. TypeOK
  BY DEF Init, TypeOK, Unset, Settings, Modules
<1>2. Latched
  BY DEF Init, Latched, Unset, Live
<1>3. Hooked
  BY DEF Init, Hooked, Working
<1>4. Serves
  BY DEF Init, Serves, LiveMeansHooked, HookedMeansAsked, ChainEnds, Working
<1> QED
  BY <1>1, <1>2, <1>3, <1>4 DEF Inv

(* A cycle that is dropped leaves nothing but the chain.                    *)
LEMMA IdleInv ==
  ASSUME Inv, Idle, UNCHANGED <<any_enabled, top, next, worker>>
  PROVE  Inv'
<1>1. TypeOK'
  BY DEF Inv, TypeOK, Idle, Unset, Settings, Values, Modules
<1>2. Latched'
  BY DEF Inv, Latched, Idle, Unset, Live
<1>3. Hooked'
  BY DEF Inv, Hooked, Idle, Working
<1>4. Serves'
  BY DEF Inv, Serves, LiveMeansHooked, HookedMeansAsked, ChainEnds, Working
<1> QED
  BY <1>1, <1>2, <1>3, <1>4 DEF Inv

LEMMA CreateConfInv ==
  ASSUME ContextsAssumption, Inv, CreateConf
  PROVE  Inv'
<1>1. TypeOK'
  BY
     DEF ContextsAssumption, Inv, TypeOK, CreateConf, CreatedLatch, Unset, Settings, Values, Modules
<1>2. Latched'
  BY DEF Inv, Latched, CreateConf, CreatedLatch, Unset, Live
<1>3. Hooked'
  BY DEF Inv, Hooked, CreateConf, Working
<1>4. Serves'
  BY DEF Inv, Serves, LiveMeansHooked, HookedMeansAsked, ChainEnds, Working, CreateConf
<1> QED
  BY <1>1, <1>2, <1>3, <1>4 DEF Inv

LEMMA SetEnableSlotInv ==
  ASSUME Inv, NEW m \in Modules, NEW c \in Contexts, SetEnableSlot(m, c)
  PROVE  Inv'
<1>1. CASE enable[m][c] # "unset"
  BY <1>1, IdleInv DEF SetEnableSlot
<1>2. CASE enable[m][c] = "unset"
  <2>1. PICK v \in Values(m) :
          /\ said' = [said EXCEPT ![m][c] = v]
          /\ enable' = [enable EXCEPT ![m][c] = v]
          /\ any_enabled' = [any_enabled EXCEPT ![m] = @ \/ Latches(m, c, v)]
          /\ UNCHANGED <<stage, merged, appended>>
    BY <1>2 DEF SetEnableSlot
  <2>2. stage = "parse" /\ stage' = "parse" /\ UNCHANGED <<top, next, worker>>
    BY <2>1 DEF SetEnableSlot
  <2>3. Live(v) <=> Latches(m, c, v)
    BY <2>1 DEF Live, Latches, Values
  <2>4. said = enable
    BY <2>2 DEF Inv, Latched
  <2>5. TypeOK
    BY DEF Inv
  <2>6. TypeOK'
    BY <2>1, <2>2, <2>5 DEF TypeOK, Settings, Values, Modules
  <2>7. Latched'
    <3>1. said' = enable'
      BY <2>1, <2>4, <2>5 DEF TypeOK, Settings
    <3>2. ASSUME NEW n \in Modules
          PROVE  any_enabled'[n] <=> \E d \in Contexts : Live(said'[n][d])
      <4>1. any_enabled[n] <=> \E d \in Contexts : Live(said[n][d])
        BY <2>2 DEF Inv, Latched
      <4>2. CASE n # m
        BY <4>1, <4>2, <2>1, <2>5 DEF TypeOK, Settings
      <4>3. CASE n = m
        <5>1. any_enabled'[m] <=> any_enabled[m] \/ Live(v)
          BY <2>1, <2>3, <2>5 DEF TypeOK
        <5>2. \A d \in Contexts : said'[m][d] = IF d = c THEN v ELSE said[m][d]
          BY <2>1, <2>5 DEF TypeOK, Settings
        <5>3. ~Live(said[m][c])
          BY <1>2, <2>4 DEF Live
        <5> QED
          BY <5>1, <5>2, <5>3, <4>1, <4>3
      <4> QED
        BY <4>2, <4>3
    <3> QED
      BY <3>1, <3>2, <2>2 DEF Latched
  <2>8. Hooked'
    BY <2>2, <2>5 DEF Inv, Hooked, Working
  <2>9. Serves'
    BY <2>2 DEF Inv, Serves, LiveMeansHooked, HookedMeansAsked, ChainEnds, Working
  <2> QED
    BY <2>6, <2>7, <2>8, <2>9 DEF Inv
<1> QED
  BY <1>1, <1>2

LEMMA EndParseInv ==
  ASSUME ContextsAssumption, Inv, EndParse
  PROVE  Inv'
<1>1. TypeOK'
  BY DEF ContextsAssumption, Inv, TypeOK, EndParse
<1>2. Latched'
  BY DEF Inv, Latched, EndParse
<1>3. Hooked'
  BY DEF Inv, Hooked, EndParse, Working
<1>4. Serves'
  BY DEF Inv, Serves, LiveMeansHooked, HookedMeansAsked, ChainEnds, Working, EndParse
<1> QED
  BY <1>1, <1>2, <1>3, <1>4 DEF Inv

(* Merging makes no block live that had nothing live at or above it.        *)
LEMMA MergeConfInv ==
  ASSUME ContextsAssumption, Inv, NEW c \in Contexts, MergeConf(c)
  PROVE  Inv'
<1>1. TypeOK
  BY DEF Inv
<1>2. c # Root /\ Parent[c] \in Contexts
  BY DEF ContextsAssumption, MergeConf, Inv, Latched
<1>3. ASSUME NEW m \in Modules
      PROVE  /\ enable'[m] = [enable[m] EXCEPT ![c] = Merged(m, c)]
             /\ Merged(m, c) \in {"off", enable[m][c], enable[m][Parent[c]]} \ {"unset"}
  BY <1>1, <1>2, <1>3 DEF MergeConf, Merged, TypeOK, Settings
<1>4. TypeOK'
  <2>1. enable' \in Settings
    BY <1>1, <1>2, <1>3 DEF MergeConf, TypeOK, Settings
  <2>2. \A d \in Contexts : enable'["filter"][d] # "always"
    BY <1>1, <1>2, <1>3 DEF TypeOK, Settings, Modules
  <2>3. ASSUME NEW m \in Modules, NEW d \in merged' \ {Root}
        PROVE  enable'[m][d] # "unset"
    BY <1>1, <1>2, <1>3, <2>3 DEF MergeConf, TypeOK, Settings
  <2> QED
    BY <1>1, <2>1, <2>2, <2>3 DEF MergeConf, TypeOK
<1>5. Latched'
  <2>1. ASSUME NEW m \in Modules, NEW d \in Contexts, Live(enable'[m][d])
        PROVE  \E e \in Contexts : Live(said'[m][e])
    <3>1. Live(enable[m][d]) \/ Live(enable[m][c]) \/ Live(enable[m][Parent[c]])
      <4>1. enable[m] \in [Contexts -> {"unset", "off", "on", "always"}]
        BY <1>1 DEF TypeOK, Settings
      <4>2. enable'[m][d] = IF d = c THEN Merged(m, c) ELSE enable[m][d]
        BY <1>3, <4>1
      <4> QED
        BY <1>3, <2>1, <4>2 DEF Live
    <3> QED
      BY <1>2, <3>1 DEF MergeConf, Inv, Latched
  <2> QED
    BY <2>1 DEF MergeConf, Inv, Latched
<1>6. Hooked'
  BY DEF Inv, Hooked, MergeConf, Working
<1>7. Serves'
  BY DEF Inv, Serves, LiveMeansHooked, HookedMeansAsked, ChainEnds, Working, MergeConf
<1> QED
  BY <1>4, <1>5, <1>6, <1>7 DEF Inv

LEMMA StartChainInv ==
  ASSUME Inv, StartChain
  PROVE  Inv'
<1>1. TypeOK'
  BY DEF Inv, TypeOK, StartChain
<1>2. Latched'
  BY DEF Inv, Latched, StartChain
<1>3. Hooked'
  BY DEF Inv, Hooked, StartChain, Working
<1>4. Serves'
  BY DEF Inv, Serves, LiveMeansHooked, HookedMeansAsked, ChainEnds, Working, StartChain
<1> QED
  BY <1>1, <1>2, <1>3, <1>4 DEF Inv

LEMMA StaticInitInv ==
  ASSUME Inv, StaticInit
  PROVE  Inv'
<1>1. CASE Idle
  BY <1>1, IdleInv DEF StaticInit
<1>2. CASE stage' = "filter" /\ appended' = any_enabled["static"] /\ UNCHANGED <<said, enable, merged>>
  <2>1. TypeOK'
    BY <1>2 DEF Inv, TypeOK, StaticInit, Modules
  <2>2. Latched'
    BY <1>2 DEF Inv, Latched, StaticInit
  <2>3. Hooked'
    BY <1>2 DEF Inv, Hooked, StaticInit, Working
  <2>4. Serves'
    BY <1>2 DEF Inv, Serves, LiveMeansHooked, HookedMeansAsked, ChainEnds, Working, StaticInit
  <2> QED
    BY <2>1, <2>2, <2>3, <2>4 DEF Inv
<1> QED
  BY <1>1, <1>2 DEF StaticInit

LEMMA FilterInitInv ==
  ASSUME Inv, FilterInit
  PROVE  Inv'
<1>1. TypeOK'
  BY DEF Inv, TypeOK, FilterInit, Kept
<1>2. Latched'
  BY DEF Inv, Latched, FilterInit
<1>3. Hooked'
  BY DEF Inv, Hooked, FilterInit, Kept, Working
<1>4. Serves'
  BY DEF Inv, Serves, LiveMeansHooked, HookedMeansAsked, ChainEnds, Working, FilterInit
<1> QED
  BY <1>1, <1>2, <1>3, <1>4 DEF Inv

(* The workers of a new cycle: the latch stands between what a block is and *)
(* what is hooked, on both sides.                                           *)
LEMMA CommitInv ==
  ASSUME Inv, Commit
  PROVE  Inv'
<1>1. TypeOK
  BY DEF Inv
<1>2. /\ Cycle.live = Some(enable) /\ Cycle.asked = Some(said) /\ Cycle.appended = appended
      /\ worker' = Process(Cycle, FALSE)
  BY DEF Cycle, Commit
<1>3. /\ worker'.cycle = Cycle /\ worker'.top = top /\ worker'.next = next
      /\ worker'.respawned = FALSE
  BY <1>2 DEF Process
<1>4. ASSUME NEW m \in Modules
      PROVE  /\ Cycle.live[m] => any_enabled[m]
             /\ any_enabled[m] => Cycle.asked[m]
  BY <1>2 DEF Some, Commit, Inv, Latched, Live
<1>5. /\ Some(enable) \in [Modules -> BOOLEAN] /\ Some(said) \in [Modules -> BOOLEAN]
  BY DEF Some
<1>6. TypeOK'
  BY <1>1, <1>2, <1>3, <1>5 DEF TypeOK, Commit, Idle, Unset, Settings, Modules, Inv, Hooked
<1>7. Latched'
  BY DEF Inv, Latched, Commit, Idle, Unset, Live
<1>8. Hooked'
  BY DEF Inv, Hooked, Commit, Idle, Working
<1>9. Serves'
  <2>1. /\ appended = any_enabled["static"]
        /\ top = IF any_enabled["filter"] THEN "brotli" ELSE "core"
        /\ top = "brotli" => next = "core"
    BY DEF Inv, Hooked, Commit
  <2> QED
    BY <1>1, <1>2, <1>3, <1>4, <2>1
       DEF Serves, LiveMeansHooked, HookedMeansAsked, ChainEnds, Working, Modules, TypeOK
<1> QED
  BY <1>6, <1>7, <1>8, <1>9 DEF Inv

LEMMA RespawnInv ==
  ASSUME Inv, Respawn
  PROVE  Inv'
<1>1. /\ worker'.cycle = worker.cycle /\ worker'.top = top /\ worker'.next = next
      /\ worker'.respawned = TRUE /\ Working
  BY DEF Respawn, Process, Working
<1>2. TypeOK'
  BY <1>1 DEF Inv, TypeOK, Respawn, Hooked, Working
<1>3. Latched'
  BY DEF Inv, Latched, Respawn
<1>4. Hooked'
  BY <1>1 DEF Inv, Hooked, Respawn, Working
<1>5. Serves'
  BY <1>1 DEF Inv, Hooked, Serves, LiveMeansHooked, HookedMeansAsked, ChainEnds, Working
<1> QED
  BY <1>2, <1>3, <1>4, <1>5 DEF Inv

LEMMA StutterInv ==
  ASSUME Inv, UNCHANGED vars
  PROVE  Inv'
BY
   DEF Inv, TypeOK, Latched, Hooked, Serves, LiveMeansHooked, HookedMeansAsked, ChainEnds, Working, vars

(* Over starts, reloads, failed reloads and respawns the invariant holds.   *)
THEOREM Invariance == Spec => []Inv
<1>1. Init => Inv
  BY InitInv, ContextsAssumption
<1>2. Inv /\ [Next]_vars => Inv'
  <2> SUFFICES ASSUME Inv, [Next]_vars PROVE Inv'
    OBVIOUS
  <2>1. CASE CreateConf
    BY <2>1, CreateConfInv, ContextsAssumption
  <2>2. CASE \E m \in Modules, c \in Contexts : SetEnableSlot(m, c)
    BY <2>2, SetEnableSlotInv
  <2>3. CASE EndParse
    BY <2>3, EndParseInv, ContextsAssumption
  <2>4. CASE \E c \in Contexts : MergeConf(c)
    BY <2>4, MergeConfInv, ContextsAssumption
  <2>5. CASE StartChain
    BY <2>5, StartChainInv
  <2>6. CASE StaticInit
    BY <2>6, StaticInitInv
  <2>7. CASE FilterInit
    BY <2>7, FilterInitInv
  <2>8. CASE Fail
    BY <2>8, IdleInv DEF Fail
  <2>9. CASE Commit
    BY <2>9, CommitInv
  <2>10. CASE Respawn
    BY <2>10, RespawnInv
  <2>11. CASE UNCHANGED vars
    BY <2>11, StutterInv
  <2> QED
    BY <2>1, <2>2, <2>3, <2>4, <2>5, <2>6, <2>7, <2>8, <2>9, <2>10, <2>11 DEF Next
<1> QED
  BY <1>1, <1>2, PTL DEF Spec

(* The types hold, and a merged block has a value.                          *)
THEOREM TypeCorrect == Spec => []TypeOK
BY Invariance, PTL DEF Inv

(* any_enabled gives no false negative: a cycle with a live block starts    *)
(* workers with the filter, and no worker of it lacks the content handler.  *)
(* Whether replacement workers have the filter is left out.                 *)
THEOREM LiveHooks == Spec => []LiveMeansHooked
<1>1. Inv => LiveMeansHooked
  BY DEF Inv, Serves
<1> QED
  BY <1>1, Invariance, PTL

(* Nor is anything hooked that no directive of the cycle asked for, the     *)
(* filter of replacement workers again left out.                            *)
THEOREM AskedHooks == Spec => []HookedMeansAsked
<1>1. Inv => HookedMeansAsked
  BY DEF Inv, Serves
<1> QED
  BY <1>1, Invariance, PTL

(* Reloads never chain the filter to itself.                                *)
THEOREM ChainCorrect == Spec => []ChainEnds
<1>1. Inv => ChainEnds
  BY DEF Inv, Serves
<1> QED
  BY <1>1, Invariance, PTL

(***************************************************************************)
(* Inheritance.                                                             *)
(***************************************************************************)
(* What the nearest block from c outwards that says anything says.          *)
Nearest(m, c, v) ==
  LET says(n) == said[m][Outwards(c)[n]]
  IN  \/ v = "off" /\ \A n \in 0..Cardinality(Contexts) : says(n) = "unset"
      \/ \E n \in 0..Cardinality(Contexts) :
           v = says(n) /\ v # "unset" /\ \A k \in 0..(n - 1) : says(k) = "unset"

Hooking == stage \in {"static", "filter", "rest"}

(* A block that is not merged, and http, has what it said; one that is has  *)
(* what the nearest said, and http is fewer steps away than blocks are      *)
(* merged.                                                                  *)
Inherited ==
  /\ stage = "merge" \/ Hooking =>
       /\ \A m \in Modules, c \in Contexts : c \notin merged \ {Root} => enable[m][c] = said[m][c]
       /\ \A c \in merged : \E n \in Nat : n < Cardinality(merged) /\ Outwards(c)[n] = Root
       /\ \A m \in Modules, c \in merged \ {Root} : Nearest(m, c, enable[m][c])
  /\ Hooking => merged = Contexts

LEMMA Depth ==
  Cardinality(Contexts) \in Nat /\ \A c \in Contexts : Outer(c) \in Contexts
<1>1. Cardinality(Contexts) \in Nat
  BY ContextsAssumption, FS_CardinalityType
<1> QED BY <1>1, ContextsAssumption DEF Outer

LEMMA OutwardsEquation ==
  ASSUME NEW c \in Contexts
  PROVE  /\ Outwards(c) = [n \in 0..Cardinality(Contexts) |-> Outwards(c)[n]]
         /\ Outwards(c)[0] = c
         /\ \A n \in 1..Cardinality(Contexts) : Outwards(c)[n] = Outer(Outwards(c)[n - 1])
<1> DEFINE N == Cardinality(Contexts)
           equation(f) == f = [n \in 0..N |-> IF n = 0 THEN c ELSE Outer(f[n - 1])]
           step == [n \in 1..N |-> [d \in Contexts |-> Outer(d)]]
<1>1. N \in Nat /\ step \in [1..N -> [Contexts -> Contexts]]
  BY Depth
<1>2. PICK f \in [0..N -> Contexts] : FollowsUp(f, N, c, step)
  <2> HIDE DEF step, N
  <2> QED BY <1>1, UpwardRecursion
<1>3. Outwards(c) = CHOOSE g : equation(g)
  BY DEF Outwards
<1> HIDE DEF N
<1>4. \A n \in 1..N : f[n] = Outer(f[n - 1])
  <2>1. \A n \in 1..N : f[n - 1] \in Contexts
    BY <1>1
  <2> QED BY <1>2, <2>1 DEF FollowsUp
<1>5. equation(f)
  BY <1>1, <1>2, <1>4 DEF FollowsUp
<1>6. equation(Outwards(c))
  <2> HIDE DEF equation
  <2> QED BY <1>3, <1>5
<1> QED BY <1>1, <1>6 DEF N

(* Every block on the way is one, and past Root there is only Root.         *)
LEMMA OutwardsStays ==
  ASSUME NEW c \in Contexts
  PROVE  /\ \A n \in 0..Cardinality(Contexts) : Outwards(c)[n] \in Contexts
         /\ \A n, k \in 0..Cardinality(Contexts) :
              n <= k /\ Outwards(c)[n] = Root => Outwards(c)[k] = Root
<1> DEFINE N == Cardinality(Contexts)
           T == {k \in Nat : k <= N =>
                   /\ Outwards(c)[k] \in Contexts
                   /\ \A n \in 0..k : Outwards(c)[n] = Root => Outwards(c)[k] = Root}
<1>1. N \in Nat /\ Outwards(c)[0] = c
      /\ \A n \in 1..N : Outwards(c)[n] = Outer(Outwards(c)[n - 1])
  BY Depth, OutwardsEquation
<1> HIDE DEF N
<1>2. 0 \in T
  BY <1>1
<1>3. ASSUME NEW k \in Nat, k \in T PROVE k + 1 \in T
  <2>1. SUFFICES ASSUME k + 1 <= N
                 PROVE  /\ Outwards(c)[k + 1] \in Contexts
                        /\ \A n \in 0..(k + 1) : Outwards(c)[n] = Root => Outwards(c)[k + 1] = Root
    OBVIOUS
  <2>2. k + 1 \in 1..N /\ (k + 1) - 1 = k /\ k <= N
    BY <1>1, <2>1
  <2>3. Outwards(c)[k + 1] = Outer(Outwards(c)[k])
    BY <1>1, <2>2
  <2>4. /\ Outwards(c)[k] \in Contexts
        /\ \A n \in 0..k : Outwards(c)[n] = Root => Outwards(c)[k] = Root
    BY <1>3, <2>2
  <2>5. ASSUME NEW n \in 0..(k + 1), Outwards(c)[n] = Root PROVE Outwards(c)[k + 1] = Root
    <3>1. CASE n = k + 1
      BY <2>5, <3>1
    <3>2. CASE n \in 0..k
      BY <2>3, <2>4, <2>5, <3>2 DEF Outer
    <3> QED BY <3>1, <3>2
  <2> QED BY <2>3, <2>4, <2>5, Depth
<1> HIDE DEF T
<1>4. \A k \in Nat : k \in T
  BY <1>2, <1>3, Induction
<1> QED BY <1>1, <1>4 DEF T, N

(* The way outwards from a block is that from its parent, one step later.   *)
LEMMA OutwardsShifts ==
  ASSUME NEW c \in Contexts \ {Root}
  PROVE  \A n \in 0..(Cardinality(Contexts) - 1) : Outwards(c)[n + 1] = Outwards(Parent[c])[n]
<1> DEFINE N == Cardinality(Contexts)
           d == Parent[c]
           T == {n \in Nat : n + 1 <= N => Outwards(c)[n + 1] = Outwards(d)[n]}
<1>0. d \in Contexts /\ Outer(c) = d
  BY ContextsAssumption DEF Outer
<1> HIDE DEF d
<1>1. /\ N \in Nat /\ Outwards(c)[0] = c /\ Outwards(d)[0] = d
      /\ \A n \in 1..N : /\ Outwards(c)[n] = Outer(Outwards(c)[n - 1])
                         /\ Outwards(d)[n] = Outer(Outwards(d)[n - 1])
  BY <1>0, Depth, OutwardsEquation
<1> HIDE DEF N
<1>2. 0 \in T
  <2>1. ASSUME 1 <= N PROVE Outwards(c)[1] = d
    <3>1. 1 \in 1..N /\ 1 - 1 = 0
      BY <1>1, <2>1
    <3> QED BY <1>0, <1>1, <3>1
  <2> QED BY <1>1, <2>1
<1>3. ASSUME NEW n \in Nat, n \in T PROVE n + 1 \in T
  <2>1. SUFFICES ASSUME (n + 1) + 1 <= N PROVE Outwards(c)[(n + 1) + 1] = Outwards(d)[n + 1]
    OBVIOUS
  <2>2. n + 1 \in 1..N /\ (n + 1) - 1 = n /\ (n + 1) + 1 \in 1..N /\ ((n + 1) + 1) - 1 = n + 1
        /\ n + 1 <= N
    BY <1>1, <2>1
  <2>3. Outwards(c)[n + 1] = Outwards(d)[n]
    BY <1>3, <2>2
  <2>4. Outwards(c)[(n + 1) + 1] = Outer(Outwards(c)[n + 1])
    BY <1>1, <2>2
  <2>5. Outwards(d)[n + 1] = Outer(Outwards(d)[n])
    BY <1>1, <2>2
  <2> QED BY <2>3, <2>4, <2>5
<1> HIDE DEF T
<1>4. \A n \in Nat : n \in T
  BY <1>2, <1>3, Induction
<1>5. ASSUME NEW n \in 0..(N - 1) PROVE Outwards(c)[n + 1] = Outwards(d)[n]
  <2>1. n \in Nat /\ n + 1 <= N
    BY <1>1
  <2> QED BY <1>4, <2>1 DEF T
<1> QED BY <1>5 DEF d, N

LEMMA NearestSelf ==
  ASSUME NEW m \in Modules, NEW c \in Contexts, said[m][c] # "unset"
  PROVE  Nearest(m, c, said[m][c])
<1>1. 0 \in 0..Cardinality(Contexts) /\ Outwards(c)[0] = c /\ \A k \in 0..(0 - 1) : FALSE
  BY Depth, OutwardsEquation
<1> QED BY <1>1 DEF Nearest

LEMMA NearestOfRoot ==
  ASSUME NEW m \in Modules
  PROVE  Nearest(m, Root, IF said[m][Root] # "unset" THEN said[m][Root] ELSE "off")
<1>1. Root \in Contexts
  BY ContextsAssumption
<1>2. \A n \in 0..Cardinality(Contexts) : Outwards(Root)[n] = Root
  <2>1. 0 \in 0..Cardinality(Contexts) /\ Outwards(Root)[0] = Root
    BY <1>1, Depth, OutwardsEquation
  <2>2. \A n \in 0..Cardinality(Contexts) : 0 <= n
    BY Depth
  <2> QED BY <1>1, <2>1, <2>2, OutwardsStays
<1> QED BY <1>1, <1>2, NearestSelf DEF Nearest

(* A block that says nothing has what its parent has, if http is near       *)
(* enough for its last step not to be cut off.                              *)
LEMMA NearestOfParent ==
  ASSUME NEW m \in Modules, NEW c \in Contexts \ {Root}, said[m][c] = "unset",
         NEW far \in Nat, far < Cardinality(Contexts), Outwards(Parent[c])[far] = Root,
         NEW v, Nearest(m, Parent[c], v)
  PROVE  Nearest(m, c, v)
<1> DEFINE N == Cardinality(Contexts)
           d == Parent[c]
           says(n) == said[m][Outwards(c)[n]]
           above(n) == said[m][Outwards(d)[n]]
<1>1. N \in Nat /\ d \in Contexts
  BY Depth, ContextsAssumption
<1>2. says(0) = "unset"
  BY OutwardsEquation
<1>3. \A n \in 0..(N - 1) : says(n + 1) = above(n)
  BY OutwardsShifts
<1>4. \A n \in 0..N : far <= n => Outwards(d)[n] = Root
  <2>1. far \in 0..N
    BY <1>1
  <2> QED BY <1>1, <2>1, OutwardsStays
<1>5. \/ v = "off" /\ \A n \in 0..N : above(n) = "unset"
      \/ \E n \in 0..N : v = above(n) /\ v # "unset" /\ \A k \in 0..(n - 1) : above(k) = "unset"
  BY DEF Nearest
<1>6. ASSUME NEW n \in 0..N, \A k \in 0..(n - 1) : above(k) = "unset"
      PROVE  \A k \in 0..n : says(k) = "unset"
  <2>1. SUFFICES ASSUME NEW k \in 0..n PROVE says(k) = "unset"
    OBVIOUS
  <2>2. CASE k = 0
    BY <1>2, <2>2
  <2>3. CASE k # 0
    <3>1. k - 1 \in 0..(n - 1) /\ k - 1 \in 0..(N - 1) /\ (k - 1) + 1 = k
      BY <1>1, <2>3
    <3>2. says((k - 1) + 1) = above(k - 1)
      BY <1>3, <3>1
    <3> QED BY <1>6, <3>1, <3>2
  <2> QED BY <2>2, <2>3
<1>7. CASE v = "off" /\ \A n \in 0..N : above(n) = "unset"
  <2>1. N \in 0..N /\ \A k \in 0..(N - 1) : k \in 0..N
    BY <1>1
  <2>2. \A k \in 0..N : says(k) = "unset"
    BY <1>6, <1>7, <2>1
  <2> QED BY <1>7, <2>2 DEF Nearest
<1>8. ASSUME NEW n \in 0..N, v = above(n), v # "unset", \A k \in 0..(n - 1) : above(k) = "unset"
      PROVE  Nearest(m, c, v)
  <2>1. n <= far
    <3>1. ASSUME far < n PROVE FALSE
      <4>1. far \in 0..(n - 1) /\ far \in 0..N /\ far <= n
        BY <1>1, <3>1
      <4>2. Outwards(d)[n] = Outwards(d)[far]
        BY <1>4, <4>1
      <4>3. above(far) = "unset"
        BY <1>8, <4>1
      <4> QED BY <1>8, <4>2, <4>3
    <3> QED BY <3>1
  <2>2. n \in 0..(N - 1) /\ n + 1 \in 0..N /\ (n + 1) - 1 = n
    BY <1>1, <2>1
  <2>3. \A k \in 0..n : says(k) = "unset"
    BY <1>6, <1>8
  <2>4. says(n + 1) = v
    BY <1>3, <1>8, <2>2
  <2> HIDE DEF N
  <2>5. \E j \in 0..N : v = says(j) /\ v # "unset" /\ \A k \in 0..(j - 1) : says(k) = "unset"
    BY <1>8, <2>2, <2>3, <2>4
  <2> QED BY <2>5 DEF Nearest, N
<1> QED BY <1>5, <1>7, <1>8

LEMMA EndParseInherited ==
  ASSUME Inv, EndParse
  PROVE  Inherited'
<1>1. stage' = "merge" /\ merged' = {Root} /\ enable' = said' /\ Root \in Contexts
  BY ContextsAssumption DEF EndParse, Inv, Latched
<1>2. 0 < Cardinality({Root}) /\ Outwards(Root)[0] = Root /\ 0 \in Nat
  <2>1. Cardinality({Root}) = 1
    BY FS_Singleton
  <2>2. Outwards(Root)[0] = Root
    BY <1>1, OutwardsEquation
  <2> QED BY <2>1, <2>2
<1> QED BY <1>1, <1>2 DEF Inherited, Hooking

LEMMA MergeConfInherited ==
  ASSUME Inv, Inherited, NEW c \in Contexts, MergeConf(c)
  PROVE  Inherited'
<1>1. /\ stage = "merge" /\ c \notin merged /\ Parent[c] \in merged /\ merged' = merged \cup {c}
      /\ UNCHANGED <<stage, said>>
      /\ enable' = [m \in Modules |-> [enable[m] EXCEPT ![c] = Merged(m, c)]]
      /\ c # Root /\ TypeOK /\ merged \subseteq Contexts
  BY DEF MergeConf, Inv, Latched, TypeOK
<1> DEFINE d == Parent[c]
           N == Cardinality(Contexts)
           size == Cardinality(merged)
<1>2. /\ IsFiniteSet(merged) /\ size \in Nat /\ Cardinality(merged') = size + 1 /\ size < N /\ N \in Nat
      /\ d \in Contexts
  <2>1. IsFiniteSet(Contexts) /\ IsFiniteSet(merged)
    BY <1>1, ContextsAssumption, FS_Subset
  <2>2. size \in Nat /\ N \in Nat /\ Cardinality(merged') = size + 1
    BY <1>1, <2>1, FS_CardinalityType, FS_AddElement
  <2>3. merged # Contexts
    BY <1>1
  <2>4. size < N
    <3>1. merged \in SUBSET Contexts
      BY <1>1
    <3>2. size <= N /\ (size = N => merged = Contexts)
      BY <2>1, <3>1, FS_Subset
    <3> HIDE DEF size, N
    <3> QED BY <2>2, <2>3, <3>2
  <2> QED BY <1>1, <2>1, <2>2, <2>4
<1>3. /\ \A m \in Modules, b \in Contexts : b \notin merged \ {Root} => enable[m][b] = said[m][b]
      /\ \A b \in merged : \E n \in Nat : n < size /\ Outwards(b)[n] = Root
      /\ \A m \in Modules, b \in merged \ {Root} : Nearest(m, b, enable[m][b])
  BY <1>1 DEF Inherited
<1>4. PICK far \in Nat : far < size /\ Outwards(d)[far] = Root
  BY <1>1, <1>3
<1> HIDE DEF size, N, d
<1>5. \A b \in merged' : \E n \in Nat : n < Cardinality(merged') /\ Outwards(b)[n] = Root
  <2>1. far \in 0..(N - 1) /\ far + 1 < size + 1 /\ far + 1 \in Nat
    BY <1>2, <1>4
  <2>2. Outwards(c)[far + 1] = Root
    BY <1>1, <1>4, <2>1, OutwardsShifts DEF N, d
  <2>3. ASSUME NEW b \in merged PROVE \E n \in Nat : n < size + 1 /\ Outwards(b)[n] = Root
    BY <1>2, <1>3
  <2> QED BY <1>1, <1>2, <2>1, <2>2, <2>3
<1>6. ASSUME NEW m \in Modules
      PROVE  /\ enable'[m][c] = Merged(m, c)
             /\ \A b \in Contexts \ {c} : enable'[m][b] = enable[m][b]
  <2>1. enable[m] \in [Contexts -> {"unset", "off", "on", "always"}]
    BY <1>1 DEF TypeOK, Settings
  <2>2. enable'[m] = [enable[m] EXCEPT ![c] = Merged(m, c)]
    BY <1>1
  <2> QED BY <2>1, <2>2
<1>7. ASSUME NEW m \in Modules PROVE Nearest(m, c, Merged(m, c))
  <2>1. enable[m][c] = said[m][c]
    BY <1>1, <1>3
  <2>2. CASE said[m][c] # "unset"
    BY <2>1, <2>2, NearestSelf DEF Merged
  <2>3. CASE said[m][c] = "unset"
    <3>1. Merged(m, c) = IF enable[m][d] # "unset" THEN enable[m][d] ELSE "off"
      BY <2>1, <2>3 DEF Merged, d
    <3>2. Nearest(m, d, Merged(m, c))
      <4>1. CASE d = Root
        <5>1. enable[m][d] = said[m][Root]
          BY <1>2, <1>3, <4>1
        <5> QED BY <3>1, <4>1, <5>1, NearestOfRoot
      <4>2. CASE d # Root
        <5>1. d \in merged \ {Root}
          BY <1>1, <4>2 DEF d
        <5>2. enable[m][d] # "unset"
          BY <1>1, <5>1 DEF TypeOK
        <5> QED BY <1>3, <3>1, <5>1, <5>2
      <4> QED BY <4>1, <4>2
    <3>3. far < N
      BY <1>2, <1>4
    <3> QED BY <1>1, <1>4, <2>3, <3>2, <3>3, NearestOfParent DEF N, d
  <2> QED BY <2>2, <2>3
<1>8. \A m \in Modules, b \in merged' \ {Root} : Nearest(m, b, enable'[m][b])
  BY <1>1, <1>3, <1>6, <1>7
<1>9. \A m \in Modules, b \in Contexts : b \notin merged' \ {Root} => enable'[m][b] = said'[m][b]
  BY <1>1, <1>3, <1>6
<1>10. \A m \in Modules, b \in Contexts : \A v : Nearest(m, b, v) => Nearest(m, b, v)'
  BY <1>1 DEF Nearest
<1> QED BY <1>1, <1>5, <1>8, <1>9, <1>10 DEF Inherited, Hooking

LEMMA InheritedStep ==
  ASSUME Inv, Inherited, [Next]_vars
  PROVE  Inherited'
<1>1. ASSUME stage' = "idle" \/ stage' = "parse" PROVE Inherited'
  BY <1>1 DEF Inherited, Hooking
<1>2. ASSUME UNCHANGED <<said, enable, merged>>, stage' = "merge" \/ Hooking',
             stage = "merge" \/ Hooking, Hooking' => merged = Contexts
      PROVE  Inherited'
  BY <1>2 DEF Inherited, Hooking, Nearest
<1>3. CASE CreateConf
  BY <1>1, <1>3 DEF CreateConf
<1>4. CASE \E m \in Modules, c \in Contexts : SetEnableSlot(m, c)
  BY <1>1, <1>4 DEF SetEnableSlot, Idle
<1>5. CASE EndParse
  BY <1>5, EndParseInherited
<1>6. CASE \E c \in Contexts : MergeConf(c)
  BY <1>6, MergeConfInherited
<1>7. CASE StartChain
  BY <1>2, <1>7 DEF StartChain, Hooking
<1>8. CASE StaticInit
  BY <1>1, <1>2, <1>8 DEF StaticInit, Hooking, Idle, Inherited
<1>9. CASE FilterInit
  BY <1>2, <1>9 DEF FilterInit, Hooking, Inherited
<1>10. CASE Fail \/ Commit
  BY <1>1, <1>10 DEF Fail, Commit, Idle
<1>11. CASE Respawn
  BY <1>1, <1>11 DEF Respawn
<1>12. CASE UNCHANGED vars
  <2>1. UNCHANGED <<stage, said, enable, merged>>
    BY <1>12 DEF vars
  <2> QED BY <2>1 DEF Inherited, Hooking, Nearest
<1> QED BY <1>3, <1>4, <1>5, <1>6, <1>7, <1>8, <1>9, <1>10, <1>11, <1>12 DEF Next

(* The value NearestSays takes is the one that is nearest.                  *)
LEMMA NearestIsSaid ==
  ASSUME NEW m \in Modules, NEW c \in Contexts, NEW v, Nearest(m, c, v)
  PROVE  LET out == Outwards(c)
             says == {n \in DOMAIN out : said[m][out[n]] # "unset"}
         IN  v = IF says = {} THEN "off"
                 ELSE said[m][out[CHOOSE n \in says : \A k \in says : n <= k]]
<1> DEFINE out == Outwards(c)
           N == Cardinality(Contexts)
           says == {n \in DOMAIN out : said[m][out[n]] # "unset"}
<1>1. DOMAIN out = 0..N /\ N \in Nat
  BY Depth, OutwardsEquation
<1>2. says = {n \in 0..N : said[m][out[n]] # "unset"}
  BY <1>1
<1>3. \/ v = "off" /\ \A n \in 0..N : said[m][out[n]] = "unset"
      \/ \E n \in 0..N : /\ v = said[m][out[n]] /\ v # "unset"
                         /\ \A k \in 0..(n - 1) : said[m][out[k]] = "unset"
  BY DEF Nearest
<1> HIDE DEF out, says, N
<1>4. ASSUME NEW n \in 0..N, v = said[m][out[n]], v # "unset",
             \A k \in 0..(n - 1) : said[m][out[k]] = "unset"
      PROVE  says # {} /\ v = said[m][out[CHOOSE j \in says : \A k \in says : j <= k]]
  <2>1. n \in says
    BY <1>2, <1>4
  <2>2. \A k \in says : n <= k
    <3>1. SUFFICES ASSUME NEW k \in says, k < n PROVE FALSE
      BY <1>1, <1>2
    <3>2. k \in 0..N /\ said[m][out[k]] # "unset"
      BY <1>2
    <3>3. k \in 0..(n - 1)
      BY <1>1, <3>1, <3>2
    <3> QED BY <1>4, <3>2, <3>3
  <2> DEFINE least == CHOOSE j \in says : \A k \in says : j <= k
  <2>3. least \in says /\ \A k \in says : least <= k
    BY <2>1, <2>2
  <2> HIDE DEF least
  <2>4. least <= n /\ n <= least /\ least \in Int
    BY <1>1, <1>2, <2>1, <2>2, <2>3
  <2>5. least = n
    BY <2>4
  <2> QED BY <1>4, <2>1, <2>5 DEF least
<1>5. CASE v = "off" /\ \A n \in 0..N : said[m][out[n]] = "unset"
  <2>1. says = {}
    BY <1>2, <1>5
  <2> QED BY <1>5, <2>1 DEF says, out
<1> QED BY <1>3, <1>4, <1>5 DEF says, out

(* Each block is merged into what the nearest directive said, over any      *)
(* number of levels, by the time its value decides anything.                *)
THEOREM NearestHolds == Spec => []NearestSays
<1>1. Init => Inherited
  BY DEF Init, Inherited, Hooking
<1>2. Inv /\ Inherited /\ [Next]_vars => Inherited'
  BY InheritedStep
<1>3. Inherited => NearestSays
  <2> SUFFICES ASSUME Inherited, Hooking, NEW m \in Modules, NEW c \in Contexts \ {Root}
               PROVE  LET out == Outwards(c)
                          says == {n \in DOMAIN out : said[m][out[n]] # "unset"}
                      IN  enable[m][c] =
                            IF says = {} THEN "off"
                            ELSE said[m][out[CHOOSE n \in says : \A k \in says : n <= k]]
    BY DEF NearestSays, Hooking
  <2>1. Nearest(m, c, enable[m][c])
    BY DEF Inherited
  <2> QED BY <2>1, NearestIsSaid
<1> QED BY <1>1, <1>2, <1>3, Invariance, PTL DEF Spec

(***************************************************************************)
(* The window.                                                              *)
(***************************************************************************)
(* A directive that has been translated.                                    *)
Translated(b) ==
  /\ sizes[b] = W!Unset <=> lg_win[b] = W!Unset
  /\ lg_win[b] # W!Unset => lg_win[b] \in W!Windows /\ sizes[b] = 2^lg_win[b]

Parsed ==
  /\ at = "read" => \A b \in W!Blocks : Translated(b)
  /\ at = "parse" =>
       /\ \A b \in W!Blocks \ {block} : Translated(b)
       /\ sizes[block] = lg_win[block] /\ lg_win[block] # W!Unset
       /\ \A w \in MinBits..(bits - 1) : sizes[block] # 2^w

Tuned ==
  /\ W!Serving => lg_win["location"] \in W!Windows
  /\ at = "tune" =>
       /\ wbits <= lg_win["location"]
       /\ content_length > 0
       /\ \A w \in MinBits..(wbits - 1) : content_length > 2^w

WindowInv == W!TypeOK /\ Parsed /\ Tuned /\ W!WindowAsConfigured /\ W!SmallestWindow

LEMMA WindowInitInv ==
  ASSUME W!WindowAssumption, W!Init
  PROVE  WindowInv
<1>1. W!TypeOK
  <2>1. MinBits \in W!Windows /\ MinBits \in MinBits..(MaxBits + 1) /\ 0 \in 0..MaxHint
    BY DEF W!Windows, W!WindowAssumption
  <2>2. sizes \in [W!Blocks -> {W!Unset}] /\ lg_win = sizes
    BY DEF W!Init
  <2>3. "http" \in W!Blocks
    BY DEF W!Blocks
  <2> QED
    BY <2>1, <2>2, <2>3 DEF W!Init, W!TypeOK
<1>2. Parsed
  BY DEF W!Init, Parsed, Translated
<1> QED
  BY <1>1, <1>2 DEF W!Init, WindowInv, Tuned, W!WindowAsConfigured, W!SmallestWindow, W!Serving

LEMMA BrotliWindowInv ==
  ASSUME W!WindowAssumption, WindowInv, NEW b \in W!Blocks, W!BrotliWindow(b)
  PROVE  WindowInv'
<1>1. CASE lg_win[b] # W!Unset
  BY <1>1
     DEF W!BrotliWindow, WindowInv, W!TypeOK, Parsed, Tuned, W!WindowAsConfigured, W!SmallestWindow, W!Serving
<1>2. CASE lg_win[b] = W!Unset
  <2>1. PICK s \in Sizes : sizes' = [sizes EXCEPT ![b] = s] /\ lg_win' = [lg_win EXCEPT ![b] = s]
    BY <1>2 DEF W!BrotliWindow
  <2>2. /\ block' = b /\ bits' = MinBits /\ at = "read" /\ at' = "parse"
        /\ UNCHANGED <<content_length, wbits, hint>>
    BY <1>2 DEF W!BrotliWindow
  <2>3. W!TypeOK /\ MinBits \in Nat /\ MaxBits \in Nat /\ MinBits <= MaxBits /\ s \in Nat
    BY <2>1 DEF WindowInv, W!WindowAssumption
  <2>4. W!TypeOK'
    BY <2>1, <2>2, <2>3 DEF W!TypeOK
  <2>5. sizes'[b] = s /\ lg_win'[b] = s /\ s # W!Unset
    BY <2>1, <2>3 DEF W!TypeOK, W!Unset
  <2>6. \A c \in W!Blocks \ {b} : sizes'[c] = sizes[c] /\ lg_win'[c] = lg_win[c]
    BY <2>1, <2>3 DEF W!TypeOK
  <2>7. \A w \in MinBits..(MinBits - 1) : FALSE
    BY <2>3
  <2>8. Parsed'
    BY <2>2, <2>5, <2>6, <2>7 DEF WindowInv, Parsed, Translated
  <2> QED
    BY <2>2, <2>4, <2>8 DEF WindowInv, Tuned, W!WindowAsConfigured, W!SmallestWindow, W!Serving
<1> QED
  BY <1>1, <1>2

LEMMA ParseWbitsInv ==
  ASSUME W!WindowAssumption, WindowInv, W!ParseWbits
  PROVE  WindowInv'
<1>1. /\ at = "parse" /\ W!TypeOK /\ MinBits \in Nat /\ MaxBits \in Nat /\ bits \in MinBits..(MaxBits + 1)
      /\ UNCHANGED <<sizes, block, content_length, wbits, hint>>
  BY DEF W!ParseWbits, WindowInv, W!TypeOK, W!WindowAssumption
<1>2. CASE W!OutOfWindows
  <2>1. at' = "refused" /\ UNCHANGED <<lg_win, bits>>
    BY <1>2 DEF W!ParseWbits
  <2>2. W!TypeOK'
    BY <1>1, <2>1 DEF W!TypeOK
  <2>3. \A w \in W!Windows : sizes[block] # 2^w
    <3>1. \A w \in W!Windows : w \in MinBits..(bits - 1)
      BY <1>1, <1>2 DEF W!Windows, W!OutOfWindows
    <3> QED
      BY <1>1, <3>1 DEF WindowInv, Parsed
  <2> QED
    BY <1>1, <2>1, <2>2, <2>3
       DEF WindowInv, Parsed, Tuned, W!WindowAsConfigured, W!SmallestWindow, W!Serving
<1>3. CASE ~W!OutOfWindows /\ lg_win[block] = 2^bits
  <2>1. at' = "read" /\ bits' = bits /\ lg_win' = [lg_win EXCEPT ![block] = bits]
    BY <1>3 DEF W!ParseWbits
  <2>2. bits \in W!Windows /\ bits # W!Unset
    BY <1>1, <1>3 DEF W!OutOfWindows, W!Windows, W!Unset
  <2>3. W!TypeOK'
    BY <1>1, <2>1, <2>2 DEF W!TypeOK
  <2>4. lg_win'[block] = bits /\ \A c \in W!Blocks \ {block} : lg_win'[c] = lg_win[c]
    BY <1>1, <2>1 DEF W!TypeOK
  <2>5. Translated(block)'
    BY <1>1, <1>3, <2>2, <2>4 DEF Translated, WindowInv, Parsed
  <2>6. \A c \in W!Blocks \ {block} : Translated(c)'
    BY <1>1, <2>4 DEF Translated, WindowInv, Parsed
  <2>7. \A c \in W!Blocks : Translated(c)'
    <3>1. block' = block
      BY <1>1
    <3>2. ASSUME NEW c \in W!Blocks, c = block PROVE Translated(c)'
      BY <2>5, <3>1, <3>2 DEF Translated
    <3> QED
      BY <2>6, <3>2
  <2>8. W!Blocks' = W!Blocks
    BY DEF W!Blocks
  <2>9. Parsed'
    BY <2>1, <2>7, <2>8 DEF Parsed
  <2> QED
    BY <1>1, <2>1, <2>3, <2>9
       DEF WindowInv, Tuned, W!WindowAsConfigured, W!SmallestWindow, W!Serving
<1>4. CASE ~W!OutOfWindows /\ lg_win[block] # 2^bits
  <2>1. at' = at /\ bits' = bits + 1 /\ UNCHANGED lg_win
    BY <1>4 DEF W!ParseWbits
  <2>2. bits' \in MinBits..(MaxBits + 1)
    BY <1>1, <1>4, <2>1 DEF W!OutOfWindows
  <2>3. W!TypeOK'
    BY <1>1, <2>1, <2>2 DEF W!TypeOK
  <2>4. \A w \in MinBits..(bits' - 1) : w = bits \/ w \in MinBits..(bits - 1)
    BY <1>1, <2>1
  <2>5. \A w \in MinBits..(bits' - 1) : sizes[block] # 2^w
    BY <1>1, <1>4, <2>4 DEF WindowInv, Parsed
  <2>6. Parsed'
    BY <1>1, <2>1, <2>5 DEF WindowInv, Parsed, Translated
  <2> QED
    BY <1>1, <2>1, <2>3, <2>6
       DEF WindowInv, Tuned, W!WindowAsConfigured, W!SmallestWindow, W!Serving
<1> QED
  BY <1>2, <1>3, <1>4

LEMMA WindowMergeInv ==
  ASSUME W!WindowAssumption, WindowInv, W!MergeConf
  PROVE  WindowInv'
<1>1. /\ at = "read" /\ at' = "serve" /\ lg_win' = [lg_win EXCEPT !["location"] = W!Merged]
      /\ UNCHANGED <<sizes, block, bits, content_length, wbits, hint>> /\ W!TypeOK
  BY DEF W!MergeConf, WindowInv
<1>2. Translated("http") /\ Translated("location")
  BY <1>1 DEF WindowInv, Parsed, W!Blocks
<1>3. Default \in W!Windows
  BY DEF W!WindowAssumption, W!Windows
<1>4. W!Merged \in W!Windows
  BY <1>2, <1>3 DEF W!Merged, Translated
<1>5. lg_win'["location"] = W!Merged
  BY <1>1 DEF W!TypeOK, W!Blocks
<1>6. W!TypeOK'
  BY <1>1, <1>4 DEF W!TypeOK
<1>7. W!WindowAsConfigured'
  BY <1>1, <1>2, <1>4, <1>5 DEF W!WindowAsConfigured, W!Serving, W!Merged, Translated
<1> QED
  BY <1>1, <1>4, <1>5, <1>6, <1>7 DEF WindowInv, Parsed, Tuned, W!SmallestWindow, W!Serving

LEMMA RespondInv ==
  ASSUME W!WindowAssumption, WindowInv, W!Respond
  PROVE  WindowInv'
<1>1. /\ W!Serving /\ W!TypeOK /\ content_length' \in Lengths /\ hint' = 0 /\ at # "refused"
      /\ UNCHANGED <<sizes, lg_win, block, bits>>
  BY DEF W!Respond, WindowInv, W!Serving
<1>2. lg_win["location"] \in W!Windows
  BY <1>1 DEF WindowInv, Tuned
<1>3. MinBits \in W!Windows /\ MinBits <= lg_win["location"] /\ 0 \in 0..MaxHint
      /\ \A w \in MinBits..(MinBits - 1) : FALSE
  BY <1>2 DEF W!WindowAssumption, W!Windows
<1>4. CASE content_length' > 0
  <2>1. wbits' = MinBits /\ at' = "tune"
    BY <1>4 DEF W!Respond
  <2>2. W!TypeOK'
    BY <1>1, <1>3, <2>1 DEF W!TypeOK
  <2>3. Tuned'
    BY <1>1, <1>2, <1>3, <1>4, <2>1 DEF Tuned
  <2> QED
    BY <1>1, <2>1, <2>2, <2>3
       DEF WindowInv, Parsed, W!WindowAsConfigured, W!SmallestWindow, W!Serving
<1>5. CASE ~(content_length' > 0)
  <2>1. wbits' = lg_win["location"] /\ at' = "tuned"
    BY <1>5 DEF W!Respond
  <2>2. W!TypeOK'
    BY <1>1, <1>2, <1>3, <2>1 DEF W!TypeOK
  <2> QED
    BY <1>1, <1>2, <1>5, <2>1, <2>2
       DEF WindowInv, Parsed, Tuned, W!WindowAsConfigured, W!SmallestWindow, W!Serving
<1> QED
  BY <1>4, <1>5

LEMMA TuneInv ==
  ASSUME W!WindowAssumption, WindowInv, W!Tune
  PROVE  WindowInv'
<1>1. /\ at = "tune" /\ W!TypeOK /\ UNCHANGED <<sizes, lg_win, block, bits, content_length>>
      /\ content_length > 0 /\ content_length \in Int
      /\ MinBits \in Nat /\ MaxBits \in Nat /\ MaxHint \in Nat \ {0}
      /\ lg_win["location"] \in W!Windows /\ wbits \in W!Windows /\ wbits <= lg_win["location"]
      /\ \A w \in MinBits..(wbits - 1) : content_length > 2^w
  BY DEF W!Tune, WindowInv, W!TypeOK, Tuned, W!Serving, W!WindowAssumption
<1>2. CASE wbits < lg_win["location"] /\ W!TooSmall
  <2>1. wbits' = wbits + 1 /\ UNCHANGED <<at, hint>>
    BY <1>2 DEF W!Tune
  <2>2. wbits' \in W!Windows /\ wbits' <= lg_win["location"]
    BY <1>1, <1>2, <2>1 DEF W!Windows
  <2>3. \A w \in MinBits..(wbits' - 1) : w = wbits \/ w \in MinBits..(wbits - 1)
    BY <1>1, <2>1 DEF W!Windows
  <2>4. \A w \in MinBits..(wbits' - 1) : content_length > 2^w
    BY <1>1, <1>2, <2>3 DEF W!TooSmall
  <2>5. W!TypeOK'
    BY <1>1, <2>1, <2>2 DEF W!TypeOK
  <2> QED
    BY <1>1, <2>1, <2>2, <2>4, <2>5
       DEF WindowInv, Parsed, Tuned, W!WindowAsConfigured, W!SmallestWindow, W!Serving
<1>3. CASE ~(wbits < lg_win["location"] /\ W!TooSmall)
  <2>1. at' = "tuned" /\ hint' = W!Hint /\ UNCHANGED wbits
    BY <1>3 DEF W!Tune
  <2>2. W!Hint \in 0..MaxHint
    BY <1>1 DEF W!Hint
  <2>3. W!TypeOK'
    BY <1>1, <2>1, <2>2 DEF W!TypeOK
  <2>4. content_length <= 2^wbits \/ wbits = lg_win["location"]
    <3>1. wbits \in Nat /\ lg_win["location"] \in Nat
      BY <1>1 DEF W!Windows
    <3>2. 2^wbits \in Int
      BY <3>1
    <3> QED
      BY <1>1, <1>3, <3>1, <3>2 DEF W!TooSmall
  <2>5. W!SmallestWindow'
    BY <1>1, <2>1, <2>4 DEF W!SmallestWindow
  <2> QED
    BY <1>1, <2>1, <2>3, <2>5 DEF WindowInv, Parsed, Tuned, W!WindowAsConfigured, W!Serving
<1> QED
  BY <1>2, <1>3

(* Directives, inheritance and responses keep the invariant.                *)
THEOREM WindowInvariance == ASSUME W!WindowAssumption PROVE W!Spec => []WindowInv
<1>1. W!Init => WindowInv
  BY WindowInitInv
<1>2. WindowInv /\ [W!Next]_W!vars => WindowInv'
  <2> SUFFICES ASSUME WindowInv, [W!Next]_W!vars PROVE WindowInv'
    OBVIOUS
  <2>1. CASE \E b \in W!Blocks : W!BrotliWindow(b)
    BY <2>1, BrotliWindowInv
  <2>2. CASE W!ParseWbits
    BY <2>2, ParseWbitsInv
  <2>3. CASE W!MergeConf
    BY <2>3, WindowMergeInv
  <2>4. CASE W!Respond
    BY <2>4, RespondInv
  <2>5. CASE W!Tune
    BY <2>5, TuneInv
  <2>6. CASE UNCHANGED W!vars
    BY <2>6
       DEF W!vars, WindowInv, W!TypeOK, Parsed, Translated, Tuned, W!WindowAsConfigured, W!SmallestWindow, W!Serving
  <2> QED
    BY <2>1, <2>2, <2>3, <2>4, <2>5, <2>6 DEF W!Next
<1> QED
  BY <1>1, <1>2, PTL DEF W!Spec

(* The encoder is given a window and a hint it takes.                       *)
THEOREM WindowTypeCorrect == ASSUME W!WindowAssumption PROVE W!Spec => []W!TypeOK
BY WindowInvariance, PTL DEF WindowInv

(* The window in force is that of the nearest directive, or the default.    *)
THEOREM WindowConfigured == ASSUME W!WindowAssumption PROVE W!Spec => []W!WindowAsConfigured
BY WindowInvariance, PTL DEF WindowInv

(* The loop that tunes it stops at the smallest window that will do.        *)
THEOREM WindowSmallest == ASSUME W!WindowAssumption PROVE W!Spec => []W!SmallestWindow
BY WindowInvariance, PTL DEF WindowInv
=============================================================================
