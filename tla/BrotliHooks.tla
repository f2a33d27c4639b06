----------------------------- MODULE BrotliHooks -----------------------------
(***************************************************************************)
(* "brotli" and "brotli_static": parsing, the any_enabled latches, merging, *)
(* and what init and filter_init hook into the server, over reloads, failed *)
(* reloads and the respawn of a worker.                                     *)
(***************************************************************************)
EXTENDS Integers, FiniteSets

CONSTANTS
  Contexts, Root, Parent,       \* the blocks of the configuration; Root is http
  IfBlocks                      \* blocks a rewrite-phase "if" makes

Modules == {"filter", "static"}

Values(m) == IF m = "filter" THEN {"on", "off"} ELSE {"on", "off", "always"}

(* "brotli_static" takes no NGX_HTTP_LIF_CONF.                              *)
Takes(m, c) == m = "filter" \/ c \notin IfBlocks

ASSUME ContextsAssumption ==
  /\ IsFiniteSet(Contexts)
  /\ Root \in Contexts \ IfBlocks
  /\ Parent \in [Contexts \ {Root} -> Contexts]

VARIABLES
  stage,                \* of the cycle the master is making, or "idle"
  said,                 \* its directives
  enable,               \* conf->enable, cfg->enable: per module and block
  merged,               \* the blocks merged so far
  any_enabled,          \* of the main configurations
  appended,             \* whether the cycle's content phase has handler()
  top, next,            \* the filter chain: statics of the process
  worker                \* the worker in service; none before the first start

vars == <<stage, said, enable, merged, any_enabled, appended, top, next, worker>>

Unset == [m \in Modules |-> [c \in Contexts |-> "unset"]]

(* The master has no cycle in the making.                                   *)
Idle ==
  /\ stage' = "idle"
  /\ said' = Unset /\ enable' = Unset
  /\ merged' = {} /\ appended' = FALSE

(***************************************************************************)
(* The master makes a cycle.                                                *)
(***************************************************************************)
(* Mutant: the latch outlives the cycle.                                    *)
LatchKept == any_enabled

(* create_main_conf: the main configuration is the cycle's.                 *)
CreatedLatch == [m \in Modules |-> FALSE]

CreateConf ==
  /\ stage = "idle"
  /\ stage' = "parse"
  /\ said' = Unset /\ enable' = Unset
  /\ merged' = {}
  /\ any_enabled' = CreatedLatch
  /\ appended' = FALSE
  /\ UNCHANGED <<top, next, worker>>

(* Mutant: what an "if" says is not latched.                                *)
LatchesOutsideIf(m, c, v) == v # "off" /\ c \notin IfBlocks

Latches(m, c, v) == v # "off"

(* A second directive in a block is a duplicate and fails the load.         *)
SetEnableSlot(m, c) ==
  /\ stage = "parse" /\ Takes(m, c)
  /\ IF enable[m][c] # "unset"
     THEN Idle /\ UNCHANGED any_enabled
     ELSE \E v \in Values(m) :
            /\ said' = [said EXCEPT ![m][c] = v]
            /\ enable' = [enable EXCEPT ![m][c] = v]
            /\ any_enabled' = [any_enabled EXCEPT ![m] = @ \/ Latches(m, c, v)]
            /\ UNCHANGED <<stage, merged, appended>>
  /\ UNCHANGED <<top, next, worker>>

(* ngx_http_block walks the blocks from the outside; what http says is not  *)
(* merged into anything.                                                    *)
EndParse ==
  /\ stage = "parse"
  /\ stage' = "merge"
  /\ merged' = {Root}
  /\ UNCHANGED <<said, enable, any_enabled, appended, top, next, worker>>

(* Mutant: the parent's value wins.                                         *)
ParentWins(m, c) == IF enable[m][Parent[c]] # "unset" THEN enable[m][Parent[c]] ELSE enable[m][c]

Merged(m, c) ==
  IF enable[m][c] # "unset" THEN enable[m][c]
  ELSE IF enable[m][Parent[c]] # "unset" THEN enable[m][Parent[c]]
  ELSE "off"

MergeConf(c) ==
  /\ stage = "merge" /\ c \notin merged /\ Parent[c] \in merged
  /\ enable' = [m \in Modules |-> [enable[m] EXCEPT ![c] = Merged(m, c)]]
  /\ merged' = merged \cup {c}
  /\ UNCHANGED <<stage, said, any_enabled, appended, top, next, worker>>

(* The core's own filters start the chain anew.                             *)
StartChain ==
  /\ stage = "merge" /\ merged = Contexts
  /\ stage' = "static"
  /\ top' = "core"
  /\ UNCHANGED <<said, enable, merged, any_enabled, appended, next, worker>>

(* init of the static module: no handler unless latched; the array may not  *)
(* grow.                                                                    *)
StaticInit ==
  /\ stage = "static"
  /\ \/ stage' = "filter" /\ appended' = any_enabled["static"] /\ UNCHANGED <<said, enable, merged>>
     \/ any_enabled["static"] /\ Idle
  /\ UNCHANGED <<any_enabled, top, next, worker>>

Kept == top

FilterInit ==
  /\ stage = "filter"
  /\ stage' = "rest"
  /\ IF any_enabled["filter"] THEN next' = Kept /\ top' = "brotli" ELSE UNCHANGED <<top, next>>
  /\ UNCHANGED <<said, enable, merged, any_enabled, appended, worker>>

(* Anything else of the configuration, or opening a log or a port, fails:   *)
(* the master goes back to the cycle it had, not to the chain.              *)
Fail ==
  /\ stage # "idle"
  /\ Idle
  /\ UNCHANGED <<any_enabled, top, next, worker>>

(***************************************************************************)
(* Workers.                                                                 *)
(***************************************************************************)
Some(values) == [m \in Modules |-> \E c \in Contexts : values[m][c] \notin {"unset", "off"}]

(* What a worker is to serve, of all of the cycle: whether a block of it is *)
(* live, and whether the configuration asked for that.                      *)
Cycle == [live |-> Some(enable), asked |-> Some(said), appended |-> appended]

Process(cycle, respawned) == [cycle |-> cycle, top |-> top, next |-> next, respawned |-> respawned]

NoWorker == [cycle |-> "none"]

Commit ==
  /\ stage = "rest"
  /\ Idle
  /\ worker' = Process(Cycle, FALSE)
  /\ UNCHANGED <<any_enabled, top, next>>

(* A worker dies; the master forks another for the cycle in force.          *)
Respawn ==
  /\ stage = "idle" /\ worker # NoWorker
  /\ worker' = Process(worker.cycle, TRUE)
  /\ UNCHANGED <<stage, said, enable, merged, any_enabled, appended, top, next>>

Init ==
  /\ stage = "idle"
  /\ said = Unset /\ enable = Unset /\ merged = {}
  /\ any_enabled = [m \in Modules |-> FALSE] /\ appended = FALSE
  /\ top = "none" /\ next = "none"
  /\ worker = NoWorker

Next ==
  \/ CreateConf \/ EndParse \/ StartChain \/ StaticInit \/ FilterInit \/ Fail \/ Commit \/ Respawn
  \/ \E m \in Modules, c \in Contexts : SetEnableSlot(m, c)
  \/ \E c \in Contexts : MergeConf(c)

Spec == Init /\ [][Next]_vars

(***************************************************************************)
(* Properties.                                                              *)
(***************************************************************************)
Settings == [Modules -> [Contexts -> {"unset", "off", "on", "always"}]]

(* A block that is merged has a value.                                      *)
TypeOK ==
  /\ stage \in {"idle", "parse", "merge", "static", "filter", "rest"}
  /\ said \in Settings /\ enable \in Settings
  /\ \A c \in Contexts : "always" \notin {said["filter"][c], enable["filter"][c]}
  /\ \A m \in Modules, c \in merged \ {Root} : enable[m][c] # "unset"
  /\ merged \subseteq Contexts
  /\ any_enabled \in [Modules -> BOOLEAN] /\ appended \in BOOLEAN
  /\ top \in {"none", "core", "brotli"} /\ next \in {"none", "core", "brotli"}
  /\ worker # NoWorker =>
       /\ worker.top \in {"core", "brotli"} /\ worker.next \in {"none", "core", "brotli"}
       /\ \A f \in {"live", "asked"} : worker.cycle[f] \in [Modules -> BOOLEAN]
       /\ worker.cycle.appended \in BOOLEAN

Working == worker # NoWorker

(* "A false negative would silently drop compression for a live location":  *)
(* the workers a cycle starts have the hooks wherever one of its blocks, an *)
(* "if" included, is live; no worker lacks the content handler.  The filter *)
(* of replacement workers is ReplacementHooked's.                           *)
LiveMeansHooked ==
  Working =>
    /\ worker.cycle.live["filter"] /\ ~worker.respawned => worker.top = "brotli"
    /\ worker.cycle.live["static"] => worker.cycle.appended

(* "Off everywhere": what is hooked was asked for in this configuration, not *)
(* in one before it; the filter of replacement workers is left out.         *)
HookedMeansAsked ==
  Working =>
    /\ worker.top = "brotli" /\ ~worker.respawned => worker.cycle.asked["filter"]
    /\ worker.cycle.appended => worker.cycle.asked["static"]

(* The filter never hands a response to itself.                             *)
ChainEnds == Working => (worker.top = "brotli" => worker.next = "core")

Outer(c) == IF c = Root THEN Root ELSE Parent[c]

(* The blocks from c outwards, as far as they are steps away.               *)
Outwards(c) ==
  LET out[n \in 0..Cardinality(Contexts)] == IF n = 0 THEN c ELSE Outer(out[n - 1])
  IN  out

(* When the hooks are made, each block has what the nearest directive said, *)
(* or off.                                                                  *)
NearestSays ==
  stage \in {"static", "filter", "rest"} =>
    \A m \in Modules, c \in Contexts \ {Root} :
      LET out == Outwards(c)
          says == {n \in DOMAIN out : said[m][out[n]] # "unset"}
      IN  enable[m][c] =
            IF says = {} THEN "off" ELSE said[m][out[CHOOSE n \in says : \A k \in says : n <= k]]

(* Any worker has the hooks its cycle needs, one that replaces a worker     *)
(* that died included.                                                      *)
ReplacementHooked == Working /\ worker.cycle.live["filter"] => worker.top = "brotli"
=============================================================================
