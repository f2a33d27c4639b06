--------------------------- MODULE DictionaryPolicy ---------------------------
(***************************************************************************)
(* What the two policies of the dictionaries promise: directives are        *)
(* parsed one after the other, but a configuration that loads is one in     *)
(* which every dictionary was loaded as the policies at its end demand.     *)
(***************************************************************************)
VARIABLES
  config,       \* "parsing", "loaded" or "failed"
  strict,       \* brotli_dcb_dict_strict_path is on
  trust,        \* brotli_dcb_dict_trust_hashes is on
  dicts         \* how each dictionary was loaded

vars == <<config, strict, trust, dicts>>

(* The key is computed from the bytes, computed and compared with the       *)
(* literal given, or the literal itself.                                    *)
Loads == [strict : BOOLEAN, way : {"computed", "verified", "trusted"}]

Init == config = "parsing" /\ strict = FALSE /\ trust = FALSE /\ dicts = {}

Declare ==
  /\ config = "parsing"
  /\ \/ strict' = TRUE /\ UNCHANGED trust
     \/ trust' = TRUE /\ UNCHANGED strict
  /\ UNCHANGED <<config, dicts>>

Load ==
  /\ config = "parsing"
  /\ \E d \in Loads :
       /\ d.strict = strict
       /\ d.way = "trusted" => trust
       /\ d.way = "verified" => ~trust
       /\ dicts' = dicts \cup {d}
  /\ UNCHANGED <<config, strict, trust>>

Accept ==
  /\ config = "parsing"
  /\ strict => \A d \in dicts : d.strict
  /\ trust => \A d \in dicts : d.way # "verified"
  /\ config' = "loaded"
  /\ UNCHANGED <<strict, trust, dicts>>

Reject == config = "parsing" /\ config' = "failed" /\ UNCHANGED <<strict, trust, dicts>>

Next == Declare \/ Load \/ Accept \/ Reject

Spec == Init /\ [][Next]_vars
==============================================================================
