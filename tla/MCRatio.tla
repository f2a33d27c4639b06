------------------------------- MODULE MCRatio -------------------------------
(* Every pair of counters of a small word.                                  *)
EXTENDS BrotliRatio
==============================================================================
