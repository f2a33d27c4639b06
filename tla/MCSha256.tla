------------------------------ MODULE MCSha256 ------------------------------
(* Messages of every length up to two blocks and a bit, no two octets alike *)
(* within a block, in up to two calls split anywhere.                       *)
EXTENDS Sha256

CONSTANT MaxLen

MCMessages == {[k \in 1..n |-> (k * 3) % 256] : n \in 0..MaxLen}
=============================================================================
