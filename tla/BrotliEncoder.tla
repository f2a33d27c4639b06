---------------------------- MODULE BrotliEncoder ----------------------------
(***************************************************************************)
(* The streaming encoder of libbrotlienc as the body filter drives it: with *)
(* available_out = 0, so every byte it produces stays inside the encoder    *)
(* until BrotliEncoderTakeOutput hands out a pointer to it.  The library is *)
(* not part of the repository; this module states what its callers in       *)
(* src/filter/ngx_http_brotli_filter_module.c may count on.                 *)
(*                                                                         *)
(* Content is not modelled.  An encoder is a record:                        *)
(*   live      the instance exists                                         *)
(*   held      input bytes absorbed whose code has not been produced yet    *)
(*   pend      output bytes produced and not taken                         *)
(*   taken     output bytes taken so far (the offset of the next one)       *)
(*   finished  a FINISH operation has been performed                       *)
(***************************************************************************)
EXTENDS Integers

CONSTANT MaxChunk   \* most output bytes one call of CompressStream produces

ASSUME MaxChunkAssumption == MaxChunk \in Nat \ {0}

Operations == {"PROCESS", "FLUSH", "FINISH"}

Encoders == [live : BOOLEAN, held : Nat, pend : Nat, taken : Nat, finished : BOOLEAN]

NoEncoder  == [live |-> FALSE, held |-> 0, pend |-> 0, taken |-> 0, finished |-> FALSE]
NewEncoder == [NoEncoder EXCEPT !.live = TRUE]

HasMoreOutput(e) == e.pend > 0
IsFinished(e)    == e.finished /\ ~HasMoreOutput(e)

(***************************************************************************)
(* A successful CompressStream over n offered bytes: k are consumed, the    *)
(* code of u input bytes is produced in p bytes of output, and performed    *)
(* says whether op itself was carried out.  Three things can happen:        *)
(*   - the input disappears into the block under construction;              *)
(*   - a block fills up, is coded, and the call stops there: op waits until *)
(*     the output is taken, although all input may have been consumed;      *)
(*   - op is performed: everything held is coded.  A FINISH always produces *)
(*     the end of the stream, a FLUSH of nothing may produce nothing.       *)
(***************************************************************************)
Absorbs(op, n, k, u, p, performed) ==
  op = "PROCESS" /\ k = n /\ u = 0 /\ p = 0 /\ ~performed

FillsBlock(e, n, k, u, p, performed) ==
  /\ k \in 1..n
  /\ u \in 1..(e.held + k)
  /\ p \in 1..MaxChunk
  /\ ~performed

Performs(e, op, n, k, u, p, performed) ==
  /\ op # "PROCESS"
  /\ k = n
  /\ u = e.held + n
  /\ p \in 0..MaxChunk
  /\ (u > 0 \/ op = "FINISH") => p > 0
  /\ performed

CompressStream(e, op, n, k, u, p, performed) ==
  \/ Absorbs(op, n, k, u, p, performed)
  \/ FillsBlock(e, n, k, u, p, performed)
  \/ Performs(e, op, n, k, u, p, performed)

Compressed(e, op, k, u, p, performed) ==
  [e EXCEPT !.held = e.held + k - u,
            !.pend = e.pend + p,
            !.finished = e.finished \/ (performed /\ op = "FINISH")]

(* TakeOutput with *size = 0: the encoder chooses how much it hands out.    *)
Taken(e, a) == [e EXCEPT !.pend = e.pend - a, !.taken = e.taken + a]
==============================================================================
