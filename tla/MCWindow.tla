------------------------------ MODULE MCWindow ------------------------------
(* The encoder's windows, and sizes and lengths around each of them.         *)
EXTENDS BrotliWindow

Around == {2^w + d : w \in 9..25, d \in {-1, 0, 1}}

MCSizes == Around \cup {0, 19}

MCLengths == Around \cup {-1, 0, 1}
=============================================================================
