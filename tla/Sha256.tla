------------------------------- MODULE Sha256 -------------------------------
(***************************************************************************)
(* src/ngx_http_brotli_sha256.h: how the octets of a dictionary reach the   *)
(* compression function.  That function is not modelled: the state of the   *)
(* hash is the sequence of the blocks it was given, which determines it.    *)
(***************************************************************************)
EXTENDS Integers, Sequences

CONSTANTS
  Messages,             \* the octets hashed
  MaxUpdates,           \* how many calls they may come in
  Libcrypto,            \* NGX_HTTP_BROTLI_HAVE_LIBCRYPTO
  Garbage               \* what an octet that was never written holds

Octet == 0..255
Block == [1..64 -> Octet]

ASSUME HashAssumption ==
  /\ Messages \subseteq Seq(Octet)
  /\ MaxUpdates \in Nat \ {0}
  /\ Libcrypto \in BOOLEAN
  /\ Garbage \in Octet

VARIABLES
  data,                 \* the message
  updates,              \* the calls of update so far
  len,                  \* octets of the current call's data not taken yet
  state,                \* c->state: what was compressed
  total, block, block_len,      \* ngx_http_brotli_sha256_t
  digest,               \* the state it was made from
  pc

vars == <<data, updates, len, state, total, block, block_len, digest, pc>>

(***************************************************************************)
(* Reference: the padded message of FIPS 180-4, 5.1.1.                      *)
(***************************************************************************)
(* A mark and the eight octets of the length fit in the last block.         *)
PaddedBlocks(n) == (n + 72) \div 64

(* Mutant: the length counts octets.                                        *)
BitsAsOctets(n) == n

Bits(n) == n * 8

(* The i-th octet, from 0, of the length in bits, big-endian.               *)
LengthOctet(n, i) ==
  LET Shift(b) == b \div 256
      b1 == Shift(Bits(n))
      b2 == Shift(b1)
      b3 == Shift(b2)
      b4 == Shift(b3)
      b5 == Shift(b4)
      b6 == Shift(b5)
      b7 == Shift(b6)
  IN  <<b7, b6, b5, b4, b3, b2, b1, Bits(n)>>[i + 1] % 256

PaddedOctet(m, k) ==
  LET length_at == 64 * PaddedBlocks(Len(m)) - 8
  IN  IF k <= Len(m) THEN m[k]
      ELSE IF k = Len(m) + 1 THEN 128
      ELSE IF k <= length_at THEN 0
      ELSE LengthOctet(Len(m), k - length_at - 1)

Padded(m) ==
  [j \in 1..PaddedBlocks(Len(m)) |-> [k \in 1..64 |-> PaddedOctet(m, 64 * (j - 1) + k)]]

(***************************************************************************)
(* The hash.                                                                *)
(***************************************************************************)
(* ngx_http_brotli_sha256_compress                                          *)
Compress(b) == state' = Append(state, b)

(* The data of the current call that is not taken yet starts after this.    *)
Taken == total - len

Least(i, j) == IF i < j THEN i ELSE j

(* The block with n octets of s, those after i, copied to after at.         *)
Copied(at, s, i, n) ==
  [k \in 1..64 |-> IF k \in (at + 1)..(at + n) THEN s[i + k - at] ELSE block[k]]

(* EVP: each of its stages may fail, and the caller may have no context.    *)
OneShot ==
  /\ pc = "start"
  /\ \/ Libcrypto /\ digest' = Padded(data) /\ pc' = "done"
     \/ pc' = "ready" /\ UNCHANGED digest
  /\ UNCHANGED <<data, updates, len, state, total, block, block_len>>

(* Mutant: a block that a call fills up is left for the next.               *)
FullLater(filled) == filled <= 64

(* The pending block waits for more.                                        *)
Waits(filled) == filled < 64

Update ==
  /\ pc = "ready" /\ updates < MaxUpdates
  /\ \E n \in 0..(Len(data) - total) :
       LET m == IF block_len = 0 THEN 0 ELSE Least(64 - block_len, n)
           filled == Copied(block_len, data, total, m)
       IN  /\ total' = total + n /\ len' = n - m
           /\ block' = filled
           /\ IF block_len = 0
              THEN pc' = "blocks" /\ UNCHANGED <<state, block_len>>
              ELSE IF Waits(block_len + m)
              THEN block_len' = block_len + m /\ UNCHANGED <<state, pc>>
              ELSE Compress(filled) /\ block_len' = 0 /\ pc' = "blocks"
  /\ updates' = updates + 1
  /\ UNCHANGED <<data, digest>>

WholeBlock ==
  /\ pc = "blocks" /\ len >= 64
  /\ Compress([k \in 1..64 |-> data[Taken + k]])
  /\ len' = len - 64
  /\ UNCHANGED <<data, updates, total, block, block_len, digest, pc>>

Remainder ==
  /\ pc = "blocks" /\ len < 64
  /\ block' = Copied(0, data, Taken, len)
  /\ block_len' = len
  /\ len' = 0
  /\ pc' = "ready"
  /\ UNCHANGED <<data, updates, state, total, digest>>

(* Mutant: the length is thought not to fit where it just does.             *)
OverflowsEarly(n) == n >= 56

(* The length does not fit after n octets of the block.                     *)
Overflows(n) == n > 56

Zeroed(s, from, to) == [k \in 1..64 |-> IF k \in from..to THEN 0 ELSE s[k]]

(* The mark, in a block of its own when the length does not fit.            *)
Mark ==
  /\ pc = "ready" /\ total = Len(data)
  /\ LET marked == [block EXCEPT ![block_len + 1] = 128]
         zeroed == Zeroed(marked, block_len + 2, 64)
     IN  IF Overflows(block_len + 1)
         THEN block' = zeroed /\ Compress(zeroed) /\ block_len' = 0
         ELSE block' = marked /\ block_len' = block_len + 1 /\ UNCHANGED state
  /\ pc' = "length"
  /\ UNCHANGED <<data, updates, len, total, digest>>

Length ==
  /\ pc = "length"
  /\ LET zeroed == Zeroed(block, block_len + 1, 56)
         last == [k \in 1..64 |-> IF k > 56 THEN LengthOctet(total, k - 57) ELSE zeroed[k]]
     IN  block' = last /\ Compress(last)
  /\ digest' = state'
  /\ pc' = "done"
  /\ UNCHANGED <<data, updates, len, total, block_len>>

Init ==
  /\ data \in Messages
  /\ updates = 0 /\ len = 0
  /\ state = <<>> /\ total = 0
  /\ block = [k \in 1..64 |-> Garbage] /\ block_len = 0
  /\ digest = <<>>
  /\ pc = "start"

Next == OneShot \/ Update \/ WholeBlock \/ Remainder \/ Mark \/ Length

Spec == Init /\ [][Next]_vars

(***************************************************************************)
(* Properties.                                                              *)
(***************************************************************************)
(* The pending block never outgrows its array between calls.                *)
TypeOK ==
  /\ data \in Messages
  /\ updates \in 0..MaxUpdates
  /\ total \in 0..Len(data) /\ len \in 0..total
  /\ state \in Seq(Block)
  /\ block \in Block /\ block_len \in 0..63
  /\ digest \in Seq(Block)
  /\ pc \in {"start", "ready", "blocks", "length", "done"}

(* Whatever the calls the message came in, whatever the block held before   *)
(* and whoever computes it, the digest is that of the padded message: each  *)
(* octet compressed once and in order, one mark, the fewest zeros, and the  *)
(* length.                                                                  *)
DigestRight == pc = "done" => digest = Padded(data)

(* Read as a big-endian number, the last eight octets that were compressed  *)
(* are the length in bits.                                                  *)
LengthInBits ==
  pc = "done" =>
    LET last == digest[Len(digest)]
        value[k \in 56..64] == IF k = 56 THEN 0 ELSE value[k - 1] * 256 + last[k]
    IN  value[64] = 8 * Len(data)
=============================================================================
