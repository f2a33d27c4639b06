--------------------------- MODULE ArithmeticProofs ---------------------------
(***************************************************************************)
(* The two computations on numbers of limited width: the padding of         *)
(* SHA-256, for every message, however it is split, and the division of     *)
(* $brotli_ratio, for every width of the word.                              *)
(***************************************************************************)
EXTENDS Sha256, BrotliRatio, SequenceTheorems, Recursion

(* What was compressed and what is pending are the message so far.          *)
Reading ==
  /\ 64 * Len(state) + block_len + len = total
  /\ \A j \in 1..Len(state), o \in 1..64 : state[j][o] = data[64 * (j - 1) + o]
  /\ \A o \in 1..block_len : block[o] = data[64 * Len(state) + o]
  /\ pc \in {"start", "ready"} => len = 0
  /\ pc = "blocks" => block_len = 0

(* So are all of the message and the mark; there is room for the length.    *)
Marked ==
  /\ total = Len(data)
  /\ Len(state) + 1 = PaddedBlocks(Len(data)) /\ block_len <= 56
  /\ \A j \in 1..Len(state), o \in 1..64 : state[j][o] = PaddedOctet(data, 64 * (j - 1) + o)
  /\ \A o \in 1..block_len : block[o] = PaddedOctet(data, 64 * Len(state) + o)
  /\ Len(data) < 64 * Len(state) + block_len

Inv ==
  /\ TypeOK
  /\ pc \in {"start", "ready", "blocks"} => Reading
  /\ pc = "length" => Marked
  /\ DigestRight

(***************************************************************************)
(* Blocks and octets.                                                       *)
(***************************************************************************)

LEMMA DataTyped ==
  ASSUME TypeOK
  PROVE  data \in Seq(Octet) /\ Len(data) \in Nat
BY HashAssumption, LenProperties DEF TypeOK

(* A block is compressed: the state grows by it.                            *)
LEMMA Compressed ==
  ASSUME state \in Seq(Block), NEW b \in Block, Compress(b)
  PROVE  /\ state' \in Seq(Block) /\ Len(state) \in Nat /\ Len(state') = Len(state) + 1
         /\ \A j \in 1..Len(state) : state'[j] = state[j]
         /\ state'[Len(state) + 1] = b
<1>1. state' = Append(state, b)
  BY DEF Compress
<1>2. Len(state) \in Nat /\ state' \in Seq(Block) /\ Len(state') = Len(state) + 1
  BY <1>1
<1>3. \A j \in 1..Len(state) : state'[j] = state[j]
  BY <1>1, <1>2
<1>4. state'[Len(state) + 1] = b
  BY <1>1, <1>2
<1> QED BY <1>2, <1>3, <1>4

LEMMA LengthOctetTyped ==
  ASSUME NEW n \in Nat, NEW x \in 0..7
  PROVE  LengthOctet(n, x) \in Octet
<1> DEFINE Shift(b) == b \div 256
<1>1. \A b \in Nat : Shift(b) \in Nat
  OBVIOUS
<1> HIDE DEF Shift
<1> DEFINE b1 == Shift(Bits(n))
           b2 == Shift(b1)
           b3 == Shift(b2)
           b4 == Shift(b3)
           b5 == Shift(b4)
           b6 == Shift(b5)
           b7 == Shift(b6)
<1>2. Bits(n) \in Nat
  BY DEF Bits
<1>3. b1 \in Nat /\ b2 \in Nat /\ b3 \in Nat /\ b4 \in Nat /\ b5 \in Nat /\ b6 \in Nat /\ b7 \in Nat
  BY <1>1, <1>2
<1>4. LengthOctet(n, x) = <<b7, b6, b5, b4, b3, b2, b1, Bits(n)>>[x + 1] % 256
  BY DEF LengthOctet, Shift
<1> HIDE DEF b1, b2, b3, b4, b5, b6, b7
<1>5. x + 1 \in 1..8
  OBVIOUS
<1>6. \A o \in 1..8 : <<b7, b6, b5, b4, b3, b2, b1, Bits(n)>>[o] \in Nat
  BY <1>2, <1>3
<1>7. <<b7, b6, b5, b4, b3, b2, b1, Bits(n)>>[x + 1] \in Nat
  BY <1>5, <1>6
<1>8. \A b \in Nat : b % 256 \in 0..255
  OBVIOUS
<1> QED BY <1>4, <1>7, <1>8 DEF Octet

LEMMA PaddedBlocksBounds ==
  ASSUME NEW n \in Nat
  PROVE  PaddedBlocks(n) \in Nat /\ n + 9 <= 64 * PaddedBlocks(n)
BY DEF PaddedBlocks

LEMMA PaddedOctetTyped ==
  ASSUME NEW m \in Seq(Octet), NEW o \in 1..(64 * PaddedBlocks(Len(m)))
  PROVE  PaddedOctet(m, o) \in Octet
<1> DEFINE N == PaddedBlocks(Len(m))
           length_at == 64 * N - 8
<1>1. Len(m) \in Nat /\ N \in Nat /\ Len(m) + 9 <= 64 * N
  BY PaddedBlocksBounds, LenProperties
<1> HIDE DEF N
<1>2. CASE o <= Len(m)
  <2>1. o \in 1..Len(m)
    BY <1>1, <1>2
  <2>2. m[o] \in Octet
    BY <2>1, ElementOfSeq
  <2> QED BY <1>2, <2>2 DEF PaddedOctet
<1>3. CASE ~(o <= Len(m)) /\ o <= length_at
  BY <1>3 DEF PaddedOctet, Octet, N
<1>4. CASE ~(o <= length_at)
  <2>1. o - length_at - 1 \in 0..7 /\ ~(o <= Len(m)) /\ o # Len(m) + 1
    BY <1>1, <1>4, SMTT(30) DEF N
  <2>2. LengthOctet(Len(m), o - length_at - 1) \in Octet
    BY <1>1, <2>1, LengthOctetTyped
  <2> QED BY <1>4, <2>1, <2>2 DEF PaddedOctet, N
<1> QED BY <1>2, <1>3, <1>4

(* The pending block with octets of s after those it has.                   *)
LEMMA CopiedOctets ==
  ASSUME TypeOK, NEW s \in Seq(Octet), NEW at \in 0..64, NEW x \in Nat, NEW n \in Nat,
         at + n <= 64, x + n <= Len(s)
  PROVE  /\ Copied(at, s, x, n) \in Block
         /\ \A o \in 1..at : Copied(at, s, x, n)[o] = block[o]
         /\ \A o \in (at + 1)..(at + n) : Copied(at, s, x, n)[o] = s[x + o - at]
<1>1. block \in [1..64 -> Octet] /\ Len(s) \in Nat
  BY LenProperties DEF TypeOK, Block
<1>2. ASSUME NEW o \in (at + 1)..(at + n) PROVE s[x + o - at] \in Octet /\ o \in 1..64
  <2>1. at + 1 <= o /\ o <= at + n /\ o \in Int
    OBVIOUS
  <2>2. 1 <= x + o - at /\ x + o - at <= x + n /\ 1 <= o /\ o <= 64 /\ x + o - at \in Int
    BY <2>1
  <2>3. x + o - at <= Len(s) /\ Len(s) \in Nat
    <3>1. Len(s) \in Nat
      BY <1>1
    <3> QED BY <2>2, <3>1
  <2>4. x + o - at \in 1..Len(s) /\ o \in 1..64
    BY <2>1, <2>2, <2>3
  <2> QED BY <2>4, ElementOfSeq
<1>3. \A o \in 1..at : o \in 1..64 /\ o \notin (at + 1)..(at + n)
  OBVIOUS
<1> QED BY <1>1, <1>2, <1>3 DEF Copied, Block

(***************************************************************************)
(* Steps.                                                                   *)
(***************************************************************************)

(* Pending octets and an unread call become a state one block longer.       *)
LEMMA UpdateStep ==
  ASSUME Inv, Update
  PROVE  Inv'
<1>1. /\ pc = "ready" /\ TypeOK /\ Reading /\ data \in Seq(Octet) /\ Len(data) \in Nat
      /\ updates' = updates + 1 /\ updates < MaxUpdates /\ UNCHANGED <<data, digest>>
  BY DataTyped DEF Inv, Update
<1>2. PICK n \in 0..(Len(data) - total) :
        LET m == IF block_len = 0 THEN 0 ELSE Least(64 - block_len, n)
            filled == Copied(block_len, data, total, m)
        IN  /\ total' = total + n /\ len' = n - m
            /\ block' = filled
            /\ IF block_len = 0
               THEN pc' = "blocks" /\ UNCHANGED <<state, block_len>>
               ELSE IF Waits(block_len + m)
               THEN block_len' = block_len + m /\ UNCHANGED <<state, pc>>
               ELSE Compress(filled) /\ block_len' = 0 /\ pc' = "blocks"
  BY DEF Update
<1> DEFINE m == IF block_len = 0 THEN 0 ELSE Least(64 - block_len, n)
           filled == Copied(block_len, data, total, m)
<1>3. /\ total \in Nat /\ total <= Len(data) /\ len = 0 /\ block_len \in 0..63
      /\ Len(state) \in Nat /\ 64 * Len(state) + block_len = total /\ updates \in 0..MaxUpdates
      /\ MaxUpdates \in Nat
  BY <1>1, HashAssumption, LenProperties DEF TypeOK, Reading
<1>4. /\ m \in 0..n /\ block_len + m <= 64 /\ total + m <= Len(data)
      /\ block_len > 0 => m = n \/ block_len + m = 64
  BY <1>2, <1>3 DEF Least
<1>5. total' = total + n /\ len' = n - m /\ block' = filled
  BY <1>2
<1>6. /\ filled \in Block
      /\ \A o \in 1..block_len : filled[o] = block[o]
      /\ \A o \in (block_len + 1)..(block_len + m) : filled[o] = data[total + o - block_len]
  <2> HIDE DEF m
  <2>1. m \in Nat /\ block_len \in 0..64 /\ total \in Nat /\ block_len + m <= 64
        /\ total + m <= Len(data)
    BY <1>3, <1>4
  <2>2. TypeOK /\ data \in Seq(Octet)
    BY <1>1
  <2> QED BY <2>1, <2>2, CopiedOctets
<1>7. \A o \in 1..(block_len + m) : filled[o] = data[64 * Len(state) + o]
  <2> HIDE DEF m, filled
  <2>1. ASSUME NEW o \in 1..block_len PROVE filled[o] = data[64 * Len(state) + o]
    BY <1>1, <1>6 DEF Reading
  <2>2. ASSUME NEW o \in (block_len + 1)..(block_len + m)
        PROVE  filled[o] = data[64 * Len(state) + o]
    <3>1. total + o - block_len = 64 * Len(state) + o
      BY <1>3, <1>4
    <3> QED BY <1>6, <3>1
  <2>3. \A o \in 1..(block_len + m) : o \in 1..block_len \/ o \in (block_len + 1)..(block_len + m)
    <3>1. block_len \in Nat
      BY <1>3
    <3> QED BY <3>1
  <2> QED BY <2>1, <2>2, <2>3
<1>8. total' \in 0..Len(data) /\ len' \in 0..total' /\ updates' \in 0..MaxUpdates
  <2> HIDE DEF m
  <2> QED BY <1>1, <1>2, <1>3, <1>4, <1>5
<1>9. CASE block_len = 0
  <2>1. pc' = "blocks" /\ UNCHANGED <<state, block_len>> /\ m = 0
    BY <1>2, <1>9
  <2> HIDE DEF m, filled
  <2>2. TypeOK'
    BY <1>1, <1>5, <1>6, <1>8, <2>1 DEF TypeOK
  <2>3. Reading'
    <3>1. (64 * Len(state) + block_len + len = total)'
      BY <1>2, <1>3, <1>5, <1>9, <2>1
    <3> QED BY <1>1, <1>9, <2>1, <3>1 DEF Reading
  <2> QED BY <2>1, <2>2, <2>3 DEF Inv, DigestRight
<1>10. CASE block_len # 0 /\ Waits(block_len + m)
  <2>1. block_len' = block_len + m /\ UNCHANGED <<state, pc>>
    BY <1>2, <1>10
  <2> HIDE DEF m, filled
  <2>2. block_len' \in 0..63 /\ m = n /\ len' = 0
    BY <1>2, <1>3, <1>4, <1>5, <1>10, <2>1 DEF Waits
  <2>3. TypeOK'
    BY <1>1, <1>5, <1>6, <1>8, <2>1, <2>2 DEF TypeOK
  <2>4. Reading'
    <3>1. (64 * Len(state) + block_len + len = total)'
      BY <1>2, <1>3, <1>5, <2>1, <2>2
    <3>2. (\A o \in 1..block_len : block[o] = data[64 * Len(state) + o])'
      BY <1>1, <1>5, <1>7, <2>1
    <3> QED BY <1>1, <2>1, <2>2, <3>1, <3>2 DEF Reading
  <2> QED BY <1>1, <2>1, <2>3, <2>4 DEF Inv, DigestRight
<1>11. CASE block_len # 0 /\ ~Waits(block_len + m)
  <2>1. Compress(filled) /\ block_len' = 0 /\ pc' = "blocks"
    BY <1>2, <1>11
  <2> HIDE DEF m, filled
  <2>2. block_len + m = 64
    BY <1>2, <1>3, <1>4, <1>11 DEF Waits
  <2>3. state \in Seq(Block)
    BY <1>1 DEF TypeOK
  <2>4. /\ state' \in Seq(Block) /\ Len(state') = Len(state) + 1
        /\ \A j \in 1..Len(state) : state'[j] = state[j]
        /\ state'[Len(state) + 1] = filled
    BY <1>6, <2>1, <2>3, Compressed
  <2>5. TypeOK'
    BY <1>1, <1>5, <1>6, <1>8, <2>1, <2>4 DEF TypeOK
  <2>6. \A j \in 1..Len(state'), o \in 1..64 : state'[j][o] = data[64 * (j - 1) + o]
    <3>1. SUFFICES ASSUME NEW j \in 1..Len(state'), NEW o \in 1..64
                   PROVE  state'[j][o] = data[64 * (j - 1) + o]
      OBVIOUS
    <3>2. CASE j \in 1..Len(state)
      <4>1. state'[j][o] = state[j][o] /\ state[j][o] = data[64 * (j - 1) + o]
        BY <1>1, <2>4, <3>2, ZenonT(40) DEF Reading
      <4> QED BY <4>1
    <3>3. CASE j = Len(state) + 1
      <4>1. state'[j][o] = filled[o] /\ 64 * (j - 1) + o = 64 * Len(state) + o
        BY <1>3, <2>4, <3>3
      <4>2. filled[o] = data[64 * Len(state) + o]
        BY <1>7, <2>2
      <4> QED BY <4>1, <4>2
    <3> QED BY <1>3, <2>4, <3>2, <3>3
  <2>7. Reading'
    <3>1. (64 * Len(state) + block_len + len = total)'
      <4>1. len' = n - m /\ total' = total + n /\ Len(state') = Len(state) + 1 /\ block_len' = 0
            /\ n \in Int /\ m \in Int
        BY <1>2, <1>4, <1>5, <2>1, <2>4
      <4> QED BY <1>3, <2>2, <4>1
    <3> QED BY <1>1, <2>1, <2>6, <3>1 DEF Reading
  <2> QED BY <2>1, <2>5, <2>7 DEF Inv, DigestRight
<1> QED BY <1>9, <1>10, <1>11

LEMMA WholeBlockStep ==
  ASSUME Inv, WholeBlock
  PROVE  Inv'
<1>1. /\ pc = "blocks" /\ TypeOK /\ Reading /\ data \in Seq(Octet) /\ Len(data) \in Nat
      /\ len >= 64 /\ len' = len - 64
      /\ UNCHANGED <<data, updates, total, block, block_len, digest, pc>>
  BY DataTyped DEF Inv, WholeBlock
<1> DEFINE b == [o \in 1..64 |-> data[Taken + o]]
<1>2. Compress(b)
  BY DEF WholeBlock
<1>3. /\ Len(state) \in Nat /\ total \in 0..Len(data) /\ len \in 0..total /\ block_len = 0
      /\ 64 * Len(state) + len = total /\ state \in Seq(Block)
  BY <1>1, LenProperties DEF TypeOK, Reading
<1>4. Taken = 64 * Len(state) /\ Taken + 64 <= Len(data) /\ Taken \in Nat
  BY <1>1, <1>3 DEF Taken
<1>5. \A o \in 1..64 : b[o] = data[64 * Len(state) + o]
  BY <1>4
<1>6. b \in Block
  <2>1. \A o \in 1..64 : Taken + o \in 1..Len(data)
    BY <1>1, <1>4
  <2>2. \A o \in 1..64 : data[Taken + o] \in Octet
    BY <1>1, <2>1, ElementOfSeq
  <2> QED BY <2>2 DEF Block
<1> HIDE DEF b
<1>7. /\ state' \in Seq(Block) /\ Len(state') = Len(state) + 1
      /\ \A j \in 1..Len(state) : state'[j] = state[j]
      /\ state'[Len(state) + 1] = b
  BY <1>2, <1>3, <1>6, Compressed
<1>8. len' \in 0..total'
  BY <1>1, <1>3
<1>9. TypeOK'
  BY <1>1, <1>7, <1>8 DEF TypeOK
<1>10. \A j \in 1..Len(state'), o \in 1..64 : state'[j][o] = data[64 * (j - 1) + o]
  <2>1. SUFFICES ASSUME NEW j \in 1..Len(state'), NEW o \in 1..64
                 PROVE  state'[j][o] = data[64 * (j - 1) + o]
    OBVIOUS
  <2>2. CASE j \in 1..Len(state)
    <3>1. state'[j][o] = state[j][o] /\ state[j][o] = data[64 * (j - 1) + o]
      BY <1>1, <1>7, <2>2, ZenonT(40) DEF Reading
    <3> QED BY <3>1
  <2>3. CASE j = Len(state) + 1
    <3>1. state'[j][o] = b[o] /\ 64 * (j - 1) + o = 64 * Len(state) + o
      BY <1>3, <1>7, <2>3
    <3> QED BY <1>5, <3>1
  <2> QED BY <1>3, <1>7, <2>2, <2>3
<1>11. Reading'
  <2>1. (64 * Len(state) + block_len + len = total)'
    BY <1>1, <1>3, <1>7, SMTT(30)
  <2> QED BY <1>1, <1>3, <1>10, <2>1 DEF Reading
<1> QED BY <1>1, <1>9, <1>11 DEF Inv, DigestRight

LEMMA RemainderStep ==
  ASSUME Inv, Remainder
  PROVE  Inv'
<1>1. /\ pc = "blocks" /\ TypeOK /\ Reading /\ data \in Seq(Octet) /\ Len(data) \in Nat
      /\ len < 64 /\ len' = 0 /\ block_len' = len /\ pc' = "ready"
      /\ block' = Copied(0, data, Taken, len)
      /\ UNCHANGED <<data, updates, state, total, digest>>
  BY DataTyped DEF Inv, Remainder
<1>2. /\ Len(state) \in Nat /\ total \in 0..Len(data) /\ len \in 0..total /\ block_len = 0
      /\ 64 * Len(state) + len = total
  BY <1>1, LenProperties DEF TypeOK, Reading
<1>3. /\ Taken = 64 * Len(state) /\ Taken + len <= Len(data) /\ Taken \in Nat /\ len \in Nat
      /\ 0 + len <= 64 /\ 0 \in 0..64
  BY <1>1, <1>2 DEF Taken
<1>4. block' \in Block /\ \A o \in 1..len : block'[o] = data[64 * Len(state) + o]
  <2>1. ASSUME NEW at \in 0..64, at = 0
        PROVE  block' \in Block /\ \A o \in 1..len : block'[o] = data[64 * Len(state) + o]
    <3>1. at + len <= 64 /\ block' = Copied(at, data, Taken, len)
      BY <1>1, <1>3, <2>1
    <3>2. /\ block' \in Block
          /\ \A o \in (at + 1)..(at + len) : block'[o] = data[Taken + o - at]
      <4>1. TypeOK /\ data \in Seq(Octet)
        BY <1>1
      <4>2. Taken \in Nat /\ len \in Nat /\ Taken + len <= Len(data)
        BY <1>3
      <4> QED BY <3>1, <4>1, <4>2, CopiedOctets
    <3>3. ASSUME NEW o \in 1..len PROVE block'[o] = data[64 * Len(state) + o]
      <4>1. o \in (at + 1)..(at + len) /\ Taken + o - at = 64 * Len(state) + o
        BY <1>2, <1>3, <2>1
      <4> QED BY <3>2, <4>1
    <3> QED BY <3>2, <3>3
  <2> QED BY <2>1
<1>6. block_len' \in 0..63 /\ len' \in 0..total' /\ 64 * Len(state) + block_len' + len' = total'
  BY <1>1, <1>2
<1>7. TypeOK'
  BY <1>1, <1>4, <1>6 DEF TypeOK
<1>8. Reading'
  BY <1>1, <1>4, <1>6 DEF Reading
<1> QED BY <1>1, <1>7, <1>8 DEF Inv, DigestRight

(* How many blocks the padded message has, from where the last one stands.  *)
LEMMA LastBlocks ==
  ASSUME NEW q \in Nat, NEW r \in 0..63
  PROVE  /\ r + 1 > 56 => PaddedBlocks(64 * q + r) = q + 2
         /\ ~(r + 1 > 56) => PaddedBlocks(64 * q + r) = q + 1
BY DEF PaddedBlocks

(* Octets of the padded message.                                            *)
LEMMA PaddedOctets ==
  ASSUME TypeOK, NEW o \in Nat \ {0}
  PROVE  /\ o <= Len(data) => PaddedOctet(data, o) = data[o]
         /\ o = Len(data) + 1 => PaddedOctet(data, o) = 128
         /\ o > Len(data) + 1 /\ o <= 64 * PaddedBlocks(Len(data)) - 8
              => PaddedOctet(data, o) = 0
         /\ o > Len(data) + 1 /\ o > 64 * PaddedBlocks(Len(data)) - 8
              => PaddedOctet(data, o)
                   = LengthOctet(Len(data), o - (64 * PaddedBlocks(Len(data)) - 8) - 1)
<1>1. Len(data) \in Nat /\ PaddedBlocks(Len(data)) \in Nat
  BY DataTyped, PaddedBlocksBounds
<1> DEFINE at == 64 * PaddedBlocks(Len(data)) - 8
<1>2. at \in Int
  BY <1>1
<1>3. PaddedOctet(data, o) =
        IF o <= Len(data) THEN data[o]
        ELSE IF o = Len(data) + 1 THEN 128
        ELSE IF o <= at THEN 0
        ELSE LengthOctet(Len(data), o - at - 1)
  BY DEF PaddedOctet
<1> HIDE DEF at
<1>4. /\ o <= Len(data) => PaddedOctet(data, o) = data[o]
      /\ o = Len(data) + 1 => PaddedOctet(data, o) = 128
      /\ o > Len(data) + 1 /\ o <= at => PaddedOctet(data, o) = 0
      /\ o > Len(data) + 1 /\ o > at => PaddedOctet(data, o) = LengthOctet(Len(data), o - at - 1)
  BY <1>1, <1>2, <1>3
<1> QED BY <1>4 DEF at

LEMMA MarkStep ==
  ASSUME Inv, Mark
  PROVE  Inv'
<1>1. /\ pc = "ready" /\ TypeOK /\ Reading /\ data \in Seq(Octet) /\ Len(data) \in Nat
      /\ total = Len(data) /\ pc' = "length"
      /\ UNCHANGED <<data, updates, len, total, digest>>
  BY DataTyped DEF Inv, Mark
<1>2. /\ Len(state) \in Nat /\ block_len \in 0..63 /\ 64 * Len(state) + block_len = Len(data)
      /\ state \in Seq(Block) /\ block \in Block
  BY <1>1, LenProperties DEF TypeOK, Reading
<1> DEFINE marked == [block EXCEPT ![block_len + 1] = 128]
           zeroed == Zeroed(marked, block_len + 2, 64)
<1>3. marked \in Block /\ zeroed \in Block
  <2>1. 128 \in Octet /\ 0 \in Octet
    BY DEF Octet
  <2>2. marked \in Block
    BY <1>2, <2>1 DEF Block
  <2> HIDE DEF marked
  <2> QED BY <2>1, <2>2 DEF Zeroed, Block
<1>4. /\ \A o \in 1..block_len : marked[o] = block[o]
      /\ marked[block_len + 1] = 128
  <2>1. block \in [1..64 -> Octet] /\ block_len + 1 \in 1..64
    BY <1>2 DEF Block
  <2>2. \A o \in 1..block_len : o \in 1..64 /\ o # block_len + 1
    BY <1>2
  <2> QED BY <2>1, <2>2
<1> HIDE DEF marked
<1>5. /\ \A o \in 1..(block_len + 1) : zeroed[o] = marked[o]
      /\ \A o \in (block_len + 2)..64 : zeroed[o] = 0
  <2>1. \A o \in 1..(block_len + 1) : o \in 1..64 /\ o \notin (block_len + 2)..64
    BY <1>2
  <2>2. \A o \in (block_len + 2)..64 : o \in 1..64
    BY <1>2
  <2> QED BY <2>1, <2>2 DEF Zeroed
<1> HIDE DEF zeroed
<1>6. \A o \in 1..(block_len + 1) : marked[o] = PaddedOctet(data, 64 * Len(state) + o)
  <2>1. ASSUME NEW o \in 1..block_len
        PROVE  marked[o] = PaddedOctet(data, 64 * Len(state) + o)
    <3>1. 64 * Len(state) + o \in Nat \ {0} /\ 64 * Len(state) + o <= Len(data)
      BY <1>2
    <3>2. marked[o] = data[64 * Len(state) + o]
      BY <1>1, <1>4, ZenonT(40) DEF Reading
    <3> QED BY <1>1, <3>1, <3>2, PaddedOctets
  <2>2. marked[block_len + 1] = PaddedOctet(data, 64 * Len(state) + (block_len + 1))
    <3>1. 64 * Len(state) + (block_len + 1) \in Nat \ {0}
          /\ 64 * Len(state) + (block_len + 1) = Len(data) + 1
      BY <1>2
    <3> QED BY <1>1, <1>4, <3>1, PaddedOctets
  <2>3. \A o \in 1..(block_len + 1) : o \in 1..block_len \/ o = block_len + 1
    BY <1>2
  <2> QED BY <2>1, <2>2, <2>3
<1>7. \A j \in 1..Len(state), o \in 1..64 : state[j][o] = PaddedOctet(data, 64 * (j - 1) + o)
  <2>1. SUFFICES ASSUME NEW j \in 1..Len(state), NEW o \in 1..64
                 PROVE  state[j][o] = PaddedOctet(data, 64 * (j - 1) + o)
    OBVIOUS
  <2>2. 64 * (j - 1) + o \in Nat \ {0} /\ 64 * (j - 1) + o <= Len(data)
    BY <1>2
  <2>3. state[j][o] = data[64 * (j - 1) + o]
    BY <1>1 DEF Reading
  <2> QED BY <1>1, <2>2, <2>3, PaddedOctets
<1>8. CASE Overflows(block_len + 1)
  <2>1. block' = zeroed /\ Compress(zeroed) /\ block_len' = 0
    BY <1>8 DEF Mark, marked, zeroed
  <2>2. /\ state' \in Seq(Block) /\ Len(state') = Len(state) + 1
        /\ \A j \in 1..Len(state) : state'[j] = state[j]
        /\ state'[Len(state) + 1] = zeroed
    BY <1>2, <1>3, <2>1, Compressed
  <2>3. TypeOK'
    BY <1>1, <1>3, <2>1, <2>2 DEF TypeOK
  <2>4. PaddedBlocks(Len(data)) = Len(state) + 2
    BY <1>2, <1>8, LastBlocks DEF Overflows
  <2>5. \A j \in 1..Len(state'), o \in 1..64 : state'[j][o] = PaddedOctet(data, 64 * (j - 1) + o)
    <3>1. SUFFICES ASSUME NEW j \in 1..Len(state'), NEW o \in 1..64
                   PROVE  state'[j][o] = PaddedOctet(data, 64 * (j - 1) + o)
      OBVIOUS
    <3>2. CASE j \in 1..Len(state)
      <4>1. state'[j][o] = state[j][o]
        BY <2>2, <3>2
      <4> QED BY <1>7, <3>2, <4>1
    <3>3. CASE j = Len(state) + 1
      <4>1. state'[j][o] = zeroed[o] /\ 64 * (j - 1) + o = 64 * Len(state) + o
        BY <1>2, <2>2, <3>3
      <4>2. CASE o \in 1..(block_len + 1)
        BY <1>5, <1>6, <4>1, <4>2
      <4>3. CASE o \in (block_len + 2)..64
        <5>1. /\ 64 * Len(state) + o \in Nat \ {0} /\ 64 * Len(state) + o > Len(data) + 1
              /\ 64 * Len(state) + o <= 64 * PaddedBlocks(Len(data)) - 8
          BY <1>2, <2>4, <4>3
        <5>2. PaddedOctet(data, 64 * Len(state) + o) = 0
          BY <1>1, <5>1, PaddedOctets
        <5> QED BY <1>5, <4>1, <4>3, <5>2
      <4> QED BY <1>2, <4>2, <4>3
    <3> QED BY <1>2, <2>2, <3>2, <3>3
  <2>6. Len(data) < 64 * Len(state') + block_len' /\ Len(state') + 1 = PaddedBlocks(Len(data))
        /\ block_len' <= 56
    BY <1>2, <2>1, <2>2, <2>4
  <2>7. Marked'
    <3>1. (\A o \in 1..block_len : block[o] = PaddedOctet(data, 64 * Len(state) + o))'
      BY <2>1
    <3>2. total' = Len(data') /\ data' = data
      BY <1>1
    <3> QED BY <2>5, <2>6, <3>1, <3>2 DEF Marked
  <2> QED BY <1>1, <2>3, <2>7 DEF Inv, DigestRight
<1>9. CASE ~Overflows(block_len + 1)
  <2>1. block' = marked /\ block_len' = block_len + 1 /\ UNCHANGED state
    BY <1>9 DEF Mark, marked, zeroed
  <2>2. block_len' \in 0..63 /\ block_len' <= 56
    BY <1>2, <1>9, <2>1 DEF Overflows
  <2>3. TypeOK'
    BY <1>1, <1>3, <2>1, <2>2 DEF TypeOK
  <2>4. PaddedBlocks(Len(data)) = Len(state) + 1
    BY <1>2, <1>9, LastBlocks DEF Overflows
  <2>5. Len(data) < 64 * Len(state) + block_len'
    BY <1>2, <2>1
  <2>6. Marked'
    BY <1>1, <1>6, <1>7, <2>1, <2>2, <2>4, <2>5 DEF Marked
  <2> QED BY <1>1, <2>3, <2>6 DEF Inv, DigestRight
<1> QED BY <1>8, <1>9

LEMMA LengthStep ==
  ASSUME Inv, Length
  PROVE  Inv'
<1>1. /\ pc = "length" /\ TypeOK /\ Marked /\ data \in Seq(Octet) /\ Len(data) \in Nat
      /\ total = Len(data) /\ pc' = "done" /\ digest' = state'
      /\ UNCHANGED <<data, updates, len, total, block_len>>
  BY DataTyped DEF Inv, Length, Marked
<1>2. /\ Len(state) \in Nat /\ block_len \in 0..56 /\ Len(data) < 64 * Len(state) + block_len
      /\ PaddedBlocks(Len(data)) = Len(state) + 1 /\ state \in Seq(Block) /\ block \in Block
  <2>1. state \in Seq(Block) /\ block \in Block /\ block_len \in 0..63
    BY <1>1 DEF TypeOK
  <2>2. /\ Len(state) + 1 = PaddedBlocks(Len(data)) /\ block_len <= 56
        /\ Len(data) < 64 * Len(state) + block_len
    BY <1>1 DEF Marked
  <2>3. Len(state) \in Nat
    BY <2>1, LenProperties
  <2>4. block_len \in 0..56
    BY <2>1, <2>2
  <2> QED BY <2>1, <2>2, <2>3, <2>4
<1> DEFINE zeroed == Zeroed(block, block_len + 1, 56)
           last == [o \in 1..64 |-> IF o > 56 THEN LengthOctet(total, o - 57) ELSE zeroed[o]]
           expected == [o \in 1..64 |-> PaddedOctet(data, 64 * Len(state) + o)]
<1>3. block' = last /\ Compress(last)
  BY DEF Length
<1>4. ASSUME NEW o \in 1..64 PROVE last[o] = PaddedOctet(data, 64 * Len(state) + o)
  <2>1. 64 * Len(state) + o \in Nat \ {0}
    BY <1>2
  <2>2. CASE o \in 1..block_len
    <3>1. zeroed[o] = block[o] /\ last[o] = zeroed[o]
      <4>1. o \notin (block_len + 1)..56 /\ ~(o > 56)
        BY <1>2, <2>2
      <4> QED BY <4>1 DEF Zeroed
    <3>2. block[o] = PaddedOctet(data, 64 * Len(state) + o)
      BY <1>1, <2>2 DEF Marked
    <3> QED BY <3>1, <3>2
  <2>3. CASE o \in (block_len + 1)..56
    <3>1. zeroed[o] = 0 /\ last[o] = zeroed[o]
      BY <1>2, <2>3 DEF Zeroed
    <3>2. /\ 64 * Len(state) + o > Len(data) + 1
          /\ 64 * Len(state) + o <= 64 * PaddedBlocks(Len(data)) - 8
      BY <1>1, <1>2, <2>3
    <3>3. PaddedOctet(data, 64 * Len(state) + o) = 0
      BY <1>1, <2>1, <3>2, PaddedOctets
    <3> QED BY <3>1, <3>3
  <2>4. CASE o > 56
    <3>1. last[o] = LengthOctet(total, o - 57)
      BY <2>4
    <3>2. PaddedOctet(data, 64 * Len(state) + o) = LengthOctet(Len(data), o - 57)
      <4> DEFINE at == 64 * PaddedBlocks(Len(data)) - 8
                 x == 64 * Len(state) + o
      <4>1. x - at - 1 = o - 57 /\ x > Len(data) + 1 /\ x > at /\ x \in Nat \ {0}
        <5>1. at = 64 * Len(state) + 56
          BY <1>2
        <5> HIDE DEF at
        <5> QED BY <1>1, <1>2, <2>1, <2>4, <5>1
      <4>2. PaddedOctet(data, x) = LengthOctet(Len(data), x - at - 1)
        BY <1>1, <4>1, PaddedOctets
      <4> HIDE DEF at, x
      <4>3. PaddedOctet(data, x) = LengthOctet(Len(data), o - 57)
        BY <4>1, <4>2
      <4> QED BY <4>3 DEF x
    <3> QED BY <1>1, <3>1, <3>2
  <2> QED BY <1>2, <2>2, <2>3, <2>4
<1>5. last = expected
  BY <1>4
<1>6. last \in Block
  <2>1. \A o \in 1..64 : 64 * Len(state) + o \in 1..(64 * PaddedBlocks(Len(data)))
    BY <1>2
  <2>2. \A o \in 1..64 : PaddedOctet(data, 64 * Len(state) + o) \in Octet
    BY <1>1, <2>1, PaddedOctetTyped
  <2> QED BY <1>5, <2>2 DEF Block
<1> HIDE DEF last, zeroed
<1>7. /\ state' \in Seq(Block) /\ Len(state') = Len(state) + 1
      /\ \A j \in 1..Len(state) : state'[j] = state[j]
      /\ state'[Len(state) + 1] = last
  BY <1>2, <1>3, <1>6, Compressed
<1>8. TypeOK'
  BY <1>1, <1>3, <1>6, <1>7 DEF TypeOK
<1>9. ASSUME NEW j \in 1..Len(state')
      PROVE  state'[j] = [o \in 1..64 |-> PaddedOctet(data, 64 * (j - 1) + o)]
  <2>1. CASE j \in 1..Len(state)
    <3>1. state'[j] = state[j] /\ state[j] \in [1..64 -> Octet]
      BY <1>2, <1>7, <2>1, ElementOfSeq DEF Block
    <3>2. \A o \in 1..64 : state[j][o] = PaddedOctet(data, 64 * (j - 1) + o)
      BY <1>1, <2>1 DEF Marked
    <3> QED BY <3>1, <3>2
  <2>2. CASE j = Len(state) + 1
    <3>1. state'[j] = expected /\ j - 1 = Len(state)
      BY <1>2, <1>5, <1>7, <2>2
    <3> QED BY <3>1
  <2> QED BY <1>2, <1>7, <2>1, <2>2
<1>10. digest' = Padded(data')
  <2>1. Len(state') = PaddedBlocks(Len(data))
    BY <1>2, <1>7
  <2>2. state' = [j \in 1..Len(state') |-> state'[j]]
    BY <1>7, LenProperties
  <2>3. state' = [j \in 1..PaddedBlocks(Len(data)) |->
                    [o \in 1..64 |-> PaddedOctet(data, 64 * (j - 1) + o)]]
    BY <1>9, <2>1, <2>2
  <2> QED BY <1>1, <2>3 DEF Padded
<1> QED BY <1>1, <1>8, <1>10 DEF Inv, DigestRight

LEMMA PaddedTyped ==
  ASSUME NEW m \in Seq(Octet)
  PROVE  Padded(m) \in Seq(Block)
<1> DEFINE N == PaddedBlocks(Len(m))
<1>1. N \in Nat
  BY PaddedBlocksBounds, LenProperties
<1>2. \A j \in 1..N, o \in 1..64 : 64 * (j - 1) + o \in 1..(64 * N)
  BY <1>1
<1>3. \A j \in 1..N : [o \in 1..64 |-> PaddedOctet(m, 64 * (j - 1) + o)] \in Block
  BY <1>2, PaddedOctetTyped DEF Block
<1>4. Padded(m) \in [1..N -> Block]
  BY <1>3 DEF Padded
<1> HIDE DEF N
<1> QED BY <1>1, <1>4, SeqDef

LEMMA OneShotStep ==
  ASSUME Inv, OneShot
  PROVE  Inv'
<1>1. /\ pc = "start" /\ TypeOK /\ Reading /\ data \in Seq(Octet)
      /\ UNCHANGED <<data, updates, len, state, total, block, block_len>>
  BY DataTyped DEF Inv, OneShot
<1>2. CASE digest' = Padded(data) /\ pc' = "done"
  <2>1. TypeOK'
    BY <1>1, <1>2, PaddedTyped DEF TypeOK
  <2> QED BY <1>1, <1>2, <2>1 DEF Inv, DigestRight
<1>3. CASE pc' = "ready" /\ UNCHANGED digest
  <2>1. TypeOK'
    BY <1>1, <1>3 DEF TypeOK
  <2>2. Reading'
    BY <1>1, <1>3 DEF Reading
  <2> QED BY <1>1, <1>3, <2>1, <2>2 DEF Inv, DigestRight
<1> QED BY <1>2, <1>3 DEF OneShot

LEMMA Initially == Init => Inv
<1> SUFFICES ASSUME Init PROVE Inv
  OBVIOUS
<1>1. /\ data \in Messages /\ updates = 0 /\ len = 0 /\ state = <<>> /\ total = 0
      /\ block = [o \in 1..64 |-> Garbage] /\ block_len = 0 /\ digest = <<>> /\ pc = "start"
  BY DEF Init
<1>2. data \in Seq(Octet) /\ Garbage \in Octet /\ MaxUpdates \in Nat \ {0}
  BY <1>1, HashAssumption
<1>3. Len(data) \in Nat /\ Len(state) = 0
  BY <1>1, <1>2, LenProperties
<1>4. state \in Seq(Block) /\ digest \in Seq(Block)
  BY <1>1, EmptySeq
<1>5. block \in Block
  BY <1>1, <1>2 DEF Block
<1>6. updates \in 0..MaxUpdates /\ total \in 0..Len(data) /\ len \in 0..total /\ block_len \in 0..63
  BY <1>1, <1>2, <1>3
<1>7. TypeOK
  BY <1>1, <1>4, <1>5, <1>6 DEF TypeOK
<1>8. Reading
  BY <1>1, <1>3 DEF Reading
<1> QED BY <1>1, <1>7, <1>8 DEF Inv, DigestRight

LEMMA Stuttering ==
  ASSUME Inv, UNCHANGED vars
  PROVE  Inv'
BY DEF Inv, TypeOK, Reading, Marked, DigestRight, vars

THEOREM Invariance == Spec => []Inv
<1>1. Inv /\ [Next]_vars => Inv'
  BY OneShotStep, UpdateStep, WholeBlockStep, RemainderStep, MarkStep, LengthStep, Stuttering
     DEF Next
<1> QED BY Initially, <1>1, PTL DEF Spec

(***************************************************************************)
(* Theorems.                                                                *)
(***************************************************************************)

(* Between the calls of ngx_http_brotli_sha256_update the pending block is  *)
(* never full, and no copy leaves its 64 octets.                            *)
THEOREM TypeCorrect == Spec => []TypeOK
<1>1. Inv => TypeOK
  BY DEF Inv
<1> QED BY <1>1, Invariance, PTL

(* The digest of any message, in however many calls it came, is that of the *)
(* message padded as FIPS 180-4 says.                                       *)
THEOREM DigestOfThePaddedMessage == Spec => []DigestRight
<1>1. Inv => DigestRight
  BY DEF Inv
<1> QED BY <1>1, Invariance, PTL

(***************************************************************************)
(* The length.                                                              *)
(***************************************************************************)

(* A message whose length in bits has 64 bits, as a size_t of octets has    *)
(* for anything that is in memory.                                          *)
LengthsFit == \A m \in Messages : Bits(Len(m)) < 65536 * 65536 * 65536 * 65536

(* One octet more of a number.                                              *)
LEMMA Shifted ==
  ASSUME NEW b \in Nat
  PROVE  /\ b \div 256 \in Nat /\ b = (b \div 256) * 256 + (b % 256)
         /\ \A c \in Nat : b < 256 * c => b \div 256 < c
<1>1. b \div 256 \in Nat /\ b = (b \div 256) * 256 + (b % 256) /\ b % 256 \in 0..255
  OBVIOUS
<1>2. ASSUME NEW c \in Nat, b < 256 * c PROVE b \div 256 < c
  BY <1>1, <1>2
<1> QED BY <1>1, <1>2

(* Eight octets, the highest first, make up a number of 64 bits.            *)
LEMMA LengthOctets ==
  ASSUME NEW n \in Nat, Bits(n) < 65536 * 65536 * 65536 * 65536,
         NEW v, v[56] = 0,
         \A o \in 57..64 : v[o] = v[o - 1] * 256 + LengthOctet(n, o - 57)
  PROVE  v[64] = 8 * n
<1> DEFINE Shift(b) == b \div 256
           Low(b) == b % 256
<1>1. \A b \in Nat : Shift(b) \in Nat /\ b = Shift(b) * 256 + Low(b)
  BY Shifted
<1>2. \A b, c \in Nat : b < 256 * c => Shift(b) < c
  BY Shifted
<1>3. \A b \in Nat : b < 256 => Low(b) = b
  OBVIOUS
<1> DEFINE b0 == Bits(n)
           b1 == Shift(b0)
           b2 == Shift(b1)
           b3 == Shift(b2)
           b4 == Shift(b3)
           b5 == Shift(b4)
           b6 == Shift(b5)
           b7 == Shift(b6)
<1>4. \A x \in 0..7 : LengthOctet(n, x) = Low(<<b7, b6, b5, b4, b3, b2, b1, b0>>[x + 1])
  BY DEF LengthOctet
<1> HIDE DEF Shift, Low
<1>5. b0 \in Nat /\ b0 = 8 * n
  BY DEF Bits
<1>6. b1 \in Nat /\ b2 \in Nat /\ b3 \in Nat /\ b4 \in Nat /\ b5 \in Nat /\ b6 \in Nat /\ b7 \in Nat
  BY <1>1, <1>5
<1>7. /\ b0 = b1 * 256 + Low(b0) /\ b1 = b2 * 256 + Low(b1) /\ b2 = b3 * 256 + Low(b2)
      /\ b3 = b4 * 256 + Low(b3) /\ b4 = b5 * 256 + Low(b4) /\ b5 = b6 * 256 + Low(b5)
      /\ b6 = b7 * 256 + Low(b6)
  BY <1>1, <1>5, <1>6
<1>8. b7 < 256
  <2> HIDE DEF b0
  <2>1. b1 < 256 * 65536 * 65536 * 65536
    BY <1>2, <1>5 DEF b0
  <2> HIDE DEF b1
  <2>2. b2 < 65536 * 65536 * 65536
    BY <1>2, <1>6, <2>1
  <2> HIDE DEF b2
  <2>3. b3 < 256 * 65536 * 65536
    BY <1>2, <1>6, <2>2
  <2> HIDE DEF b3
  <2>4. b4 < 65536 * 65536
    BY <1>2, <1>6, <2>3
  <2> HIDE DEF b4
  <2>5. b5 < 256 * 65536
    BY <1>2, <1>6, <2>4
  <2> HIDE DEF b5
  <2>6. b6 < 65536
    BY <1>2, <1>6, <2>5
  <2> HIDE DEF b6
  <2> QED BY <1>2, <1>6, <2>6
<1>9. Low(b7) = b7
  BY <1>3, <1>6, <1>8
<1> HIDE DEF b0, b1, b2, b3, b4, b5, b6, b7
<1>10. /\ LengthOctet(n, 0) = Low(b7) /\ LengthOctet(n, 1) = Low(b6) /\ LengthOctet(n, 2) = Low(b5)
       /\ LengthOctet(n, 3) = Low(b4) /\ LengthOctet(n, 4) = Low(b3) /\ LengthOctet(n, 5) = Low(b2)
       /\ LengthOctet(n, 6) = Low(b1) /\ LengthOctet(n, 7) = Low(b0)
  BY <1>4
<1>11. /\ v[57] = v[56] * 256 + LengthOctet(n, 0) /\ v[58] = v[57] * 256 + LengthOctet(n, 1)
       /\ v[59] = v[58] * 256 + LengthOctet(n, 2) /\ v[60] = v[59] * 256 + LengthOctet(n, 3)
       /\ v[61] = v[60] * 256 + LengthOctet(n, 4) /\ v[62] = v[61] * 256 + LengthOctet(n, 5)
       /\ v[63] = v[62] * 256 + LengthOctet(n, 6) /\ v[64] = v[63] * 256 + LengthOctet(n, 7)
  OBVIOUS
<1>12. v[57] = b7
  BY <1>6, <1>9, <1>10, <1>11
<1>13. v[58] = b6
  BY <1>7, <1>10, <1>11, <1>12
<1>14. v[59] = b5
  BY <1>7, <1>10, <1>11, <1>13
<1>15. v[60] = b4
  BY <1>7, <1>10, <1>11, <1>14
<1>16. v[61] = b3
  BY <1>7, <1>10, <1>11, <1>15
<1>17. v[62] = b2
  BY <1>7, <1>10, <1>11, <1>16
<1>18. v[63] = b1
  BY <1>7, <1>10, <1>11, <1>17
<1>19. v[64] = b0
  BY <1>7, <1>10, <1>11, <1>18
<1> QED BY <1>5, <1>19

(* A number is read from its octets, one after the other.                   *)
BigEndian(last, v) == v = [o \in 56..64 |-> IF o = 56 THEN 0 ELSE v[o - 1] * 256 + last[o]]

LEMMA BigEndianReads ==
  ASSUME NEW last, \A o \in 57..64 : last[o] \in Octet
  PROVE  \E v : BigEndian(last, v)
<1> DEFINE step == [o \in 1..8 |-> [x \in Nat |-> x * 256 + last[o + 56]]]
<1>1. step \in [1..8 -> [Nat -> Nat]]
  <2>1. \A o \in 1..8 : o + 56 \in 57..64
    OBVIOUS
  <2>2. \A o \in 57..64 : last[o] \in Nat
    <3>1. \A x \in Octet : x \in Nat
      BY DEF Octet
    <3> QED BY <3>1
  <2>3. \A o \in 1..8 : last[o + 56] \in Nat
    BY <2>1, <2>2
  <2> QED BY <2>3
<1>2. PICK f \in [0..8 -> Nat] : FollowsUp(f, 8, 0, step)
  <2> HIDE DEF step
  <2> QED BY <1>1, UpwardRecursion
<1> DEFINE v == [o \in 56..64 |-> f[o - 56]]
<1>3. ASSUME NEW o \in 56..64 PROVE v[o] = IF o = 56 THEN 0 ELSE v[o - 1] * 256 + last[o]
  <2>1. CASE o = 56
    BY <1>2, <2>1 DEF FollowsUp
  <2>2. CASE o # 56
    <3>1. o - 56 \in 1..8 /\ (o - 56) - 1 = (o - 1) - 56 /\ (o - 56) + 56 = o /\ o - 1 \in 56..64
      BY <2>2
    <3>2. f[o - 56] = step[o - 56][f[(o - 56) - 1]]
      BY <1>2, <3>1 DEF FollowsUp
    <3>3. f[(o - 56) - 1] \in Nat
      BY <1>2, <3>1
    <3>4. f[o - 56] = f[(o - 1) - 56] * 256 + last[o]
      BY <3>1, <3>2, <3>3
    <3> QED BY <2>2, <3>1, <3>4
  <2> QED BY <2>1, <2>2
<1>4. BigEndian(last, v)
  BY <1>3 DEF BigEndian
<1> HIDE DEF v
<1> QED BY <1>4

LEMMA LastBlock ==
  ASSUME NEW m \in Seq(Octet)
  PROVE  \A o \in 57..64 : Padded(m)[Len(Padded(m))][o] = LengthOctet(Len(m), o - 57)
<1> DEFINE N == PaddedBlocks(Len(m))
<1>1. Len(m) \in Nat /\ N \in Nat \ {0} /\ Len(m) + 9 <= 64 * N
  BY PaddedBlocksBounds, LenProperties
<1>2. Padded(m) = [j \in 1..N |-> [o \in 1..64 |-> PaddedOctet(m, 64 * (j - 1) + o)]]
  BY DEF Padded
<1>3. \A o : PaddedOctet(m, o) =
               IF o <= Len(m) THEN m[o]
               ELSE IF o = Len(m) + 1 THEN 128
               ELSE IF o <= 64 * N - 8 THEN 0
               ELSE LengthOctet(Len(m), o - (64 * N - 8) - 1)
  BY DEF PaddedOctet
<1> HIDE DEF N
<1>4. Len(Padded(m)) = N
  BY <1>1, <1>2
<1>5. N \in 1..N
  BY <1>1
<1> SUFFICES ASSUME NEW o \in 57..64
             PROVE  Padded(m)[N][o] = LengthOctet(Len(m), o - 57)
  BY <1>4
<1>6. o \in 1..64
  OBVIOUS
<1> DEFINE at == 64 * (N - 1) + o
<1>7. Padded(m)[N][o] = PaddedOctet(m, at)
  BY <1>2, <1>5, <1>6
<1>8. /\ ~(at <= Len(m)) /\ at # Len(m) + 1 /\ ~(at <= 64 * N - 8)
      /\ at - (64 * N - 8) - 1 = o - 57
  BY <1>1
<1> HIDE DEF at
<1> QED BY <1>3, <1>7, <1>8

(* The digest's last eight octets are the length in bits, for messages of   *)
(* every length that a size_t counts in bits.                               *)
THEOREM LengthIsInBits == ASSUME LengthsFit PROVE Spec => []LengthInBits
<1>1. Inv => LengthInBits
  <2> SUFFICES ASSUME Inv, pc = "done" PROVE LengthInBits
    BY DEF LengthInBits
  <2> DEFINE last == digest[Len(digest)]
             value == CHOOSE v : BigEndian(last, v)
  <2>1. data \in Seq(Octet) /\ Len(data) \in Nat
    BY DataTyped DEF Inv
  <2>2. Bits(Len(data)) < 65536 * 65536 * 65536 * 65536
    BY DEF LengthsFit, Inv, TypeOK
  <2>3. digest = Padded(data)
    BY DEF Inv, DigestRight
  <2>4. \A o \in 57..64 : last[o] = LengthOctet(Len(data), o - 57)
    BY <2>1, <2>3, LastBlock
  <2> HIDE DEF last
  <2>5. \A o \in 57..64 : last[o] \in Octet
    <3>1. \A o \in 57..64 : o - 57 \in 0..7
      OBVIOUS
    <3> QED BY <2>1, <2>4, <3>1, LengthOctetTyped
  <2>6. BigEndian(last, value)
    BY <2>5, BigEndianReads
  <2>7. LengthInBits <=> value[64] = 8 * Len(data)
    BY DEF LengthInBits, BigEndian, last
  <2> HIDE DEF value
  <2>8. /\ value[56] = 0
        /\ \A o \in 57..64 : value[o] = value[o - 1] * 256 + LengthOctet(Len(data), o - 57)
    <3>1. \A o \in 56..64 : value[o] = IF o = 56 THEN 0 ELSE value[o - 1] * 256 + last[o]
      BY <2>6 DEF BigEndian
    <3> QED BY <2>4, <3>1
  <2>9. value[64] = 8 * Len(data)
    BY <2>1, <2>2, <2>8, LengthOctets
  <2> QED BY <2>7, <2>9
<1> QED BY <1>1, Invariance, PTL

(***************************************************************************)
(* Division.                                                                *)
(***************************************************************************)

(* Quotient and remainder of a natural number.                              *)
LEMMA DivMod ==
  ASSUME NEW a \in Nat, NEW b \in Nat \ {0}
  PROVE  /\ a = b * (a \div b) + (a % b)
         /\ a % b \in 0..(b - 1)
         /\ a \div b \in Nat
<1>1. a = b * (a \div b) + (a % b)
  OBVIOUS
<1>2. a % b \in 0..(b - 1)
  OBVIOUS
<1>3. a \div b \in Int
  OBVIOUS
<1>4. a \div b >= 0
  BY <1>1, <1>2, <1>3
<1> QED
  BY <1>1, <1>2, <1>3, <1>4

(* The quotient is the only number that leaves a remainder below b.         *)
LEMMA Quotient ==
  ASSUME NEW q \in Int, NEW x \in Nat, NEW b \in Nat \ {0}, NEW r \in 0..(b - 1),
         x = q * b + r
  PROVE  x \div b = q
  OBVIOUS

(* One more digit q of n * s / b.                                           *)
LEMMA NextDigit ==
  ASSUME NEW n \in Nat, NEW s \in Nat, NEW f \in Nat, NEW b \in Nat, NEW rem \in Nat,
         NEW q \in Nat, NEW rest \in Nat, n * s = f * b + rem, rem * 10 = b * q + rest
  PROVE  n * (s * 10) = (f * 10 + q) * b + rest
  OBVIOUS

(* That digit is one: it is below ten.                                      *)
LEMMA DigitBelowTen ==
  ASSUME NEW rem \in Nat, NEW b \in Nat \ {0}, NEW q \in Nat, NEW rest \in Nat,
         rem < b, rem * 10 = b * q + rest
  PROVE  q < 10
  OBVIOUS

(***************************************************************************)
(* The invariant.                                                           *)
(***************************************************************************)
Places == IF i = 0 THEN 1 ELSE IF i = 1 THEN 10 ELSE IF i = 2 THEN 100 ELSE 1000

(* After i digits: bytes_in, shifted by i places, is divided but for remainder. *)
Divided ==
  /\ bytes_in * Places = (ratio_int * Places + frac) * bytes_out + remainder
  /\ remainder < bytes_out
  /\ frac < Places

(* After k additions: acc is (k + 1) * remainder but for digit bytes_outs.  *)
Peeled ==
  stage = "peel" =>
    /\ i < 3
    /\ acc + digit * bytes_out = remainder * (k + 1)
    /\ acc < bytes_out
    /\ digit <= k

RatioInv == RatioTypeOK /\ (stage # "printed" => Divided) /\ Peeled /\ PrintedHalfUp

(* The invariant holds before the first digit, ...                          *)
LEMMA RatioInvInit == RatioInit => RatioInv
<1> SUFFICES ASSUME RatioInit
             PROVE  RatioInv
  OBVIOUS
<1>1. bytes_in \in Nat /\ bytes_out \in Nat \ {0} /\ bytes_out < Word /\ bytes_in < Word
  BY RatioAssumption DEF RatioInit
<1>2. /\ bytes_in = bytes_out * ratio_int + remainder
      /\ remainder \in 0..(bytes_out - 1)
      /\ ratio_int \in Nat
  BY <1>1, DivMod DEF RatioInit
<1>3. RatioTypeOK
  BY <1>1, <1>2, RatioAssumption DEF RatioInit, RatioTypeOK
<1>4. Divided
  BY <1>1, <1>2 DEF RatioInit, Divided, Places
<1> QED
  BY <1>3, <1>4 DEF RatioInit, RatioInv, Peeled, PrintedHalfUp

(* A digit, however found, keeps the division exact.                        *)
LEMMA DigitKeeps ==
  ASSUME RatioTypeOK, Divided, i < 3, NEW q \in Nat, NEW rest \in Nat,
         remainder * 10 = bytes_out * q + rest, rest < bytes_out,
         frac' = frac * 10 + q, remainder' = rest, i' = i + 1,
         UNCHANGED <<bytes_in, bytes_out, ratio_int>>
  PROVE  Divided' /\ frac' \in Nat /\ remainder' \in 0..(bytes_out - 1) /\ i' \in 0..3
<1>1. /\ bytes_in \in Nat /\ bytes_out \in Nat \ {0} /\ ratio_int \in Nat /\ frac \in Nat
      /\ remainder \in Nat /\ bytes_out < Word /\ i \in 0..2
  BY RatioAssumption DEF RatioTypeOK
<1>2. Places \in Nat /\ Places' = Places * 10
  BY <1>1 DEF Places
<1>3. q < 10
  BY <1>1, DigitBelowTen DEF Divided
<1>4. ratio_int * Places + frac \in Nat
  BY <1>1, <1>2
<1>5. bytes_in * (Places * 10) = ((ratio_int * Places + frac) * 10 + q) * bytes_out + rest
  BY <1>1, <1>2, <1>4, NextDigit DEF Divided
<1>6. (ratio_int * Places + frac) * 10 + q = ratio_int * (Places * 10) + (frac * 10 + q)
  BY <1>1, <1>2
<1>7. frac * 10 + q < Places * 10
  BY <1>1, <1>2, <1>3 DEF Divided
<1>8. Divided'
  BY <1>1, <1>2, <1>5, <1>6, <1>7 DEF Divided
<1> QED
  BY <1>1, <1>8, RatioAssumption

(* The remainder times ten, where it fits the word, is not reduced by it.   *)
LEMMA TenfoldExact ==
  ASSUME RatioTypeOK, TenfoldFits
  PROVE  (remainder * 10) % Word = remainder * 10
<1>1. remainder \in Nat /\ Word \in Nat \ {0}
  BY RatioAssumption DEF RatioTypeOK
<1>2. Word - 1 \in Nat
  BY <1>1
<1> DEFINE t == (Word - 1) \div 10
<1>3. Word - 1 = 10 * t + ((Word - 1) % 10) /\ (Word - 1) % 10 \in 0..9 /\ t \in Nat
  BY <1>1, <1>2
<1>4. remainder * 10 < Word
  BY <1>1, <1>3 DEF TenfoldFits
<1> QED
  BY <1>1, <1>4

(* One peel: the sum, wrapped or not, is recognised and reduced.            *)
LEMMA PeelKeeps ==
  RatioInv /\ Peel => Peeled' /\ acc' \in 0..(Word - 1) /\ digit' \in 0..9
<1> SUFFICES ASSUME RatioInv, Peel
             PROVE  Peeled' /\ acc' \in 0..(Word - 1) /\ digit' \in 0..9
  OBVIOUS
<1> DEFINE sum == (acc + remainder) % Word
<1>1. /\ bytes_out \in Nat \ {0} /\ bytes_out < Word /\ remainder \in Nat /\ acc \in Nat
      /\ digit \in Nat /\ k \in 0..8 /\ Word \in Nat \ {0}
  BY RatioAssumption DEF RatioInv, RatioTypeOK, Peel
<1>2. /\ acc + digit * bytes_out = remainder * (k + 1)
      /\ acc < bytes_out /\ digit <= k /\ remainder < bytes_out /\ i < 3
  BY DEF RatioInv, Peeled, Divided, Peel
<1>3. sum = IF acc + remainder < Word THEN acc + remainder ELSE acc + remainder - Word
  BY <1>1, <1>2
<1>4. Reaches(sum) <=> acc + remainder >= bytes_out
  BY <1>1, <1>2, <1>3 DEF Reaches
<1>5. UNCHANGED <<bytes_in, bytes_out, ratio_int, frac, remainder, i>> /\ k' = k + 1
  BY DEF Peel, counters
<1>6. CASE Reaches(sum)
  <2>1. acc' = (sum - bytes_out) % Word /\ digit' = digit + 1
    BY <1>6 DEF Peel
  <2>2. acc' = acc + remainder - bytes_out
    BY <1>1, <1>2, <1>3, <1>4, <1>6, <2>1
  <2>3. digit' * bytes_out = digit * bytes_out + bytes_out
    BY <1>1, <2>1
  <2>4. remainder * (k' + 1) = remainder * (k + 1) + remainder
    BY <1>1, <1>5
  <2>5. acc' + digit' * bytes_out' = remainder' * (k' + 1)
    BY <1>1, <1>2, <1>5, <2>2, <2>3, <2>4
  <2> QED
    BY <1>1, <1>2, <1>4, <1>5, <1>6, <2>1, <2>2, <2>5 DEF Peeled
<1>7. CASE ~Reaches(sum)
  <2>1. acc' = acc + remainder /\ digit' = digit
    BY <1>1, <1>2, <1>3, <1>4, <1>7 DEF Peel
  <2>2. remainder * (k' + 1) = remainder * (k + 1) + remainder
    BY <1>1, <1>5
  <2>3. acc' + digit' * bytes_out' = remainder' * (k' + 1)
    BY <1>1, <1>2, <1>5, <2>1, <2>2
  <2> QED
    BY <1>1, <1>2, <1>4, <1>5, <1>7, <2>1, <2>3 DEF Peeled
<1> QED
  BY <1>6, <1>7

(* ... and every step keeps it.                                             *)
LEMMA RatioInvStep == RatioInv /\ [RatioNext]_ratio_vars => RatioInv'
<1> SUFFICES ASSUME RatioInv, [RatioNext]_ratio_vars
             PROVE  RatioInv'
  OBVIOUS
<1>0. /\ bytes_in \in Nat /\ bytes_out \in Nat \ {0} /\ bytes_out < Word
      /\ ratio_int \in Nat /\ frac \in Nat /\ remainder \in Nat /\ RatioTypeOK
  BY RatioAssumption DEF RatioInv, RatioTypeOK
<1>1. CASE Scale
  <2> DEFINE t == (remainder * 10) % Word
  <2>1. t = remainder * 10 /\ t \in Nat
    BY <1>0, <1>1, TenfoldExact DEF Scale
  <2>2. t = bytes_out * (t \div bytes_out) + (t % bytes_out)
        /\ t % bytes_out \in 0..(bytes_out - 1) /\ t \div bytes_out \in Nat
    BY <1>0, <2>1, DivMod
  <2>3. /\ frac' = frac * 10 + t \div bytes_out /\ remainder' = t % bytes_out
        /\ i' = i + 1 /\ i < 3 /\ stage = "digit"
        /\ UNCHANGED <<bytes_in, bytes_out, ratio_int, acc, digit, k, stage>>
    BY <1>1 DEF Scale, counters
  <2>4. Divided
    BY <2>3 DEF RatioInv
  <2>5. Divided' /\ frac' \in Nat /\ remainder' \in 0..(bytes_out - 1) /\ i' \in 0..3
    <3> HIDE DEF t
    <3>1. t % bytes_out \in Nat /\ t % bytes_out < bytes_out
      BY <1>0, <2>2
    <3>2. remainder * 10 = bytes_out * (t \div bytes_out) + (t % bytes_out)
      BY <2>1, <2>2
    <3> QED
      BY <1>0, <2>2, <2>3, <2>4, <3>1, <3>2, DigitKeeps
  <2> QED
    BY <1>0, <2>3, <2>5 DEF RatioInv, RatioTypeOK, Peeled, PrintedHalfUp
<1>2. CASE BeginPeel
  <2>1. /\ acc' = remainder /\ digit' = 0 /\ k' = 0 /\ stage' = "peel" /\ i < 3 /\ stage = "digit"
        /\ UNCHANGED <<bytes_in, bytes_out, ratio_int, frac, remainder, i>>
    BY <1>2 DEF BeginPeel, counters
  <2>2. Divided
    BY <2>1 DEF RatioInv
  <2>3. Divided'
    BY <2>1, <2>2 DEF Divided, Places
  <2>4. RatioTypeOK'
    <3>1. remainder \in 0..(Word - 1)
      BY <1>0, RatioAssumption DEF RatioTypeOK
    <3> QED
      BY <1>0, <2>1, <3>1 DEF RatioTypeOK
  <2>5. Peeled'
    BY <1>0, <2>1, <2>2 DEF Peeled, Divided
  <2> QED
    BY <2>1, <2>3, <2>4, <2>5 DEF RatioInv, PrintedHalfUp
<1>3. CASE Peel
  <2>1. Peeled' /\ acc' \in 0..(Word - 1) /\ digit' \in 0..9
    BY <1>3, PeelKeeps
  <2>2. /\ UNCHANGED <<bytes_in, bytes_out, ratio_int, frac, remainder, i, stage>>
        /\ k' = k + 1 /\ k < 9 /\ stage = "peel"
    BY <1>3 DEF Peel, counters
  <2>3. Divided'
    BY <2>2 DEF RatioInv, Divided, Places
  <2>4. RatioTypeOK'
    BY <1>0, <2>1, <2>2 DEF RatioTypeOK
  <2> QED
    BY <2>1, <2>2, <2>3, <2>4 DEF RatioInv, PrintedHalfUp
<1>4. CASE EndPeel
  <2>1. /\ frac' = frac * 10 + digit /\ remainder' = acc /\ i' = i + 1 /\ stage' = "digit"
        /\ k = 9 /\ stage = "peel" /\ UNCHANGED <<bytes_in, bytes_out, ratio_int, acc, digit, k>>
    BY <1>4 DEF EndPeel, counters
  <2>2. /\ acc + digit * bytes_out = remainder * (k + 1) /\ acc < bytes_out /\ i < 3
        /\ Divided /\ digit \in Nat /\ acc \in Nat
    BY <1>0, <2>1, RatioAssumption DEF RatioInv, Peeled, RatioTypeOK
  <2>3. remainder * 10 = bytes_out * digit + acc
    BY <1>0, <2>1, <2>2
  <2>4. Divided' /\ frac' \in Nat /\ remainder' \in 0..(bytes_out - 1) /\ i' \in 0..3
    BY <1>0, <2>1, <2>2, <2>3, DigitKeeps
  <2> QED
    BY <1>0, <2>1, <2>4 DEF RatioInv, RatioTypeOK, Peeled, PrintedHalfUp
<1>5. CASE Round
  <2> DEFINE h == IF RoundsUp THEN frac \div 10 + 1 ELSE frac \div 10
  <2>1. /\ stage = "digit" /\ i = 3 /\ stage' = "printed"
        /\ UNCHANGED <<bytes_in, bytes_out, remainder, i, acc, digit, k>>
        /\ IF h > 99 THEN ratio_int' = ratio_int + 1 /\ frac' = 0
                     ELSE ratio_int' = ratio_int /\ frac' = h
    BY <1>5 DEF Round, counters
  <2>2. /\ bytes_in * 1000 = (ratio_int * 1000 + frac) * bytes_out + remainder
        /\ remainder < bytes_out /\ frac \in 0..999
    BY <1>0, <2>1 DEF RatioInv, Divided, Places
  <2>3. h = (frac + 5) \div 10 /\ h \in 0..100
    BY <2>2 DEF RoundsUp
  <2>4. /\ frac' \in 0..99 /\ ratio_int' \in Nat
        /\ ratio_int' * 100 + frac' = ratio_int * 100 + (frac + 5) \div 10
    <3> HIDE DEF h
    <3>1. CASE h > 99
      <4>1. ratio_int' = ratio_int + 1 /\ frac' = 0 /\ h = 100
        BY <2>1, <2>3, <3>1
      <4> QED
        BY <1>0, <2>3, <4>1
    <3>2. CASE ~(h > 99)
      <4>1. ratio_int' = ratio_int /\ frac' = h /\ h \in 0..99
        BY <2>1, <2>3, <3>2
      <4> QED
        BY <1>0, <2>3, <4>1
    <3> QED
      BY <3>1, <3>2
  <2>5. (bytes_in * 1000) \div bytes_out = ratio_int * 1000 + frac
    <3> DEFINE q == ratio_int * 1000 + frac
               x == bytes_in * 1000
    <3>1. q \in Int /\ x \in Nat /\ x = q * bytes_out + remainder
      BY <1>0, <2>2
    <3>2. remainder \in 0..(bytes_out - 1)
      BY <1>0, <2>2
    <3> HIDE DEF q, x
    <3>3. x \div bytes_out = q
      BY <1>0, <3>1, <3>2, Quotient
    <3> QED
      BY <3>3 DEF q, x
  <2>6. (ratio_int * 1000 + frac + 5) \div 10 = ratio_int * 100 + (frac + 5) \div 10
    BY <1>0
  <2>7. PrintedHalfUp'
    <3> DEFINE x == (bytes_in * 1000) \div bytes_out
    <3>1. x' = x
      BY <2>1
    <3>2. x = ratio_int * 1000 + frac
      BY <2>5
    <3> HIDE DEF x
    <3>3. ratio_int' * 100 + frac' = (x' + 5) \div 10
      BY <2>4, <2>6, <3>1, <3>2
    <3> QED
      BY <2>4, <3>3 DEF PrintedHalfUp, x
  <2>8. RatioTypeOK'
    BY <1>0, <2>1, <2>4 DEF RatioTypeOK
  <2> QED
    BY <2>1, <2>7, <2>8 DEF RatioInv, Peeled
<1>6. CASE UNCHANGED ratio_vars
  <2>1. UNCHANGED <<bytes_in, bytes_out, ratio_int, frac, remainder, i, acc, digit, k, stage>>
    BY <1>6 DEF ratio_vars, counters
  <2>2. RatioTypeOK' /\ (stage' # "printed" => Divided') /\ Peeled'
    BY <2>1 DEF RatioInv, RatioTypeOK, Divided, Places, Peeled
  <2>3. PrintedHalfUp'
    <3> DEFINE x == (bytes_in * 1000) \div bytes_out
    <3>1. x' = x
      BY <2>1
    <3>2. stage = "printed" => frac \in 0..99 /\ ratio_int * 100 + frac = (x + 5) \div 10
      BY DEF RatioInv, PrintedHalfUp
    <3> HIDE DEF x
    <3>3. stage' = "printed" => frac' \in 0..99 /\ ratio_int' * 100 + frac' = (x' + 5) \div 10
      BY <2>1, <3>1, <3>2
    <3> QED
      BY <3>3 DEF PrintedHalfUp, x
  <2> QED
    BY <2>2, <2>3 DEF RatioInv
<1> QED
  BY <1>1, <1>2, <1>3, <1>4, <1>5, <1>6 DEF RatioNext

(* The division invariant holds throughout, for every word.                 *)
THEOREM RatioInvariance == RatioSpec => []RatioInv
BY RatioInvInit, RatioInvStep, PTL DEF RatioSpec

(* No variable leaves its range: no sum, product or digit outgrows its type. *)
THEOREM RatioTypeCorrect == RatioSpec => []RatioTypeOK
<1>1. RatioInv => RatioTypeOK
  BY DEF RatioInv
<1> QED
  BY RatioInvariance, <1>1, PTL

(* The three digits are those of the exact quotient, for every pair.        *)
THEOREM RatioExact == RatioSpec => []DigitsExact
<1>1. RatioInv => DigitsExact
  <2> SUFFICES ASSUME RatioInv, stage = "digit", i = 3
               PROVE  ratio_int * 1000 + frac = (bytes_in * 1000) \div bytes_out
    BY DEF DigitsExact
  <2>1. /\ bytes_in \in Nat /\ bytes_out \in Nat \ {0} /\ ratio_int \in Nat /\ frac \in Nat
        /\ remainder \in Nat
    BY RatioAssumption DEF RatioInv, RatioTypeOK
  <2>2. /\ bytes_in * 1000 = (ratio_int * 1000 + frac) * bytes_out + remainder
        /\ remainder \in 0..(bytes_out - 1)
    BY <2>1 DEF RatioInv, Divided, Places
  <2>3. ratio_int * 1000 + frac \in Int /\ bytes_in * 1000 \in Nat
    BY <2>1
  <2> QED
    BY <2>1, <2>2, <2>3, Quotient
<1> QED
  BY RatioInvariance, <1>1, PTL

(* What is printed is that quotient, rounded half up.                       *)
THEOREM RatioRounded == RatioSpec => []PrintedHalfUp
<1>1. RatioInv => PrintedHalfUp
  BY DEF RatioInv
<1> QED
  BY RatioInvariance, <1>1, PTL
=============================================================================
