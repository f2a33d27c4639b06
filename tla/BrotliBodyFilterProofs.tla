------------------------ MODULE BrotliBodyFilterProofs ------------------------
(***************************************************************************)
(* Theorems about BrotliBodyFilter, for every bound, every set of           *)
(* max_length values and every header length.                               *)
(***************************************************************************)
EXTENDS BrotliBodyFilter, SequenceTheorems, TLAPS

(***************************************************************************)
(* The inductive invariant, in parts.                                       *)
(***************************************************************************)

(* When the encoder and out_buf exist, and what a point of the call implies. *)
LifeCycle ==
  /\ success => closed
  /\ closed => initialized
  /\ closed /\ ~success => rc = "ERROR"
  /\ rc = "ERROR" => pc = "idle"
  /\ pc # "entry" => arg = <<>>
  /\ pc = "loop" => initialized /\ ~closed /\ ~MustFrame
  /\ initialized /\ ~closed => out_buf # NoBuf
  /\ ~initialized \/ closed => enc = NoEncoder /\ out_buf = NoBuf
  /\ header_only => ~initialized
  /\ client.raw => header_only \/ success

(* Nothing has happened before the encoder is created; a dcb response has   *)
(* not been fed before its header is out.                                   *)
Fresh ==
  /\ ~initialized => ~dcb_header_sent /\ client.headers = 0
  /\ ~initialized \/ (MustFrame /\ ~closed) =>
       /\ in = <<>> /\ bytes_in = 0 /\ client.bytes = 0
       /\ ~output_ready /\ ~output_busy
       /\ ~initialized => bytes_out = 0 /\ ~client.eof /\ ~end_of_input
  /\ dcb_header_sent => dcb_dict
  /\ client.headers = IF dcb_header_sent THEN 1 ELSE 0
  /\ MustFrame => client.bytes = 0 /\ bytes_in = 0 /\ ~output_ready /\ ~output_busy

(* out_buf holds the next bytes of the stream, and all that was taken.      *)
Outlet ==
  /\ ~(output_ready /\ output_busy)
  /\ pc # "loop" /\ ~closed => ~output_ready
  /\ output_busy /\ closed => rc = "ERROR"
  /\ initialized /\ ~closed =>
       /\ out_buf.pos = client.bytes
       /\ out_buf.last = enc.taken
       /\ bytes_out = HeaderBytes + enc.taken
       /\ ~Unconsumed => Size(out_buf) = 0

Cap == max_length # Unset /\ bytes_in > max_length => rc = "ERROR"

Safe == TypeOK /\ LifeCycle /\ Fresh /\ Outlet /\ Cap /\ WakeupGuaranteed

(* What the caller handed over and the encoder has not seen continues the   *)
(* body where the encoder stands, and ends where the caller stands.         *)
Joined(s, from, to) ==
  /\ from <= to /\ \A i \in 1..Len(s) : s[i].last <= to
  /\ s = <<>> => from = to
  /\ s # <<>> => s[1].pos = from /\ s[Len(s)].last = to
  /\ \A i \in 1..(Len(s) - 1) : s[i].last = s[i + 1].pos

EndsAtMost(s) == \A i \in 1..Len(s) : s[i].last_buf => i = Len(s)

Ends(s) == s # <<>> /\ s[Len(s)].last_buf

Queue == in \o arg

Inlet ==
  ~closed /\ ~header_only =>
    /\ Joined(Queue, bytes_in, fed.bytes)
    /\ EndsAtMost(Queue)
    /\ fed.last <=> end_of_input \/ Ends(Queue)
    /\ end_of_input => Queue = <<>>

(* The end of the stream is in the encoder, then in out_buf, then announced. *)
Ending ==
  /\ ~closed =>
       /\ enc.finished => end_of_input /\ enc.held = 0 /\ enc.pend + enc.taken > 0
       /\ out_buf.last_buf => IsFinished(enc)
       /\ client.eof => out_buf.last_buf
       /\ IsFinished(enc) => out_buf.last_buf /\ (output_ready \/ client.eof)
  /\ success =>
       /\ client.eof /\ fed.last /\ bytes_in = fed.bytes
       /\ bytes_out = HeaderBytes + client.bytes /\ client.bytes > 0
       /\ arg = <<>>
  /\ client.raw => header_only

Whole == Safe /\ Inlet /\ Ending

(***************************************************************************)
(* Types.                                                                   *)
(***************************************************************************)

(* The chains the caller builds are chains of buffers.                      *)
LEMMA ChainType ==
  ASSUME NEW n \in Nat \ {0}, NEW from \in Nat, NEW cut \in Cuts(n, from),
         NEW flush \in [1..n -> BOOLEAN], NEW end \in BOOLEAN
  PROVE  /\ Chain(n, cut, flush, end) \in Seq(Bufs)
         /\ cut[n + 1] \in Nat
<1>1. /\ cut \in [1..(n + 1) -> Nat]
      /\ \A i, j \in 1..(n + 1) : i <= j => cut[i] <= cut[j]
  BY BodyAssumption DEF Cuts
<1>2. ASSUME NEW i \in 1..n
      PROVE  [pos |-> cut[i], last |-> cut[i + 1], last_buf |-> end /\ i = n,
              flush |-> flush[i]] \in Bufs
  <2>1. cut[i] \in Nat /\ cut[i + 1] \in Nat /\ cut[i] <= cut[i + 1]
    BY <1>1
  <2>2. flush[i] \in BOOLEAN /\ (end /\ i = n) \in BOOLEAN
    OBVIOUS
  <2> QED
    BY <2>1, <2>2 DEF Bufs
<1>3. Chain(n, cut, flush, end) \in [1..n -> Bufs]
  BY <1>2 DEF Chain
<1> QED
  BY <1>1, <1>3, SeqDef

(* Advancing inside a buffer gives a buffer.                                *)
LEMMA AdvanceType ==
  ASSUME NEW b \in Bufs \cup {NoBuf}, NEW k \in 0..Size(b)
  PROVE  /\ Advance(b, k) \in Bufs \cup {NoBuf}
         /\ b # NoBuf => Advance(b, k) \in Bufs /\ Advance(b, k) # NoBuf
         /\ Advance(b, k).pos = b.pos + k
         /\ Advance(b, k).last = b.last
         /\ Advance(b, k).last_buf = b.last_buf
         /\ Size(Advance(b, k)) = Size(b) - k
<1>1. CASE b = NoBuf
  <2>1. k = 0
    BY <1>1 DEF NoBuf, Size
  <2> QED
    BY <1>1, <2>1 DEF NoBuf, Advance, Size
<1>2. CASE b # NoBuf
  <2>1. /\ b \in [pos : Nat, last : Nat, last_buf : BOOLEAN, flush : BOOLEAN]
        /\ b.pos <= b.last
    BY <1>2 DEF Bufs
  <2>2. /\ Advance(b, k) \in [pos : Nat, last : Nat, last_buf : BOOLEAN, flush : BOOLEAN]
        /\ Advance(b, k).pos = b.pos + k
        /\ Advance(b, k).last = b.last
        /\ Advance(b, k).last_buf = b.last_buf
        /\ b.pos + k <= b.last
    BY <2>1 DEF Advance, Size
  <2>3. Advance(b, k) \in Bufs
    BY <2>2 DEF Bufs
  <2>4. Advance(b, k) # NoBuf
    BY <2>1, <2>2 DEF NoBuf
  <2> QED
    BY <1>2, <2>1, <2>2, <2>3, <2>4 DEF Size
<1> QED
  BY <1>1, <1>2

(* A call of the encoder that its contract allows keeps it an encoder, and  *)
(* a live one.                                                              *)
LEMMA CompressedType ==
  ASSUME NEW e \in Encoders, NEW op \in Operations, NEW n \in Nat, NEW k \in 0..n,
         NEW u \in 0..(e.held + k), NEW p \in 0..MaxChunk, NEW performed \in BOOLEAN
  PROVE  /\ Compressed(e, op, k, u, p, performed) \in Encoders
         /\ Compressed(e, op, k, u, p, performed).taken = e.taken
<1>1. e.held + k - u \in Nat /\ e.pend + p \in Nat
  BY MaxChunkAssumption DEF Encoders
<1>2. (e.finished \/ (performed /\ op = "FINISH")) \in BOOLEAN
  BY DEF Encoders
<1> QED
  BY <1>1, <1>2 DEF Compressed, Encoders

(* What taking output changes in the encoder.                                *)
LEMMA TakenType ==
  ASSUME NEW e \in Encoders, NEW a \in 1..e.pend
  PROVE  /\ Taken(e, a) \in Encoders
         /\ Taken(e, a).taken = e.taken + a
         /\ Taken(e, a).held = e.held
         /\ Taken(e, a).pend = e.pend - a
         /\ Taken(e, a).finished = e.finished
<1>1. e.pend - a \in Nat /\ e.taken + a \in Nat
  BY DEF Encoders
<1> QED
  BY <1>1 DEF Taken, Encoders

(* The encoder before creation, and a new one.                               *)
LEMMA NoEncoderType == NoEncoder \in Encoders /\ NewEncoder \in Encoders
BY DEF NoEncoder, NewEncoder, Encoders

(* Moving the head of the chain forward, and dropping it, leaves a chain.   *)
LEMMA ChainShrinks ==
  ASSUME NEW s \in Seq(Bufs), s # <<>>, NEW k \in 0..Size(Head(s))
  PROVE  /\ Head(s) \in Bufs
         /\ Tail(s) \in Seq(Bufs)
         /\ [s EXCEPT ![1] = Advance(Head(s), k)] \in Seq(Bufs)
<1>1. Head(s) \in Bufs /\ Tail(s) \in Seq(Bufs)
  BY HeadTailProperties
<1>2. Head(s) # NoBuf
  BY <1>1 DEF Bufs, NoBuf
<1>3. Advance(Head(s), k) \in Bufs
  BY <1>1, <1>2, AdvanceType
<1>4. 1 \in 1..Len(s)
  BY EmptySeq
<1>5. [s EXCEPT ![1] = Advance(Head(s), k)] \in Seq(Bufs)
  BY <1>3, <1>4, ExceptSeq
<1> QED
  BY <1>1, <1>5

(* The exit of every error path.                                            *)
LEMMA FailType ==
  ASSUME TypeOK, CloseAndFail, UNCHANGED client, buffered' \subseteq {"brotli", "downstream"}
  PROVE  TypeOK'
<1>1. /\ pc' = "idle" /\ rc' = "ERROR" /\ arg' = <<>> /\ closed' = TRUE
      /\ enc' = NoEncoder /\ out_chain' = FALSE /\ out_buf' = NoBuf
  BY DEF CloseAndFail, Close, Return
<1>2. UNCHANGED <<dcb_dict, max_length, header_only, initialized, success, in, end_of_input,
                  end_of_block, bytes_in, output_ready, output_busy, bytes_out,
                  dcb_header_sent, fed, client>>
  BY DEF CloseAndFail, config, input
<1> QED
  BY <1>1, <1>2, NoEncoderType, EmptySeq DEF TypeOK

(* Every variable keeps its type: TypeOK is inductive by itself.            *)
LEMMA TypeStep == TypeOK /\ [Next]_vars => TypeOK'
<1> SUFFICES ASSUME TypeOK, [Next]_vars
             PROVE  TypeOK'
  OBVIOUS
<1> USE DEF config, input, output
<1>1. CASE Feed
  <2>1. PICK n \in 1..MaxLinks, end \in BOOLEAN :
          \E cut \in Cuts(n, fed.bytes), flush \in [1..n -> BOOLEAN] :
            /\ CallWith(Chain(n, cut, flush, end))
            /\ fed' = [bytes |-> cut[n + 1], calls |-> fed.calls + 1, last |-> end]
    BY <1>1 DEF Feed
  <2>2. PICK cut \in Cuts(n, fed.bytes), flush \in [1..n -> BOOLEAN] :
          /\ CallWith(Chain(n, cut, flush, end))
          /\ fed' = [bytes |-> cut[n + 1], calls |-> fed.calls + 1, last |-> end]
    BY <2>1
  <2>3. n \in Nat \ {0} /\ fed.bytes \in Nat /\ fed.calls \in Nat
    BY BodyAssumption DEF TypeOK
  <2>4. Chain(n, cut, flush, end) \in Seq(Bufs) /\ cut[n + 1] \in Nat
    BY <2>3, ChainType
  <2>5. arg' \in Seq(Bufs) /\ fed' \in [bytes : Nat, calls : Nat, last : BOOLEAN]
    BY <2>2, <2>3, <2>4 DEF CallWith
  <2> QED
    BY <2>2, <2>5 DEF CallWith, TypeOK
<1>2. CASE Writer
  BY <1>2, EmptySeq DEF Writer, CallWith, TypeOK
<1>3. CASE Drain
  BY <1>3, AdvanceType DEF Drain, TypeOK
<1>4. CASE PassThrough
  BY <1>4, EmptySeq DEF PassThrough, Return, Downstream, TypeOK
<1>5. CASE EnsureStreamInitialized
  BY <1>5, NoEncoderType DEF EnsureStreamInitialized, Bufs, TypeOK
<1>6. CASE InitializationFails
  BY <1>6, NoEncoderType, EmptySeq DEF InitializationFails, Close, Return, TypeOK
<1>7. CASE EmitDcbHeader
  <2>1. /\ bytes_out' \in Nat
        /\ client' \in [headers : Nat, bytes : Nat, raw : BOOLEAN, eof : BOOLEAN]
    <3>1. client.headers + 1 \in Nat /\ bytes_out + HeaderLen \in Nat
      BY BodyAssumption DEF TypeOK
    <3> QED
      BY <1>7, <3>1 DEF EmitDcbHeader, TypeOK
  <2>2. buffered' \subseteq {"brotli", "downstream"}
    BY <1>7 DEF EmitDcbHeader, Downstream, TypeOK
  <2> QED
    BY <1>7, <2>1, <2>2 DEF EmitDcbHeader, TypeOK
<1>8. CASE DcbHeaderFails
  BY <1>8, FailType DEF DcbHeaderFails, TypeOK
<1>9. CASE AppendInput
  BY <1>9, EmptySeq, ConcatProperties DEF AppendInput, TypeOK
<1>10. CASE AppendFails
  BY <1>10, FailType DEF AppendFails, TypeOK
<1>11. CASE PushOutput
  <2>1. PICK k \in 0..Size(out_buf) : PushOk(k) \/ PushAgain(k)
    BY <1>11 DEF PushOutput
  <2>2. /\ out_buf' \in Bufs \cup {NoBuf}
        /\ client' \in [headers : Nat, bytes : Nat, raw : BOOLEAN, eof : BOOLEAN]
    <3>1. out_buf' = Advance(out_buf, k)
      BY <2>1 DEF PushOk, PushAgain, Push
    <3>2. k \in Nat
      OBVIOUS
    <3>3. client.eof \/ (output_ready /\ out_buf.last_buf) \in BOOLEAN
      OBVIOUS
    <3>4. client' = [client EXCEPT !.bytes = client.bytes + k,
                       !.eof = client.eof \/ (output_ready /\ out_buf.last_buf)]
      BY <2>1 DEF PushOk, PushAgain, Push
    <3>5. client.bytes + k \in Nat
      BY <3>2 DEF TypeOK
    <3> QED
      BY <3>1, <3>3, <3>4, <3>5, AdvanceType DEF TypeOK
  <2>3. /\ pc' \in {"idle", "entry", "loop"}
        /\ rc' \in {"none", "OK", "AGAIN", "ERROR"}
        /\ arg' \in Seq(Bufs)
    BY <2>1, EmptySeq DEF PushOk, PushAgain, Return, Continue, TypeOK
  <2>4. buffered' \subseteq {"brotli", "downstream"}
    BY <2>1 DEF PushOk, PushAgain, Postponed, Downstream, TypeOK
  <2>5. output_ready' \in BOOLEAN /\ output_busy' \in BOOLEAN
    <3>1. Push(k)
      BY <2>1 DEF PushOk, PushAgain
    <3>2. output_ready' = FALSE
      BY <3>1 DEF Push
    <3>3. output_busy' \in BOOLEAN
      BY <3>1 DEF Push
    <3> QED
      BY <3>2, <3>3
  <2> QED
    BY <2>1, <2>2, <2>3, <2>4, <2>5 DEF PushOk, PushAgain, Push, TypeOK
<1>12. CASE PushFails
  BY <1>12, FailType DEF PushFails, TypeOK
<1>13. CASE TakeOutput
  <2>1. PICK a \in 1..enc.pend :
          /\ enc' = Taken(enc, a)
          /\ out_buf' = [pos |-> enc.taken, last |-> enc.taken + a,
                         last_buf |-> LastOutput(Taken(enc, a)),
                         flush |-> ~LastOutput(Taken(enc, a)) /\ end_of_block]
          /\ bytes_out' = bytes_out + a
          /\ buffered' \subseteq buffered
    BY <1>13 DEF TakeOutput
  <2>2. enc.taken \in Nat /\ enc.pend \in Nat
    BY DEF TypeOK, Encoders
  <2>3. LastOutput(Taken(enc, a)) \in BOOLEAN
    BY DEF LastOutput, TypeOK
  <2>4. out_buf' \in Bufs
    BY <2>1, <2>2, <2>3 DEF Bufs, TypeOK
  <2>5. enc' \in Encoders
    BY <2>1, TakenType DEF TypeOK
  <2> QED
    <3>1. bytes_out' \in Nat /\ buffered' \subseteq {"brotli", "downstream"}
      BY <2>1, <2>2 DEF TypeOK
    <3>2. /\ output_ready' = TRUE /\ end_of_block' = FALSE
          /\ UNCHANGED <<dcb_dict, max_length, header_only, pc, arg, rc, initialized,
                         closed, success, in, end_of_input, bytes_in, output_busy,
                         out_chain, dcb_header_sent, client, fed>>
      BY <1>13 DEF TakeOutput
    <3>3. /\ out_buf' \in Bufs \cup {NoBuf}
          /\ output_ready' \in BOOLEAN /\ end_of_block' \in BOOLEAN
      BY <2>4, <3>2
    <3>4. /\ dcb_dict' \in BOOLEAN /\ max_length' \in MaxLengths /\ header_only' \in BOOLEAN
          /\ pc' \in {"idle", "entry", "loop"} /\ arg' \in Seq(Bufs)
          /\ rc' \in {"none", "OK", "AGAIN", "ERROR"}
          /\ initialized' \in BOOLEAN /\ closed' \in BOOLEAN /\ success' \in BOOLEAN
          /\ in' \in Seq(Bufs) /\ end_of_input' \in BOOLEAN /\ bytes_in' \in Nat
          /\ output_busy' \in BOOLEAN /\ out_chain' \in BOOLEAN
          /\ dcb_header_sent' \in BOOLEAN
      BY <3>2 DEF TypeOK
    <3>5. /\ client' \in [headers : Nat, bytes : Nat, raw : BOOLEAN, eof : BOOLEAN]
          /\ fed' \in [bytes : Nat, calls : Nat, last : BOOLEAN]
      BY <3>2 DEF TypeOK
    <3> QED
      BY <2>5, <3>1, <3>3, <3>4, <3>5 DEF TypeOK
<1>14. CASE TakeOutputFails
  BY <1>14, FailType DEF TakeOutputFails, TypeOK
<1>15. CASE Succeed
  <2>1. /\ pc' = "idle" /\ rc' = "OK" /\ arg' = <<>> /\ closed' = TRUE /\ success' = TRUE
        /\ enc' = NoEncoder /\ out_chain' = FALSE /\ out_buf' = NoBuf
        /\ buffered' \subseteq buffered
    BY <1>15 DEF Succeed, Close, Return
  <2>2. UNCHANGED <<dcb_dict, max_length, header_only, initialized, in, end_of_input,
                    end_of_block, bytes_in, output_ready, output_busy, bytes_out,
                    dcb_header_sent, client, fed>>
    BY <1>15 DEF Succeed
  <2>3. buffered' \subseteq {"brotli", "downstream"} /\ arg' \in Seq(Bufs)
    BY <2>1, EmptySeq DEF TypeOK
  <2> QED
    BY <2>1, <2>2, <2>3, NoEncoderType DEF TypeOK
<1>16. CASE FinishStream
  <2>1. PICK p \in 1..MaxChunk : enc' = Compressed(enc, "FINISH", 0, enc.held, p, TRUE)
    BY <1>16 DEF FinishStream
  <2>2. /\ 0 \in Nat /\ 0 \in 0..0
        /\ enc.held \in 0..(enc.held + 0) /\ p \in 0..MaxChunk
        /\ "FINISH" \in Operations /\ TRUE \in BOOLEAN
    BY MaxChunkAssumption DEF TypeOK, Encoders, Operations
  <2>3. enc' \in Encoders
    <3> DEFINE n == 0
    <3>1. Compressed(enc, "FINISH", n, enc.held, p, TRUE) \in Encoders
      BY <2>2, CompressedType DEF TypeOK
    <3> QED
      BY <2>1, <3>1
  <2> QED
    <3>1. buffered' = buffered \cup {"brotli"}
      BY <1>16 DEF FinishStream
    <3>2. UNCHANGED <<dcb_dict, max_length, header_only, pc, arg, rc, initialized,
                      closed, success, in, end_of_input, end_of_block, bytes_in,
                      output_ready, output_busy, bytes_out, out_buf, out_chain,
                      dcb_header_sent, client, fed>>
      BY <1>16 DEF FinishStream
    <3> QED
      BY <2>3, <3>1, <3>2 DEF TypeOK
<1>17. CASE AwaitInput
  BY <1>17, EmptySeq DEF AwaitInput, Return, TypeOK
<1>18. CASE DropEmptyInput
  BY <1>18, ChainShrinks DEF DropEmptyInput, Size, TypeOK
<1>19. CASE CompressInput
  <2>1. PICK k \in 0..Size(Head(in)) : Consume(k)
    BY <1>19 DEF CompressInput
  <2>2. in # <<>> /\ Head(in) \in Bufs /\ Tail(in) \in Seq(Bufs)
        /\ [in EXCEPT ![1] = Advance(Head(in), k)] \in Seq(Bufs)
    BY <1>19, ChainShrinks DEF CompressInput, TypeOK
  <2>3. Size(Head(in)) \in Nat
    BY <2>2 DEF Bufs, Size
  <2>4. enc' \in Encoders
    <3>1. PICK u \in 0..(enc.held + k), p \in 0..MaxChunk, performed \in BOOLEAN :
            enc' = Compressed(enc, Operation(Head(in)), k, u, p, performed)
      BY <2>1 DEF Consume, Compress
    <3>2. Operation(Head(in)) \in Operations
      BY DEF Operation, Operations
    <3> QED
      BY <2>3, <3>1, <3>2, CompressedType DEF TypeOK
  <2>5. in' \in Seq(Bufs)
    BY <2>1, <2>2 DEF Consume
  <2>6. bytes_in' \in Nat
    BY <2>1, <2>3 DEF Consume, Compress, TypeOK
  <2>7. end_of_input' \in BOOLEAN /\ end_of_block' \in BOOLEAN
    BY <2>1, <2>2 DEF Consume, TypeOK, Bufs
  <2> QED
    BY <2>1, <2>4, <2>5, <2>6, <2>7 DEF Consume, Compress, TypeOK
<1>20. CASE ExceedMaxLength
  <2>1. PICK k \in 0..Size(Head(in)) :
          /\ bytes_in' = bytes_in + k
          /\ in' = [in EXCEPT ![1] = Advance(Head(in), k)]
    BY <1>20 DEF ExceedMaxLength
  <2>2. Head(in) \in Bufs /\ in' \in Seq(Bufs)
    BY <1>20, <2>1, ChainShrinks DEF ExceedMaxLength, TypeOK
  <2>3. bytes_in' \in Nat
    BY <2>1, <2>2 DEF Bufs, Size, TypeOK
  <2> QED
    <3>1. /\ pc' = "idle" /\ rc' = "ERROR" /\ arg' = <<>> /\ closed' = TRUE
          /\ enc' = NoEncoder /\ out_chain' = FALSE /\ out_buf' = NoBuf
      BY <1>20 DEF ExceedMaxLength, Close, Return
    <3>4. buffered' = buffered \cup {"brotli"}
      BY <1>20 DEF ExceedMaxLength
    <3>2. UNCHANGED <<dcb_dict, max_length, header_only, initialized, success, end_of_input,
                      end_of_block, output_ready, output_busy, bytes_out,
                      dcb_header_sent, client, fed>>
      BY <1>20 DEF ExceedMaxLength
    <3>3. buffered' \subseteq {"brotli", "downstream"} /\ arg' \in Seq(Bufs)
      BY <3>1, <3>4, EmptySeq DEF TypeOK
    <3>5. /\ pc' \in {"idle", "entry", "loop"} /\ rc' \in {"none", "OK", "AGAIN", "ERROR"}
          /\ closed' \in BOOLEAN /\ out_chain' \in BOOLEAN
          /\ enc' \in Encoders /\ out_buf' \in Bufs \cup {NoBuf}
      BY <3>1, NoEncoderType
    <3>6. /\ dcb_dict' \in BOOLEAN /\ max_length' \in MaxLengths /\ header_only' \in BOOLEAN
          /\ initialized' \in BOOLEAN /\ success' \in BOOLEAN
          /\ end_of_input' \in BOOLEAN /\ end_of_block' \in BOOLEAN
          /\ output_ready' \in BOOLEAN /\ output_busy' \in BOOLEAN /\ bytes_out' \in Nat
          /\ dcb_header_sent' \in BOOLEAN
      BY <3>2 DEF TypeOK
    <3>7. /\ client' \in [headers : Nat, bytes : Nat, raw : BOOLEAN, eof : BOOLEAN]
          /\ fed' \in [bytes : Nat, calls : Nat, last : BOOLEAN]
      BY <3>2 DEF TypeOK
    <3> QED
      BY <2>2, <2>3, <3>3, <3>5, <3>6, <3>7 DEF TypeOK
<1>21. CASE CompressFails
  BY <1>21, FailType DEF CompressFails, TypeOK
<1>22. CASE UNCHANGED vars
  BY <1>22 DEF vars, TypeOK
<1> QED
  BY <1>1, <1>2, <1>3, <1>4, <1>5, <1>6, <1>7, <1>8, <1>9, <1>10, <1>11, <1>12, <1>13, <1>14, <1>15, <1>16, <1>17, <1>18, <1>19, <1>20, <1>21, <1>22 DEF Next, Filter, Entry, Loop, Reset

(* The encoder and out_buf exist exactly between initialization and close.  *)
LEMMA LifeStep == TypeOK /\ LifeCycle /\ Fresh /\ Outlet /\ [Next]_vars => LifeCycle'
<1> SUFFICES ASSUME TypeOK, LifeCycle, Fresh, Outlet, [Next]_vars
             PROVE  LifeCycle'
  OBVIOUS
<1> USE DEF config, input, output
<1>1. CASE Feed
  BY <1>1 DEF Feed, CallWith, MustFrame, TypeOK, LifeCycle
<1>2. CASE Writer
  BY <1>2 DEF Writer, CallWith, MustFrame, TypeOK, LifeCycle
<1>3. CASE Drain
  <2>1. initialized /\ ~closed => out_buf' # NoBuf
    BY <1>3, AdvanceType DEF Drain, TypeOK, LifeCycle
  <2>2. initialized /\ ~closed
    BY <1>3 DEF Drain, Fresh, Outlet
  <2> QED
    BY <1>3, <2>1, <2>2 DEF Drain, MustFrame, TypeOK, LifeCycle
<1>4. CASE PassThrough
  BY <1>4 DEF PassThrough, Return, MustFrame, TypeOK, LifeCycle
<1>5. CASE EnsureStreamInitialized
  BY <1>5 DEF EnsureStreamInitialized, Compressing, NoBuf, MustFrame, TypeOK, LifeCycle
<1>6. CASE InitializationFails
  BY <1>6 DEF InitializationFails, Compressing, Close, Return, MustFrame, TypeOK,
         LifeCycle
<1>7. CASE EmitDcbHeader
  BY <1>7 DEF EmitDcbHeader, Compressing, MustFrame, TypeOK, LifeCycle
<1>8. CASE DcbHeaderFails
  BY <1>8 DEF DcbHeaderFails, Compressing, CloseAndFail, Close, Return, MustFrame,
         TypeOK, LifeCycle
<1>9. CASE AppendInput
  BY <1>9 DEF AppendInput, Compressing, MustFrame, TypeOK, LifeCycle
<1>10. CASE AppendFails
  BY <1>10 DEF AppendFails, Compressing, CloseAndFail, Close, Return, MustFrame, TypeOK,
         LifeCycle
<1>11. CASE PushOutput
  <2>1. PICK k \in 0..Size(out_buf) : PushOk(k) \/ PushAgain(k)
    BY <1>11 DEF PushOutput
  <2>2. Push(k)
    BY <2>1 DEF PushOk, PushAgain
  <2>3. out_buf # NoBuf /\ pc = "loop"
    BY <2>2 DEF Push, LifeCycle
  <2>4. out_buf' # NoBuf
    BY <2>2, <2>3, AdvanceType DEF Push, TypeOK
  <2>5. rc' # "ERROR" /\ arg' = <<>> /\ pc' # "entry"
    BY <2>1, <2>3 DEF PushOk, PushAgain, Return, Continue, LifeCycle
  <2> QED
    BY <2>2, <2>3, <2>4, <2>5 DEF Push, MustFrame, TypeOK, LifeCycle
<1>12. CASE PushFails
  BY <1>12 DEF PushFails, CloseAndFail, Close, Return, MustFrame, TypeOK, LifeCycle
<1>13. CASE TakeOutput
  BY <1>13 DEF TakeOutput, Drained, NoBuf, Encoders, MustFrame, TypeOK, LifeCycle
<1>14. CASE TakeOutputFails
  BY <1>14 DEF TakeOutputFails, Drained, CloseAndFail, Close, Return, MustFrame, TypeOK,
         LifeCycle
<1>15. CASE Succeed
  BY <1>15 DEF Succeed, Drained, Close, Return, MustFrame, TypeOK, LifeCycle
<1>16. CASE FinishStream
  BY <1>16 DEF FinishStream, Hungry, Drained, MustFrame, TypeOK, LifeCycle
<1>17. CASE AwaitInput
  BY <1>17 DEF AwaitInput, Hungry, Drained, Return, MustFrame, TypeOK, LifeCycle
<1>18. CASE DropEmptyInput
  BY <1>18 DEF DropEmptyInput, Hungry, Drained, MustFrame, TypeOK, LifeCycle
<1>19. CASE CompressInput
  BY <1>19 DEF CompressInput, Consume, Compress, Hungry, Drained, MustFrame, TypeOK,
         LifeCycle
<1>20. CASE ExceedMaxLength
  BY <1>20 DEF ExceedMaxLength, Hungry, Drained, Close, Return, MustFrame, TypeOK,
         LifeCycle
<1>21. CASE CompressFails
  BY <1>21 DEF CompressFails, Hungry, Drained, CloseAndFail, Close, Return, MustFrame,
         TypeOK, LifeCycle
<1>22. CASE UNCHANGED vars
  BY <1>22 DEF vars, MustFrame, TypeOK, LifeCycle
<1> QED
  BY <1>1, <1>2, <1>3, <1>4, <1>5, <1>6, <1>7, <1>8, <1>9, <1>10, <1>11, <1>12, <1>13,
     <1>14, <1>15, <1>16, <1>17, <1>18, <1>19, <1>20, <1>21, <1>22
     DEF Next, Filter, Entry, Loop, Reset

(* The dcb header comes first, and once.                                    *)
LEMMA FreshStep == TypeOK /\ LifeCycle /\ Fresh /\ [Next]_vars => Fresh'
<1> SUFFICES ASSUME TypeOK, LifeCycle, Fresh, [Next]_vars
             PROVE  Fresh'
  OBVIOUS
<1> USE DEF config, input, output
<1>1. CASE Feed
  BY <1>1 DEF Feed, CallWith, MustFrame, TypeOK, LifeCycle, Fresh
<1>2. CASE Writer
  BY <1>2 DEF Writer, CallWith, MustFrame, TypeOK, LifeCycle, Fresh
<1>3. CASE Drain
  BY <1>3 DEF Drain, MustFrame, TypeOK, LifeCycle, Fresh
<1>4. CASE PassThrough
  BY <1>4 DEF PassThrough, Return, MustFrame, TypeOK, LifeCycle, Fresh
<1>5. CASE EnsureStreamInitialized
  BY <1>5 DEF EnsureStreamInitialized, Compressing, MustFrame, TypeOK, LifeCycle, Fresh
<1>6. CASE InitializationFails
  BY <1>6 DEF InitializationFails, Compressing, Close, Return, MustFrame, TypeOK,
         LifeCycle, Fresh
<1>7. CASE EmitDcbHeader
  BY <1>7 DEF EmitDcbHeader, Compressing, MustFrame, TypeOK, LifeCycle, Fresh
<1>8. CASE DcbHeaderFails
  BY <1>8 DEF DcbHeaderFails, Compressing, CloseAndFail, Close, Return, MustFrame,
         TypeOK, LifeCycle, Fresh
<1>9. CASE AppendInput
  BY <1>9, ConcatEmptySeq DEF AppendInput, Compressing, MustFrame, TypeOK, LifeCycle,
         Fresh
<1>10. CASE AppendFails
  BY <1>10 DEF AppendFails, Compressing, CloseAndFail, Close, Return, MustFrame, TypeOK,
         LifeCycle, Fresh
<1>11. CASE PushOutput
  <2>1. PICK k \in 0..Size(out_buf) : PushOk(k) \/ PushAgain(k)
    BY <1>11 DEF PushOutput
  <2>2. Push(k)
    BY <2>1 DEF PushOk, PushAgain
  <2>3. pc = "loop" /\ initialized /\ ~MustFrame
    BY <2>2 DEF Push, LifeCycle
  <2>4. client'.headers = client.headers
    BY <2>2 DEF Push, TypeOK
  <2> QED
    BY <2>2, <2>3, <2>4 DEF Push, MustFrame, TypeOK, LifeCycle, Fresh
<1>12. CASE PushFails
  BY <1>12 DEF PushFails, CloseAndFail, Close, Return, MustFrame, TypeOK, LifeCycle, Fresh
<1>13. CASE TakeOutput
  BY <1>13 DEF TakeOutput, Drained, MustFrame, TypeOK, LifeCycle, Fresh
<1>14. CASE TakeOutputFails
  BY <1>14 DEF TakeOutputFails, Drained, CloseAndFail, Close, Return, MustFrame, TypeOK,
         LifeCycle, Fresh
<1>15. CASE Succeed
  BY <1>15 DEF Succeed, Drained, Close, Return, MustFrame, TypeOK, LifeCycle, Fresh
<1>16. CASE FinishStream
  BY <1>16 DEF FinishStream, Hungry, Drained, MustFrame, TypeOK, LifeCycle, Fresh
<1>17. CASE AwaitInput
  BY <1>17 DEF AwaitInput, Hungry, Drained, Return, MustFrame, TypeOK, LifeCycle, Fresh
<1>18. CASE DropEmptyInput
  BY <1>18 DEF DropEmptyInput, Hungry, Drained, MustFrame, TypeOK, LifeCycle, Fresh
<1>19. CASE CompressInput
  BY <1>19 DEF CompressInput, Consume, Compress, Hungry, Drained, MustFrame, TypeOK,
         LifeCycle, Fresh
<1>20. CASE ExceedMaxLength
  BY <1>20 DEF ExceedMaxLength, Hungry, Drained, Close, Return, MustFrame, TypeOK,
         LifeCycle, Fresh
<1>21. CASE CompressFails
  BY <1>21 DEF CompressFails, Hungry, Drained, CloseAndFail, Close, Return, MustFrame,
         TypeOK, LifeCycle, Fresh
<1>22. CASE UNCHANGED vars
  BY <1>22 DEF vars, MustFrame, TypeOK, LifeCycle, Fresh
<1> QED
  BY <1>1, <1>2, <1>3, <1>4, <1>5, <1>6, <1>7, <1>8, <1>9, <1>10, <1>11, <1>12, <1>13,
     <1>14, <1>15, <1>16, <1>17, <1>18, <1>19, <1>20, <1>21, <1>22
     DEF Next, Filter, Entry, Loop, Reset

(* Output leaves in order: out_buf is refilled only when it is empty.        *)
LEMMA OutletStep == TypeOK /\ LifeCycle /\ Fresh /\ Outlet /\ [Next]_vars => Outlet'
<1> SUFFICES ASSUME TypeOK, LifeCycle, Fresh, Outlet, [Next]_vars
             PROVE  Outlet'
  OBVIOUS
<1> USE DEF config, input, output
<1>1. CASE Feed
  BY <1>1 DEF Feed, CallWith, Unconsumed, HeaderBytes, TypeOK, LifeCycle, Fresh, Outlet
<1>2. CASE Writer
  BY <1>2 DEF Writer, CallWith, Unconsumed, HeaderBytes, TypeOK, LifeCycle, Fresh, Outlet
<1>3. CASE Drain
  <2>1. PICK k \in 1..Size(out_buf) :
          /\ out_buf' = Advance(out_buf, k)
          /\ client' = [client EXCEPT !.bytes = client.bytes + k]
    BY <1>3 DEF Drain
  <2>2. out_buf \in Bufs /\ k \in 0..Size(out_buf) /\ initialized /\ ~closed
    BY <1>3, <2>1 DEF Drain, TypeOK, LifeCycle, Fresh, Outlet
  <2>3. /\ out_buf'.pos = out_buf.pos + k /\ out_buf'.last = out_buf.last
        /\ client'.bytes = client.bytes + k
    BY <2>1, <2>2, AdvanceType DEF TypeOK
  <2>4. output_busy /\ UNCHANGED <<output_ready, output_busy, enc, bytes_out, pc, rc, closed,
                                  initialized, dcb_header_sent>>
    BY <1>3 DEF Drain
  <2> QED
    BY <2>2, <2>3, <2>4 DEF Unconsumed, HeaderBytes, Outlet
<1>4. CASE PassThrough
  BY <1>4 DEF PassThrough, Return, Unconsumed, HeaderBytes, TypeOK, LifeCycle, Fresh,
         Outlet
<1>5. CASE EnsureStreamInitialized
  BY <1>5 DEF EnsureStreamInitialized, Compressing, NewEncoder, NoEncoder, Size,
         Unconsumed, HeaderBytes, TypeOK, LifeCycle, Fresh, Outlet
<1>6. CASE InitializationFails
  BY <1>6 DEF InitializationFails, Compressing, Close, Return, Unconsumed, HeaderBytes,
         TypeOK, LifeCycle, Fresh, Outlet
<1>7. CASE EmitDcbHeader
  <2>1. MustFrame /\ initialized /\ ~closed /\ pc = "entry"
    BY <1>7 DEF EmitDcbHeader, Compressing
  <2>2. bytes_out = enc.taken /\ enc.taken \in Nat
    BY <2>1 DEF Outlet, HeaderBytes, MustFrame, TypeOK, Encoders
  <2>3. bytes_out' = HeaderBytes' + enc'.taken
    BY <1>7, <2>2, BodyAssumption DEF EmitDcbHeader, HeaderBytes
  <2>4. client'.bytes = client.bytes
    BY <1>7 DEF EmitDcbHeader, TypeOK
  <2> QED
    BY <1>7, <2>1, <2>3, <2>4 DEF EmitDcbHeader, Unconsumed, Outlet
<1>8. CASE DcbHeaderFails
  BY <1>8 DEF DcbHeaderFails, Compressing, CloseAndFail, Close, Return, Unconsumed,
         HeaderBytes, TypeOK, LifeCycle, Fresh, Outlet
<1>9. CASE AppendInput
  BY <1>9 DEF AppendInput, Compressing, Unconsumed, HeaderBytes, TypeOK, LifeCycle,
         Fresh, Outlet
<1>10. CASE AppendFails
  BY <1>10 DEF AppendFails, Compressing, CloseAndFail, Close, Return, Unconsumed,
         HeaderBytes, TypeOK, LifeCycle, Fresh, Outlet
<1>11. CASE PushOutput
  <2>1. PICK k \in 0..Size(out_buf) : Push(k)
    BY <1>11 DEF PushOutput, PushOk, PushAgain
  <2>2. out_buf \in Bufs /\ pc = "loop" /\ initialized /\ ~closed
    BY <2>1 DEF Push, TypeOK, LifeCycle
  <2>3. /\ out_buf'.pos = out_buf.pos + k /\ out_buf'.last = out_buf.last
        /\ Size(out_buf') = Size(out_buf) - k
        /\ client'.bytes = client.bytes + k
    BY <2>1, <2>2, AdvanceType DEF Push, TypeOK
  <2>4. Size(out_buf) \in Nat
    BY <2>2 DEF Size, Bufs
  <2>5. ~Unconsumed' => Size(out_buf') = 0
    <3>1. ~output_busy' => ~(k < Size(out_buf))
      BY <2>1 DEF Push
    <3>2. ~Unconsumed' => ~output_busy'
      BY DEF Unconsumed
    <3> QED
      BY <2>3, <2>4, <3>1, <3>2
  <2>6. /\ output_ready' = FALSE
        /\ UNCHANGED <<enc, bytes_out, closed, initialized, dcb_header_sent>>
    BY <2>1 DEF Push
  <2> QED
    BY <2>2, <2>3, <2>5, <2>6 DEF HeaderBytes, Outlet
<1>12. CASE PushFails
  BY <1>12 DEF PushFails, CloseAndFail, Close, Return, Unconsumed, HeaderBytes, TypeOK,
         LifeCycle, Fresh, Outlet
<1>13. CASE TakeOutput
  <2>1. PICK a \in 1..enc.pend :
          /\ enc' = Taken(enc, a)
          /\ out_buf'.pos = enc.taken /\ out_buf'.last = enc.taken + a
          /\ bytes_out' = bytes_out + a
    BY <1>13 DEF TakeOutput
  <2>2. enc.taken \in Nat /\ enc.pend \in Nat /\ out_buf \in Bufs
    BY <1>13 DEF TypeOK, Encoders, TakeOutput, Drained, LifeCycle
  <2>3. enc'.taken = enc.taken + a
    BY <2>1, TakenType DEF TypeOK
  <2>4. client.bytes = enc.taken
    BY <1>13, <2>2 DEF TakeOutput, Drained, Unconsumed, Outlet, LifeCycle, Bufs, Size
  <2>5. /\ pc = "loop" /\ ~output_busy /\ initialized /\ ~closed
        /\ output_ready' = TRUE
        /\ UNCHANGED <<pc, rc, closed, initialized, output_busy, client, dcb_header_sent>>
    BY <1>13 DEF TakeOutput, Drained, Unconsumed, LifeCycle
  <2>6. bytes_out = HeaderBytes + enc.taken
    BY <2>5 DEF Outlet
  <2>7. HeaderBytes \in Nat /\ HeaderBytes' = HeaderBytes
    BY <2>5, BodyAssumption DEF HeaderBytes
  <2>8. bytes_out' = HeaderBytes' + enc'.taken
    BY <2>1, <2>2, <2>3, <2>6, <2>7
  <2> QED
    BY <2>1, <2>3, <2>4, <2>5, <2>8 DEF Outlet, Unconsumed
<1>14. CASE TakeOutputFails
  BY <1>14 DEF TakeOutputFails, Drained, CloseAndFail, Close, Return, Unconsumed,
         HeaderBytes, TypeOK, LifeCycle, Fresh, Outlet
<1>15. CASE Succeed
  BY <1>15 DEF Succeed, Drained, Close, Return, Unconsumed, HeaderBytes, TypeOK,
         LifeCycle, Fresh, Outlet
<1>16. CASE FinishStream
  <2>1. enc'.taken = enc.taken
    BY <1>16 DEF FinishStream, Compressed, TypeOK, Encoders
  <2> QED
    BY <1>16, <2>1 DEF FinishStream, Hungry, Drained, Unconsumed, HeaderBytes, Outlet
<1>17. CASE AwaitInput
  BY <1>17 DEF AwaitInput, Hungry, Drained, Return, Unconsumed, HeaderBytes, TypeOK,
         LifeCycle, Fresh, Outlet
<1>18. CASE DropEmptyInput
  BY <1>18 DEF DropEmptyInput, Hungry, Drained, Unconsumed, HeaderBytes, TypeOK,
         LifeCycle, Fresh, Outlet
<1>19. CASE CompressInput
  <2>1. enc'.taken = enc.taken
    BY <1>19 DEF CompressInput, Consume, Compress, Compressed, TypeOK, Encoders
  <2> QED
    BY <1>19, <2>1 DEF CompressInput, Consume, Compress, Hungry, Drained, Unconsumed, HeaderBytes, Outlet
<1>20. CASE ExceedMaxLength
  BY <1>20 DEF ExceedMaxLength, Hungry, Drained, Close, Return, Unconsumed, HeaderBytes,
         TypeOK, LifeCycle, Fresh, Outlet
<1>21. CASE CompressFails
  BY <1>21 DEF CompressFails, Hungry, Drained, CloseAndFail, Close, Return, Unconsumed,
         HeaderBytes, TypeOK, LifeCycle, Fresh, Outlet
<1>22. CASE UNCHANGED vars
  BY <1>22 DEF vars, Unconsumed, HeaderBytes, TypeOK, LifeCycle, Fresh, Outlet
<1> QED
  BY <1>1, <1>2, <1>3, <1>4, <1>5, <1>6, <1>7, <1>8, <1>9, <1>10, <1>11, <1>12, <1>13,
     <1>14, <1>15, <1>16, <1>17, <1>18, <1>19, <1>20, <1>21, <1>22
     DEF Next, Filter, Entry, Loop, Reset

(* Once over the limit, the response has failed.                            *)
LEMMA CapStep == TypeOK /\ LifeCycle /\ Fresh /\ Cap /\ [Next]_vars => Cap'
<1> SUFFICES ASSUME TypeOK, LifeCycle, Fresh, Cap, [Next]_vars
             PROVE  Cap'
  OBVIOUS
<1> USE DEF config, input, output
<1>1. CASE Feed
  BY <1>1 DEF Feed, CallWith, LifeCycle, Cap
<1>2. CASE Writer
  BY <1>2 DEF Writer, CallWith, LifeCycle, Cap
<1>3. CASE Drain
  BY <1>3 DEF Drain, LifeCycle, Cap
<1>4. CASE PassThrough
  BY <1>4 DEF PassThrough, Return, LifeCycle, Cap
<1>5. CASE EnsureStreamInitialized
  BY <1>5 DEF EnsureStreamInitialized, Compressing, LifeCycle, Cap
<1>6. CASE InitializationFails
  BY <1>6 DEF InitializationFails, Compressing, Close, Return, LifeCycle, Cap
<1>7. CASE EmitDcbHeader
  BY <1>7 DEF EmitDcbHeader, Compressing, LifeCycle, Cap
<1>8. CASE DcbHeaderFails
  BY <1>8 DEF DcbHeaderFails, Compressing, CloseAndFail, Close, Return, LifeCycle, Cap
<1>9. CASE AppendInput
  BY <1>9 DEF AppendInput, Compressing, LifeCycle, Cap
<1>10. CASE AppendFails
  BY <1>10 DEF AppendFails, Compressing, CloseAndFail, Close, Return, LifeCycle, Cap
<1>11. CASE PushOutput
  BY <1>11 DEF PushOutput, PushOk, PushAgain, Push, Return, Continue, LifeCycle, Cap
<1>12. CASE PushFails
  BY <1>12 DEF PushFails, CloseAndFail, Close, Return, LifeCycle, Cap
<1>13. CASE TakeOutput
  BY <1>13 DEF TakeOutput, Drained, LifeCycle, Cap
<1>14. CASE TakeOutputFails
  BY <1>14 DEF TakeOutputFails, Drained, CloseAndFail, Close, Return, LifeCycle, Cap
<1>15. CASE Succeed
  BY <1>15 DEF Succeed, Drained, Close, Return, LifeCycle, Cap
<1>16. CASE FinishStream
  BY <1>16 DEF FinishStream, Hungry, Drained, LifeCycle, Cap
<1>17. CASE AwaitInput
  BY <1>17 DEF AwaitInput, Hungry, Drained, Return, LifeCycle, Cap
<1>18. CASE DropEmptyInput
  BY <1>18 DEF DropEmptyInput, Hungry, Drained, LifeCycle, Cap
<1>19. CASE CompressInput
  <2>1. PICK k \in 0..Size(Head(in)) : Consume(k)
    BY <1>19 DEF CompressInput
  <2>2. ~OverLimit(bytes_in') /\ UNCHANGED max_length
    BY <2>1 DEF Consume, Compress
  <2> QED
    BY <2>2 DEF OverLimit, Cap
<1>20. CASE ExceedMaxLength
  BY <1>20 DEF ExceedMaxLength, Hungry, Drained, Close, Return, LifeCycle, Cap
<1>21. CASE CompressFails
  BY <1>21 DEF CompressFails, Hungry, Drained, CloseAndFail, Close, Return, LifeCycle, Cap
<1>22. CASE UNCHANGED vars
  BY <1>22 DEF vars, LifeCycle, Cap
<1> QED
  BY <1>1, <1>2, <1>3, <1>4, <1>5, <1>6, <1>7, <1>8, <1>9, <1>10, <1>11, <1>12, <1>13,
     <1>14, <1>15, <1>16, <1>17, <1>18, <1>19, <1>20, <1>21, <1>22
     DEF Next, Filter, Entry, Loop, Reset

(* A call that leaves work behind leaves a bit that brings the filter back.  *)
LEMMA WakeupStep == TypeOK /\ LifeCycle /\ Fresh /\ Outlet /\ WakeupGuaranteed /\ [Next]_vars => WakeupGuaranteed'
<1> SUFFICES ASSUME TypeOK, LifeCycle, Fresh, Outlet, WakeupGuaranteed, [Next]_vars
             PROVE  WakeupGuaranteed'
  OBVIOUS
<1> USE DEF config, input, output
<1>1. CASE Feed
  BY <1>1 DEF Feed, CallWith, LifeCycle, WakeupGuaranteed
<1>2. CASE Writer
  BY <1>2 DEF Writer, CallWith, LifeCycle, WakeupGuaranteed
<1>3. CASE Drain
  <2>1. output_busy /\ initialized /\ ~closed
    BY <1>3 DEF Drain, Fresh, Outlet
  <2>2. out_buf \in Bufs /\ out_buf' \in Bufs
    BY <1>3, <2>1, AdvanceType DEF Drain, TypeOK, LifeCycle
  <2>3. Size(out_buf') > 0 => Size(out_buf) > 0
    BY <1>3, <2>1, <2>2, AdvanceType DEF Drain, TypeOK, Size, Bufs
  <2> QED
    BY <1>3, <2>3 DEF Drain, HasMoreOutput, WakeupGuaranteed
<1>4. CASE PassThrough
  BY <1>4 DEF PassThrough, Return, Fresh, LifeCycle, WakeupGuaranteed
<1>5. CASE EnsureStreamInitialized
  BY <1>5 DEF EnsureStreamInitialized, Compressing, LifeCycle, WakeupGuaranteed
<1>6. CASE InitializationFails
  BY <1>6 DEF InitializationFails, Compressing, Close, Return, LifeCycle, WakeupGuaranteed
<1>7. CASE EmitDcbHeader
  BY <1>7 DEF EmitDcbHeader, Compressing, LifeCycle, WakeupGuaranteed
<1>8. CASE DcbHeaderFails
  BY <1>8 DEF DcbHeaderFails, Compressing, CloseAndFail, Close, Return, LifeCycle,
         WakeupGuaranteed
<1>9. CASE AppendInput
  BY <1>9 DEF AppendInput, Compressing, LifeCycle, WakeupGuaranteed
<1>10. CASE AppendFails
  BY <1>10 DEF AppendFails, Compressing, CloseAndFail, Close, Return, LifeCycle,
         WakeupGuaranteed
<1>11. CASE PushOutput
  <2>1. PICK k \in 0..Size(out_buf) : PushOk(k) \/ PushAgain(k)
    BY <1>11 DEF PushOutput
  <2>2. CASE PushOk(k)
    <3>1. pc' = "idle" => "brotli" \in buffered'
      BY <2>2 DEF PushOk, Push, Continue, Postponed
    <3> QED
      BY <3>1 DEF WakeupGuaranteed
  <2>3. CASE PushAgain(k)
    <3>1. "downstream" \in buffered'
      BY <2>3 DEF PushAgain, Downstream
    <3> QED
      BY <3>1 DEF WakeupGuaranteed
  <2> QED
    BY <2>1, <2>2, <2>3
<1>12. CASE PushFails
  BY <1>12 DEF PushFails, CloseAndFail, Close, Return, LifeCycle, WakeupGuaranteed
<1>13. CASE TakeOutput
  BY <1>13 DEF TakeOutput, Drained, LifeCycle, WakeupGuaranteed
<1>14. CASE TakeOutputFails
  BY <1>14 DEF TakeOutputFails, Drained, CloseAndFail, Close, Return, LifeCycle,
         WakeupGuaranteed
<1>15. CASE Succeed
  BY <1>15 DEF Succeed, Drained, Close, Return, LifeCycle, WakeupGuaranteed
<1>16. CASE FinishStream
  BY <1>16 DEF FinishStream, Hungry, Drained, LifeCycle, WakeupGuaranteed
<1>17. CASE AwaitInput
  BY <1>17 DEF AwaitInput, Hungry, Drained, Return, Unconsumed, HasMoreOutput, Outlet,
         LifeCycle, WakeupGuaranteed
<1>18. CASE DropEmptyInput
  BY <1>18 DEF DropEmptyInput, Hungry, Drained, MustFrame, LifeCycle, WakeupGuaranteed
<1>19. CASE CompressInput
  BY <1>19 DEF CompressInput, Consume, Compress, Hungry, Drained, LifeCycle,
         WakeupGuaranteed
<1>20. CASE ExceedMaxLength
  BY <1>20 DEF ExceedMaxLength, Hungry, Drained, Close, Return, LifeCycle,
         WakeupGuaranteed
<1>21. CASE CompressFails
  BY <1>21 DEF CompressFails, Hungry, Drained, CloseAndFail, Close, Return, LifeCycle,
         WakeupGuaranteed
<1>22. CASE UNCHANGED vars
  BY <1>22 DEF vars, LifeCycle, WakeupGuaranteed
<1> QED
  BY <1>1, <1>2, <1>3, <1>4, <1>5, <1>6, <1>7, <1>8, <1>9, <1>10, <1>11, <1>12, <1>13,
     <1>14, <1>15, <1>16, <1>17, <1>18, <1>19, <1>20, <1>21, <1>22
     DEF Next, Filter, Entry, Loop, Reset

(***************************************************************************)
(* Chains that continue the body.                                           *)
(***************************************************************************)

(* Two chains that meet make one.                                            *)
LEMMA JoinedConcat ==
  ASSUME NEW s \in Seq(Bufs), NEW t \in Seq(Bufs), NEW a \in Nat, NEW b \in Nat, NEW c \in Nat,
         Joined(s, a, b), Joined(t, b, c)
  PROVE  Joined(s \o t, a, c)
<1>1. CASE s = <<>>
  <2>1. s \o t = t /\ a = b
    BY <1>1, ConcatEmptySeq DEF Joined
  <2> QED
    BY <2>1
<1>2. CASE t = <<>>
  <2>1. s \o t = s /\ b = c
    BY <1>2, ConcatEmptySeq DEF Joined
  <2> QED
    BY <2>1
<1>3. CASE s # <<>> /\ t # <<>>
  <2> DEFINE u == s \o t
  <2>1. /\ u \in Seq(Bufs) /\ Len(u) = Len(s) + Len(t)
        /\ \A i \in 1..(Len(s) + Len(t)) : u[i] = IF i <= Len(s) THEN s[i] ELSE t[i - Len(s)]
    BY ConcatProperties
  <2>2. Len(s) \in Nat \ {0} /\ Len(t) \in Nat \ {0}
    BY <1>3, EmptySeq
  <2>3. u # <<>>
    BY <2>1, <2>2, EmptySeq
  <2>4. u[1] = s[1] /\ u[Len(u)] = t[Len(t)]
    BY <2>1, <2>2
  <2>5. ASSUME NEW i \in 1..(Len(u) - 1)
        PROVE  u[i].last = u[i + 1].pos
    <3>1. CASE i < Len(s)
      <4>1. u[i] = s[i] /\ u[i + 1] = s[i + 1] /\ i \in 1..(Len(s) - 1)
        BY <3>1, <2>1, <2>2
      <4> QED
        BY <4>1 DEF Joined
    <3>2. CASE i = Len(s)
      <4>1. u[i] = s[Len(s)] /\ u[i + 1] = t[1]
        BY <3>2, <2>1, <2>2
      <4> QED
        BY <4>1, <1>3 DEF Joined
    <3>3. CASE i > Len(s)
      <4>1. /\ u[i] = t[i - Len(s)] /\ u[i + 1] = t[(i - Len(s)) + 1]
            /\ i - Len(s) \in 1..(Len(t) - 1)
        BY <3>3, <2>1, <2>2
      <4> QED
        BY <4>1 DEF Joined
    <3> QED
      BY <3>1, <3>2, <3>3, <2>1, <2>2
  <2>6. u[1].pos = a /\ u[Len(u)].last = c
    BY <1>3, <2>4 DEF Joined
  <2>7. a <= c /\ b <= c
    BY DEF Joined
  <2>8. ASSUME NEW i \in 1..Len(u)
        PROVE  u[i].last <= c
    <3>1. CASE i <= Len(s)
      <4>1. u[i] = s[i] /\ i \in 1..Len(s) /\ s[i] \in Bufs
        BY <3>1, <2>1, <2>2, ElementOfSeq
      <4>2. s[i].last <= b /\ s[i].last \in Nat
        BY <4>1 DEF Joined, Bufs
      <4> QED
        BY <4>1, <4>2, <2>7
    <3>2. CASE i > Len(s)
      <4>1. u[i] = t[i - Len(s)] /\ i - Len(s) \in 1..Len(t)
        BY <3>2, <2>1, <2>2
      <4> QED
        BY <4>1 DEF Joined
    <3> QED
      BY <3>1, <3>2, <2>1, <2>2
  <2>9. Joined(u, a, c)
    BY <2>3, <2>5, <2>6, <2>7, <2>8 DEF Joined
  <2> QED
    BY <2>9
<1> QED
  BY <1>1, <1>2, <1>3

(* At most the last link of the appended chain is the end of the body.       *)
LEMMA EndsConcat ==
  ASSUME NEW s \in Seq(Bufs), NEW t \in Seq(Bufs), t # <<>>,
         EndsAtMost(s), ~Ends(s), EndsAtMost(t)
  PROVE  /\ EndsAtMost(s \o t)
         /\ Ends(s \o t) <=> Ends(t)
<1> DEFINE u == s \o t
<1>1. /\ u \in Seq(Bufs) /\ Len(u) = Len(s) + Len(t)
      /\ \A i \in 1..(Len(s) + Len(t)) : u[i] = IF i <= Len(s) THEN s[i] ELSE t[i - Len(s)]
  BY ConcatProperties
<1>2. Len(s) \in Nat /\ Len(t) \in Nat \ {0}
  BY EmptySeq, LenProperties
<1>3. u # <<>> /\ u[Len(u)] = t[Len(t)]
  BY <1>1, <1>2, EmptySeq
<1>4. ASSUME NEW i \in 1..Len(u), u[i].last_buf
      PROVE  i = Len(u)
  <2>1. CASE i <= Len(s)
    <3>1. u[i] = s[i] /\ i \in 1..Len(s)
      BY <2>1, <1>1, <1>2
    <3>2. i = Len(s) /\ s # <<>>
      BY <3>1, <1>4, EmptySeq DEF EndsAtMost
    <3> QED
      BY <3>1, <3>2, <1>4 DEF Ends
  <2>2. CASE i > Len(s)
    <3>1. u[i] = t[i - Len(s)] /\ i - Len(s) \in 1..Len(t)
      BY <2>2, <1>1, <1>2
    <3>2. i - Len(s) = Len(t)
      BY <3>1, <1>4 DEF EndsAtMost
    <3> QED
      BY <3>2, <1>1, <1>2
  <2> QED
    BY <2>1, <2>2, <1>1, <1>2
<1>5. EndsAtMost(u)
  BY <1>4 DEF EndsAtMost
<1>6. Ends(u) <=> Ends(t)
  BY <1>3 DEF Ends
<1> QED
  BY <1>5, <1>6

(* What the caller hands over continues the body and ends it at most once.  *)
LEMMA ChainJoined ==
  ASSUME NEW n \in Nat \ {0}, NEW from \in Nat, NEW cut \in Cuts(n, from),
         NEW flush \in [1..n -> BOOLEAN], NEW end \in BOOLEAN
  PROVE  LET c == Chain(n, cut, flush, end)
         IN  c # <<>> /\ Joined(c, from, cut[n + 1]) /\ EndsAtMost(c) /\ (Ends(c) <=> end)
<1> DEFINE c == Chain(n, cut, flush, end)
<1>1. c \in Seq(Bufs)
  BY ChainType
<1>2. /\ DOMAIN c = 1..n
      /\ \A i \in 1..n : /\ c[i].pos = cut[i] /\ c[i].last = cut[i + 1]
                         /\ c[i].last_buf = (end /\ i = n)
  BY DEF Chain
<1>3. Len(c) = n
  <2>1. Len(c) \in Nat /\ 1..n = 1..Len(c)
    BY <1>1, <1>2, LenProperties
  <2>2. n \in 1..Len(c)
    BY <2>1
  <2>3. Len(c) \in 1..n
    BY <2>1, <2>2
  <2> QED
    BY <2>1, <2>2, <2>3
<1>4. c # <<>>
  BY <1>1, <1>3, EmptySeq
<1>5. cut[1] = from
  BY DEF Cuts
<1>6. Joined(c, from, cut[n + 1])
  <2>1. c[1].pos = from /\ c[Len(c)].last = cut[n + 1]
    BY <1>2, <1>3, <1>5
  <2>2. \A i \in 1..(Len(c) - 1) : c[i].last = c[i + 1].pos
    BY <1>2, <1>3
  <2>3. /\ cut \in [1..(n + 1) -> Nat]
        /\ \A i, j \in 1..(n + 1) : i <= j => cut[i] <= cut[j]
    BY BodyAssumption DEF Cuts
  <2>4. from <= cut[n + 1]
    BY <1>5, <2>3
  <2>5. \A i \in 1..Len(c) : c[i].last <= cut[n + 1]
    BY <1>2, <1>3, <2>3
  <2> QED
    BY <1>4, <2>1, <2>2, <2>4, <2>5 DEF Joined
<1>7. EndsAtMost(c) /\ (Ends(c) <=> end)
  <2>1. ASSUME NEW i \in 1..n, c[i].last_buf
        PROVE  end /\ i = n
    BY <1>2, <2>1
  <2>4. n \in 1..n
    OBVIOUS
  <2>2. end => c[n].last_buf
    <3>1. c[n].last_buf = (end /\ n = n)
      BY <1>2, <2>4
    <3> QED
      BY <3>1
  <2>3. EndsAtMost(c)
    BY <1>3, <2>1 DEF EndsAtMost
  <2> QED
    BY <1>3, <1>4, <2>1, <2>2, <2>3, <2>4 DEF Ends
<1> QED
  BY <1>4, <1>6, <1>7

(* Dropping a used-up head keeps the chain joined.                           *)
LEMMA JoinedTail ==
  ASSUME NEW s \in Seq(Bufs), s # <<>>, NEW a \in Nat, NEW b \in Nat,
         Joined(s, a, b), EndsAtMost(s)
  PROVE  /\ Joined(Tail(s), Head(s).last, b)
         /\ EndsAtMost(Tail(s))
         /\ Ends(s) <=> Head(s).last_buf \/ Ends(Tail(s))
         /\ Head(s).last_buf => Tail(s) = <<>>
         /\ Head(s).pos = a
         /\ Head(s).last = a + Size(Head(s))
<1> DEFINE t == Tail(s)
<1>1. /\ Head(s) \in Bufs /\ t \in Seq(Bufs) /\ Len(t) = Len(s) - 1
      /\ \A i \in 1..Len(t) : t[i] = s[i + 1]
  BY HeadTailProperties
<1>2. Len(s) \in Nat \ {0} /\ Head(s) = s[1]
  BY EmptySeq
<1>3. Head(s).pos = a /\ Head(s).last = a + Size(Head(s))
  BY <1>1, <1>2 DEF Joined, Size, Bufs
<1>4. CASE t = <<>>
  <2>1. Len(s) = 1
    BY <1>1, <1>2, <1>4, EmptySeq
  <2>2. Head(s).last = b
    BY <1>2, <2>1 DEF Joined
  <2>3. Len(t) = 0
    BY <1>4, EmptySeq
  <2>4. Joined(t, Head(s).last, b)
    BY <1>1, <1>4, <2>2, <2>3 DEF Joined, Bufs
  <2>5. EndsAtMost(t) /\ ~Ends(t)
    BY <1>4, <2>3 DEF EndsAtMost, Ends
  <2>6. Ends(s) <=> Head(s).last_buf
    BY <1>2, <2>1 DEF Ends
  <2> QED
    BY <1>3, <1>4, <2>4, <2>5, <2>6
<1>5. CASE t # <<>>
  <2>1. Len(t) \in Nat \ {0}
    BY <1>1, <1>5, EmptySeq
  <2>2. t[1] = s[2] /\ t[Len(t)] = s[Len(s)]
    BY <1>1, <1>2, <2>1
  <2>3. Head(s).last = t[1].pos
    BY <1>1, <1>2, <2>1, <2>2 DEF Joined
  <2>4. \A i \in 1..(Len(t) - 1) : t[i].last = t[i + 1].pos
    BY <1>1, <1>2, <2>1 DEF Joined
  <2>9. Head(s).last <= b /\ \A i \in 1..Len(t) : t[i].last <= b
    BY <1>1, <1>2 DEF Joined
  <2>10. t[Len(t)].last = b
    BY <1>2, <2>2 DEF Joined
  <2>5. Joined(t, Head(s).last, b)
    BY <1>5, <2>3, <2>4, <2>9, <2>10 DEF Joined
  <2>6. EndsAtMost(t)
    <3>1. ASSUME NEW i \in 1..Len(t), t[i].last_buf
          PROVE  i = Len(t)
      <4>1. i + 1 \in 1..Len(s) /\ s[i + 1].last_buf
        BY <1>1, <1>2, <2>1, <3>1
      <4>2. i + 1 = Len(s)
        BY <4>1 DEF EndsAtMost
      <4> QED
        BY <4>2, <1>1, <1>2
    <3> QED
      BY <3>1 DEF EndsAtMost
  <2>7. ~Head(s).last_buf
    <3>1. 1 \in 1..Len(s) /\ 1 # Len(s)
      BY <1>1, <1>2, <2>1
    <3> QED
      BY <1>2, <3>1 DEF EndsAtMost
  <2>8. Ends(s) <=> Ends(t)
    BY <1>5, <2>2 DEF Ends
  <2> QED
    BY <1>3, <2>5, <2>6, <2>7, <2>8
<1> QED
  BY <1>4, <1>5

(* Consuming part of the head moves where the chain begins.                  *)
LEMMA JoinedAdvance ==
  ASSUME NEW s \in Seq(Bufs), s # <<>>, NEW a \in Nat, NEW b \in Nat,
         Joined(s, a, b), EndsAtMost(s), NEW k \in 0..Size(Head(s))
  PROVE  LET t == [s EXCEPT ![1] = Advance(Head(s), k)]
         IN  t # <<>> /\ Joined(t, a + k, b) /\ EndsAtMost(t) /\ (Ends(t) <=> Ends(s))
<1> DEFINE t == [s EXCEPT ![1] = Advance(Head(s), k)]
<1>1. Head(s) \in Bufs /\ Head(s) # NoBuf /\ t \in Seq(Bufs)
  BY ChainShrinks DEF Bufs, NoBuf
<1>2. Len(s) \in Nat \ {0} /\ Head(s) = s[1]
  BY EmptySeq
<1>3. /\ Advance(Head(s), k) \in Bufs
      /\ Advance(Head(s), k).pos = s[1].pos + k
      /\ Advance(Head(s), k).last = s[1].last
      /\ Advance(Head(s), k).last_buf = s[1].last_buf
  BY <1>1, <1>2, AdvanceType
<1>4. /\ Len(t) = Len(s)
      /\ \A i \in 1..Len(s) : t[i] = IF i = 1 THEN Advance(Head(s), k) ELSE s[i]
  BY <1>2, <1>3, ExceptSeq
<1>5. t # <<>>
  BY <1>1, <1>2, <1>4, EmptySeq
<1>6. \A i \in 1..Len(s) : t[i].last = s[i].last /\ t[i].last_buf = s[i].last_buf
  BY <1>3, <1>4
<1>7. t[1].pos = a + k /\ \A i \in 2..Len(s) : t[i].pos = s[i].pos
  BY <1>2, <1>3, <1>4 DEF Joined
<1>8. Joined(t, a + k, b)
  <2>1. t[Len(t)].last = b
    BY <1>2, <1>4, <1>6 DEF Joined
  <2>2. \A i \in 1..(Len(t) - 1) : t[i].last = t[i + 1].pos
    BY <1>2, <1>4, <1>6, <1>7 DEF Joined
  <2>3. \A i \in 1..Len(t) : t[i].last <= b
    BY <1>4, <1>6 DEF Joined
  <2>4. a + k <= b
    <3>1. Head(s).last <= b
      BY <1>2 DEF Joined
    <3>2. Head(s).pos = a
      BY <1>2 DEF Joined
    <3> QED
      BY <1>1, <3>1, <3>2 DEF Size, Bufs
  <2> QED
    BY <1>5, <1>7, <2>1, <2>2, <2>3, <2>4 DEF Joined
<1>9. EndsAtMost(t) /\ (Ends(t) <=> Ends(s))
  <2>1. ASSUME NEW i \in 1..Len(t), t[i].last_buf
        PROVE  i = Len(t)
    <3>1. s[i].last_buf /\ i \in 1..Len(s)
      BY <1>4, <1>6, <2>1
    <3> QED
      BY <3>1, <1>4 DEF EndsAtMost
  <2>2. Len(s) \in 1..Len(s)
    BY <1>2
  <2>3. t[Len(t)].last_buf <=> s[Len(s)].last_buf
    BY <1>4, <1>6, <2>2
  <2>4. EndsAtMost(t)
    BY <2>1 DEF EndsAtMost
  <2> QED
    BY <1>5, <2>3, <2>4 DEF Ends
<1> QED
  BY <1>5, <1>8, <1>9

(***************************************************************************)
(* All input reaches the encoder, once, and the end is announced after it.  *)
(***************************************************************************)
(* Nothing is queued when the chain and the call's argument are untouched.  *)
LEMMA QueueType ==
  ASSUME TypeOK
  PROVE  /\ Queue \in Seq(Bufs)
         /\ arg = <<>> => Queue = in
         /\ in = <<>> => Queue = arg
BY ConcatProperties, ConcatEmptySeq DEF Queue, TypeOK

(* Inlet depends on these variables only.                                    *)
LEMMA InletFrame ==
  ASSUME Inlet, UNCHANGED <<header_only, bytes_in, fed, end_of_input, in, arg>>,
         closed => closed'
  PROVE  Inlet'
BY DEF Inlet, Queue

(* The queue stays the stretch of the body between encoder and caller.      *)
LEMMA InletStep == TypeOK /\ LifeCycle /\ Inlet /\ [Next]_vars => Inlet'
<1> SUFFICES ASSUME TypeOK, LifeCycle, Inlet, [Next]_vars
             PROVE  Inlet'
  OBVIOUS
<1> USE DEF config, input, output
<1>1. CASE Feed
  <2>1. PICK n \in 1..MaxLinks, end \in BOOLEAN :
          \E cut \in Cuts(n, fed.bytes), flush \in [1..n -> BOOLEAN] :
            /\ CallWith(Chain(n, cut, flush, end))
            /\ fed' = [bytes |-> cut[n + 1], calls |-> fed.calls + 1, last |-> end]
    BY <1>1 DEF Feed
  <2>2. PICK cut \in Cuts(n, fed.bytes), flush \in [1..n -> BOOLEAN] :
          /\ CallWith(Chain(n, cut, flush, end))
          /\ fed' = [bytes |-> cut[n + 1], calls |-> fed.calls + 1, last |-> end]
    BY <2>1
  <2> DEFINE c == Chain(n, cut, flush, end)
  <2>3. n \in Nat \ {0} /\ fed.bytes \in Nat /\ bytes_in \in Nat /\ in \in Seq(Bufs)
    BY BodyAssumption DEF TypeOK
  <2>4. /\ c \in Seq(Bufs) /\ cut[n + 1] \in Nat
        /\ c # <<>> /\ Joined(c, fed.bytes, cut[n + 1]) /\ EndsAtMost(c) /\ (Ends(c) <=> end)
    BY <2>3, ChainType, ChainJoined
  <2>5. /\ Queue = in /\ ~fed.last
        /\ UNCHANGED <<in, closed, header_only, end_of_input, bytes_in>>
        /\ Queue' = in \o c
    BY <1>1, <2>2, QueueType DEF CallWith, LifeCycle, Feed, Queue
  <2>6. CASE ~closed /\ ~header_only
    <3>1. /\ Joined(in, bytes_in, fed.bytes) /\ EndsAtMost(in) /\ ~Ends(in) /\ ~end_of_input
      BY <2>5, <2>6 DEF Inlet
    <3>2. Joined(in \o c, bytes_in, cut[n + 1])
      BY <2>3, <2>4, <3>1, JoinedConcat
    <3>3. EndsAtMost(in \o c) /\ (Ends(in \o c) <=> end)
      BY <2>3, <2>4, <3>1, EndsConcat
    <3>4. fed'.bytes = cut[n + 1] /\ fed'.last = end
      BY <2>2
    <3> QED
      BY <2>5, <3>1, <3>2, <3>3, <3>4 DEF Inlet
  <2> QED
    BY <2>5, <2>6 DEF Inlet
<1>2. CASE Writer
  <2>1. arg = <<>> /\ arg' = <<>> /\ UNCHANGED <<in, closed, header_only, end_of_input, bytes_in, fed>>
    BY <1>2 DEF Writer, CallWith, LifeCycle
  <2> QED
    BY <2>1, InletFrame
<1>3. CASE Drain
  <2>1. UNCHANGED <<header_only, bytes_in, fed, end_of_input, in, arg>> /\ (closed => closed')
    BY <1>3 DEF Drain
  <2> QED
    BY <2>1, InletFrame
<1>4. CASE PassThrough
  <2>1. (closed \/ header_only) /\ UNCHANGED <<closed, header_only>>
    BY <1>4 DEF PassThrough
  <2> QED
    BY <2>1 DEF Inlet
<1>5. CASE EnsureStreamInitialized
  <2>1. UNCHANGED <<header_only, bytes_in, fed, end_of_input, in, arg>> /\ (closed => closed')
    BY <1>5 DEF EnsureStreamInitialized, Compressing
  <2> QED
    BY <2>1, InletFrame
<1>6. CASE InitializationFails
  BY <1>6 DEF InitializationFails, Compressing, Close, Return, Inlet
<1>7. CASE EmitDcbHeader
  <2>1. UNCHANGED <<header_only, bytes_in, fed, end_of_input, in, arg>> /\ (closed => closed')
    BY <1>7 DEF EmitDcbHeader, Compressing
  <2> QED
    BY <2>1, InletFrame
<1>8. CASE DcbHeaderFails
  BY <1>8 DEF DcbHeaderFails, Compressing, CloseAndFail, Close, Return, Inlet
<1>9. CASE AppendInput
  <2>1. /\ in' = Queue /\ arg' = <<>>
        /\ UNCHANGED <<closed, header_only, end_of_input, bytes_in, fed>>
    BY <1>9 DEF AppendInput, Queue
  <2>2. Queue' = Queue
    <3>1. Queue' = Queue \o <<>>
      BY <2>1 DEF Queue
    <3> QED
      BY <3>1, QueueType, ConcatEmptySeq
  <2> QED
    BY <2>1, <2>2 DEF Inlet
<1>10. CASE AppendFails
  BY <1>10 DEF AppendFails, Compressing, CloseAndFail, Close, Return, Inlet
<1>11. CASE PushOutput
  <2>1. /\ arg = <<>> /\ arg' = <<>>
        /\ UNCHANGED <<in, closed, header_only, end_of_input, bytes_in, fed>>
    BY <1>11 DEF PushOutput, PushOk, PushAgain, Push, Return, Continue, LifeCycle
  <2> QED
    BY <2>1, InletFrame
<1>12. CASE PushFails
  BY <1>12 DEF PushFails, CloseAndFail, Close, Return, Inlet
<1>13. CASE TakeOutput
  <2>1. UNCHANGED <<header_only, bytes_in, fed, end_of_input, in, arg>> /\ (closed => closed')
    BY <1>13 DEF TakeOutput, Drained
  <2> QED
    BY <2>1, InletFrame
<1>14. CASE TakeOutputFails
  BY <1>14 DEF TakeOutputFails, Drained, CloseAndFail, Close, Return, Inlet
<1>15. CASE Succeed
  BY <1>15 DEF Succeed, Drained, Close, Return, Inlet
<1>16. CASE FinishStream
  <2>1. UNCHANGED <<header_only, bytes_in, fed, end_of_input, in, arg>> /\ (closed => closed')
    BY <1>16 DEF FinishStream, Hungry, Drained
  <2> QED
    BY <2>1, InletFrame
<1>17. CASE AwaitInput
  <2>1. /\ arg = <<>> /\ arg' = <<>>
        /\ UNCHANGED <<in, closed, header_only, end_of_input, bytes_in, fed>>
    BY <1>17 DEF AwaitInput, Hungry, Drained, Return, LifeCycle
  <2> QED
    BY <2>1, InletFrame
<1>18. CASE DropEmptyInput
  <2>1. /\ in # <<>> /\ Empty(Head(in)) /\ ~end_of_input /\ in' = Tail(in)
        /\ arg = <<>> /\ UNCHANGED <<arg, closed, header_only, end_of_input, bytes_in, fed>>
    BY <1>18 DEF DropEmptyInput, Hungry, Drained, LifeCycle
  <2>2. Queue = in /\ Queue' = Tail(in) /\ in \in Seq(Bufs)
    <3>1. Tail(in) \in Seq(Bufs) /\ in \in Seq(Bufs)
      BY <2>1, HeadTailProperties DEF TypeOK
    <3> QED
      BY <2>1, <3>1, QueueType, ConcatEmptySeq DEF Queue
  <2>3. bytes_in \in Nat /\ fed.bytes \in Nat
    BY DEF TypeOK
  <2>4. CASE ~closed /\ ~header_only
    <3>1. Joined(in, bytes_in, fed.bytes) /\ EndsAtMost(in) /\ (fed.last <=> Ends(in))
      BY <2>1, <2>2, <2>4 DEF Inlet
    <3>2. /\ Joined(Tail(in), bytes_in + 0, fed.bytes) /\ EndsAtMost(Tail(in))
          /\ Ends(in) <=> Ends(Tail(in))
      BY <2>1, <2>2, <2>3, <3>1, JoinedTail DEF Empty
    <3> QED
      BY <2>1, <2>2, <2>3, <3>1, <3>2 DEF Inlet
  <2> QED
    BY <2>1, <2>4 DEF Inlet
<1>19. CASE CompressInput
  <2>1. PICK k \in 0..Size(Head(in)) : Consume(k)
    BY <1>19 DEF CompressInput
  <2>2. /\ in # <<>> /\ ~end_of_input /\ bytes_in' = bytes_in + k
        /\ arg = <<>> /\ UNCHANGED <<arg, closed, header_only, fed>>
    BY <2>1 DEF Consume, Compress, Hungry, Drained, LifeCycle
  <2>3. in \in Seq(Bufs) /\ in' \in Seq(Bufs) /\ bytes_in \in Nat /\ fed.bytes \in Nat
    BY TypeStep DEF TypeOK
  <2>4. Queue = in /\ Queue' = in'
    BY <2>2, <2>3, ConcatEmptySeq DEF Queue
  <2>5. CASE ~closed /\ ~header_only
    <3>1. Joined(in, bytes_in, fed.bytes) /\ EndsAtMost(in) /\ (fed.last <=> Ends(in))
      BY <2>2, <2>4, <2>5 DEF Inlet
    <3>2. CASE k = Size(Head(in))
      <4>1. in' = Tail(in) /\ end_of_input' = Head(in).last_buf
        BY <2>1, <3>2 DEF Consume
      <4>2. Joined(Tail(in), bytes_in + k, fed.bytes)
        BY <2>2, <2>3, <3>1, <3>2, JoinedTail
      <4>3. /\ EndsAtMost(Tail(in))
            /\ Ends(in) <=> Head(in).last_buf \/ Ends(Tail(in))
            /\ Head(in).last_buf => Tail(in) = <<>>
        BY <2>2, <2>3, <3>1, JoinedTail
      <4> QED
        BY <2>2, <2>4, <3>1, <4>1, <4>2, <4>3 DEF Inlet
    <3>3. CASE k # Size(Head(in))
      <4>1. in' = [in EXCEPT ![1] = Advance(Head(in), k)] /\ UNCHANGED end_of_input
        BY <2>1, <3>3 DEF Consume
      <4>2. in' # <<>> /\ Joined(in', bytes_in + k, fed.bytes) /\ EndsAtMost(in') /\ (Ends(in') <=> Ends(in))
        BY <2>2, <2>3, <3>1, <4>1, JoinedAdvance
      <4> QED
        BY <2>2, <2>4, <3>1, <4>1, <4>2 DEF Inlet
    <3> QED
      BY <3>2, <3>3
  <2> QED
    BY <2>2, <2>5 DEF Inlet
<1>20. CASE ExceedMaxLength
  BY <1>20 DEF ExceedMaxLength, Hungry, Drained, Close, Return, Inlet
<1>21. CASE CompressFails
  BY <1>21 DEF CompressFails, Hungry, Drained, CloseAndFail, Close, Return, Inlet
<1>22. CASE UNCHANGED vars
  BY <1>22, InletFrame DEF vars
<1> QED
  BY <1>1, <1>2, <1>3, <1>4, <1>5, <1>6, <1>7, <1>8, <1>9, <1>10, <1>11, <1>12, <1>13,
     <1>14, <1>15, <1>16, <1>17, <1>18, <1>19, <1>20, <1>21, <1>22
     DEF Next, Filter, Entry, Loop, Reset

(* The announced end is the end of the body.                                *)
LEMMA EndingStep == Safe /\ Inlet /\ Ending /\ [Next]_vars => Ending'
<1> SUFFICES ASSUME Safe, Inlet, Ending, [Next]_vars
             PROVE  Ending'
  OBVIOUS
<1> USE DEF Safe, config, input, output
<1>1. CASE Feed
  <2>1. ~success
    BY <1>1 DEF Feed, Ending
  <2>2. UNCHANGED <<closed, success, enc, out_buf, client, end_of_input, output_ready, header_only>>
    BY <1>1 DEF Feed, CallWith
  <2> QED
    BY <2>1, <2>2 DEF IsFinished, HasMoreOutput, Ending
<1>2. CASE Writer
  BY <1>2 DEF Writer, CallWith, HeaderBytes, IsFinished, HasMoreOutput, TypeOK,
         LifeCycle, Ending
<1>3. CASE Drain
  <2>1. ~closed /\ out_buf'.last_buf = out_buf.last_buf
    BY <1>3, AdvanceType DEF Drain, TypeOK, Fresh, Outlet
  <2>2. /\ client'.eof = client.eof /\ client'.raw = client.raw
        /\ UNCHANGED <<closed, success, enc, end_of_input, output_ready, header_only>>
    BY <1>3 DEF Drain, TypeOK
  <2> QED
    BY <2>1, <2>2 DEF LifeCycle, IsFinished, HasMoreOutput, Ending
<1>4. CASE PassThrough
  <2>1. /\ closed \/ header_only
        /\ client'.raw = (client.raw \/ arg # <<>>)
        /\ client'.eof = client.eof /\ client'.bytes = client.bytes
        /\ arg' = <<>>
        /\ UNCHANGED <<closed, success, enc, out_buf, end_of_input, output_ready,
                       header_only, fed, bytes_in, bytes_out, dcb_header_sent>>
    BY <1>4 DEF PassThrough, Return, TypeOK
  <2>2. pc = "entry"
    BY <1>4 DEF PassThrough
  <2>3. closed => success
    BY <2>2 DEF LifeCycle
  <2>4. client'.raw => header_only
    BY <2>1, <2>3 DEF Ending
  <2> QED
    BY <2>1, <2>3, <2>4 DEF HeaderBytes, IsFinished, HasMoreOutput, Ending
<1>5. CASE EnsureStreamInitialized
  <2>1. /\ enc'.finished = FALSE /\ out_buf'.last_buf = FALSE
        /\ ~client.eof /\ ~success /\ UNCHANGED <<client, success, header_only>>
    BY <1>5 DEF EnsureStreamInitialized, NewEncoder, NoEncoder, Fresh, LifeCycle
  <2> QED
    BY <2>1 DEF IsFinished, Ending
<1>6. CASE InitializationFails
  BY <1>6 DEF InitializationFails, Compressing, Close, Return, HeaderBytes, IsFinished,
         HasMoreOutput, TypeOK, LifeCycle, Ending
<1>7. CASE EmitDcbHeader
  <2>1. /\ client'.eof = client.eof /\ client'.raw = client.raw /\ ~closed
        /\ UNCHANGED <<closed, success, enc, out_buf, end_of_input, output_ready, header_only>>
    BY <1>7 DEF EmitDcbHeader, Compressing, TypeOK
  <2> QED
    BY <2>1 DEF LifeCycle, IsFinished, HasMoreOutput, Ending
<1>8. CASE DcbHeaderFails
  BY <1>8 DEF DcbHeaderFails, Compressing, CloseAndFail, Close, Return, HeaderBytes,
         IsFinished, HasMoreOutput, TypeOK, LifeCycle, Ending
<1>9. CASE AppendInput
  BY <1>9 DEF AppendInput, Compressing, HeaderBytes, IsFinished, HasMoreOutput, TypeOK,
         LifeCycle, Ending
<1>10. CASE AppendFails
  BY <1>10 DEF AppendFails, Compressing, CloseAndFail, Close, Return, HeaderBytes,
         IsFinished, HasMoreOutput, TypeOK, LifeCycle, Ending
<1>11. CASE PushOutput
  <2>1. PICK k \in 0..Size(out_buf) : Push(k)
    BY <1>11 DEF PushOutput, PushOk, PushAgain
  <2>2. out_buf'.last_buf = out_buf.last_buf
    BY <2>1, AdvanceType DEF Push, TypeOK
  <2>3. /\ client'.eof = (client.eof \/ (output_ready /\ out_buf.last_buf))
        /\ client'.raw = client.raw
    BY <2>1 DEF Push, TypeOK
  <2>4. UNCHANGED <<closed, success, enc, end_of_input, header_only>> /\ output_ready' = FALSE
    BY <2>1 DEF Push
  <2>5. ~closed /\ ~success
    BY <2>1 DEF Push, LifeCycle
  <2> QED
    BY <2>2, <2>3, <2>4, <2>5 DEF IsFinished, HasMoreOutput, Ending
<1>12. CASE PushFails
  BY <1>12 DEF PushFails, CloseAndFail, Close, Return, HeaderBytes, IsFinished,
         HasMoreOutput, TypeOK, LifeCycle, Ending
<1>13. CASE TakeOutput
  <2>1. PICK a \in 1..enc.pend :
          /\ enc' = Taken(enc, a)
          /\ out_buf'.last_buf = (end_of_input /\ IsFinished(Taken(enc, a)))
    BY <1>13 DEF TakeOutput, LastOutput
  <2>2. /\ output_ready' = TRUE /\ pc = "loop" /\ HasMoreOutput(enc)
        /\ UNCHANGED <<closed, success, client, end_of_input, header_only>>
    BY <1>13 DEF TakeOutput, Drained
  <2>3. ~closed /\ ~success /\ ~client.eof
    BY <2>2 DEF LifeCycle, Ending, IsFinished
  <2>4. /\ enc'.finished = enc.finished /\ enc'.held = enc.held
        /\ enc'.pend + enc'.taken = enc.pend + enc.taken
    <3>1. enc'.pend = enc.pend - a /\ enc'.taken = enc.taken + a
      BY <2>1, TakenType DEF TypeOK
    <3>2. enc.pend \in Nat /\ enc.taken \in Nat
      BY DEF TypeOK, Encoders
    <3> QED
      BY <2>1, <3>1, <3>2, TakenType DEF TypeOK
  <2>5. enc.finished => end_of_input /\ enc.held = 0 /\ enc.pend + enc.taken > 0
    BY <2>3 DEF Ending
  <2>6. out_buf'.last_buf <=> IsFinished(enc')
    BY <2>1, <2>4, <2>5 DEF IsFinished
  <2>7. IsFinished(enc)' <=> IsFinished(enc')
    BY DEF IsFinished, HasMoreOutput
  <2> QED
    BY <2>2, <2>3, <2>4, <2>5, <2>6, <2>7 DEF Ending
<1>14. CASE TakeOutputFails
  BY <1>14 DEF TakeOutputFails, Drained, CloseAndFail, Close, Return, HeaderBytes,
         IsFinished, HasMoreOutput, TypeOK, LifeCycle, Ending
<1>15. CASE Succeed
  <2>1. IsFinished(enc) /\ ~closed /\ initialized /\ pc = "loop" /\ ~Unconsumed
    BY <1>15 DEF Succeed, Drained, LifeCycle
  <2>2. client.eof /\ end_of_input
    BY <2>1 DEF Ending, Unconsumed, IsFinished
  <2>3. arg = <<>> /\ ~header_only
    BY <2>1 DEF LifeCycle
  <2>4. fed.last /\ bytes_in = fed.bytes
    BY <2>1, <2>2, <2>3 DEF Inlet, Joined
  <2>5. bytes_out = HeaderBytes + client.bytes /\ client.bytes > 0
    <3>1. out_buf \in Bufs /\ enc.taken \in Nat /\ enc.pend \in Nat /\ HeaderBytes \in Nat
      BY <2>1, BodyAssumption DEF LifeCycle, TypeOK, Encoders, HeaderBytes
    <3>2. enc.taken = client.bytes
      BY <2>1, <3>1 DEF Outlet, Size, Bufs
    <3>3. enc.taken > 0
      BY <2>1, <3>1 DEF Ending, IsFinished, HasMoreOutput
    <3> QED
      BY <2>1, <3>2, <3>3 DEF Outlet
  <2>6. /\ closed' /\ arg' = <<>>
        /\ UNCHANGED <<client, fed, bytes_in, bytes_out, dcb_header_sent, header_only>>
    BY <1>15 DEF Succeed, Close, Return
  <2> QED
    BY <2>2, <2>4, <2>5, <2>6 DEF HeaderBytes, Ending
<1>16. CASE FinishStream
  <2>1. PICK p \in 1..MaxChunk : enc' = Compressed(enc, "FINISH", 0, enc.held, p, TRUE)
    BY <1>16 DEF FinishStream
  <2>2. /\ end_of_input /\ pc = "loop" /\ ~IsFinished(enc)
        /\ UNCHANGED <<closed, success, client, out_buf, end_of_input, output_ready, header_only>>
    BY <1>16 DEF FinishStream, Hungry, Drained
  <2>3. ~closed /\ ~success /\ ~client.eof /\ ~out_buf.last_buf
    BY <2>2 DEF LifeCycle, Ending
  <2>4. enc'.held = 0 /\ enc'.pend > 0 /\ enc'.pend + enc'.taken > 0
    BY <2>1, MaxChunkAssumption DEF Compressed, TypeOK, Encoders
  <2> QED
    BY <2>2, <2>3, <2>4 DEF IsFinished, HasMoreOutput, Ending
<1>17. CASE AwaitInput
  BY <1>17 DEF AwaitInput, Hungry, Drained, Return, HeaderBytes, IsFinished,
         HasMoreOutput, TypeOK, LifeCycle, Ending
<1>18. CASE DropEmptyInput
  BY <1>18 DEF DropEmptyInput, Hungry, Drained, HeaderBytes, IsFinished, HasMoreOutput,
         TypeOK, LifeCycle, Ending
<1>19. CASE CompressInput
  <2>1. PICK k \in 0..Size(Head(in)) : Consume(k)
    BY <1>19 DEF CompressInput
  <2>2. /\ pc = "loop" /\ ~HasMoreOutput(enc) /\ ~IsFinished(enc) /\ ~end_of_input /\ in # <<>>
        /\ UNCHANGED <<closed, success, client, out_buf, output_ready, header_only>>
    BY <2>1 DEF Consume, Compress, Hungry, Drained
  <2>3. ~closed /\ ~success /\ ~client.eof /\ ~out_buf.last_buf /\ ~enc.finished
    BY <2>2 DEF LifeCycle, Ending, IsFinished
  <2>4. PICK u \in 0..(enc.held + k), p \in 0..MaxChunk, performed \in BOOLEAN :
          /\ CompressStream(enc, Operation(Head(in)), Size(Head(in)), k, u, p, performed)
          /\ enc' = Compressed(enc, Operation(Head(in)), k, u, p, performed)
    BY <2>1 DEF Consume, Compress
  <2>5. /\ enc'.finished <=> performed /\ Operation(Head(in)) = "FINISH"
        /\ enc'.held = enc.held + k - u
        /\ enc'.pend = enc.pend + p
        /\ enc'.taken = enc.taken
    BY <2>3, <2>4 DEF Compressed, TypeOK, Encoders
  <2>6. Head(in) \in Bufs
    BY <2>2, HeadTailProperties DEF TypeOK
  <2>7. CASE performed /\ Operation(Head(in)) = "FINISH"
    <3>1. k = Size(Head(in)) /\ u = enc.held + Size(Head(in)) /\ p > 0
      BY <2>4, <2>7 DEF CompressStream, Absorbs, FillsBlock, Performs
    <3>2. Head(in).last_buf
      BY <2>7 DEF Operation
    <3>3. end_of_input' = Head(in).last_buf
      BY <2>1, <3>1 DEF Consume
    <3>4. enc'.held = 0 /\ enc'.pend > 0 /\ enc'.pend + enc'.taken > 0
      <4>1. enc.held \in Nat /\ enc.pend \in Nat /\ enc.taken \in Nat
        BY DEF TypeOK, Encoders
      <4>2. Size(Head(in)) \in Nat
        BY <2>6 DEF Bufs, Size
      <4>3. p \in Nat
        BY MaxChunkAssumption
      <4> QED
        BY <2>5, <3>1, <4>1, <4>2, <4>3
    <3> QED
      BY <2>2, <2>3, <3>2, <3>3, <3>4 DEF IsFinished, HasMoreOutput, Ending
  <2>8. CASE ~(performed /\ Operation(Head(in)) = "FINISH")
    <3>1. ~enc'.finished
      BY <2>5, <2>8
    <3> QED
      BY <2>2, <2>3, <3>1 DEF IsFinished, HasMoreOutput, Ending
  <2> QED
    BY <2>7, <2>8
<1>20. CASE ExceedMaxLength
  BY <1>20 DEF ExceedMaxLength, Hungry, Drained, Close, Return, HeaderBytes, IsFinished,
         HasMoreOutput, TypeOK, LifeCycle, Ending
<1>21. CASE CompressFails
  BY <1>21 DEF CompressFails, Hungry, Drained, CloseAndFail, Close, Return, HeaderBytes,
         IsFinished, HasMoreOutput, TypeOK, LifeCycle, Ending
<1>22. CASE UNCHANGED vars
  BY <1>22 DEF vars, HeaderBytes, IsFinished, HasMoreOutput, TypeOK, LifeCycle, Ending
<1> QED
  BY <1>1, <1>2, <1>3, <1>4, <1>5, <1>6, <1>7, <1>8, <1>9, <1>10, <1>11, <1>12, <1>13,
     <1>14, <1>15, <1>16, <1>17, <1>18, <1>19, <1>20, <1>21, <1>22
     DEF Next, Filter, Entry, Loop, Reset

(***************************************************************************)
(* The theorems.                                                            *)
(***************************************************************************)

(* The inductive invariant holds at first, ...                               *)
LEMMA WholeInit == Init => Whole
<1> SUFFICES ASSUME Init
             PROVE  Whole
  OBVIOUS
<1>1. TypeOK
  BY EmptySeq, NoEncoderType DEF Init, TypeOK
<1>2. LifeCycle /\ Fresh /\ Outlet
  BY DEF Init, LifeCycle, Fresh, Outlet, MustFrame
<1>3. Cap /\ WakeupGuaranteed
  <2>1. max_length # Unset => max_length \in Nat
    BY BodyAssumption DEF Init
  <2> QED
    BY <2>1 DEF Init, Cap, WakeupGuaranteed
<1>4. Inlet
  <2>1. Queue = <<>>
    BY EmptySeq, ConcatEmptySeq DEF Init, Queue
  <2>2. Len(Queue) = 0
    BY <2>1, EmptySeq
  <2> QED
    BY <2>1, <2>2 DEF Init, Inlet, Joined, EndsAtMost, Ends
<1>5. Ending
  BY DEF Init, Ending, NoBuf, NoEncoder, IsFinished
<1> QED
  BY <1>1, <1>2, <1>3, <1>4, <1>5 DEF Whole, Safe

(* ... and every step keeps it.                                              *)
LEMMA WholeStep == Whole /\ [Next]_vars => Whole'
BY TypeStep, LifeStep, FreshStep, OutletStep, CapStep, WakeupStep, InletStep, EndingStep
   DEF Whole, Safe

(* The inductive invariant holds throughout.                                *)
THEOREM WholeInvariant == Spec => []Whole
BY WholeInit, WholeStep, PTL DEF Spec

(* Every variable of the filter keeps its type.                             *)
THEOREM TypeCorrect == Spec => []TypeOK
<1>1. Whole => TypeOK
  BY DEF Whole, Safe
<1> QED
  BY WholeInvariant, <1>1, PTL

(* The client receives the encoder's output without a gap or a repetition.  *)
THEOREM OutputContiguous == Spec => []Contiguous
<1>1. Whole => Contiguous
  <2> SUFFICES ASSUME Whole, ~closed
               PROVE  Contiguous
    BY DEF Contiguous
  <2>1. CASE initialized
    <3>1. out_buf \in Bufs /\ enc.taken \in Nat /\ HeaderBytes \in Nat
      BY <2>1, BodyAssumption DEF Whole, Safe, LifeCycle, TypeOK, Encoders, HeaderBytes
    <3> QED
      BY <2>1, <3>1 DEF Whole, Safe, Outlet, Contiguous, Size, Bufs
  <2>2. CASE ~initialized
    <3>1. bytes_out = 0 /\ client.bytes = 0 /\ HeaderBytes = 0 /\ out_buf = NoBuf
      BY <2>2 DEF Whole, Safe, Fresh, LifeCycle, HeaderBytes
    <3>2. Size(out_buf) = 0
      BY <3>1 DEF Size, NoBuf
    <3> QED
      BY <2>2, <3>1, <3>2 DEF Contiguous
  <2> QED
    BY <2>1, <2>2
<1> QED
  BY WholeInvariant, <1>1, PTL

(* The end is announced, and success recorded, only for the whole body.     *)
THEOREM EndIsTrue == Spec => []NeverTruncated
<1>1. Whole => NeverTruncated
  <2> SUFFICES ASSUME Whole
               PROVE  NeverTruncated
    OBVIOUS
  <2>1. ASSUME out_buf.last_buf \/ client.eof, ~closed
        PROVE  fed.last /\ bytes_in = fed.bytes /\ IsFinished(enc) /\ enc.held = 0
    <3>1. IsFinished(enc) /\ end_of_input /\ enc.held = 0
      BY <2>1 DEF Whole, Ending, IsFinished
    <3>2. ~header_only
      BY <2>1, <3>1 DEF Whole, Safe, LifeCycle, NoEncoder, IsFinished
    <3> QED
      BY <2>1, <3>1, <3>2 DEF Whole, Inlet, Joined
  <2> QED
    BY <2>1 DEF NeverTruncated, Whole, Ending
<1> QED
  BY WholeInvariant, <1>1, PTL

(* The dcb frame header goes out once, first, and only where negotiated.    *)
THEOREM DcbFraming == Spec => []DcbFramedOnce
<1>1. Whole => DcbFramedOnce
  BY DEF Whole, Safe, Fresh, DcbFramedOnce, MustFrame, TypeOK
<1> QED
  BY WholeInvariant, <1>1, PTL

(* brotli_max_length holds for every input stream.                          *)
THEOREM CapTheorem == Spec => []CapHonoured
<1>1. Whole => CapHonoured
  BY DEF Whole, Safe, Cap, CapHonoured, Failed
<1> QED
  BY WholeInvariant, <1>1, PTL

(* No call leaves work behind without a bit that brings the filter back.    *)
THEOREM WakeupTheorem == Spec => []WakeupGuaranteed
<1>1. Whole => WakeupGuaranteed
  BY DEF Whole, Safe
<1> QED
  BY WholeInvariant, <1>1, PTL

(* Compressed and unencoded bytes never mix in one response.                *)
THEOREM NeverMixed == Spec => []NoRawBytesInStream
<1>1. Whole => NoRawBytesInStream
  BY DEF Whole, Safe, Ending, LifeCycle, Fresh, NoRawBytesInStream
<1> QED
  BY WholeInvariant, <1>1, PTL

(* No step calls the encoder while unread bytes point into its memory.      *)
THEOREM MemoryStable == Spec => EncoderMemoryStable
<1>1. Whole /\ [Next]_vars => [enc' # enc /\ rc' # "ERROR" => Size(out_buf) = 0]_vars
  <2> SUFFICES ASSUME Whole, Next, enc' # enc, rc' # "ERROR"
               PROVE  Size(out_buf) = 0
    OBVIOUS
  <2>1. CASE ~initialized
    BY <2>1 DEF Whole, Safe, LifeCycle, Size, NoBuf
  <2>2. CASE Drained
    BY <2>2 DEF Drained, Whole, Safe, Outlet, LifeCycle
  <2>3. initialized => Drained
    BY DEF Next, Feed, Writer, CallWith, Drain, Filter, Entry, Loop, Reset, vars,
           PassThrough, EnsureStreamInitialized, InitializationFails, EmitDcbHeader,
           DcbHeaderFails, AppendInput, AppendFails, PushOutput, PushOk, PushAgain, Push,
           PushFails, TakeOutput, TakeOutputFails, Succeed, FinishStream, AwaitInput,
           DropEmptyInput, CompressInput, Consume, Compress, ExceedMaxLength, CompressFails,
           Hungry, CloseAndFail, Return
  <2> QED
    BY <2>1, <2>2, <2>3
<1> QED
  BY WholeInvariant, <1>1, PTL DEF Spec, EncoderMemoryStable

(***************************************************************************)
(* Refinement.                                                              *)
(***************************************************************************)
Coded == IF success THEN fed.bytes ELSE IF closed THEN 0 ELSE bytes_in - enc.held
Ended == client.eof /\ (closed => success)
Status == IF success THEN "done" ELSE IF closed THEN "failed" ELSE "open"

(***************************************************************************)
(* Refinement.                                                              *)
(***************************************************************************)

(* The initial states are those of the abstract coding.                      *)
LEMMA CodingInit == Init => Coding!Init
BY DEF Init, Coding!Init, NoEncoder

(* A step that leaves the barred variables alone.                           *)
LEMMA CodingStutter ==
  ASSUME UNCHANGED <<fed, success, closed, bytes_in>>, enc'.held = enc.held,
         client'.eof = client.eof
  PROVE  UNCHANGED Coding!vars
BY DEF Coding!vars

(* Every error path is the failure of the abstract response.                *)
LEMMA CodingFail ==
  ASSUME TypeOK, LifeCycle, ~closed, closed', ~success', UNCHANGED fed
  PROVE  Coding!Fail
BY DEF Coding!Fail, LifeCycle

(* Every step is a step of the abstract coding, or changes nothing of it.    *)
LEMMA CodingStep == Whole /\ Whole' /\ [Next]_vars => [Coding!Next]_(Coding!vars)
<1> SUFFICES ASSUME Whole, Whole', [Next]_vars
             PROVE  Coding!Next \/ UNCHANGED Coding!vars
  BY DEF Coding!vars
<1> USE DEF config, input, output
<1>0. /\ TypeOK /\ LifeCycle /\ Fresh /\ Outlet /\ Inlet /\ Ending
      /\ enc.held \in Nat /\ enc'.held \in Nat /\ enc.pend \in Nat
      /\ bytes_in \in Nat /\ bytes_in' \in Nat
      /\ fed.bytes \in Nat /\ fed'.bytes \in Nat
  BY DEF Whole, Safe, TypeOK, Encoders
<1>a. ASSUME ~closed, ~header_only
      PROVE  bytes_in <= fed.bytes
  BY <1>0, <1>a DEF Inlet, Joined
<1>1. CASE Feed
  <2>1. PICK n \in 1..MaxLinks, end \in BOOLEAN :
          \E cut \in Cuts(n, fed.bytes), flush \in [1..n -> BOOLEAN] :
            /\ CallWith(Chain(n, cut, flush, end))
            /\ fed' = [bytes |-> cut[n + 1], calls |-> fed.calls + 1, last |-> end]
    BY <1>1 DEF Feed
  <2>2. PICK cut \in Cuts(n, fed.bytes), flush \in [1..n -> BOOLEAN] :
          /\ CallWith(Chain(n, cut, flush, end))
          /\ fed' = [bytes |-> cut[n + 1], calls |-> fed.calls + 1, last |-> end]
    BY <2>1
  <2>3. n \in Nat \ {0}
    BY BodyAssumption
  <2>4. Joined(Chain(n, cut, flush, end), fed.bytes, cut[n + 1])
    BY <1>0, <2>3, ChainJoined
  <2>5. fed'.bytes \in Nat /\ fed.bytes <= fed'.bytes /\ fed'.last \in BOOLEAN
    BY <1>0, <2>2, <2>4 DEF Joined
  <2>6. ~closed /\ ~fed.last /\ UNCHANGED <<closed, success, client, enc, bytes_in>>
    BY <1>1, <1>0 DEF Feed, CallWith, Ending, LifeCycle
  <2>7. Coding!Receive
    BY <1>0, <2>5, <2>6 DEF Coding!Receive, LifeCycle
  <2> QED
    BY <2>7 DEF Coding!Next
<1>2. CASE Writer
  <2>1. /\ UNCHANGED <<fed, success, closed, bytes_in>> /\ enc'.held = enc.held
        /\ client'.eof = client.eof
    BY <1>0, <1>2 DEF Writer, CallWith, TypeOK, LifeCycle
  <2> QED
    BY <2>1, CodingStutter
<1>3. CASE Drain
  <2>1. /\ UNCHANGED <<fed, success, closed, bytes_in>> /\ enc'.held = enc.held
        /\ client'.eof = client.eof
    BY <1>0, <1>3 DEF Drain, TypeOK, LifeCycle
  <2> QED
    BY <2>1, CodingStutter
<1>4. CASE PassThrough
  <2>1. /\ UNCHANGED <<fed, success, closed, bytes_in>> /\ enc'.held = enc.held
        /\ client'.eof = client.eof
    BY <1>0, <1>4 DEF PassThrough, TypeOK, LifeCycle
  <2> QED
    BY <2>1, CodingStutter
<1>5. CASE EnsureStreamInitialized
  <2>1. /\ UNCHANGED <<fed, success, closed, bytes_in>> /\ enc'.held = enc.held
        /\ client'.eof = client.eof
    BY <1>0, <1>5 DEF EnsureStreamInitialized, NewEncoder, NoEncoder, TypeOK, LifeCycle
  <2> QED
    BY <2>1, CodingStutter
<1>6. CASE InitializationFails
  <2>1. ~closed /\ closed' /\ ~success' /\ UNCHANGED fed
    BY <1>0, <1>6 DEF InitializationFails, Compressing, Close, LifeCycle
  <2> QED
    BY <1>0, <2>1, CodingFail DEF Coding!Next
<1>7. CASE EmitDcbHeader
  <2>1. /\ UNCHANGED <<fed, success, closed, bytes_in>> /\ enc'.held = enc.held
        /\ client'.eof = client.eof
    BY <1>0, <1>7 DEF EmitDcbHeader, TypeOK, LifeCycle
  <2> QED
    BY <2>1, CodingStutter
<1>8. CASE DcbHeaderFails
  <2>1. ~closed /\ closed' /\ ~success' /\ UNCHANGED fed
    BY <1>0, <1>8 DEF DcbHeaderFails, Compressing, CloseAndFail, Close, LifeCycle
  <2> QED
    BY <1>0, <2>1, CodingFail DEF Coding!Next
<1>9. CASE AppendInput
  <2>1. /\ UNCHANGED <<fed, success, closed, bytes_in>> /\ enc'.held = enc.held
        /\ client'.eof = client.eof
    BY <1>0, <1>9 DEF AppendInput, TypeOK, LifeCycle
  <2> QED
    BY <2>1, CodingStutter
<1>10. CASE AppendFails
  <2>1. ~closed /\ closed' /\ ~success' /\ UNCHANGED fed
    BY <1>0, <1>10 DEF AppendFails, Compressing, CloseAndFail, Close, LifeCycle
  <2> QED
    BY <1>0, <2>1, CodingFail DEF Coding!Next
<1>11. CASE PushOutput
  <2>1. PICK k \in 0..Size(out_buf) : Push(k)
    BY <1>11 DEF PushOutput, PushOk, PushAgain
  <2>2. /\ client'.eof = (client.eof \/ (output_ready /\ out_buf.last_buf))
        /\ UNCHANGED <<fed, success, closed, bytes_in, enc>>
        /\ ~closed /\ ~success
    BY <1>0, <2>1 DEF Push, TypeOK, LifeCycle
  <2>3. CASE client'.eof = client.eof
    BY <2>2, <2>3, CodingStutter
  <2>4. CASE client'.eof # client.eof
    <3>1. client'.eof /\ ~client.eof /\ out_buf.last_buf
      BY <1>0, <2>2, <2>4 DEF TypeOK
    <3>2. end_of_input /\ enc.held = 0 /\ ~header_only
      BY <1>0, <2>1, <2>2, <3>1 DEF Ending, IsFinished, Push, LifeCycle
    <3>3. fed.last /\ bytes_in = fed.bytes
      BY <1>0, <2>2, <3>2 DEF Inlet, Joined
    <3>4. Coding!End
      BY <1>0, <2>2, <3>1, <3>2, <3>3 DEF Coding!End
    <3> QED
      BY <3>4 DEF Coding!Next
  <2> QED
    BY <2>3, <2>4
<1>12. CASE PushFails
  <2>1. ~closed /\ closed' /\ ~success' /\ UNCHANGED fed
    BY <1>0, <1>12 DEF PushFails, CloseAndFail, Close, LifeCycle
  <2> QED
    BY <1>0, <2>1, CodingFail DEF Coding!Next
<1>13. CASE TakeOutput
  <2>1. PICK a \in 1..enc.pend : enc' = Taken(enc, a)
    BY <1>13 DEF TakeOutput
  <2>2. enc'.held = enc.held
    BY <1>0, <2>1, TakenType DEF TypeOK
  <2>3. UNCHANGED <<fed, success, closed, bytes_in, client>>
    BY <1>13 DEF TakeOutput
  <2> QED
    BY <2>2, <2>3, CodingStutter
<1>14. CASE TakeOutputFails
  <2>1. ~closed /\ closed' /\ ~success' /\ UNCHANGED fed
    BY <1>0, <1>14 DEF TakeOutputFails, Drained, CloseAndFail, Close, LifeCycle
  <2> QED
    BY <1>0, <2>1, CodingFail DEF Coding!Next
<1>15. CASE Succeed
  <2>1. IsFinished(enc) /\ ~closed /\ ~success /\ success' /\ closed'
        /\ UNCHANGED <<fed, client>> /\ ~header_only
    BY <1>15, <1>0 DEF Succeed, Drained, Close, LifeCycle
  <2>2. client.eof /\ end_of_input /\ enc.held = 0
    BY <1>15, <1>0, <2>1 DEF Ending, Succeed, Drained, Unconsumed, IsFinished
  <2>3. bytes_in = fed.bytes
    BY <1>0, <2>1, <2>2 DEF Inlet, Joined
  <2>4. Coding!Finish
    BY <1>0, <2>1, <2>2, <2>3 DEF Coding!Finish
  <2> QED
    BY <2>4 DEF Coding!Next
<1>16. CASE FinishStream
  <2>1. PICK p \in 1..MaxChunk : enc' = Compressed(enc, "FINISH", 0, enc.held, p, TRUE)
    BY <1>16 DEF FinishStream
  <2>2. ~IsFinished(enc) /\ pc = "loop" /\ UNCHANGED <<fed, success, closed, bytes_in, client>>
    BY <1>16 DEF FinishStream, Hungry, Drained
  <2>3. ~closed /\ ~success /\ ~client.eof /\ ~header_only
    BY <1>0, <2>2 DEF LifeCycle, Ending
  <2>4. enc'.held = 0
    BY <1>0, <2>1 DEF Compressed, TypeOK, Encoders
  <2>5. bytes_in - 0 \in (bytes_in - enc.held)..fed.bytes
    BY <1>0, <1>a, <2>3
  <2>6. Coding!Code
    BY <1>0, <2>2, <2>3, <2>4, <2>5 DEF Coding!Code
  <2> QED
    BY <2>6 DEF Coding!Next
<1>17. CASE AwaitInput
  <2>1. /\ UNCHANGED <<fed, success, closed, bytes_in>> /\ enc'.held = enc.held
        /\ client'.eof = client.eof
    BY <1>0, <1>17 DEF AwaitInput, TypeOK, LifeCycle
  <2> QED
    BY <2>1, CodingStutter
<1>18. CASE DropEmptyInput
  <2>1. /\ UNCHANGED <<fed, success, closed, bytes_in>> /\ enc'.held = enc.held
        /\ client'.eof = client.eof
    BY <1>0, <1>18 DEF DropEmptyInput, TypeOK, LifeCycle
  <2> QED
    BY <2>1, CodingStutter
<1>19. CASE CompressInput
  <2>1. PICK k \in 0..Size(Head(in)) : Consume(k)
    BY <1>19 DEF CompressInput
  <2>2. /\ ~IsFinished(enc) /\ pc = "loop" /\ bytes_in' = bytes_in + k
        /\ UNCHANGED <<fed, success, closed, client, header_only>>
    BY <2>1 DEF Consume, Compress, Hungry, Drained
  <2>3. ~closed /\ ~success /\ ~client.eof /\ ~header_only
    BY <1>0, <2>2 DEF LifeCycle, Ending
  <2>4. PICK u \in 0..(enc.held + k), p \in 0..MaxChunk, performed \in BOOLEAN :
          enc' = Compressed(enc, Operation(Head(in)), k, u, p, performed)
    BY <2>1 DEF Consume, Compress
  <2>5. enc'.held = enc.held + k - u
    BY <1>0, <2>4 DEF Compressed, TypeOK, Encoders
  <2>6. bytes_in' <= fed'.bytes
    BY <2>2, <2>3 DEF Whole, Inlet, Joined
  <2>7. k \in Nat /\ u \in Nat
    BY <1>0, <2>2
  <2>8. bytes_in' - enc'.held \in (bytes_in - enc.held)..fed.bytes
    BY <1>0, <2>2, <2>5, <2>6, <2>7
  <2>9. Coding!Code
    BY <1>0, <2>2, <2>3, <2>8 DEF Coding!Code
  <2> QED
    BY <2>9 DEF Coding!Next
<1>20. CASE ExceedMaxLength
  <2>1. ~closed /\ closed' /\ ~success' /\ UNCHANGED fed
    BY <1>0, <1>20 DEF ExceedMaxLength, Hungry, Drained, Close, LifeCycle
  <2> QED
    BY <1>0, <2>1, CodingFail DEF Coding!Next
<1>21. CASE CompressFails
  <2>1. ~closed /\ closed' /\ ~success' /\ UNCHANGED fed
    BY <1>0, <1>21 DEF CompressFails, Hungry, Drained, CloseAndFail, Close, LifeCycle
  <2> QED
    BY <1>0, <2>1, CodingFail DEF Coding!Next
<1>22. CASE UNCHANGED vars
  BY <1>22, CodingStutter DEF vars
<1> QED
  BY <1>1, <1>2, <1>3, <1>4, <1>5, <1>6, <1>7, <1>8, <1>9, <1>10, <1>11, <1>12, <1>13,
     <1>14, <1>15, <1>16, <1>17, <1>18, <1>19, <1>20, <1>21, <1>22
     DEF Next, Filter, Entry, Loop, Reset

(* The body filter is a content coding: the client gets the code of the     *)
(* whole body and then its end, or the response fails.                      *)
THEOREM Refinement == Spec => ImplementsContentCoding
<1>1. Whole /\ Whole' /\ [Next]_vars => [Coding!Next]_(Coding!vars)
  BY CodingStep
<1> QED
  BY WholeInvariant, CodingInit, <1>1, PTL DEF Spec, ImplementsContentCoding, Coding!Spec

===============================================================================
