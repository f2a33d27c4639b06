--------------------------- MODULE BrotliBodyFilter ---------------------------
(***************************************************************************)
(* ngx_http_brotli_body_filter of src/filter/ngx_http_brotli_filter_module.c *)
(* for one response, between the caller above it (the upstream or static    *)
(* file code, later ngx_http_writer) and the next body filter below it.     *)
(*                                                                         *)
(* A worker is single threaded: between Call and the return (pc = "idle"    *)
(* again) only the filter takes steps.  Between two calls the event loop    *)
(* runs: the caller may call again, with more of the body or with NULL, and *)
(* the layers below may drain what they were given.                         *)
(*                                                                         *)
(* Bytes have no content.  A buffer's pos and last are offsets: into the    *)
(* body for the caller's buffers, into the brotli stream for out_buf.       *)
(***************************************************************************)
EXTENDS BrotliEncoder, Sequences

CONSTANTS
  MaxInput,     \* bound: bytes of the body
  MaxFeeds,     \* bound: calls that carry input
  MaxLinks,     \* bound: links of one such call
  MaxLengths,   \* values brotli_max_length may have; Unset when not configured
  HeaderLen     \* NGX_HTTP_BROTLI_DCB_HEADER_LEN

Unset == -1     \* NGX_CONF_UNSET

ASSUME BodyAssumption ==
  /\ MaxInput \in Nat
  /\ MaxFeeds \in Nat
  /\ MaxLinks \in Nat \ {0}
  /\ MaxLengths \subseteq Nat \cup {Unset}
  /\ HeaderLen \in Nat \ {0}

VARIABLES
  dcb_dict, max_length, header_only,         \* decided before the first call
  pc, arg, rc,                               \* the running call: its place, its `in`, its result
  initialized, closed, success,              \* ngx_http_brotli_ctx_t
  in, end_of_input, end_of_block, bytes_in,
  output_ready, output_busy, bytes_out, dcb_header_sent,
  enc, out_buf, out_chain,
  buffered,                                  \* r->connection->buffered
  client,                                    \* what went to the next filter
  fed                                        \* what the caller has handed over

config == <<dcb_dict, max_length, header_only>>
input  == <<in, end_of_input, end_of_block, bytes_in>>
output == <<output_ready, output_busy, bytes_out, out_buf, out_chain>>
vars == <<config, pc, arg, rc, initialized, closed, success, input, output,
          dcb_header_sent, enc, buffered, client, fed>>

(***************************************************************************)
(* Buffers and chains.  A chain of the caller continues the body where the  *)
(* previous one ended; only the very last buffer of the body has last_buf.  *)
(***************************************************************************)
Bufs == {b \in [pos : Nat, last : Nat, last_buf : BOOLEAN, flush : BOOLEAN] :
           b.pos <= b.last}

NoBuf == [pos |-> -1, last |-> -1, last_buf |-> FALSE, flush |-> FALSE]

Size(b) == b.last - b.pos

(* Mutant: one byte too many is skipped.                                    *)
AdvanceTooFar(b, k) == [b EXCEPT !.pos = b.pos + k + 1]

Advance(b, k) == [b EXCEPT !.pos = b.pos + k]

(* n links whose boundaries in the body are cut[1] <= ... <= cut[n + 1].     *)
Chain(n, cut, flush, end) ==
  [i \in 1..n |-> [pos |-> cut[i], last |-> cut[i + 1],
                  last_buf |-> end /\ i = n, flush |-> flush[i]]]

Cuts(n, from) ==
  {cut \in [1..(n + 1) -> from..MaxInput] :
     cut[1] = from /\ \A i, j \in 1..(n + 1) : i <= j => cut[i] <= cut[j]}

TypeOK ==
  /\ dcb_dict \in BOOLEAN /\ max_length \in MaxLengths /\ header_only \in BOOLEAN
  /\ pc \in {"idle", "entry", "loop"}
  /\ arg \in Seq(Bufs)
  /\ rc \in {"none", "OK", "AGAIN", "ERROR"}
  /\ initialized \in BOOLEAN /\ closed \in BOOLEAN /\ success \in BOOLEAN
  /\ in \in Seq(Bufs)
  /\ end_of_input \in BOOLEAN /\ end_of_block \in BOOLEAN
  /\ bytes_in \in Nat /\ bytes_out \in Nat
  /\ output_ready \in BOOLEAN /\ output_busy \in BOOLEAN
  /\ dcb_header_sent \in BOOLEAN
  /\ enc \in Encoders
  /\ out_buf \in Bufs \cup {NoBuf}
  /\ out_chain \in BOOLEAN
  /\ buffered \subseteq {"brotli", "downstream"}
  /\ client \in [headers : Nat, bytes : Nat, raw : BOOLEAN, eof : BOOLEAN]
  /\ fed \in [bytes : Nat, calls : Nat, last : BOOLEAN]

Init ==
  /\ dcb_dict \in BOOLEAN /\ max_length \in MaxLengths /\ header_only \in BOOLEAN
  /\ pc = "idle" /\ arg = <<>> /\ rc = "none"
  /\ initialized = FALSE /\ closed = FALSE /\ success = FALSE
  /\ in = <<>> /\ end_of_input = FALSE /\ end_of_block = FALSE
  /\ bytes_in = 0 /\ bytes_out = 0
  /\ output_ready = FALSE /\ output_busy = FALSE
  /\ dcb_header_sent = FALSE
  /\ enc = NoEncoder
  /\ out_buf = NoBuf /\ out_chain = FALSE
  /\ buffered = {}
  /\ client = [headers |-> 0, bytes |-> 0, raw |-> FALSE, eof |-> FALSE]
  /\ fed = [bytes |-> 0, calls |-> 0, last |-> FALSE]

(***************************************************************************)
(* Return, and the close-and-fail exit every error path takes.              *)
(***************************************************************************)
Return(result) == pc' = "idle" /\ rc' = result /\ arg' = <<>>

Close ==                                   \* ngx_http_brotli_filter_close
  /\ closed' = TRUE
  /\ enc' = NoEncoder
  /\ out_chain' = FALSE
  /\ out_buf' = NoBuf

(* Mutant: an error path that closes but reports success.                   *)
CloseQuietly ==
  /\ Close
  /\ Return("OK")
  /\ UNCHANGED <<config, initialized, success, input, output_ready, output_busy,
                 bytes_out, dcb_header_sent, fed>>

CloseAndFail ==
  /\ Close
  /\ Return("ERROR")
  /\ UNCHANGED <<config, initialized, success, input, output_ready, output_busy,
                 bytes_out, dcb_header_sent, fed>>

(* The next filter reports AGAIN exactly when it kept something back, and   *)
(* then its own bit is set in r->connection->buffered.                      *)
Downstream(drc) ==
  IF drc = "AGAIN" THEN buffered \cup {"downstream"} ELSE buffered \ {"downstream"}

(***************************************************************************)
(* The caller.  After NGX_ERROR the request is finalized: no more calls.    *)
(***************************************************************************)
CallWith(chain) ==
  /\ pc = "idle"
  /\ rc # "ERROR"
  /\ pc' = "entry"
  /\ arg' = chain
  /\ UNCHANGED <<config, rc, initialized, closed, success, input, output,
                 dcb_header_sent, enc, buffered, client>>

Feed ==
  /\ ~fed.last
  /\ fed.calls < MaxFeeds
  /\ \E n \in 1..MaxLinks, end \in BOOLEAN :
       \E cut \in Cuts(n, fed.bytes), flush \in [1..n -> BOOLEAN] :
         /\ CallWith(Chain(n, cut, flush, end))
         /\ fed' = [bytes |-> cut[n + 1], calls |-> fed.calls + 1, last |-> end]

Writer == CallWith(<<>>) /\ UNCHANGED fed   \* ngx_http_writer: in = NULL

(* The layers below send, between two calls, what they were given.          *)
Drain ==
  /\ pc = "idle"
  /\ rc # "ERROR"
  /\ output_busy
  /\ \E k \in 1..Size(out_buf) :
       /\ out_buf' = Advance(out_buf, k)
       /\ client' = [client EXCEPT !.bytes = client.bytes + k]
  /\ UNCHANGED <<config, pc, arg, rc, initialized, closed, success, input,
                 output_ready, output_busy, bytes_out, out_chain,
                 dcb_header_sent, enc, buffered, fed>>

(***************************************************************************)
(* From the entry of the body filter to its main loop.                      *)
(***************************************************************************)
Compressing == pc = "entry" /\ ~closed /\ ~header_only

PassThrough ==
  /\ pc = "entry"
  /\ closed \/ header_only
  /\ client' = [client EXCEPT !.raw = client.raw \/ arg # <<>>]
  /\ \E drc \in {"OK", "AGAIN", "ERROR"} : Return(drc) /\ buffered' = Downstream(drc)
  /\ UNCHANGED <<config, initialized, closed, success, input, output,
                 dcb_header_sent, enc, fed>>

EnsureStreamInitialized ==
  /\ Compressing
  /\ ~initialized
  /\ initialized' = TRUE
  /\ enc' = NewEncoder
  /\ out_buf' = [pos |-> 0, last |-> 0, last_buf |-> FALSE, flush |-> FALSE]
  /\ out_chain' = TRUE
  /\ UNCHANGED <<config, pc, arg, rc, closed, success, input, output_ready, output_busy,
                 bytes_out, dcb_header_sent, buffered, client, fed>>

(* No encoder, a parameter or the dictionary refused, or no out_buf; what   *)
(* was created before the failing step is released by the close.            *)
InitializationFails ==
  /\ Compressing
  /\ ~initialized
  /\ initialized' = TRUE
  /\ Close
  /\ Return("ERROR")
  /\ UNCHANGED <<config, success, input, output_ready, output_busy, bytes_out,
                 dcb_header_sent, buffered, client, fed>>

(* Mutant: the header is emitted on every call.                             *)
MustFrameAlways == dcb_dict

MustFrame == dcb_dict /\ ~dcb_header_sent

EmitDcbHeader ==
  /\ Compressing
  /\ initialized
  /\ MustFrame
  /\ \E drc \in {"OK", "AGAIN"} : buffered' = Downstream(drc)
  /\ client' = [client EXCEPT !.headers = client.headers + 1]
  /\ bytes_out' = bytes_out + HeaderLen
  /\ dcb_header_sent' = TRUE
  /\ UNCHANGED <<config, pc, arg, rc, initialized, closed, success, input,
                 output_ready, output_busy, out_buf, out_chain, enc, fed>>

DcbHeaderFails ==
  /\ Compressing
  /\ initialized
  /\ MustFrame
  /\ CloseAndFail
  /\ UNCHANGED <<buffered, client>>

AppendInput ==
  /\ Compressing
  /\ initialized
  /\ ~MustFrame
  /\ in' = in \o arg
  /\ buffered' = IF arg = <<>> THEN buffered ELSE buffered \cup {"brotli"}
  /\ pc' = "loop"
  /\ arg' = <<>>
  /\ UNCHANGED <<config, rc, initialized, closed, success, end_of_input, end_of_block,
                 bytes_in, output, dcb_header_sent, enc, client, fed>>

AppendFails ==
  /\ Compressing
  /\ initialized
  /\ ~MustFrame
  /\ arg # <<>>
  /\ CloseAndFail
  /\ UNCHANGED <<buffered, client>>

(***************************************************************************)
(* The main loop, one action per branch, in the order the code tests them.  *)
(***************************************************************************)
(* Mutant: output handed over but not yet consumed is forgotten.            *)
UnconsumedIfReady == output_ready

Unconsumed == output_busy \/ output_ready

(* The next filter consumes k bytes of out_buf.                             *)
Push(k) ==
  /\ pc = "loop"
  /\ Unconsumed
  /\ k \in 0..Size(out_buf)
  /\ out_buf' = Advance(out_buf, k)
  /\ output_ready' = FALSE
  /\ output_busy' = (k < Size(out_buf))
  /\ client' = [client EXCEPT !.bytes = client.bytes + k,
                              !.eof = client.eof \/ (output_ready /\ out_buf.last_buf)]
  /\ UNCHANGED <<config, initialized, closed, success, input, bytes_out, out_chain,
                 dcb_header_sent, enc, fed>>

Continue == UNCHANGED <<pc, arg, rc>>

(* Mutant: nothing tells the event loop that output is left.                *)
PostponedUnmarked == Downstream("OK")

Postponed == Downstream("OK") \cup {"brotli"}

(* NGX_OK, and out_buf is as full as before: the next filter postponed it.  *)
PushOk(k) ==
  /\ Push(k)
  /\ IF output_busy' /\ output_busy /\ k = 0
     THEN Return("AGAIN") /\ buffered' = Postponed
     ELSE Continue /\ buffered' = Downstream("OK")

PushAgain(k) ==
  /\ Push(k)
  /\ IF output_busy'
     THEN /\ Return("AGAIN")
          /\ buffered' = Downstream("AGAIN") \cup (IF in = <<>> THEN {} ELSE {"brotli"})
     ELSE Continue /\ buffered' = Downstream("AGAIN")

PushOutput == \E k \in 0..Size(out_buf) : PushOk(k) \/ PushAgain(k)

PushFails ==
  /\ pc = "loop"
  /\ Unconsumed
  /\ CloseAndFail
  /\ UNCHANGED <<buffered, client>>

Drained == pc = "loop" /\ ~Unconsumed

(* Mutant: the last input has been taken, so this output is called last.    *)
LastOutputEarly(e) == end_of_input

LastOutput(e) == end_of_input /\ IsFinished(e)

TakeOutput ==
  /\ Drained
  /\ HasMoreOutput(enc)
  /\ \E a \in 1..enc.pend :
       LET e == Taken(enc, a)
           final == LastOutput(e)
       IN /\ enc' = e
          /\ out_buf' = [pos |-> enc.taken, last |-> enc.taken + a,
                         last_buf |-> final, flush |-> ~final /\ end_of_block]
          /\ bytes_out' = bytes_out + a
          /\ buffered' = IF final \/ end_of_block THEN buffered \ {"brotli"} ELSE buffered
  /\ end_of_block' = FALSE
  /\ output_ready' = TRUE
  /\ UNCHANGED <<config, pc, arg, rc, initialized, closed, success, in, end_of_input,
                 bytes_in, output_busy, out_chain, dcb_header_sent, client, fed>>

TakeOutputFails ==
  /\ Drained
  /\ HasMoreOutput(enc)
  /\ CloseAndFail
  /\ UNCHANGED <<buffered, client>>

Succeed ==
  /\ Drained
  /\ IsFinished(enc)
  /\ success' = TRUE
  /\ buffered' = buffered \ {"brotli"}
  /\ Close
  /\ Return("OK")
  /\ UNCHANGED <<config, initialized, input, output_ready, output_busy, bytes_out,
                 dcb_header_sent, client, fed>>

Hungry == Drained /\ ~HasMoreOutput(enc) /\ ~IsFinished(enc)

(* All input is in, the end of the stream is not out.                       *)
FinishStream ==
  /\ Hungry
  /\ end_of_input
  /\ \E p \in 1..MaxChunk :
       /\ CompressStream(enc, "FINISH", 0, 0, enc.held, p, TRUE)
       /\ enc' = Compressed(enc, "FINISH", 0, enc.held, p, TRUE)
  /\ buffered' = buffered \cup {"brotli"}
  /\ UNCHANGED <<config, pc, arg, rc, initialized, closed, success, input, output,
                 dcb_header_sent, client, fed>>

AwaitInput ==
  /\ Hungry
  /\ ~end_of_input
  /\ in = <<>>
  /\ Return("OK")
  /\ UNCHANGED <<config, initialized, closed, success, input, output,
                 dcb_header_sent, enc, buffered, client, fed>>

Empty(b) == Size(b) = 0 /\ ~b.last_buf /\ ~b.flush

DropEmptyInput ==
  /\ Hungry
  /\ ~end_of_input
  /\ in # <<>>
  /\ Empty(Head(in))
  /\ in' = Tail(in)
  /\ UNCHANGED <<config, pc, arg, rc, initialized, closed, success, end_of_input,
                 end_of_block, bytes_in, output, dcb_header_sent, enc, buffered, client, fed>>

Operation(b) ==
  IF b.last_buf THEN "FINISH" ELSE IF b.flush THEN "FLUSH" ELSE "PROCESS"

(* Mutant: the count before this call is compared.                          *)
OverLimitLate(n) == max_length # Unset /\ bytes_in > max_length

OverLimit(n) == max_length # Unset /\ n > max_length

(* One call of the encoder on the head of the chain; k bytes consumed.      *)
Compress(k) ==
  /\ Hungry
  /\ ~end_of_input
  /\ in # <<>>
  /\ ~Empty(Head(in))
  /\ bytes_in' = bytes_in + k
  /\ buffered' = buffered \cup {"brotli"}
  /\ \E u \in 0..(enc.held + k), p \in 0..MaxChunk, performed \in BOOLEAN :
       /\ CompressStream(enc, Operation(Head(in)), Size(Head(in)), k, u, p, performed)
       /\ enc' = Compressed(enc, Operation(Head(in)), k, u, p, performed)
  /\ UNCHANGED <<config, rc, initialized, closed, success, output, dcb_header_sent,
                 pc, arg, client, fed>>

Consume(k) ==
  /\ Compress(k)
  /\ ~OverLimit(bytes_in + k)
  /\ IF k = Size(Head(in))
     THEN /\ in' = Tail(in)
          /\ end_of_input' = Head(in).last_buf
          /\ end_of_block' = (end_of_block \/ (Head(in).flush /\ ~Head(in).last_buf))
     ELSE /\ in' = [in EXCEPT ![1] = Advance(Head(in), k)]
          /\ UNCHANGED <<end_of_input, end_of_block>>

CompressInput == in # <<>> /\ \E k \in 0..Size(Head(in)) : Consume(k)

(* brotli_max_length also bounds what the encoder has actually been fed.    *)
ExceedMaxLength ==
  /\ Hungry
  /\ ~end_of_input
  /\ in # <<>>
  /\ ~Empty(Head(in))
  /\ \E k \in 0..Size(Head(in)) :
       /\ \E u \in 0..(enc.held + k), p \in 0..MaxChunk, performed \in BOOLEAN :
            CompressStream(enc, Operation(Head(in)), Size(Head(in)), k, u, p, performed)
       /\ OverLimit(bytes_in + k)
       /\ bytes_in' = bytes_in + k
       /\ in' = [in EXCEPT ![1] = Advance(Head(in), k)]
  /\ buffered' = buffered \cup {"brotli"}
  /\ Close
  /\ Return("ERROR")
  /\ UNCHANGED <<config, initialized, success, end_of_input, end_of_block, output_ready,
                 output_busy, bytes_out, dcb_header_sent, client, fed>>

(* The encoder refuses, or takes nothing of a non-empty buffer.             *)
CompressFails ==
  /\ Hungry
  /\ end_of_input \/ (in # <<>> /\ ~Empty(Head(in)))
  /\ CloseAndFail
  /\ buffered' = buffered \cup {"brotli"}
  /\ UNCHANGED client

(***************************************************************************)
(* The specification.                                                       *)
(***************************************************************************)
Entry == PassThrough \/ EnsureStreamInitialized \/ InitializationFails \/ EmitDcbHeader
         \/ DcbHeaderFails \/ AppendInput \/ AppendFails

Loop == PushOutput \/ PushFails \/ TakeOutput \/ TakeOutputFails \/ Succeed
        \/ FinishStream \/ AwaitInput \/ DropEmptyInput \/ CompressInput
        \/ ExceedMaxLength \/ CompressFails

Filter == Entry \/ Loop

(* The connection has been reset; nothing more happens to this response.    *)
Reset == pc = "idle" /\ rc = "ERROR" /\ UNCHANGED vars

Next == Feed \/ Writer \/ Drain \/ Filter \/ Reset

Spec == Init /\ [][Next]_vars

(***************************************************************************)
(* Fairness.  The code runs to the end of a call.  ngx_http_writer (or the  *)
(* upstream's write handler) is armed as long as a buffered bit is set, so  *)
(* the filter is called again.  A next filter that is offered output again  *)
(* and again takes some of it in the end: a socket that never becomes       *)
(* writable is ended by send_timeout, and then nothing is owed to anybody.  *)
(***************************************************************************)
Wakeup == buffered # {} /\ Writer

PushProgress == \E k \in 1..Size(out_buf) : PushOk(k) \/ PushAgain(k)

Fairness == WF_vars(Filter) /\ WF_vars(Wakeup) /\ SF_vars(PushProgress)

FairSpec == Spec /\ Fairness

(***************************************************************************)
(* Properties.                                                              *)
(***************************************************************************)
Failed == rc = "ERROR"

HeaderBytes == IF dcb_header_sent THEN HeaderLen ELSE 0

(* The client receives the encoder's output without a gap or a repetition:  *)
(* out_buf is refilled only when what it held has been consumed (the rule   *)
(* the comment above the main loop states), and $brotli_bytes_out counts    *)
(* what was sent plus what out_buf still holds.                             *)
Contiguous ==
  ~closed => /\ initialized => out_buf.pos = client.bytes
             /\ bytes_out = HeaderBytes + client.bytes + Size(out_buf)

(* last_buf is never set early, however calls, partial pushes and partial   *)
(* output takes fall: when the end is announced or the response counted as  *)
(* a success, the whole body has been consumed and its code handed out.  A  *)
(* stream is never empty: $brotli_ratio, defined for a success only, does   *)
(* not divide by zero.                                                      *)
NeverTruncated ==
  /\ (out_buf.last_buf \/ client.eof) /\ ~closed =>
       /\ fed.last /\ bytes_in = fed.bytes
       /\ IsFinished(enc) /\ enc.held = 0
  /\ success => /\ client.eof /\ fed.last /\ bytes_in = fed.bytes
                /\ bytes_out = HeaderBytes + client.bytes /\ client.bytes > 0

(* The 36-byte dcb frame header goes out exactly once, before the first     *)
(* byte of the stream, and only for a dcb response - across re-entries,     *)
(* and with NGX_AGAIN from the next filter counted as sent.                 *)
DcbFramedOnce ==
  /\ client.headers = IF dcb_header_sent THEN 1 ELSE 0
  /\ client.headers > 0 => dcb_dict
  /\ dcb_dict /\ (client.bytes > 0 \/ output_busy \/ output_ready \/ bytes_in > 0)
       => client.headers = 1

(* brotli_max_length holds whatever was declared: no response over the cap  *)
(* succeeds, and the encoder is never fed again once it is exceeded.        *)
CapHonoured == max_length # Unset /\ bytes_in > max_length => Failed

(* A call never returns with work left and no buffered bit set: without one *)
(* ngx_http_writer finalizes the request and the response is truncated.     *)
WakeupGuaranteed ==
  pc = "idle" /\ ~closed /\ initialized
    /\ (in # <<>> \/ HasMoreOutput(enc) \/ Size(out_buf) > 0 \/ end_of_input)
  => buffered # {}

(* After compressed bytes, or the dcb header, no body byte is passed        *)
(* through unencoded: a closed filter is re-entered only after success.     *)
NoRawBytesInStream == client.raw => header_only /\ bytes_out = 0

(* "encoder should not be touched, until all the output is consumed": what  *)
(* BrotliEncoderTakeOutput returned is encoder memory, and no step calls    *)
(* the encoder, or destroys it on success, while unread bytes point there.  *)
EncoderMemoryStable == [][enc' # enc /\ rc' # "ERROR" => Size(out_buf) = 0]_vars

(* The filter is a content coding: see ContentCoding.                       *)
Coding == INSTANCE ContentCoding WITH
  received <- fed.bytes,
  complete <- fed.last,
  coded    <- IF success THEN fed.bytes ELSE IF closed THEN 0 ELSE bytes_in - enc.held,
  ended    <- client.eof /\ (closed => success),
  status   <- IF success THEN "done" ELSE IF closed THEN "failed" ELSE "open"

ImplementsContentCoding == Coding!Spec

(* Once the last buffer has been handed over, the response completes or     *)
(* fails: no call pattern and no sequence of AGAINs leaves it hanging.      *)
Terminates == fed.last /\ ~header_only ~> closed

(* What the comment on NGX_HTTP_BROTLI_BUFFERED says of the bit: when it is *)
(* clear, everything that was passed to the filter has been pushed further. *)
ClearMeansPushed ==
  pc = "idle" /\ ~closed /\ initialized /\ "brotli" \notin buffered
  => in = <<>> /\ enc.held = 0 /\ enc.pend = 0
===============================================================================
