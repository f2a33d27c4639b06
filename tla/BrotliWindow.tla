----------------------------- MODULE BrotliWindow -----------------------------
(***************************************************************************)
(* "brotli_window": the size a directive gives becomes the base-2 logarithm *)
(* of the window, is inherited, and is lowered for each response of which   *)
(* the length is known.                                                     *)
(***************************************************************************)
EXTENDS Integers

CONSTANTS
  MinBits, MaxBits,     \* BROTLI_MIN_WINDOW_BITS, BROTLI_MAX_WINDOW_BITS
  Default,              \* 19
  MaxHint,              \* 0xffffffff
  Sizes,                \* what directives may say
  Lengths               \* of responses; not positive when unknown

(* What the proofs take from the encoder's header and the directives.       *)
WindowAssumption ==
  /\ MinBits \in Nat /\ MaxBits \in Nat /\ Default \in MinBits..MaxBits
  /\ MaxHint \in Nat \ {0}
  /\ Sizes \subseteq Nat /\ Lengths \subseteq Int

VARIABLES
  pc,
  said,                 \* the sizes given, per block
  lg_win,               \* conf->lg_win: a size until it is translated
  block, bits,          \* the directive being translated
  content_length, wbits, hint   \* the response

vars == <<pc, said, lg_win, block, bits, content_length, wbits, hint>>

Blocks == {"http", "location"}

Unset == -1             \* NGX_CONF_UNSET_SIZE

(***************************************************************************)
(* The configuration.                                                       *)
(***************************************************************************)
BrotliWindow(b) ==
  /\ pc = "read"
  /\ IF lg_win[b] # Unset
     THEN pc' = "duplicate" /\ UNCHANGED <<said, lg_win, block, bits>>
     ELSE /\ \E s \in Sizes : said' = [said EXCEPT ![b] = s] /\ lg_win' = [lg_win EXCEPT ![b] = s]
          /\ block' = b /\ bits' = MinBits
          /\ pc' = "parse"
  /\ UNCHANGED <<content_length, wbits, hint>>

OutOfWindows == bits > MaxBits

(* A pass of the loop of ngx_http_brotli_parse_wbits.                       *)
ParseWbits ==
  /\ pc = "parse"
  /\ IF OutOfWindows THEN pc' = "refused" /\ UNCHANGED <<lg_win, bits>>
     ELSE IF lg_win[block] = 2^bits
     THEN lg_win' = [lg_win EXCEPT ![block] = bits] /\ pc' = "read" /\ UNCHANGED bits
     ELSE bits' = bits + 1 /\ UNCHANGED <<lg_win, pc>>
  /\ UNCHANGED <<said, block, content_length, wbits, hint>>

Merged ==
  IF lg_win["location"] # Unset THEN lg_win["location"]
  ELSE IF lg_win["http"] # Unset THEN lg_win["http"]
  ELSE Default

MergeConf ==
  /\ pc = "read"
  /\ lg_win' = [lg_win EXCEPT !["location"] = Merged]
  /\ pc' = "serve"
  /\ UNCHANGED <<said, block, bits, content_length, wbits, hint>>

(***************************************************************************)
(* A response: ngx_http_brotli_filter_ensure_stream_initialized.            *)
(***************************************************************************)
Respond ==
  /\ pc \in {"serve", "tuned"}
  /\ content_length' \in Lengths
  /\ IF content_length' > 0 THEN wbits' = MinBits /\ pc' = "tune"
     ELSE wbits' = lg_win["location"] /\ pc' = "tuned"
  /\ hint' = 0
  /\ UNCHANGED <<said, lg_win, block, bits>>

TooSmall == content_length > 2^wbits

Hint == IF content_length > MaxHint THEN MaxHint ELSE content_length

Tune ==
  /\ pc = "tune"
  /\ IF wbits < lg_win["location"] /\ TooSmall
     THEN wbits' = wbits + 1 /\ UNCHANGED <<pc, hint>>
     ELSE pc' = "tuned" /\ hint' = Hint /\ UNCHANGED wbits
  /\ UNCHANGED <<said, lg_win, block, bits, content_length>>

Init ==
  /\ pc = "read"
  /\ said = [b \in Blocks |-> Unset] /\ lg_win = said
  /\ block = "http" /\ bits = MinBits
  /\ content_length = 0 /\ wbits = MinBits /\ hint = 0

Next == ParseWbits \/ MergeConf \/ Respond \/ Tune \/ \E b \in Blocks : BrotliWindow(b)

Spec == Init /\ [][Next]_vars

(***************************************************************************)
(* Properties.                                                              *)
(***************************************************************************)
Windows == MinBits..MaxBits

Serving == pc \in {"serve", "tune", "tuned"}

(* The encoder is never given a window it refuses, nor a hint that does not *)
(* fit.                                                                     *)
TypeOK ==
  /\ pc \in {"read", "duplicate", "parse", "refused", "serve", "tune", "tuned"}
  /\ said \in [Blocks -> Sizes \cup {Unset}]
  /\ lg_win \in [Blocks -> Sizes \cup Windows \cup {Unset}]
  /\ block \in Blocks /\ bits \in MinBits..(MaxBits + 1)
  /\ content_length \in Lengths \cup {0}
  /\ wbits \in Windows /\ hint \in 0..MaxHint

(* A size is refused only if it is no window's, and the one in force is the *)
(* nearest that was said: a translated size is not taken for a size again.  *)
WindowAsConfigured ==
  /\ pc = "refused" => \A w \in Windows : said[block] # 2^w
  /\ Serving =>
       LET nearest == IF said["location"] # Unset THEN said["location"] ELSE said["http"]
       IN  IF nearest = Unset THEN lg_win["location"] = Default
           ELSE lg_win["location"] \in Windows /\ nearest = 2^lg_win["location"]

(* A response of known length gets the smallest window that holds it, or    *)
(* the largest allowed if none does.                                        *)
SmallestWindow ==
  pc = "tuned" /\ content_length > 0 =>
    /\ wbits <= lg_win["location"]
    /\ content_length <= 2^wbits \/ wbits = lg_win["location"]
    /\ \A w \in MinBits..(wbits - 1) : content_length > 2^w
=============================================================================
