----------------------------- MODULE BrotliRatio -----------------------------
(***************************************************************************)
(* $brotli_ratio: the exact division of ngx_http_brotli_ratio_parts in      *)
(* words of limited width, and the rounding of its caller.                  *)
(***************************************************************************)
EXTENDS Integers

CONSTANT Word       \* number of values of the word: 2^64 for uint64_t

ASSUME RatioAssumption == Word \in Nat \ {0}

VARIABLES
  bytes_in, bytes_out,
  ratio_int, frac, remainder, i,    \* the digits found, and what is left to divide
  acc, digit, k,                    \* the division by subtraction of one digit
  stage

counters == <<bytes_in, bytes_out>>
ratio_vars == <<counters, ratio_int, frac, remainder, i, acc, digit, k, stage>>

RatioInit ==
  /\ bytes_in \in 0..(Word - 1)
  /\ bytes_out \in 1..(Word - 1)                 \* defined for a success only
  /\ ratio_int = bytes_in \div bytes_out
  /\ remainder = bytes_in % bytes_out
  /\ frac = 0 /\ i = 0
  /\ acc = 0 /\ digit = 0 /\ k = 0
  /\ stage = "digit"

(* Mutant: a bound one too large, whose tenfold may not fit the word.       *)
TenfoldFitsAlmost == remainder <= Word \div 10 + 1

TenfoldFits == remainder <= (Word - 1) \div 10

Scale ==
  /\ stage = "digit"
  /\ i < 3
  /\ TenfoldFits
  /\ LET tenfold == (remainder * 10) % Word IN
       /\ frac' = frac * 10 + tenfold \div bytes_out
       /\ remainder' = tenfold % bytes_out
  /\ i' = i + 1
  /\ UNCHANGED <<counters, ratio_int, acc, digit, k, stage>>

BeginPeel ==
  /\ stage = "digit"
  /\ i < 3
  /\ ~TenfoldFits
  /\ acc' = remainder /\ digit' = 0 /\ k' = 0
  /\ stage' = "peel"
  /\ UNCHANGED <<counters, ratio_int, frac, remainder, i>>

(* Mutant: a sum that is exactly bytes_out is not taken for a whole one.    *)
ReachesBeyond(sum) == sum > bytes_out \/ sum < remainder

(* The sum has reached bytes_out, or it did and has wrapped.                *)
Reaches(sum) == sum >= bytes_out \/ sum < remainder

(* One more remainder is added, one bytes_out peeled off when it fits.      *)
Peel ==
  /\ stage = "peel"
  /\ k < 9
  /\ LET sum == (acc + remainder) % Word IN
       IF Reaches(sum)
       THEN acc' = (sum - bytes_out) % Word /\ digit' = digit + 1
       ELSE acc' = sum /\ digit' = digit
  /\ k' = k + 1
  /\ UNCHANGED <<counters, ratio_int, frac, remainder, i, stage>>

EndPeel ==
  /\ stage = "peel"
  /\ k = 9
  /\ frac' = frac * 10 + digit
  /\ remainder' = acc
  /\ i' = i + 1
  /\ stage' = "digit"
  /\ UNCHANGED <<counters, ratio_int, acc, digit, k>>

(* Mutant: a third digit of five is dropped.                                *)
RoundsUpOverFive == frac % 10 > 5

RoundsUp == frac % 10 > 4

(* Two decimals: ratio_int and frac become what is printed.                 *)
Round ==
  /\ stage = "digit"
  /\ i = 3
  /\ LET hundredths == IF RoundsUp THEN frac \div 10 + 1 ELSE frac \div 10 IN
       IF hundredths > 99
       THEN ratio_int' = ratio_int + 1 /\ frac' = 0
       ELSE ratio_int' = ratio_int /\ frac' = hundredths
  /\ stage' = "printed"
  /\ UNCHANGED <<counters, remainder, i, acc, digit, k>>

RatioNext == Scale \/ BeginPeel \/ Peel \/ EndPeel \/ Round

RatioSpec == RatioInit /\ [][RatioNext]_ratio_vars

RatioTypeOK ==
  /\ bytes_in \in 0..(Word - 1) /\ bytes_out \in 1..(Word - 1)
  /\ ratio_int \in Nat /\ frac \in Nat
  /\ remainder \in 0..(bytes_out - 1)            \* "always < divisor"
  /\ i \in 0..3
  /\ acc \in 0..(Word - 1) /\ digit \in 0..9 /\ k \in 0..9
  /\ stage \in {"digit", "peel", "printed"}

(* The three digits match an exact bytes_in * 1000 / bytes_out "for every   *)
(* input pair", although no product or sum leaves the word.                 *)
DigitsExact ==
  stage = "digit" /\ i = 3 => ratio_int * 1000 + frac = (bytes_in * 1000) \div bytes_out

(* What is printed is the ratio to two decimals, rounded half up on the     *)
(* exact third digit, a carry into the integer part included.               *)
PrintedHalfUp ==
  stage = "printed" =>
    /\ frac \in 0..99
    /\ ratio_int * 100 + frac = ((bytes_in * 1000) \div bytes_out + 5) \div 10
==============================================================================
