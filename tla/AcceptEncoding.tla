--------------------------- MODULE AcceptEncoding ---------------------------
(***************************************************************************)
(* The Accept-Encoding walker of src/ngx_http_brotli_common.h: one coding   *)
(* looked up in a request's field lines.  A step is one pass of a loop of   *)
(* the code; loops that only move the cursor are the operators Past and     *)
(* Upto.                                                                    *)
(***************************************************************************)
EXTENDS QuotedStrings

CONSTANTS
  Chars, Lower,         \* the octets, and what each compares as
  Coding,               \* the coding looked up, in lower case
  AllowWildcard,        \* whether "*" speaks for it
  Fields                \* the requests: sequences of field lines

Digits == <<"0", "1", "2", "3", "4", "5", "6", "7", "8", "9">>
Digit == {Digits[i] : i \in 1..10}

ASSUME EncodingAssumption ==
  /\ Lower \in [Chars -> Chars]
  /\ Coding \in Seq(Chars)
  /\ AllowWildcard \in BOOLEAN
  /\ Fields \subseteq Seq(Seq(Chars))

VARIABLES
  field, line,          \* the lines, and the index of the current one
  p,                    \* the cursor
  pp,                   \* the caller's cursor while parameters are evaluated
  q, q_seen, quoted_name,       \* ngx_http_brotli_eval_qvalue
  is_coding, is_star,           \* the element
  line_coding_q, line_star_q,   \* the line
  coding_q, star_q,             \* the request
  pc, quoted            \* where the walk is; whether inside a quoted-string

element == <<is_coding, is_star>>
line_qs == <<line_coding_q, line_star_q>>
request_qs == <<coding_q, star_q>>
vars == <<field, line, p, pp, q, q_seen, quoted_name, element, line_qs, request_qs, pc, quoted>>

Text == IF line \in DOMAIN field THEN field[line] ELSE <<>>

End == Len(Text) + 1

Is(i, set) == i < End /\ Text[i] \in set

(* A loop that moves on from i while the octet is in set.                   *)
Past(i, set) ==
  IF \E j \in i..Len(Text) : Text[j] \notin set
  THEN CHOOSE j \in i..Len(Text) : Text[j] \notin set /\ \A k \in i..(j - 1) : Text[k] \in set
  ELSE End

Upto(i, set) == Past(i, Chars \ set)

Least(i, j) == IF i < j THEN i ELSE j

(***************************************************************************)
(* One element: ngx_http_brotli_coding_weight_ex.                           *)
(***************************************************************************)
(* A weight of -1 is none: the element matches nothing.                     *)
Noted(w, coding, star) ==
  /\ line_coding_q' = IF w >= 0 /\ coding THEN w ELSE line_coding_q
  /\ line_star_q' = IF w >= 0 /\ ~coding /\ star THEN w ELSE line_star_q

(* Mutant: the comma that ended the last element is not skipped.            *)
TokAtComma == Past(p, OWS)

Tok == Past(p, OWS \cup {","})

(* Mutant: a quote does not end the name.                                   *)
NameEndAtDelimiter == Upto(Tok, OWS \cup {";", ","})

NameEnd == Upto(Tok, OWS \cup {";", ",", Quote})

IsCoding ==
  /\ NameEnd - Tok = Len(Coding)
  /\ \A i \in 1..Len(Coding) : Lower[Text[Tok + i - 1]] = Coding[i]

IsStar == NameEnd = Tok + 1 /\ Text[Tok] = "*"

(* Only parameters, the next element or the end may follow.                 *)
Delimited(i) == i = End \/ Text[i] \in {";", ","}

BeginElement ==
  /\ pc = "element" /\ Tok < End
  /\ LET after == Past(NameEnd, OWS)
         coding == IsCoding /\ Delimited(after)
         star == IsStar /\ Delimited(after)
     IN  /\ is_coding' = coding /\ is_star' = star
         /\ p' = after /\ pp' = after
         /\ q' = 1000 /\ q_seen' = FALSE /\ quoted_name' = FALSE
         /\ IF Is(after, {";"})
            THEN pc' = "param" /\ UNCHANGED line_qs
            ELSE pc' = "rest" /\ Noted(1000, coding, star)
  /\ UNCHANGED <<field, line, request_qs, quoted>>

(***************************************************************************)
(* Its parameters: ngx_http_brotli_eval_qvalue, which the caller hands its  *)
(* cursor.                                                                  *)
(***************************************************************************)
NStart == Past(p + 1, OWS)

NEnd == Upto(NStart, OWS \cup {"=", ";", ","})

HasName == NEnd > NStart

IsQ == NEnd = NStart + 1 /\ Text[NStart] \in {"q", "Q"}

After == Past(NEnd, OWS)

HasValue == Is(After, {"="})

Value == Past(After + 1, OWS)

Parameter == pc = "param" /\ Is(p, {";"})

QuotedName == quoted_name \/ \E i \in NStart..(NEnd - 1) : Text[i] = Quote

(* Mutant: the cursor is handed back advanced, whatever was passed.         *)
CursorAdvanced(i, rewind) == i

(* What the caller's cursor is set to when the evaluation stopped at i.     *)
Cursor(i, rewind) == IF rewind THEN pp ELSE i

Malformed(i, rewind) ==
  /\ q' = -1
  /\ p' = Cursor(i, rewind)
  /\ pc' = "rest"

(* Past the blanks after a parameter only another, the next element or the  *)
(* end may follow.                                                          *)
EndParameter(i, weight) ==
  LET next == Past(i, OWS)
  IN  IF Delimited(next)
      THEN p' = next /\ q' = weight /\ pc' = "param"
      ELSE Malformed(next, quoted_name')

EmptyName ==
  /\ Parameter /\ ~HasName
  /\ Malformed(NStart, quoted_name)
  /\ UNCHANGED <<field, line, pp, q_seen, quoted_name, element, line_qs, request_qs, quoted>>

NoValue ==
  /\ Parameter /\ HasName /\ ~HasValue
  /\ quoted_name' = QuotedName
  /\ IF IsQ THEN Malformed(After, quoted_name') ELSE EndParameter(After, q)
  /\ UNCHANGED <<field, line, pp, q_seen, element, line_qs, request_qs, quoted>>

OtherParameter ==
  /\ Parameter /\ HasName /\ HasValue /\ ~IsQ
  /\ quoted_name' = QuotedName
  /\ p' = Value
  /\ pc' = "value"
  /\ UNCHANGED <<field, line, pp, q, q_seen, element, line_qs, request_qs, quoted>>

(* Up to three octets of set.                                               *)
DecimalsEnd(i, set) == Least(Past(i, set), i + 3)

Decimal(i, end) == IF i < end THEN CHOOSE d \in 0..9 : Digits[d + 1] = Text[i] ELSE 0

Point(i) == Is(i + 1, {"."})

(* Where the qvalue at i ends, and what it is, in thousandths.              *)
QvalueEnd(i) ==
  IF ~Point(i) THEN i + 1 ELSE DecimalsEnd(i + 2, IF Text[i] = "0" THEN Digit ELSE {"0"})

Qvalue(i) ==
  IF Text[i] = "1" THEN 1000
  ELSE IF ~Point(i) THEN 0
  ELSE LET end == QvalueEnd(i)
       IN  100 * Decimal(i + 2, end) + 10 * Decimal(i + 3, end) + Decimal(i + 4, end)

Leads == ~q_seen /\ Is(Value, {"0", "1"})

Weight ==
  /\ Parameter /\ HasName /\ HasValue /\ IsQ
  /\ quoted_name' = QuotedName
  /\ q_seen' = TRUE
  /\ IF ~Leads THEN Malformed(Value, quoted_name')
     ELSE LET end == QvalueEnd(Value)
          IN  IF end = End \/ Text[end] \in OWS \cup {";", ","}
              THEN EndParameter(end, Qvalue(Value))
              ELSE Malformed(end, quoted_name')
  /\ UNCHANGED <<field, line, pp, element, line_qs, request_qs, quoted>>

(* The walk past a value ends at the next delimiter.                        *)
EndValue ==
  /\ pc = "value" /\ ~quoted
  /\ LET next == Upto(p, {";", ",", Quote})
     IN  ~Is(next, {Quote}) /\ p' = next
  /\ pc' = "param"
  /\ UNCHANGED <<field, line, pp, q, q_seen, quoted_name, element, line_qs, request_qs, quoted>>

EndParameters ==
  /\ pc = "param" /\ ~Is(p, {";"})
  /\ p' = Cursor(p, quoted_name)
  /\ Noted(q, is_coding, is_star)
  /\ pc' = "rest"
  /\ UNCHANGED <<field, line, pp, q, q_seen, quoted_name, element, request_qs, quoted>>

(***************************************************************************)
(* Quoted-strings: ngx_http_brotli_skip_quoted, from the two scanners.      *)
(***************************************************************************)
Delimiters == IF pc = "value" THEN {";", ","} ELSE {","}

OpenQuote ==
  /\ pc \in {"value", "rest"} /\ ~quoted
  /\ LET next == Upto(p, Delimiters \cup {Quote})
     IN  Is(next, {Quote}) /\ p' = next + 1
  /\ quoted' = TRUE
  /\ UNCHANGED <<field, line, pp, q, q_seen, quoted_name, element, line_qs, request_qs, pc>>

(* Mutant: a backslash at the end of the line escapes what is not there.    *)
EscapesEnd(i) == Is(i, {Backslash})

(* The octet after a backslash is passed over, if there is one.             *)
Escapes(i) == Is(i, {Backslash}) /\ i + 1 < End

QuotedPair ==
  /\ quoted
  /\ LET next == Upto(p, {Backslash, Quote})
     IN  /\ Is(next, {Backslash})
         /\ p' = IF Escapes(next) THEN next + 2 ELSE next + 1
  /\ UNCHANGED <<field, line, pp, q, q_seen, quoted_name, element, line_qs, request_qs, pc, quoted>>

CloseQuote ==
  /\ quoted
  /\ LET next == Upto(p, {Backslash, Quote})
     IN  /\ ~Is(next, {Backslash})
         /\ p' = IF next = End THEN End ELSE next + 1
  /\ quoted' = FALSE
  /\ UNCHANGED <<field, line, pp, q, q_seen, quoted_name, element, line_qs, request_qs, pc>>

(***************************************************************************)
(* The end of an element, of a line and of the field.                       *)
(***************************************************************************)
EndElement ==
  /\ pc = "rest" /\ ~quoted
  /\ LET next == Upto(p, {",", Quote})
     IN  ~Is(next, {Quote}) /\ p' = next
  /\ pc' = "element"
  /\ UNCHANGED <<field, line, pp, q, q_seen, quoted_name, element, line_qs, request_qs, quoted>>

(* Mutant: a line that only has "*" revokes an earlier line's token.        *)
FoldedOver ==
  IF line_coding_q >= 0 THEN coding_q' = line_coding_q /\ UNCHANGED star_q
  ELSE IF AllowWildcard /\ line_star_q >= 0 THEN coding_q' = -1 /\ star_q' = line_star_q
  ELSE UNCHANGED request_qs

(* ngx_http_brotli_fold_line_weight                                         *)
Folded ==
  IF line_coding_q >= 0 THEN coding_q' = line_coding_q /\ UNCHANGED star_q
  ELSE IF AllowWildcard /\ line_star_q >= 0 THEN star_q' = line_star_q /\ UNCHANGED coding_q
  ELSE UNCHANGED request_qs

EndLine ==
  /\ pc = "element" /\ Tok = End
  /\ Folded
  /\ p' = End
  /\ pc' = "line"
  /\ UNCHANGED <<field, line, pp, q, q_seen, quoted_name, element, line_qs, quoted>>

NextLine ==
  /\ pc = "line" /\ line < Len(field)
  /\ line' = line + 1
  /\ p' = 1 /\ pp' = 1
  /\ line_coding_q' = -1 /\ line_star_q' = -1
  /\ pc' = "element"
  /\ UNCHANGED <<field, q, q_seen, quoted_name, element, request_qs, quoted>>

EndField ==
  /\ pc = "line" /\ line = Len(field)
  /\ pc' = "done"
  /\ UNCHANGED <<field, line, p, pp, q, q_seen, quoted_name, element, line_qs, request_qs, quoted>>

Start ==
  /\ line = 0 /\ p = 1 /\ pp = 1
  /\ q = 1000 /\ q_seen = FALSE /\ quoted_name = FALSE
  /\ is_coding = FALSE /\ is_star = FALSE
  /\ line_coding_q = -1 /\ line_star_q = -1
  /\ coding_q = -1 /\ star_q = -1
  /\ pc = "line" /\ quoted = FALSE

Init == field \in Fields /\ Start

Parameters == EmptyName \/ NoValue \/ OtherParameter \/ Weight \/ EndValue \/ EndParameters

Quotes == OpenQuote \/ QuotedPair \/ CloseQuote

Next == BeginElement \/ Parameters \/ Quotes \/ EndElement \/ EndLine \/ NextLine \/ EndField

Spec == Init /\ [][Next]_vars

(* ngx_http_brotli_field_weight                                             *)
FieldWeight ==
  IF coding_q >= 0 THEN coding_q
  ELSE IF AllowWildcard /\ star_q >= 0 THEN star_q
  ELSE -1

(***************************************************************************)
(* Properties.                                                              *)
(***************************************************************************)
Qs == -1..1000

(* The cursors never pass the end, which is where the line's octets stop:   *)
(* "every dereference is guarded".  A weight is in thousandths or is none.  *)
TypeOK ==
  /\ field \in Seq(Seq(Chars))
  /\ line \in 0..Len(field)
  /\ p \in 1..End /\ pp \in 1..End
  /\ q \in Qs /\ q_seen \in BOOLEAN /\ quoted_name \in BOOLEAN
  /\ is_coding \in BOOLEAN /\ is_star \in BOOLEAN
  /\ line_coding_q \in Qs /\ line_star_q \in Qs /\ coding_q \in Qs /\ star_q \in Qs
  /\ pc \in {"line", "element", "param", "value", "rest", "done"}
  /\ quoted \in BOOLEAN

(* How far the walk has come, the slowest part first.  The cursor goes back *)
(* only to the caller's, at the stage after the parameters.                 *)
Ended == IF pc = "done" THEN 2 ELSE IF pc = "line" THEN 1 ELSE 0

Anchor == IF pc = "element" THEN p ELSE pp

Stage ==
  IF pc = "element" THEN IF Is(p, Chars \ {","}) THEN 0 ELSE 3
  ELSE IF pc \in {"param", "value"} THEN 1
  ELSE 2

Pass == IF quoted THEN 0 ELSE IF pc = "param" THEN 2 ELSE 1

Rank == <<line, Ended, Anchor, Stage, p, Pass>>

Precedes(r, s) == \E i \in 1..6 : r[i] < s[i] /\ \A j \in 1..(i - 1) : r[j] = s[j]

(* Every pass of a loop brings the walk further, also where a cursor was    *)
(* taken back: "the caller's surrounding loop cannot stall".                *)
Progress == [][Precedes(Rank, Rank')]_vars

(* Elements end at commas outside quoted-strings, wherever in the element   *)
(* evaluating its parameters stopped or gave up: "the quote-aware           *)
(* element-skip swallows the whole quoted blob".                            *)
ElementsWhole ==
  pc = "element" /\ p \in 2..Len(Text) => Text[p] = "," /\ Mode(Text)[p - 1] = "plain"
=============================================================================
