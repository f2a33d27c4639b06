----------------------------- MODULE NoTransform -----------------------------
(***************************************************************************)
(* Does a response carry "Cache-Control: no-transform"?  The walk of        *)
(* ngx_http_brotli_no_transform over the header list and of                 *)
(* ngx_http_brotli_cc_value_no_transform over a value.  A step is one       *)
(* header passed over or one segment of a value.                            *)
(***************************************************************************)
EXTENDS QuotedStrings, FiniteSetsExt

CONSTANTS
  Chars, Lower,         \* the octets, and what each compares as
  Directive,            \* "no-transform"
  Lists                 \* the header lists: sequences of parts, sequences of headers

(* Whether the hash of a header is set, whether its key is Cache-Control.   *)
Header == [live : BOOLEAN, cache_control : BOOLEAN, value : Seq(Chars)]

(* The directive is a word: no octet that delimits compares as one of its.  *)
ASSUME DirectiveAssumption ==
  /\ Directive \in Seq(Chars) \ {<<>>}
  /\ \A c \in OWS \cup {",", ";", "=", Quote}, k \in DOMAIN Directive :
       c \in Chars => Lower[c] # Directive[k]

(* ngx_list_push makes a part for the element it returns: only the first    *)
(* part may be empty.                                                       *)
ASSUME ListAssumption ==
  \A list \in Lists : list # <<>> /\ list \in Seq(Seq(Header)) /\ <<>> \notin {list[k] : k \in 2..Len(list)}

VARIABLES
  headers,              \* r->headers_out.headers
  part, i,              \* where the walk is in it
  p,                    \* the cursor in that header's value
  result                \* "none" until the walk returns

vars == <<headers, part, i, p, result>>

(***************************************************************************)
(* One segment of a value.                                                  *)
(***************************************************************************)
End(v) == Len(v) + 1

(* A loop that moves on from j until the octet is in set.                   *)
Upto(v, j, set) == Min({k \in j..Len(v) : v[k] \in set} \cup {End(v)})

Start(v) == Upto(v, p, Chars \ OWS)

(* Mutant: an escaped quote ends the string.                                *)
EscapesIgnored(v, j) == FALSE

(* The octet after a backslash is passed over, if there is one.             *)
Escapes(v, j) == v[j] = Backslash /\ j < Len(v)

(* From inside a quoted string to past its closing quote, or to the end.    *)
QuoteEnd(v, from) ==
  LET end[j \in from..End(v)] ==
        IF j = End(v) THEN j
        ELSE IF v[j] = Quote THEN j + 1
        ELSE IF Escapes(v, j) THEN end[j + 2]
        ELSE end[j + 1]
  IN  end[from]

(* Mutant: the next comma, quoted or not.                                   *)
SegmentEndAtComma(v, start) == Upto(v, start, {","})

(* The next comma outside any quoted string, or the end.                    *)
SegmentEnd(v, start) ==
  LET end[j \in start..End(v)] ==
        LET next == Upto(v, j, {",", Quote})
        IN  IF next < End(v) /\ v[next] = Quote THEN end[QuoteEnd(v, next + 1)] ELSE next
  IN  end[start]

Cut(v, start, seg_end) == Min({seg_end, Upto(v, start, {";", "="})})

(* The name ends at its last octet that is not blank.                       *)
Name(v, start, cut) ==
  SubSeq(v, start, Max({k \in start..(cut - 1) : v[k] \notin OWS} \cup {start - 1}))

IsDirective(name) ==
  Len(name) = Len(Directive) /\ \A k \in DOMAIN name : Lower[name[k]] = Directive[k]

(* Mutant: the comma is looked at again.                                    *)
ResumeAtComma(v, seg_end) == seg_end

Resume(v, seg_end) == Min({seg_end + 1, End(v)})

(***************************************************************************)
(* The walk.                                                                *)
(***************************************************************************)
header == headers[part][i]

InPart == result = "none" /\ i <= Len(headers[part])

Looked(h) == h.live /\ h.cache_control /\ h.value # <<>>

Segment ==
  /\ InPart /\ Looked(header) /\ p < End(header.value)
  /\ LET v == header.value
         seg_end == SegmentEnd(v, Start(v))
     IN  IF IsDirective(Name(v, Start(v), Cut(v, Start(v), seg_end)))
         THEN result' = "yes" /\ UNCHANGED p
         ELSE p' = Resume(v, seg_end) /\ UNCHANGED result
  /\ UNCHANGED <<headers, part, i>>

NextHeader ==
  /\ InPart /\ (Looked(header) => p = End(header.value))
  /\ i' = i + 1 /\ p' = 1
  /\ UNCHANGED <<headers, part, result>>

NextPart ==
  /\ result = "none" /\ i > Len(headers[part])
  /\ IF part < Len(headers)
     THEN part' = part + 1 /\ i' = 1 /\ UNCHANGED result
     ELSE result' = "no" /\ UNCHANGED <<part, i>>
  /\ UNCHANGED <<headers, p>>

Init == headers \in Lists /\ part = 1 /\ i = 1 /\ p = 1 /\ result = "none"

Next == Segment \/ NextHeader \/ NextPart

Spec == Init /\ [][Next]_vars

FairSpec == Spec /\ WF_vars(Next)

(***************************************************************************)
(* What a value says, octet by octet.                                       *)
(***************************************************************************)
(* The places that part the list's members.                                 *)
Commas(v) == {0, End(v)} \cup {k \in 1..Len(v) : v[k] = "," /\ Mode(v)[k - 1] = "plain"}

(* A member that is the directive: blanks, its name, blanks, and then the   *)
(* end of the member or what is not of the name any more.                   *)
Says(v) ==
  \E a, b \in Commas(v) : a < b /\
    \E from, to \in (a + 1)..(b - 1) :
      /\ IsDirective(SubSeq(v, from, to))
      /\ \A k \in (a + 1)..(from - 1) : v[k] \in OWS
      /\ LET rest == {k \in (to + 1)..(b - 1) : v[k] \notin OWS}
         IN  rest = {} \/ v[Min(rest)] \in {";", "=", ","}

(***************************************************************************)
(* Properties.                                                              *)
(***************************************************************************)
(* The walk finds the directive if and only if a line that is still in the  *)
(* list says it, on whichever line and in whichever part it is: text inside *)
(* a quoted argument is never taken for it, nor does an escape, a comma or  *)
(* a quote left open in one argument hide it in a later member.             *)
FoundIfSaid ==
  result # "none" =>
    (result = "yes" <=>
       \E k \in DOMAIN headers : \E h \in {headers[k][j] : j \in DOMAIN headers[k]} :
          h.live /\ h.cache_control /\ Says(h.value))

(* A segment starts where a member of the list does, never in a quoted      *)
(* string, and the cursor never passes the end.                             *)
SegmentsWhole ==
  InPart /\ Looked(header) =>
    /\ p <= End(header.value)
    /\ p - 1 \in Commas(header.value) \cup {Len(header.value)}

(* Every header list is walked to the end.                                  *)
WalkEnds == <>(result # "none")
=============================================================================
