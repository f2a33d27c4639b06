---------------------------- MODULE QuotedStrings ----------------------------
(***************************************************************************)
(* Blanks and quoted-strings in the value of a header field (RFC 9110       *)
(* 5.6.3, 5.6.4), octet by octet: the reference that the walkers of         *)
(* Accept-Encoding and of Cache-Control are compared with.                  *)
(***************************************************************************)
EXTENDS Integers, Sequences

OWS == {" ", "\t"}
Quote == "\""
Backslash == "\\"

Modes == {"plain", "quoted", "escaped"}

ModeAfter(mode, octet) ==
  CASE mode = "plain" -> IF octet = Quote THEN "quoted" ELSE "plain"
    [] mode = "quoted" -> IF octet = Quote THEN "plain" ELSE IF octet = Backslash THEN "escaped" ELSE "quoted"
    [] mode = "escaped" -> "quoted"

(* What comes after the first k octets: text outside any quoted-string, the *)
(* inside of one or an escaped octet.                                       *)
Mode(v) ==
  LET mode[k \in 0..Len(v)] == IF k = 0 THEN "plain" ELSE ModeAfter(mode[k - 1], v[k])
  IN  mode
=============================================================================
