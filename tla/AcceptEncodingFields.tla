------------------------ MODULE AcceptEncodingFields ------------------------
(***************************************************************************)
(* What an Accept-Encoding field means by the grammar of RFC 9110 (12.5.3,  *)
(* 12.4.2), read off its octets without a walk: which lie in a member, in a *)
(* parameter, in a name or in a value, and what the member then says.       *)
(***************************************************************************)
EXTENDS AcceptEncoding

(* The coding is a word: no octet that ends a name compares as one of its.  *)
ASSUME CodingAssumption ==
  /\ Coding # <<>>
  /\ \A c \in Chars \cap (OWS \cup {";", ",", Quote}), i \in 1..Len(Coding) : Lower[c] # Coding[i]

(* The octets of set outside quoted-strings.                                *)
Unquoted(t, set) == {k \in DOMAIN t : t[k] \in set /\ Mode(t)[k - 1] = "plain"}

(* Where a piece of the line that begins at i ends.                         *)
Until(t, i) ==
  LET ends == {k \in Unquoted(t, {",", ";"}) : k >= i} \cup {Len(t) + 1}
  IN  CHOOSE k \in ends : \A j \in ends : k <= j

(* The word a..b that the octets from i up to j consist of besides blanks.  *)
Words(t, i, j) ==
  LET solid == {k \in i..(j - 1) : t[k] \notin OWS}
  IN  {w \in solid \X solid : solid = w[1]..w[2]}

(* Members are known by their first octet, parameters by their semicolon.   *)
Members(t) == {1} \cup {k + 1 : k \in Unquoted(t, {","})}

ParametersOf(t, m) ==
  {s \in Unquoted(t, {";"}) : m <= s /\ \A k \in Unquoted(t, {","}) : k < m \/ s < k}

(* The first "=" of a parameter, or its end.                                *)
NameUntil(t, s) ==
  LET ends == {k \in (s + 1)..(Until(t, s + 1) - 1) : t[k] = "="} \cup {Until(t, s + 1)}
  IN  CHOOSE k \in ends : \A j \in ends : k <= j

NamesOf(t, s) == Words(t, s + 1, NameUntil(t, s))

ValuesOf(t, s) == Words(t, NameUntil(t, s) + 1, Until(t, s + 1))

IsWeight(t, s) == \E w \in NamesOf(t, s) : w[1] = w[2] /\ t[w[1]] \in {"q", "Q"}

(* qvalue = ( "0" [ "." 0*3DIGIT ] ) / ( "1" [ "." 0*3("0") ] )             *)
IsQvalue(t, w) ==
  /\ t[w[1]] \in {"0", "1"} /\ w[2] <= w[1] + 4
  /\ w[1] < w[2] => t[w[1] + 1] = "."
  /\ \A k \in (w[1] + 2)..w[2] : t[k] \in (IF t[w[1]] = "0" THEN Digit ELSE {"0"})

Thousandths(t, w) ==
  LET digit(k) == IF k <= w[2] THEN CHOOSE d \in 0..9 : Digits[d + 1] = t[k] ELSE 0
  IN  IF t[w[1]] = "1" THEN 1000
      ELSE 100 * digit(w[1] + 2) + 10 * digit(w[1] + 3) + digit(w[1] + 4)

WeightsGiven(t, s) == {Thousandths(t, w) : w \in {v \in ValuesOf(t, s) : IsQvalue(t, v)}}

WellFormed(t, s) == NamesOf(t, s) # {} /\ (IsWeight(t, s) => WeightsGiven(t, s) # {})

(* A member's weight, -1 if a parameter is malformed or "q" comes twice.    *)
MemberWeight(t, m) ==
  LET weights == {s \in ParametersOf(t, m) : IsWeight(t, s)}
  IN  IF \/ \E s \in ParametersOf(t, m) : ~WellFormed(t, s)
         \/ \E r, s \in weights : r # s
      THEN -1
      ELSE IF weights = {} THEN 1000
      ELSE CHOOSE q0 \in 0..1000 : \A s \in weights : q0 \in WeightsGiven(t, s)

NamesCoding(t, w) ==
  /\ w[2] - w[1] + 1 = Len(Coding)
  /\ \A i \in 1..Len(Coding) : Lower[t[w[1] + i - 1]] = Coding[i]

NamesStar(t, w) == w[1] = w[2] /\ t[w[1]] = "*" /\ ~NamesCoding(t, w)

(* The members that say a weight for the coding, or for "*".                *)
Saying(t, form) ==
  {m \in Members(t) :
     /\ \E w \in Words(t, m, Until(t, m)) :
          IF form = "coding" THEN NamesCoding(t, w) ELSE NamesStar(t, w)
     /\ MemberWeight(t, m) >= 0}

(* The weight said latest in a field in a form, -1 if none is.              *)
Latest(f, form) ==
  LET places == UNION {{<<i, m>> : m \in Saying(f[i], form)} : i \in DOMAIN f}
      last == CHOOSE x \in places : \A y \in places :
                y[1] < x[1] \/ (y[1] = x[1] /\ y[2] <= x[2])
  IN  IF places = {} THEN -1 ELSE MemberWeight(f[last[1]], last[2])

Meaning(f) ==
  LET explicit == Latest(f, "coding")
  IN  IF explicit >= 0 THEN explicit
      ELSE IF AllowWildcard THEN Latest(f, "star")
      ELSE -1

(* No quoted-string begins where a parameter's name should be.              *)
NamesUnquoted(t) ==
  \A s \in Unquoted(t, {";"}) : \A k \in (s + 1)..(NameUntil(t, s) - 1) : t[k] # Quote

(* The walk stops when it is done, and nowhere before.                      *)
FieldsNext == Next \/ (pc = "done" /\ UNCHANGED vars)

FieldsSpec == Init /\ [][FieldsNext]_vars

(* "Multiple Accept-Encoding lines are semantically ONE comma-joined        *)
(* field": the latest explicit member decides wherever it stands, also      *)
(* against a "*" on a later line, and malformed members decide nothing.     *)
FieldMeansItsMembers ==
  pc = "done" /\ (\A i \in DOMAIN field : NamesUnquoted(field[i])) => FieldWeight = Meaning(field)
=============================================================================
