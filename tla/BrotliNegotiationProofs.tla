----------------------- MODULE BrotliNegotiationProofs -----------------------
(***************************************************************************)
(* Theorems about BrotliNegotiation, for every set of clients, of origin    *)
(* responses, of configurations and of dictionary hashes.                   *)
(***************************************************************************)
EXTENDS BrotliNegotiation, SequenceTheorems, TLAPS

(***************************************************************************)
(* The inductive invariant, in parts.                                       *)
(***************************************************************************)
AnyCoding == {<<>>, <<"br">>, <<"dcb">>, <<"other">>}

ByAcceptance(x, c) == x.by = "filter" \/ (x.by = "static" /\ c.static # "always")

(* x was the right answer to q in configuration c.                          *)
Justified(x, q, c) ==
  /\ x.codings \in AnyCoding
  /\ x.by = "nginx" => x.codings \in {<<>>, <<"other">>}
  /\ x.by = "static" => x.codings = <<"br">>
  /\ x.by = "filter" => /\ x.codings \in {<<"br">>, <<"dcb">>}
                        /\ ~(c.bypass /\ q.cookie)
  /\ ByAcceptance(x, c) /\ x.codings = <<"br">> => q.main /\ Accepted(q, "br", TRUE)
  /\ x.codings = <<"dcb">> => /\ q.main /\ Accepted(q, "dcb", FALSE)
                              /\ q.dict = x.dict /\ q.site # "cross-site"

(* x tells caches what that depended on; br may still leave it to the core. *)
Announced(x, c) ==
  /\ ByAcceptance(x, c) /\ x.codings = <<"br">>
     => "Accept-Encoding" \in Listed(x.vary) \/ (x.gzip_vary /\ c.gzip_vary)
  /\ x.codings = <<"dcb">>
     => {"Accept-Encoding", "Available-Dictionary", "Sec-Fetch-Site"} \subseteq Listed(x.vary)
  /\ x.by = "filter" /\ c.bypass_vary => "Cookie" \in Listed(x.vary)

(* The same once the core header filter has run.                            *)
Published(x, c) ==
  /\ Announced(x, c)
  /\ ByAcceptance(x, c) /\ x.codings = <<"br">> => "Accept-Encoding" \in Listed(x.vary)

Pipeline ==
  /\ pc \in {"idle", "static"} => r = NoResponse /\ sidecar = "unprobed"
  /\ pc = "closed" => r = NoResponse
  /\ pc = "handler" => r.by = "nginx" /\ r.codings = <<>> /\ ~r.gzip_off
  /\ pc = "header" => r.by # "filter"
  /\ pc \in {"header", "gzip", "core", "sent"} => Justified(r, req, conf) /\ Announced(r, conf)
  /\ pc = "sent" => Published(r, conf)

Stored == \A e \in cache : Justified(e.r, e.req, conf) /\ Published(e.r, conf) /\ e.req.main

FromCache == pc = "hit" => \E e \in cache : Matches(e, req) /\ r = e.r

Inv == TypeOK /\ Pipeline /\ Stored /\ FromCache

(***************************************************************************)
(* Vary lines.                                                              *)
(***************************************************************************)

(* A pushed line is listed, and what was listed stays.                      *)
LEMMA ListedAppend ==
  ASSUME NEW v \in VaryLines, NEW names \in SUBSET Headers
  PROVE  /\ Append(v, names) \in VaryLines
         /\ Listed(Append(v, names)) = Listed(v) \cup names
<1>1. /\ Append(v, names) \in Seq(SUBSET Headers)
      /\ Len(Append(v, names)) = Len(v) + 1
      /\ \A j \in 1..Len(v) : Append(v, names)[j] = v[j]
      /\ Append(v, names)[Len(v) + 1] = names
  BY AppendProperties DEF VaryLines
<1>2. DOMAIN v = 1..Len(v) /\ DOMAIN Append(v, names) = 1..(Len(v) + 1) /\ Len(v) \in Nat
  BY <1>1, LenProperties DEF VaryLines
<1>3. 1..(Len(v) + 1) = 1..Len(v) \cup {Len(v) + 1}
  BY <1>2
<1>4. ASSUME NEW h
      PROVE  h \in Listed(Append(v, names)) <=> h \in Listed(v) \cup names
  BY <1>1, <1>2, <1>3 DEF Listed
<1> QED
  BY <1>1, <1>4 DEF VaryLines

(* Lines put in front of others keep them.                                  *)
LEMMA ListedConcat ==
  ASSUME NEW v \in VaryLines, NEW w \in VaryLines
  PROVE  /\ v \o w \in VaryLines
         /\ Listed(v) \subseteq Listed(v \o w)
<1>1. /\ v \o w \in Seq(SUBSET Headers)
      /\ Len(v \o w) = Len(v) + Len(w)
      /\ \A j \in 1..Len(v) : (v \o w)[j] = v[j]
  BY ConcatProperties DEF VaryLines
<1>2. /\ DOMAIN v = 1..Len(v) /\ DOMAIN (v \o w) = 1..(Len(v) + Len(w))
      /\ Len(v) \in Nat /\ Len(w) \in Nat
  BY <1>1, LenProperties DEF VaryLines
<1>3. ASSUME NEW h \in Listed(v)
      PROVE  h \in Listed(v \o w)
  BY <1>1, <1>2 DEF Listed
<1> QED
  BY <1>1, <1>3 DEF VaryLines

(* After vary_accept_encoding the name is listed, or the core will list it. *)
LEMMA VaryType ==
  ASSUME NEW x \in Responses, conf \in Configs
  PROVE  /\ VaryAcceptEncoding(x) \in Responses
         /\ VaryAcceptEncoding(x) = [x EXCEPT !.gzip_vary = TRUE,
                                              !.vary = VaryAcceptEncoding(x).vary]
         /\ VaryAcceptEncoding(x).gzip_vary
         /\ Listed(x.vary) \subseteq Listed(VaryAcceptEncoding(x).vary)
         /\ \/ "Accept-Encoding" \in Listed(VaryAcceptEncoding(x).vary)
            \/ conf.gzip_vary
<1>1. x.vary \in VaryLines /\ {"Accept-Encoding"} \in SUBSET Headers
  BY DEF Responses, Headers
<1>2. /\ Append(x.vary, {"Accept-Encoding"}) \in VaryLines
      /\ Listed(Append(x.vary, {"Accept-Encoding"})) = Listed(x.vary) \cup {"Accept-Encoding"}
  BY <1>1, ListedAppend
<1>3. /\ VaryAcceptEncoding(x).vary = IF conf.gzip_vary \/ "Accept-Encoding" \in Listed(x.vary)
                                      THEN x.vary ELSE Append(x.vary, {"Accept-Encoding"})
      /\ VaryAcceptEncoding(x).gzip_vary
  BY DEF VaryAcceptEncoding, Responses
<1>4. VaryAcceptEncoding(x) \in Responses
  BY <1>1, <1>2 DEF VaryAcceptEncoding, Responses
<1>5. VaryAcceptEncoding(x) = [x EXCEPT !.gzip_vary = TRUE, !.vary = VaryAcceptEncoding(x).vary]
  BY <1>3 DEF VaryAcceptEncoding
<1> QED
  BY <1>1, <1>2, <1>3, <1>4, <1>5

(* What an origin response may be.                                          *)
LEMMA OriginType ==
  ASSUME NEW o \in Origins
  PROVE  /\ o \in Responses
         /\ o.by = "nginx" /\ o.dict = NoHash /\ o.codings \in {<<>>, <<"other">>}
         /\ ~o.gzip_vary /\ ~o.gzip_off
BY NegotiationAssumption

(* The response before anything has answered.                               *)
LEMMA NoResponseType == NoResponse \in Responses
<1>1. <<>> \in VaryLines /\ <<>> \in Seq(Codings)
  BY EmptySeq DEF VaryLines
<1> QED
  BY <1>1 DEF NoResponse, Responses, Unset

(* One-element sequences of codings.                                        *)
LEMMA CodingsType ==
  /\ AnyCoding \subseteq Seq(Codings)
  /\ Append(<<>>, "br") = <<"br">> /\ Append(<<>>, "dcb") = <<"dcb">>
  /\ \A s \in AnyCoding : Len(s) <= 1
<1>1. <<"br">> \in Seq(Codings) /\ <<"dcb">> \in Seq(Codings) /\ <<"other">> \in Seq(Codings)
  BY DEF Codings
<1>2. <<>> \in Seq(Codings)
  BY EmptySeq
<1>3. Append(<<>>, "br") = <<"br">> /\ Append(<<>>, "dcb") = <<"dcb">>
  OBVIOUS
<1>4. \A s \in AnyCoding : Len(s) <= 1
  BY DEF AnyCoding
<1> QED
  BY <1>1, <1>2, <1>3, <1>4 DEF AnyCoding

(* An adopted response, its Vary lines and flags.                           *)
LEMMA AdoptType ==
  ASSUME NEW o \in Origins, NEW x \in Responses, Adopt(o, x)
  PROVE  /\ r' \in Responses
         /\ r'.by = "nginx" /\ r'.codings \in {<<>>, <<"other">>}
         /\ r'.codings = o.codings /\ r'.status = o.status
         /\ r'.no_transform = o.no_transform
         /\ r'.gzip_vary = x.gzip_vary /\ r'.gzip_off = x.gzip_off
         /\ r'.vary = x.vary \o o.vary /\ Listed(x.vary) \subseteq Listed(r'.vary)
<1>1. o \in Responses /\ o.vary \in VaryLines /\ x.vary \in VaryLines
  BY OriginType DEF Responses
<1>2. x.vary \o o.vary \in VaryLines /\ Listed(x.vary) \subseteq Listed(x.vary \o o.vary)
  BY <1>1, ListedConcat
<1>3. /\ r'.vary = x.vary \o o.vary /\ r'.by = o.by /\ r'.codings = o.codings
      /\ r'.status = o.status /\ r'.no_transform = o.no_transform
      /\ r'.gzip_vary = x.gzip_vary /\ r'.gzip_off = x.gzip_off
  BY <1>1 DEF Adopt, Responses
<1>4. r' \in Responses
  BY <1>1, <1>2 DEF Adopt, Responses
<1> QED
  BY <1>2, <1>3, <1>4, OriginType

(* The response the sidecar handler prepares.                               *)
LEMMA SidecarType ==
  ASSUME r \in Responses, conf \in Configs
  PROVE  /\ Sidecar \in Responses
         /\ Sidecar.by = r.by /\ Sidecar.codings = r.codings /\ Sidecar.status = r.status
         /\ conf.static = "on" =>
              /\ Sidecar.gzip_vary
              /\ "Accept-Encoding" \in Listed(Sidecar.vary) \/ conf.gzip_vary
<1> DEFINE v == VaryAcceptEncoding(r)
<1>1. /\ v \in Responses
      /\ v = [r EXCEPT !.gzip_vary = TRUE, !.vary = v.vary] /\ v.gzip_vary
      /\ "Accept-Encoding" \in Listed(v.vary) \/ conf.gzip_vary
  BY VaryType
<1>2. v.by = r.by /\ v.codings = r.codings /\ v.status = r.status
  BY <1>1 DEF Responses
<1> HIDE DEF v
<1>3. /\ Latched(v) \in Responses /\ Latched(v).by = v.by /\ Latched(v).codings = v.codings
      /\ Latched(v).status = v.status
      /\ Latched(v).gzip_vary = v.gzip_vary /\ Latched(v).vary = v.vary
  BY <1>1 DEF Latched, Responses
<1>4. Sidecar = IF conf.static = "on" THEN Latched(v) ELSE r
  BY DEF Sidecar, v
<1> QED
  BY <1>1, <1>2, <1>3, <1>4

(* What the header filter has added before it decides on a coding.          *)
LEMMA NegotiatedType ==
  ASSUME r \in Responses, conf \in Configs
  PROVE  LET x == Negotiated(BypassVary(r)) IN
         /\ BypassVary(r) \in Responses /\ x \in Responses
         /\ BypassVary(r) = [r EXCEPT !.vary = BypassVary(r).vary]
         /\ x = [r EXCEPT !.vary = x.vary, !.gzip_vary = x.gzip_vary]
         /\ r.gzip_vary => x.gzip_vary
         /\ Listed(r.vary) \subseteq Listed(BypassVary(r).vary)
         /\ Listed(r.vary) \subseteq Listed(x.vary)
         /\ "Accept-Encoding" \in Listed(x.vary) \/ (x.gzip_vary /\ conf.gzip_vary)
         /\ dcb_dicts # {} =>
              {"Accept-Encoding", "Available-Dictionary", "Sec-Fetch-Site"}
                \subseteq Listed(x.vary)
         /\ conf.bypass_vary => "Cookie" \in Listed(x.vary)
<1> DEFINE b == BypassVary(r)
           three == {"Accept-Encoding", "Available-Dictionary", "Sec-Fetch-Site"}
<1>1. r.vary \in VaryLines /\ {"Cookie"} \in SUBSET Headers /\ three \in SUBSET Headers
  BY DEF Responses, Headers
<1>2. /\ Append(r.vary, {"Cookie"}) \in VaryLines
      /\ Listed(Append(r.vary, {"Cookie"})) = Listed(r.vary) \cup {"Cookie"}
  BY <1>1, ListedAppend
<1>3. /\ b \in Responses /\ b = [r EXCEPT !.vary = b.vary] /\ b.gzip_vary = r.gzip_vary
      /\ Listed(r.vary) \subseteq Listed(b.vary)
      /\ conf.bypass_vary => "Cookie" \in Listed(b.vary)
  BY <1>1, <1>2 DEF BypassVary, Responses
<1>4. b.vary \in VaryLines
  BY <1>3 DEF Responses
<1>5. Append(b.vary, three) \in VaryLines /\ Listed(Append(b.vary, three)) = Listed(b.vary) \cup three
  BY <1>1, <1>4, ListedAppend
<1>6. CASE dcb_dicts # {}
  <2> DEFINE x == Negotiated(b)
  <2>1. x = [b EXCEPT !.vary = Append(b.vary, three)]
    BY <1>6 DEF Negotiated
  <2> HIDE DEF b, x, three
  <2>2. /\ x \in Responses /\ x.vary = Append(b.vary, three) /\ x.gzip_vary = b.gzip_vary
        /\ x = [r EXCEPT !.vary = x.vary, !.gzip_vary = x.gzip_vary]
    <3>1. x \in Responses /\ x.vary = Append(b.vary, three) /\ x.gzip_vary = b.gzip_vary
      BY <1>3, <1>5, <2>1 DEF Responses
    <3>2. x = [r EXCEPT !.vary = x.vary, !.gzip_vary = x.gzip_vary]
      <4>1. x = [[r EXCEPT !.vary = b.vary] EXCEPT !.vary = x.vary]
        BY <1>3, <2>1, <3>1
      <4>2. x.gzip_vary = r.gzip_vary
        BY <1>3, <3>1
      <4> QED
        BY <4>1, <4>2 DEF Responses
    <3> QED
      BY <3>1, <3>2
  <2> QED
    BY <1>3, <1>5, <2>2 DEF b, x, three
<1>7. CASE dcb_dicts = {}
  <2> DEFINE x == Negotiated(b)
  <2>1. x = VaryAcceptEncoding(b)
    BY <1>7 DEF Negotiated
  <2> HIDE DEF b, x
  <2>2. /\ x \in Responses /\ x = [b EXCEPT !.gzip_vary = TRUE, !.vary = x.vary] /\ x.gzip_vary
        /\ Listed(b.vary) \subseteq Listed(x.vary)
        /\ "Accept-Encoding" \in Listed(x.vary) \/ conf.gzip_vary
    BY <1>3, <2>1, VaryType
  <2>3. x = [r EXCEPT !.vary = x.vary, !.gzip_vary = x.gzip_vary]
    BY <1>3, <2>2 DEF Responses
  <2> QED
    BY <1>3, <1>7, <2>2, <2>3 DEF b, x
<1> QED
  BY <1>6, <1>7

(* The encoded response.                                                    *)
LEMMA EncodedType ==
  ASSUME NEW x \in Responses, x.codings = <<>>, NEW dict \in Hashes \cup {NoHash},
         NEW coding \in {"br", "dcb"}
  PROVE  LET y == Encoded(x, coding, dict) IN
         /\ y \in Responses
         /\ y.codings = <<coding>> /\ y.by = "filter" /\ y.dict = dict
         /\ y.vary = x.vary /\ y.gzip_vary = x.gzip_vary
<1>1. Latched(x) = [x EXCEPT !.gzip_off = TRUE]
  BY DEF Latched
<1>2. Append(x.codings, coding) = <<coding>> /\ <<coding>> \in Seq(Codings)
  BY DEF Codings
<1> DEFINE y == Encoded(x, coding, dict)
<1>3. y = [x EXCEPT !.gzip_off = TRUE, !.codings = <<coding>>, !.by = "filter", !.dict = dict,
                    !.length = Unset]
  BY <1>1, <1>2 DEF Encoded, Responses
<1> HIDE DEF y
<1>4. /\ y.codings = <<coding>> /\ y.by = "filter" /\ y.dict = dict
      /\ y.vary = x.vary /\ y.gzip_vary = x.gzip_vary
  BY <1>3 DEF Responses
<1>5. y \in Responses
  BY <1>2, <1>3 DEF Responses
<1> QED
  BY <1>4, <1>5 DEF y

(***************************************************************************)
(* The steps.                                                               *)
(***************************************************************************)

(* A response that no one has encoded is the right answer to anybody.       *)
LEMMA PlainIsRight ==
  ASSUME NEW x \in Responses, NEW q, NEW c, x.by = "nginx", x.codings \in {<<>>, <<"other">>}
  PROVE  Justified(x, q, c) /\ Announced(x, c) /\ Published(x, c)
<1>1. <<>> # <<"br">> /\ <<>> # <<"dcb">> /\ <<"other">> # <<"br">> /\ <<"other">> # <<"dcb">>
  OBVIOUS
<1>2. x.codings # <<"br">> /\ x.codings # <<"dcb">> /\ x.codings \in AnyCoding
  BY <1>1 DEF AnyCoding
<1> QED
  BY <1>2 DEF Justified, Announced, Published

(* More Vary lines, and a raised gzip_vary, announce no less.               *)
LEMMA AnnouncedMore ==
  ASSUME NEW x \in Responses, NEW y \in Responses, NEW q, NEW c,
         y.by = x.by, y.codings = x.codings, y.dict = x.dict,
         x.gzip_vary => y.gzip_vary, Listed(x.vary) \subseteq Listed(y.vary)
  PROVE  /\ Justified(x, q, c) => Justified(y, q, c)
         /\ Announced(x, c) => Announced(y, c)
BY DEF Justified, Announced, ByAcceptance

(* The served sidecar.                                                      *)
LEMMA ServesRight ==
  ASSUME Inv, ServesSidecar
  PROVE  r' \in Responses /\ r'.by = "static" /\ Justified(r', req, conf) /\ Announced(r', conf)
<1>1. /\ Sidecar \in Responses
      /\ conf.static = "on" => /\ Sidecar.gzip_vary
                               /\ "Accept-Encoding" \in Listed(Sidecar.vary) \/ conf.gzip_vary
  BY SidecarType DEF Inv, TypeOK
<1>2. /\ \E status \in {200, 500} :
           r' = [Sidecar EXCEPT !.codings = <<"br">>, !.by = "static", !.status = status]
      /\ conf.static = "always" \/ Accepts
      /\ conf.static \in {"on", "always"}
  BY NegotiationAssumption DEF ServesSidecar, Probes, Inv, TypeOK, Configurations
<1>3. <<"br">> \in Seq(Codings) /\ <<"br">> # <<"dcb">> /\ <<"br">> \in AnyCoding
  BY DEF Codings, AnyCoding
<1>4. /\ r' \in Responses /\ r'.codings = <<"br">> /\ r'.by = "static"
      /\ r'.vary = Sidecar.vary /\ r'.gzip_vary = Sidecar.gzip_vary
  <2>1. PICK status \in {200, 500} :
          r' = [Sidecar EXCEPT !.codings = <<"br">>, !.by = "static", !.status = status]
    BY <1>2
  <2>2. status \in Nat
    BY <2>1
  <2>3. r' \in Responses
    BY <1>1, <1>3, <2>1, <2>2 DEF Responses
  <2>4. /\ r'.codings = <<"br">> /\ r'.by = "static"
        /\ r'.vary = Sidecar.vary /\ r'.gzip_vary = Sidecar.gzip_vary
    BY <1>1, <2>1 DEF Responses
  <2> QED
    BY <2>3, <2>4
<1>5. ByAcceptance(r', conf) => req.main /\ Accepted(req, "br", TRUE)
  BY <1>2, <1>4 DEF ByAcceptance, Accepts
<1>6. Justified(r', req, conf)
  BY <1>3, <1>4, <1>5 DEF Justified
<1>7. Announced(r', conf)
  BY <1>1, <1>2, <1>3, <1>4 DEF Announced, ByAcceptance
<1> QED
  BY <1>4, <1>6, <1>7

(* The decision of the header filter.                                       *)
LEMMA NegotiatesRight ==
  ASSUME Inv, Negotiate
  PROVE  r' \in Responses /\ Justified(r', req, conf) /\ Announced(r', conf)
<1> DEFINE x == Negotiated(BypassVary(r))
<1>0. r \in Responses /\ conf \in Configs /\ req \in Requests /\ dcb_dicts \subseteq Hashes
  BY NegotiationAssumption DEF Inv, TypeOK
<1>1. /\ x \in Responses
      /\ x = [r EXCEPT !.vary = x.vary, !.gzip_vary = x.gzip_vary]
      /\ "Accept-Encoding" \in Listed(x.vary) \/ (x.gzip_vary /\ conf.gzip_vary)
      /\ dcb_dicts # {} => {"Accept-Encoding", "Available-Dictionary", "Sec-Fetch-Site"}
                             \subseteq Listed(x.vary)
      /\ conf.bypass_vary => "Cookie" \in Listed(x.vary)
  BY <1>0, NegotiatedType
<1>2. /\ r.codings = <<>> /\ ~(conf.bypass /\ req.cookie) /\ pc = "header"
      /\ \/ AcceptsDcb /\ r' = Encoded(x, "dcb", req.dict)
         \/ ~AcceptsDcb /\ Accepts /\ r' = Encoded(x, "br", NoHash)
         \/ ~AcceptsDcb /\ ~Accepts /\ r' = x
  BY DEF Negotiate, InHeaderFilter, Eligible, Bypassed
<1> HIDE DEF x
<1>3. x.codings = <<>> /\ x.by = r.by
  BY <1>0, <1>1, <1>2 DEF Responses
<1>4. <<"br">> # <<"dcb">> /\ <<"br">> \in AnyCoding /\ <<"dcb">> \in AnyCoding
  BY DEF AnyCoding
<1>5. CASE AcceptsDcb
  <2>1. /\ r' = Encoded(x, "dcb", req.dict) /\ req.dict \in Hashes /\ dcb_dicts # {}
        /\ req.main /\ Accepted(req, "dcb", FALSE) /\ req.site # "cross-site"
    BY <1>0, <1>2, <1>5 DEF AcceptsDcb
  <2>2. /\ r' \in Responses /\ r'.codings = <<"dcb">> /\ r'.by = "filter"
        /\ r'.dict = req.dict /\ r'.vary = x.vary
    BY <1>1, <1>3, <2>1, EncodedType
  <2> QED
    BY <1>1, <1>2, <1>4, <2>1, <2>2 DEF Justified, Announced
<1>6. CASE ~AcceptsDcb /\ Accepts
  <2>1. r' = Encoded(x, "br", NoHash) /\ req.main /\ Accepted(req, "br", TRUE)
    BY <1>2, <1>6 DEF Accepts
  <2>2. /\ r' \in Responses /\ r'.codings = <<"br">> /\ r'.by = "filter"
        /\ r'.vary = x.vary /\ r'.gzip_vary = x.gzip_vary
    BY <1>1, <1>3, <2>1, EncodedType
  <2> QED
    BY <1>1, <1>2, <1>4, <2>1, <2>2 DEF Justified, Announced
<1>7. CASE ~AcceptsDcb /\ ~Accepts
  <2>1. r.by = "nginx"
    <3>1. r.by # "filter" /\ Justified(r, req, conf)
      BY <1>2 DEF Inv, Pipeline
    <3>2. <<>> # <<"br">>
      OBVIOUS
    <3> QED
      BY <1>0, <1>2, <3>1, <3>2 DEF Justified, Responses
  <2> QED
    BY <1>1, <1>2, <1>3, <1>7, <2>1, PlainIsRight
<1> QED
  BY <1>5, <1>6, <1>7

(* Steps that leave configuration, request and cache alone need only say    *)
(* what the new response is.                                                *)
LEMMA InvFrame ==
  ASSUME Inv, UNCHANGED <<conf, dcb_dicts, req, cache>>, r' \in Responses,
         sidecar' \in {"unprobed", "unusable", "usable"},
         pc' \in {"static", "handler", "header", "gzip", "core", "sent", "closed"}, Pipeline'
  PROVE  Inv'
<1>1. TypeOK'
  BY DEF Inv, TypeOK
<1>2. Stored'
  BY DEF Inv, Stored
<1>3. FromCache'
  BY DEF FromCache
<1> QED
  BY <1>1, <1>2, <1>3 DEF Inv

(* The invariant holds before the first request, ...                        *)
LEMMA InvInit == Init => Inv
<1> SUFFICES ASSUME Init
             PROVE  Inv
  OBVIOUS
<1>1. TypeOK
  BY NoResponseType DEF Init, TypeOK
<1>2. Pipeline /\ Stored /\ FromCache
  BY DEF Init, Pipeline, Stored, FromCache
<1> QED
  BY <1>1, <1>2 DEF Inv

(* ... and every step keeps it.                                             *)
LEMMA InvStep == Inv /\ [Next]_vars => Inv'
<1> SUFFICES ASSUME Inv, [Next]_vars
             PROVE  Inv'
  OBVIOUS
<1>0. r \in Responses /\ conf \in Configs /\ req \in Requests /\ conf \in Configurations
  BY NegotiationAssumption DEF Inv, TypeOK
<1>1. CASE Hit
  <2>1. PICK e \in cache : Matches(e, req) /\ r' = e.r
    BY <1>1 DEF Hit
  <2>2. pc' = "hit" /\ UNCHANGED <<conf, dcb_dicts, req, sidecar, cache>>
    BY <1>1 DEF Hit
  <2>3. TypeOK'
    BY <2>1, <2>2 DEF Inv, TypeOK
  <2>4. Pipeline' /\ Stored'
    BY <2>2 DEF Inv, Pipeline, Stored
  <2>5. FromCache'
    BY <2>1, <2>2 DEF FromCache, Matches, Field
  <2> QED
    BY <2>3, <2>4, <2>5 DEF Inv
<1>2. CASE Forward
  <2>1. pc = "idle" /\ pc' = "static" /\ UNCHANGED <<conf, dcb_dicts, req, r, sidecar, cache>>
    BY <1>2 DEF Forward
  <2>2. Pipeline'
    BY <2>1 DEF Inv, Pipeline
  <2> QED
    BY <1>0, <2>1, <2>2, InvFrame DEF Inv, TypeOK
<1>3. CASE Deliver
  <2>1. /\ pc' = "idle" /\ r' = NoResponse /\ sidecar' = "unprobed" /\ req' \in Clients
        /\ UNCHANGED <<conf, dcb_dicts>>
        /\ \/ cache' = cache
           \/ pc = "sent" /\ req.main /\ cache' = {[req |-> req, r |-> r]}
    BY <1>3 DEF Deliver
  <2>2. TypeOK'
    BY <2>1, NoResponseType DEF Inv, TypeOK
  <2>3. Pipeline' /\ FromCache'
    BY <2>1 DEF Pipeline, FromCache
  <2>4. Stored'
    <3>1. CASE cache' = cache
      BY <2>1, <3>1 DEF Inv, Stored
    <3>2. CASE pc = "sent" /\ req.main /\ cache' = {[req |-> req, r |-> r]}
      <4>1. Justified(r, req, conf) /\ Published(r, conf)
        BY <3>2 DEF Inv, Pipeline
      <4> QED
        BY <2>1, <3>2, <4>1 DEF Stored
    <3> QED
      BY <2>1, <3>1, <3>2
  <2> QED
    BY <2>2, <2>3, <2>4 DEF Inv
<1>4. CASE Reload
  <2>1. UNCHANGED <<conf, pc, req, r, sidecar, cache>> /\ dcb_dicts' \in SUBSET Hashes /\ pc = "idle"
    BY <1>4 DEF Reload
  <2>2. TypeOK'
    BY <2>1 DEF Inv, TypeOK
  <2>3. Pipeline' /\ Stored' /\ FromCache'
    BY <2>1 DEF Inv, Pipeline, Stored, FromCache
  <2> QED
    BY <2>2, <2>3 DEF Inv
<1>5. CASE SkipSidecar
  <2>1. /\ pc = "static" /\ pc' = "handler"
        /\ UNCHANGED <<conf, dcb_dicts, req, cache, r, sidecar>>
    BY <1>5 DEF SkipSidecar, InStatic
  <2>2. Pipeline'
    BY <2>1 DEF Inv, Pipeline, NoResponse
  <2> QED
    BY <1>0, <2>1, <2>2, InvFrame DEF Inv, TypeOK
<1>6. CASE MissesSidecar
  <2>1. /\ pc = "static" /\ pc' = "handler" /\ sidecar' = "unusable" /\ r' = r
        /\ UNCHANGED <<conf, dcb_dicts, req, cache>>
    BY <1>6 DEF MissesSidecar, Missed, InStatic
  <2>2. Pipeline'
    BY <2>1 DEF Inv, Pipeline, NoResponse
  <2> QED
    BY <1>0, <2>1, <2>2, InvFrame
<1>7. CASE RefusesSidecar
  <2>1. /\ pc = "static" /\ pc' = "handler" /\ sidecar' = "usable"
        /\ r' = VaryAcceptEncoding(r) /\ UNCHANGED <<conf, dcb_dicts, req, cache>>
    BY <1>7 DEF RefusesSidecar, Refused, InStatic
  <2>2. r' \in Responses /\ r' = [r EXCEPT !.gzip_vary = TRUE, !.vary = r'.vary]
    BY <1>0, <2>1, VaryType
  <2>3. r.by = "nginx" /\ r.codings = <<>> /\ ~r.gzip_off
    BY <2>1 DEF Inv, Pipeline, NoResponse
  <2>4. r'.by = "nginx" /\ r'.codings = <<>> /\ ~r'.gzip_off
    BY <1>0, <2>2, <2>3 DEF Responses
  <2>5. Pipeline'
    BY <2>1, <2>4 DEF Pipeline
  <2> QED
    BY <2>1, <2>2, <2>5, InvFrame
<1>8. CASE ServesSidecar
  <2>1. pc' = "header" /\ sidecar' = "usable" /\ UNCHANGED <<conf, dcb_dicts, req, cache>>
    BY <1>8 DEF ServesSidecar, InStatic
  <2>2. r' \in Responses /\ r'.by = "static" /\ Justified(r', req, conf) /\ Announced(r', conf)
    BY <1>8, ServesRight
  <2>3. Pipeline'
    BY <2>1, <2>2 DEF Pipeline
  <2> QED
    BY <2>1, <2>2, <2>3, InvFrame
<1>9. CASE SidecarFails
  <2>1. pc' = "header" /\ UNCHANGED <<conf, dcb_dicts, req, cache>> /\ pc = "static"
    BY <1>9 DEF SidecarFails, InStatic
  <2>2. /\ sidecar' \in {"unusable", "usable"}
        /\ \E o \in Origins :
             \/ Adopt(o, r)
             \/ Adopt(o, [r EXCEPT !.gzip_vary = TRUE])
             \/ Adopt(o, Sidecar)
    BY <1>9 DEF SidecarFails
  <2>3. [r EXCEPT !.gzip_vary = TRUE] \in Responses /\ Sidecar \in Responses
    BY <1>0, SidecarType DEF Responses
  <2>4. r' \in Responses /\ r'.by = "nginx" /\ r'.codings \in {<<>>, <<"other">>}
    BY <1>0, <2>2, <2>3, AdoptType
  <2>5. Pipeline'
    BY <2>1, <2>4, PlainIsRight DEF Pipeline
  <2> QED
    BY <2>1, <2>2, <2>4, <2>5, InvFrame
<1>10. CASE Respond
  <2>1. pc' = "header" /\ UNCHANGED <<conf, dcb_dicts, req, sidecar, cache>>
        /\ \E o \in Origins : Adopt(o, r)
    BY <1>10 DEF Respond
  <2>2. r' \in Responses /\ r'.by = "nginx" /\ r'.codings \in {<<>>, <<"other">>}
    BY <1>0, <2>1, AdoptType
  <2>3. Pipeline'
    BY <2>1, <2>2, PlainIsRight DEF Pipeline
  <2> QED
    BY <2>1, <2>2, <2>3, InvFrame DEF Inv, TypeOK
<1>11. CASE LeaveAlone
  <2>1. pc = "header" /\ pc' = "gzip" /\ UNCHANGED <<conf, dcb_dicts, req, cache, r, sidecar>>
    BY <1>11 DEF LeaveAlone, InHeaderFilter
  <2>2. Pipeline'
    BY <2>1 DEF Inv, Pipeline
  <2> QED
    BY <1>0, <2>1, <2>2, InvFrame DEF Inv, TypeOK
<1>12. CASE Bypass
  <2>1. /\ pc = "header" /\ pc' = "gzip" /\ UNCHANGED <<conf, dcb_dicts, req, cache, sidecar>>
        /\ r' = BypassVary(r)
    BY <1>12 DEF Bypass, InHeaderFilter
  <2>2. /\ r' \in Responses /\ r' = [r EXCEPT !.vary = r'.vary]
        /\ Listed(r.vary) \subseteq Listed(r'.vary)
    BY <1>0, <2>1, NegotiatedType
  <2>3. r'.by = r.by /\ r'.codings = r.codings /\ r'.dict = r.dict /\ r'.gzip_vary = r.gzip_vary
    BY <1>0, <2>2 DEF Responses
  <2>4. Justified(r, req, conf) /\ Announced(r, conf)
    BY <2>1 DEF Inv, Pipeline
  <2>5. Justified(r', req, conf) /\ Announced(r', conf)
    BY <1>0, <2>2, <2>3, <2>4, AnnouncedMore
  <2>6. Pipeline'
    BY <2>1, <2>5 DEF Pipeline
  <2> QED
    BY <2>1, <2>2, <2>6, InvFrame DEF Inv, TypeOK
<1>13. CASE Negotiate
  <2>1. pc' = "gzip" /\ UNCHANGED <<conf, dcb_dicts, req, cache, sidecar>>
    BY <1>13 DEF Negotiate, InHeaderFilter
  <2>2. r' \in Responses /\ Justified(r', req, conf) /\ Announced(r', conf)
    BY <1>13, NegotiatesRight
  <2>3. Pipeline'
    BY <2>1, <2>2 DEF Pipeline
  <2> QED
    BY <2>1, <2>2, <2>3, InvFrame DEF Inv, TypeOK
<1>14. CASE HeaderFilterFails
  <2>1. /\ pc' = "closed" /\ r' = NoResponse
        /\ UNCHANGED <<conf, dcb_dicts, req, cache, sidecar>>
    BY <1>14 DEF HeaderFilterFails, InHeaderFilter
  <2>2. Pipeline'
    BY <2>1 DEF Pipeline
  <2> QED
    BY <2>1, <2>2, NoResponseType, InvFrame DEF Inv, TypeOK
<1>15. CASE GzipFilter
  <2>1. pc = "gzip" /\ pc' = "core" /\ UNCHANGED <<conf, dcb_dicts, req, sidecar, cache>>
    BY <1>15 DEF GzipFilter
  <2>2. Justified(r, req, conf) /\ Announced(r, conf)
    BY <2>1 DEF Inv, Pipeline
  <2>3. CASE r' = r
    <3>1. Pipeline'
      BY <2>1, <2>2, <2>3 DEF Pipeline
    <3> QED
      BY <1>0, <2>1, <2>3, <3>1, InvFrame DEF Inv, TypeOK
  <2>4. CASE r' # r
    <3>1. PICK s \in {<<>>, <<"other">>} :
            r.codings = <<>> /\ r' = [r EXCEPT !.gzip_vary = TRUE, !.codings = s]
      BY <1>15, <2>4 DEF GzipFilter
    <3>2. <<>> # <<"br">> /\ <<>> # <<"dcb">>
      OBVIOUS
    <3>3. r.by = "nginx"
      BY <1>0, <2>2, <3>1, <3>2 DEF Justified, Responses
    <3>4. s \in Seq(Codings)
      BY CodingsType DEF AnyCoding
    <3>5. r' \in Responses /\ r'.by = "nginx" /\ r'.codings \in {<<>>, <<"other">>}
      <4>1. r'.by = "nginx" /\ r'.codings = s
        BY <1>0, <3>1, <3>3 DEF Responses
      <4>2. r' \in Responses
        BY <1>0, <3>1, <3>4 DEF Responses
      <4> QED
        BY <4>1, <4>2
    <3>6. Pipeline'
      BY <2>1, <3>5, PlainIsRight DEF Pipeline
    <3> QED
      BY <2>1, <3>5, <3>6, InvFrame DEF Inv, TypeOK
  <2> QED
    BY <2>3, <2>4
<1>16. CASE CoreHeaderFilter
  <2>1. pc = "core" /\ pc' = "sent" /\ UNCHANGED <<conf, dcb_dicts, req, sidecar, cache>>
    BY <1>16 DEF CoreHeaderFilter
  <2>2. Justified(r, req, conf) /\ Announced(r, conf)
    BY <2>1 DEF Inv, Pipeline
  <2> DEFINE adds == r.gzip_vary /\ conf.gzip_vary /\ "Accept-Encoding" \notin Listed(r.vary)
             v == Append(r.vary, {"Accept-Encoding"})
  <2>3. r' = IF adds THEN [r EXCEPT !.vary = v] ELSE r
    BY <1>16 DEF CoreHeaderFilter
  <2>4. v \in VaryLines /\ Listed(v) = Listed(r.vary) \cup {"Accept-Encoding"}
    <3>1. r.vary \in VaryLines /\ {"Accept-Encoding"} \in SUBSET Headers
      BY <1>0 DEF Responses, Headers
    <3> QED
      BY <3>1, ListedAppend
  <2> HIDE DEF v
  <2>5. /\ r' \in Responses /\ r'.by = r.by /\ r'.codings = r.codings /\ r'.dict = r.dict
        /\ r'.gzip_vary = r.gzip_vary
        /\ r'.vary = IF adds THEN v ELSE r.vary
    BY <1>0, <2>3, <2>4 DEF Responses
  <2>6. Justified(r', req, conf) /\ Announced(r', conf)
    <3>1. Listed(r.vary) \subseteq Listed(r'.vary)
      BY <2>4, <2>5
    <3> QED
      BY <1>0, <2>2, <2>5, <3>1, AnnouncedMore
  <2>7. r.gzip_vary /\ conf.gzip_vary => "Accept-Encoding" \in Listed(r'.vary)
    BY <2>4, <2>5
  <2>8. Published(r', conf)
    BY <2>5, <2>6, <2>7 DEF Published, Announced
  <2>9. Pipeline'
    BY <2>1, <2>6, <2>8 DEF Pipeline
  <2> QED
    BY <2>1, <2>5, <2>9, InvFrame DEF Inv, TypeOK
<1>17. CASE UNCHANGED vars
  BY <1>17 DEF vars, Inv, TypeOK, Pipeline, Stored, FromCache
<1> QED
  BY <1>1, <1>2, <1>3, <1>4, <1>5, <1>6, <1>7, <1>8, <1>9, <1>10, <1>11, <1>12, <1>13, <1>14,
     <1>15, <1>16, <1>17 DEF Next, StaticHandler, HeaderFilter

(***************************************************************************)
(* The theorems.                                                            *)
(***************************************************************************)

(* The inductive invariant holds throughout.                                *)
THEOREM InvHolds == Spec => []Inv
BY InvInit, InvStep, PTL DEF Spec

(* Requests, responses and the cache keep their shapes.                     *)
THEOREM NegotiationTypeCorrect == Spec => []TypeOK
<1>1. Inv => TypeOK
  BY DEF Inv
<1> QED
  BY InvHolds, <1>1, PTL

(* Whatever is answered now was the right answer to some request that       *)
(* agrees with the present one on everything the answer says it depends on: *)
(* the present request itself, or the one the cache stored it for.          *)
LEMMA AnsweredFor ==
  ASSUME Inv, Answered
  PROVE  \E q \in Clients : /\ Justified(r, q, conf) /\ Published(r, conf)
                            /\ q.main => req.main
                            /\ \A h \in Listed(r.vary) : Field(req, h) = Field(q, h)
<1>1. CASE pc = "sent"
  BY <1>1 DEF Inv, TypeOK, Pipeline
<1>2. CASE pc = "hit"
  <2>1. PICK e \in cache : Matches(e, req) /\ r = e.r
    BY <1>2 DEF Inv, FromCache
  <2>2. Justified(r, e.req, conf) /\ Published(r, conf) /\ e.req \in Clients
    BY <2>1 DEF Inv, Stored, TypeOK
  <2> QED
    BY <2>1, <2>2 DEF Matches
<1> QED
  BY <1>1, <1>2 DEF Answered

(* One coding at most, at every point of the pipeline.                      *)
THEOREM OneCoding == Spec => []NoDoubleCoding
<1>1. Inv => NoDoubleCoding
  <2> SUFFICES ASSUME Inv
               PROVE  r.codings \in AnyCoding
    BY CodingsType DEF NoDoubleCoding
  <2>1. CASE pc \in {"idle", "static", "closed", "handler"}
    BY <2>1 DEF Inv, Pipeline, NoResponse, AnyCoding
  <2>2. CASE pc \in {"header", "gzip", "core", "sent"}
    BY <2>2 DEF Inv, Pipeline, Justified
  <2>3. CASE pc = "hit"
    BY <2>3, AnsweredFor DEF Answered, Justified
  <2> QED
    BY <2>1, <2>2, <2>3 DEF Inv, TypeOK
<1> QED
  BY InvHolds, <1>1, PTL

(* A client never receives a coding it cannot decode, cache or no cache:    *)
(* what the answer depended on is on its Vary lines.                        *)
THEOREM AlwaysDecodable == Spec => []Decodable
<1>1. Inv => Decodable
  <2> SUFFICES ASSUME Inv, Answered, r.by = "static" => conf.static # "always"
               PROVE  /\ Encodes("br") => Accepts
                      /\ Encodes("dcb") => /\ req.main /\ Accepted(req, "dcb", FALSE)
                                           /\ req.dict = r.dict /\ req.site # "cross-site"
    BY DEF Decodable
  <2>1. PICK q \in Clients : /\ Justified(r, q, conf) /\ Published(r, conf)
                             /\ q.main => req.main
                             /\ \A h \in Listed(r.vary) : Field(req, h) = Field(q, h)
    BY AnsweredFor
  <2>2. /\ <<"br">> # <<"dcb">> /\ <<"br">> # <<"other">> /\ <<"dcb">> # <<"other">>
        /\ \A s \in AnyCoding, c \in {"br", "dcb"} :
             (\E n \in DOMAIN s : s[n] = c) => s = <<c>>
    BY DEF AnyCoding
  <2>3. \A c \in {"br", "dcb"} : Encodes(c) => r.codings = <<c>>
    BY <2>1, <2>2 DEF Encodes, Justified
  <2>4. r.codings # <<"other">> /\ r.codings # <<>> => ByAcceptance(r, conf)
    BY <2>1 DEF Justified, ByAcceptance, Inv, TypeOK, Responses
  <2>5. ASSUME Encodes("br")
        PROVE  Accepts
    <3>1. r.codings = <<"br">> /\ ByAcceptance(r, conf)
      BY <2>2, <2>3, <2>4, <2>5
    <3>2. q.main /\ Accepted(q, "br", TRUE) /\ "Accept-Encoding" \in Listed(r.vary)
      BY <2>1, <3>1 DEF Justified, Published
    <3>3. req.accept = q.accept
      BY <2>1, <3>2 DEF Field
    <3> QED
      BY <2>1, <3>2, <3>3 DEF Accepts, Accepted
  <2>6. ASSUME Encodes("dcb")
        PROVE  /\ req.main /\ Accepted(req, "dcb", FALSE)
               /\ req.dict = r.dict /\ req.site # "cross-site"
    <3>1. r.codings = <<"dcb">>
      BY <2>3, <2>6
    <3>2. /\ q.main /\ Accepted(q, "dcb", FALSE) /\ q.dict = r.dict /\ q.site # "cross-site"
          /\ {"Accept-Encoding", "Available-Dictionary", "Sec-Fetch-Site"} \subseteq Listed(r.vary)
      BY <2>1, <3>1 DEF Justified, Published, Announced
    <3>3. req.accept = q.accept /\ req.dict = q.dict /\ req.site = q.site
      BY <2>1, <3>2 DEF Field
    <3> QED
      BY <2>1, <3>2, <3>3 DEF Accepted
  <2> QED
    BY <2>5, <2>6
<1> QED
  BY InvHolds, <1>1, PTL

(* With brotli_bypass_vary, a bypassed request never gets a compressed      *)
(* body, from the cache neither.                                            *)
THEOREM BypassedAlways == Spec => []BypassHonoured
<1>1. Inv => BypassHonoured
  <2> SUFFICES ASSUME Inv, Answered, conf.bypass_vary, Bypassed, r.by = "filter"
               PROVE  FALSE
    BY DEF BypassHonoured
  <2>1. PICK q \in Clients : /\ Justified(r, q, conf) /\ Published(r, conf)
                             /\ \A h \in Listed(r.vary) : Field(req, h) = Field(q, h)
    BY AnsweredFor
  <2>2. ~(conf.bypass /\ q.cookie) /\ "Cookie" \in Listed(r.vary)
    BY <2>1 DEF Justified, Published, Announced
  <2>3. req.cookie = q.cookie
    BY <2>1, <2>2 DEF Field
  <2> QED
    BY <2>2, <2>3 DEF Bypassed
<1> QED
  BY InvHolds, <1>1, PTL

(***************************************************************************)
(* What the handler and the filter leave behind for others: the gzip latch, *)
(* the Vary of a refused sidecar, and responses that are not theirs.        *)
(***************************************************************************)
InPipeline == pc \in {"header", "gzip", "core", "sent"}

LatchKept == InPipeline /\ r.gzip_off => r.codings \in {<<"br">>, <<"dcb">>} \/ r.status \in {400, 500}

SidecarKept ==
  /\ InPipeline /\ conf.static = "on" /\ sidecar = "usable" /\ r.status # 500
     => "Accept-Encoding" \in Listed(r.vary) \/ (pc # "sent" /\ r.gzip_vary /\ conf.gzip_vary)
  /\ pc = "handler" /\ conf.static = "on" /\ sidecar = "usable"
     => "Accept-Encoding" \in Listed(r.vary) \/ (r.gzip_vary /\ conf.gzip_vary)

OriginKept ==
  /\ pc = "handler" /\ sidecar # "usable" => r = NoResponse
  /\ InPipeline /\ sidecar # "usable" /\ (~conf.enable \/ r.no_transform) /\ ~conf.gzip
     => ~r.gzip_vary /\ \E o \in Origins : r.vary = o.vary /\ r.codings = o.codings

Kept == LatchKept /\ SidecarKept /\ OriginKept

(* An origin's response adopted before anything was added is unchanged.     *)
LEMMA AdoptPlain ==
  ASSUME NEW o \in Origins, Adopt(o, NoResponse)
  PROVE  ~r'.gzip_vary /\ ~r'.gzip_off /\ r'.vary = o.vary /\ r'.codings = o.codings
<1>1. /\ r'.vary = NoResponse.vary \o o.vary /\ r'.codings = o.codings
      /\ r'.gzip_vary = NoResponse.gzip_vary /\ r'.gzip_off = NoResponse.gzip_off
  BY AdoptType, NoResponseType
<1>2. <<>> \o o.vary = o.vary
  <2>1. o.vary \in Seq(SUBSET Headers)
    BY OriginType DEF Responses, VaryLines
  <2> QED
    BY <2>1, ConcatEmptySeq
<1> QED
  BY <1>1, <1>2 DEF NoResponse

(* A step into or along the pipeline that raises no latch, keeps the Vary   *)
(* lines and is not taken where nothing was negotiated.                     *)
LEMMA KeptFrame ==
  ASSUME Inv, Kept, pc = "header", pc' = "gzip", UNCHANGED <<conf, sidecar>>, Eligible,
         r' \in Responses, r'.status = r.status, r'.no_transform = r.no_transform,
         r'.gzip_off => r.gzip_off \/ r'.codings \in {<<"br">>, <<"dcb">>},
         r.gzip_vary => r'.gzip_vary, Listed(r.vary) \subseteq Listed(r'.vary)
  PROVE  Kept'
<1>1. LatchKept'
  BY DEF Kept, LatchKept, InPipeline, Eligible
<1>2. SidecarKept'
  BY DEF Kept, SidecarKept, InPipeline
<1>3. OriginKept'
  BY DEF OriginKept, InPipeline, Eligible
<1> QED
  BY <1>1, <1>2, <1>3 DEF Kept

(* Every step keeps it.                                                     *)
LEMMA KeptStep == Inv /\ Kept /\ [Next]_vars => Kept'
<1> SUFFICES ASSUME Inv, Kept, [Next]_vars
             PROVE  Kept'
  OBVIOUS
<1>0. r \in Responses /\ conf \in Configs /\ conf \in Configurations
  BY NegotiationAssumption DEF Inv, TypeOK
<1>1. CASE Hit
  BY <1>1 DEF Hit, Kept, LatchKept, SidecarKept, OriginKept, InPipeline
<1>2. CASE Forward
  BY <1>2 DEF Forward, Kept, LatchKept, SidecarKept, OriginKept, InPipeline
<1>3. CASE Deliver
  BY <1>3 DEF Deliver, Kept, LatchKept, SidecarKept, OriginKept, InPipeline
<1>4. CASE Reload
  BY <1>4 DEF Reload, Kept, LatchKept, SidecarKept, OriginKept, InPipeline
<1>5. CASE SkipSidecar
  <2>1. pc' = "handler" /\ r' = NoResponse /\ sidecar' = "unprobed"
    BY <1>5 DEF SkipSidecar, InStatic, Inv, Pipeline
  <2> QED
    BY <2>1 DEF Kept, LatchKept, SidecarKept, OriginKept, InPipeline
<1>6. CASE MissesSidecar
  <2>1. pc' = "handler" /\ r' = NoResponse /\ sidecar' = "unusable"
    BY <1>6 DEF MissesSidecar, Missed, InStatic, Inv, Pipeline
  <2> QED
    BY <2>1 DEF Kept, LatchKept, SidecarKept, OriginKept, InPipeline
<1>7. CASE RefusesSidecar
  <2>1. pc' = "handler" /\ sidecar' = "usable" /\ conf' = conf /\ r' = VaryAcceptEncoding(r)
    BY <1>7 DEF RefusesSidecar, Refused, InStatic
  <2>2. r'.gzip_vary /\ ("Accept-Encoding" \in Listed(r'.vary) \/ conf.gzip_vary)
    BY <1>0, <2>1, VaryType
  <2> QED
    BY <2>1, <2>2 DEF Kept, LatchKept, SidecarKept, OriginKept, InPipeline
<1>8. CASE ServesSidecar
  <2>1. /\ pc' = "header" /\ sidecar' = "usable" /\ conf' = conf
        /\ \E status \in {200, 500} :
             r' = [Sidecar EXCEPT !.codings = <<"br">>, !.by = "static", !.status = status]
    BY <1>8 DEF ServesSidecar, InStatic
  <2>2. r'.codings = <<"br">> /\ r'.vary = Sidecar.vary /\ r'.gzip_vary = Sidecar.gzip_vary
    BY <1>0, <2>1, SidecarType DEF Responses
  <2> QED
    BY <1>0, <2>1, <2>2, SidecarType DEF Kept, LatchKept, SidecarKept, OriginKept, InPipeline
<1>9. CASE SidecarFails
  <2>1. pc' = "header" /\ conf' = conf /\ pc = "static" /\ r = NoResponse
    BY <1>9 DEF SidecarFails, InStatic, Inv, Pipeline
  <2>2. PICK o \in Origins :
          \/ sidecar' = "unusable" /\ Adopt(o, r)
          \/ o.status = 500 /\ sidecar' = "usable" /\ Adopt(o, [r EXCEPT !.gzip_vary = TRUE])
          \/ o.status \in {400, 500} /\ sidecar' = "usable" /\ Adopt(o, Sidecar)
    BY <1>9 DEF SidecarFails
  <2>3. CASE sidecar' = "unusable" /\ Adopt(o, r)
    <3>1. ~r'.gzip_vary /\ ~r'.gzip_off /\ r'.vary = o.vary /\ r'.codings = o.codings
      BY <2>1, <2>3, AdoptPlain
    <3> QED
      BY <2>1, <2>3, <3>1 DEF Kept, LatchKept, SidecarKept, OriginKept, InPipeline
  <2>4. CASE o.status = 500 /\ sidecar' = "usable" /\ Adopt(o, [r EXCEPT !.gzip_vary = TRUE])
    <3>1. [r EXCEPT !.gzip_vary = TRUE] \in Responses
      BY <1>0 DEF Responses
    <3>2. r'.status = 500
      <4>1. PICK x \in Responses : Adopt(o, x)
        BY <2>4, <3>1
      <4>2. r'.status = o.status
        BY <4>1, AdoptType
      <4> QED
        BY <2>4, <4>2
    <3> QED
      BY <2>1, <2>4, <3>2 DEF Kept, LatchKept, SidecarKept, OriginKept, InPipeline
  <2>5. CASE o.status \in {400, 500} /\ sidecar' = "usable" /\ Adopt(o, Sidecar)
    <3>1. /\ Sidecar \in Responses
          /\ conf.static = "on" => /\ Sidecar.gzip_vary
                                   /\ "Accept-Encoding" \in Listed(Sidecar.vary) \/ conf.gzip_vary
      BY <1>0, SidecarType
    <3>2. /\ r'.status = o.status /\ r'.gzip_vary = Sidecar.gzip_vary
          /\ Listed(Sidecar.vary) \subseteq Listed(r'.vary)
      BY <2>5, <3>1, AdoptType
    <3> QED
      BY <2>1, <2>5, <3>1, <3>2 DEF Kept, LatchKept, SidecarKept, OriginKept, InPipeline
  <2> QED
    BY <2>2, <2>3, <2>4, <2>5
<1>10. CASE Respond
  <2>1. pc = "handler" /\ pc' = "header" /\ UNCHANGED <<conf, sidecar>>
    BY <1>10 DEF Respond
  <2>2. PICK o \in Origins : Adopt(o, r)
    BY <1>10 DEF Respond
  <2>3. /\ r'.gzip_vary = r.gzip_vary /\ r'.gzip_off = r.gzip_off
        /\ Listed(r.vary) \subseteq Listed(r'.vary)
    BY <1>0, <2>2, AdoptType
  <2>4. LatchKept'
    BY <2>1, <2>3 DEF Inv, Pipeline, LatchKept, InPipeline
  <2>5. SidecarKept'
    BY <2>1, <2>3 DEF Kept, SidecarKept, InPipeline
  <2>6. OriginKept'
    <3>1. CASE sidecar = "usable"
      BY <2>1, <3>1 DEF OriginKept
    <3>2. CASE sidecar # "usable"
      <4>1. r = NoResponse
        BY <2>1, <3>2 DEF Kept, OriginKept
      <4>2. ~r'.gzip_vary /\ r'.vary = o.vary /\ r'.codings = o.codings
        BY <2>2, <4>1, AdoptPlain
      <4> QED
        BY <2>1, <4>2 DEF OriginKept, InPipeline
    <3> QED
      BY <3>1, <3>2
  <2> QED
    BY <2>4, <2>5, <2>6 DEF Kept
<1>11. CASE LeaveAlone
  BY <1>11 DEF LeaveAlone, InHeaderFilter, Kept, LatchKept, SidecarKept, OriginKept, InPipeline
<1>12. CASE Bypass
  <2>1. pc = "header" /\ pc' = "gzip" /\ UNCHANGED <<conf, sidecar>> /\ Eligible /\ r' = BypassVary(r)
    BY <1>12 DEF Bypass, InHeaderFilter
  <2>2. /\ r' \in Responses /\ r' = [r EXCEPT !.vary = r'.vary]
        /\ Listed(r.vary) \subseteq Listed(r'.vary)
    BY <1>0, <2>1, NegotiatedType
  <2>3. /\ r'.status = r.status /\ r'.no_transform = r.no_transform
        /\ r'.gzip_off = r.gzip_off /\ r'.gzip_vary = r.gzip_vary
    BY <1>0, <2>2 DEF Responses
  <2> QED
    BY <2>1, <2>2, <2>3, KeptFrame
<1>13. CASE Negotiate
  <2> DEFINE x == Negotiated(BypassVary(r))
  <2>1. /\ pc = "header" /\ pc' = "gzip" /\ UNCHANGED <<conf, sidecar>> /\ Eligible
        /\ r.codings = <<>>
        /\ \/ \E coding \in {"br", "dcb"}, dict \in Hashes \cup {NoHash} :
                r' = Encoded(x, coding, dict)
           \/ r' = x
    BY <1>13 DEF Negotiate, InHeaderFilter, AcceptsDcb, Inv, TypeOK, Eligible
  <2>2. /\ x \in Responses /\ x = [r EXCEPT !.vary = x.vary, !.gzip_vary = x.gzip_vary]
        /\ Listed(r.vary) \subseteq Listed(x.vary)
        /\ r.gzip_vary => x.gzip_vary
    BY <1>0, NegotiatedType
  <2> HIDE DEF x
  <2>3. /\ x.status = r.status /\ x.no_transform = r.no_transform
        /\ x.gzip_off = r.gzip_off /\ x.codings = r.codings
    BY <1>0, <2>2 DEF Responses
  <2>4. r' \in Responses
    BY <1>13, NegotiatesRight
  <2>5. CASE r' = x
    BY <2>1, <2>2, <2>3, <2>4, <2>5, KeptFrame
  <2>6. CASE \E coding \in {"br", "dcb"}, dict \in Hashes \cup {NoHash} :
               r' = Encoded(x, coding, dict)
    <3>1. PICK coding \in {"br", "dcb"}, dict \in Hashes \cup {NoHash} :
            r' = Encoded(x, coding, dict)
      BY <2>6
    <3>2. r'.codings = <<coding>> /\ r'.vary = x.vary /\ r'.gzip_vary = x.gzip_vary
      BY <2>1, <2>2, <2>3, <3>1, EncodedType
    <3>3. r'.status = x.status /\ r'.no_transform = x.no_transform
      BY <2>2, <3>1 DEF Encoded, Latched, Responses
    <3> QED
      BY <2>1, <2>2, <2>3, <2>4, <3>2, <3>3, KeptFrame
  <2> QED
    BY <2>1, <2>5, <2>6
<1>14. CASE HeaderFilterFails
  BY <1>14 DEF HeaderFilterFails, Kept, LatchKept, SidecarKept, OriginKept, InPipeline
<1>15. CASE GzipFilter
  <2>1. pc = "gzip" /\ pc' = "core" /\ UNCHANGED <<conf, sidecar>>
    BY <1>15 DEF GzipFilter
  <2>2. CASE r' = r
    BY <2>1, <2>2 DEF Kept, LatchKept, SidecarKept, OriginKept, InPipeline
  <2>3. CASE r' # r
    <3>1. /\ conf.gzip /\ r.codings = <<>> /\ r.status \in {200, 403, 404}
          /\ \E s \in {<<>>, <<"other">>} : r' = [r EXCEPT !.gzip_vary = TRUE, !.codings = s]
      BY <1>15, <2>3 DEF GzipFilter
    <3>2. /\ r'.gzip_vary /\ r'.vary = r.vary /\ r'.status = r.status
          /\ r'.gzip_off = r.gzip_off /\ r'.no_transform = r.no_transform
      BY <1>0, <3>1 DEF Responses
    <3>3. ~r.gzip_off
      BY <2>1, <3>1 DEF Kept, LatchKept, InPipeline
    <3> QED
      BY <2>1, <3>1, <3>2, <3>3 DEF Kept, LatchKept, SidecarKept, OriginKept, InPipeline
  <2> QED
    BY <2>2, <2>3
<1>16. CASE CoreHeaderFilter
  <2>1. pc = "core" /\ pc' = "sent" /\ UNCHANGED <<conf, sidecar>>
    BY <1>16 DEF CoreHeaderFilter
  <2> DEFINE adds == r.gzip_vary /\ conf.gzip_vary /\ "Accept-Encoding" \notin Listed(r.vary)
             v == Append(r.vary, {"Accept-Encoding"})
  <2>2. r' = IF adds THEN [r EXCEPT !.vary = v] ELSE r
    BY <1>16 DEF CoreHeaderFilter
  <2>3. Listed(v) = Listed(r.vary) \cup {"Accept-Encoding"}
    <3>1. r.vary \in VaryLines /\ {"Accept-Encoding"} \in SUBSET Headers
      BY <1>0 DEF Responses, Headers
    <3> QED
      BY <3>1, ListedAppend
  <2> HIDE DEF v
  <2>4. /\ r'.codings = r.codings /\ r'.status = r.status /\ r'.gzip_off = r.gzip_off
        /\ r'.gzip_vary = r.gzip_vary /\ r'.no_transform = r.no_transform
        /\ r'.vary = IF adds THEN v ELSE r.vary
    BY <1>0, <2>2 DEF Responses
  <2>5. LatchKept'
    BY <2>1, <2>4 DEF Kept, LatchKept, InPipeline
  <2>6. SidecarKept'
    BY <2>1, <2>3, <2>4 DEF Kept, SidecarKept, InPipeline
  <2>7. OriginKept'
    BY <2>1, <2>4 DEF Kept, OriginKept, InPipeline
  <2> QED
    BY <2>5, <2>6, <2>7 DEF Kept
<1>17. CASE UNCHANGED vars
  BY <1>17 DEF vars, Kept, LatchKept, SidecarKept, OriginKept, InPipeline
<1> QED
  BY <1>1, <1>2, <1>3, <1>4, <1>5, <1>6, <1>7, <1>8, <1>9, <1>10, <1>11, <1>12, <1>13, <1>14,
     <1>15, <1>16, <1>17 DEF Next, StaticHandler, HeaderFilter

(* The second invariant holds throughout.                                   *)
THEOREM KeptHolds == Spec => []Kept
<1>1. Init => Kept
  BY DEF Init, Kept, LatchKept, SidecarKept, OriginKept, InPipeline
<1> QED
  BY <1>1, InvHolds, KeptStep, PTL DEF Spec

(* gzip stays available to everyone who did not get br or dcb, if the       *)
(* response does not end with an error status.                              *)
THEOREM LatchSound == Spec => []LatchedMeansEncoded
<1>1. Inv /\ Kept => LatchedMeansEncoded
  BY DEF Kept, LatchKept, InPipeline, LatchedMeansEncoded, Encodes
<1> QED
  BY <1>1, InvHolds, KeptHolds, PTL

(* Every answer of a URI with a usable .br says that acceptance decided it. *)
THEOREM SidecarPartitioned == Spec => []PartitionedWhenUsable
<1>1. Kept => PartitionedWhenUsable
  BY DEF Kept, SidecarKept, InPipeline, PartitionedWhenUsable
<1> QED
  BY <1>1, KeptHolds, PTL

(* Responses brotli does not negotiate leave as they came.                  *)
THEOREM Untouched == Spec => []UntouchedUnlessNegotiated
<1>1. Kept => UntouchedUnlessNegotiated
  BY DEF Kept, OriginKept, InPipeline, UntouchedUnlessNegotiated
<1> QED
  BY <1>1, KeptHolds, PTL
==============================================================================
