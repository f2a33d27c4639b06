-------------------------- MODULE BrotliNegotiation --------------------------
(***************************************************************************)
(* Which coding a response gets, and what it tells caches about it: the     *)
(* content handler of src/static/ngx_http_brotli_static_module.c, the header *)
(* filter of src/filter/ngx_http_brotli_filter_module.c and the predicates  *)
(* of src/ngx_http_brotli_common.h they share, between clients that reach   *)
(* nginx through a shared cache and the parts of nginx around them:         *)
(*                                                                         *)
(*   cache -> static handler -> another handler -> header filter ->         *)
(*            gzip filter -> core header filter -> cache -> client          *)
(*                                                                         *)
(* All requests are for one URI in one location.  Requests share nothing    *)
(* in nginx, only the cache and the configuration, so one is in progress at *)
(* a time; the .br file may come and go and the dictionaries may be         *)
(* replaced by a reload between any two requests.                           *)
(***************************************************************************)
EXTENDS Integers, Sequences

CONSTANTS
  Hashes,       \* SHA-256 values of dictionaries
  Configs,      \* configurations of the location
  Clients,      \* requests that clients make
  Origins       \* responses of the handlers below the static module

Unset == -1     \* NGX_CONF_UNSET, and content_length_n when not declared
NoHash == "no hash"     \* no dictionary, or a malformed Available-Dictionary

Headers == {"Accept-Encoding", "Available-Dictionary", "Sec-Fetch-Site", "Cookie"}

(* Lines of the Vary header, each with the header names it lists.           *)
VaryLines == Seq(SUBSET Headers)

(* Accept-Encoding gives a coding, or "*", a positive weight or weight 0,   *)
(* or does not list it.  Cookie stands for the header brotli_bypass tests:  *)
(* cookie is the value of its predicate, bypass_vary names it.              *)
Requests ==
  [main : BOOLEAN, get : BOOLEAN, secure : BOOLEAN,
   accept : [{"br", "dcb", "gzip", "*"} -> {"yes", "no", "unlisted"}],
   dict : Hashes \cup {NoHash},
   site : {"absent", "same-origin", "none", "cross-site"}, cookie : BOOLEAN]

Configurations ==
  [enable : BOOLEAN, min_length : Nat, max_length : Nat \cup {Unset},
   bypass : BOOLEAN, bypass_vary : BOOLEAN, dcb_assume_secure : BOOLEAN,
   static : {"off", "on", "always"}, gzip : BOOLEAN, gzip_vary : BOOLEAN]

Codings == {"br", "dcb", "other"}        \* other: gzip, or what the handler below used

Responses ==
  [status : Nat, header_only : BOOLEAN, length : Nat \cup {Unset},
   typed : BOOLEAN, no_transform : BOOLEAN,
   codings : Seq(Codings), by : {"nginx", "static", "filter"},
   dict : Hashes \cup {NoHash}, vary : VaryLines,
   gzip_vary : BOOLEAN, gzip_off : BOOLEAN]

NoResponse ==
  [status |-> 200, header_only |-> FALSE, length |-> Unset, typed |-> FALSE,
   no_transform |-> FALSE, codings |-> <<>>, by |-> "nginx", dict |-> NoHash,
   vary |-> <<>>, gzip_vary |-> FALSE, gzip_off |-> FALSE]

ASSUME NegotiationAssumption ==
  /\ NoHash \notin Hashes
  /\ Configs \subseteq Configurations
  /\ Clients \subseteq Requests
  /\ Origins \subseteq Responses
  /\ \A o \in Origins : o.by = "nginx" /\ o.dict = NoHash /\ o.codings \in {<<>>, <<"other">>}
                        /\ ~o.gzip_vary /\ ~o.gzip_off

VARIABLES
  conf, dcb_dicts,      \* the location's configuration
  pc, req, r,           \* the request in progress and its response
  sidecar,              \* what the static handler found at <path>.br
  cache                 \* stored responses: at most one, the others evicted

vars == <<conf, dcb_dicts, pc, req, r, sidecar, cache>>

(***************************************************************************)
(* ngx_http_brotli_common.h.                                                *)
(***************************************************************************)
(* The weight the whole Accept-Encoding field gives a coding is positive:   *)
(* its own, or the wildcard's when it is not listed and "*" may stand for it. *)
Accepted(q, coding, allow_wildcard) ==
  \/ q.accept[coding] = "yes"
  \/ allow_wildcard /\ q.accept[coding] = "unlisted" /\ q.accept["*"] = "yes"

Accepts == req.main /\ Accepted(req, "br", TRUE)   \* ngx_http_brotli_accepts

Listed(vary) == UNION {vary[i] : i \in DOMAIN vary}

(* ngx_http_brotli_vary_accept_encoding: with "gzip_vary on" the core emits *)
(* the line; otherwise it is pushed unless some line lists the name already. *)
VaryAcceptEncoding(x) ==
  [x EXCEPT !.gzip_vary = TRUE,
            !.vary = IF conf.gzip_vary \/ "Accept-Encoding" \in Listed(x.vary)
                     THEN x.vary ELSE Append(x.vary, {"Accept-Encoding"})]

Latched(x) == [x EXCEPT !.gzip_off = TRUE]         \* gzip_tested = 1, gzip_ok = 0

(***************************************************************************)
(* The cache in front of nginx: external.  It may answer from a stored      *)
(* response that agrees with the request on every header its Vary lines     *)
(* list, and it may store any answer to a plain GET.                        *)
(***************************************************************************)
Field(q, header) ==
  CASE header = "Accept-Encoding"      -> q.accept
    [] header = "Available-Dictionary" -> q.dict
    [] header = "Sec-Fetch-Site"       -> q.site
    [] header = "Cookie"               -> q.cookie

Matches(e, q) ==
  /\ q.main /\ q.get
  /\ q.secure = e.req.secure                      \* the scheme is part of the key
  /\ \A h \in Listed(e.r.vary) : Field(q, h) = Field(e.req, h)

Hit ==
  /\ pc = "idle"
  /\ \E e \in cache : Matches(e, req) /\ r' = e.r
  /\ pc' = "hit"
  /\ UNCHANGED <<conf, dcb_dicts, req, sidecar, cache>>

Forward ==
  /\ pc = "idle"
  /\ pc' = "static"
  /\ UNCHANGED <<conf, dcb_dicts, req, r, sidecar, cache>>

Deliver ==
  /\ pc \in {"sent", "hit", "closed"}
  /\ pc' = "idle"
  /\ req' \in Clients
  /\ r' = NoResponse
  /\ sidecar' = "unprobed"
  /\ \/ cache' = cache
     \/ pc = "sent" /\ req.main /\ req.get /\ cache' = {[req |-> req, r |-> r]}
  /\ UNCHANGED <<conf, dcb_dicts>>

Reload ==                                         \* the next build's dictionaries
  /\ pc = "idle"
  /\ dcb_dicts' \in SUBSET Hashes
  /\ UNCHANGED <<conf, pc, req, r, sidecar, cache>>

(***************************************************************************)
(* The content handler of the static module.                                *)
(***************************************************************************)
InStatic == UNCHANGED <<conf, dcb_dicts, req, cache>> /\ pc = "static"

Probes == req.get /\ conf.static # "off"

SkipSidecar == InStatic /\ ~Probes /\ pc' = "handler" /\ UNCHANGED <<r, sidecar>>

(* Mutant: Vary is stamped before it is known that there is a .br.          *)
MissedVarying(x) == VaryAcceptEncoding(x)

Missed(x) == x

(* Nothing at <path>.br that can be opened, or a directory.                 *)
MissesSidecar ==
  /\ InStatic
  /\ Probes
  /\ sidecar' = "unusable"
  /\ pc' = "handler"
  /\ r' = Missed(r)

(* Mutant: acceptance is decided before Vary is sent.                       *)
RefusedUnvarying(x) == x

(* Mutant: gzip is suppressed before it is known that br will be served.    *)
RefusedLatched(x) == Latched(VaryAcceptEncoding(x))

Refused(x) == VaryAcceptEncoding(x)

RefusesSidecar ==
  /\ InStatic
  /\ Probes
  /\ conf.static = "on"
  /\ ~Accepts
  /\ sidecar' = "usable"
  /\ pc' = "handler"
  /\ r' = Refused(r)

Sidecar == IF conf.static = "on" THEN Latched(VaryAcceptEncoding(r)) ELSE r

(* 500 when the body's buffers cannot be allocated: Content-Encoding is in  *)
(* the list by then, and stays.                                             *)
ServesSidecar ==
  /\ InStatic
  /\ Probes
  /\ conf.static = "always" \/ Accepts
  /\ sidecar' = "usable"
  /\ pc' = "header"
  /\ \E status \in {200, 500} :
       r' = [Sidecar EXCEPT !.codings = <<"br">>, !.by = "static", !.status = status]

(* o is sent on top of what r's headers and flags already are.              *)
Adopt(o, x) == r' = [o EXCEPT !.vary = x.vary \o o.vary, !.gzip_vary = x.gzip_vary,
                             !.gzip_off = x.gzip_off]

(* 404 for a .br that is no regular file, 500 when an allocation fails: in  *)
(* mapping the path, in the Vary push, or after the latch, where a request  *)
(* body that cannot be discarded also ends in 400.                          *)
SidecarFails ==
  /\ InStatic
  /\ Probes
  /\ pc' = "header"
  /\ \E o \in Origins :
       \/ o.status \in {404, 500} /\ sidecar' = "unusable" /\ Adopt(o, r)
       \/ /\ o.status = 500
          /\ conf.static = "on"
          /\ sidecar' = "usable"
          /\ Adopt(o, [r EXCEPT !.gzip_vary = TRUE])
       \/ /\ o.status \in {400, 500}
          /\ conf.static = "always" \/ Accepts
          /\ sidecar' = "usable"
          /\ Adopt(o, Sidecar)

(* Another content handler answers: external.  One that has a .gz uses it   *)
(* only for a client that accepts gzip while gzip is not latched off.       *)
Respond ==
  /\ pc = "handler"
  /\ \E o \in Origins :
       /\ o.codings # <<>> /\ Probes => ~r.gzip_off /\ Accepted(req, "gzip", TRUE)
       /\ Adopt(o, r)
  /\ pc' = "header"
  /\ UNCHANGED <<conf, dcb_dicts, req, sidecar, cache>>

(***************************************************************************)
(* The header filter.                                                       *)
(***************************************************************************)
(* Mutant: an already encoded response is not recognised.                   *)
EligibleTwice ==
  /\ conf.enable
  /\ r.status \in {200, 403, 404, 410}
  /\ ~r.header_only
  /\ r.length = Unset \/ r.length >= conf.min_length
  /\ conf.max_length = Unset \/ r.length <= conf.max_length
  /\ r.typed
  /\ ~r.no_transform

(* The gates before anything is emitted; an undeclared length (Unset) is    *)
(* below every maximum and is left to the body filter's cap.                *)
Eligible ==
  /\ conf.enable
  /\ r.status \in {200, 403, 404, 410}
  /\ ~r.header_only
  /\ r.codings = <<>>
  /\ r.length = Unset \/ r.length >= conf.min_length
  /\ conf.max_length = Unset \/ r.length <= conf.max_length
  /\ r.typed                                      \* brotli_types
  /\ ~r.no_transform                              \* Cache-Control

InHeaderFilter == UNCHANGED <<conf, dcb_dicts, req, sidecar, cache>> /\ pc = "header"

LeaveAlone == InHeaderFilter /\ ~Eligible /\ pc' = "gzip" /\ UNCHANGED r

Bypassed == conf.bypass /\ req.cookie

(* Mutant: only the bypassed response says what the bypass depends on.      *)
BypassVaryOnBypass(x) ==
  IF conf.bypass_vary /\ Bypassed THEN [x EXCEPT !.vary = Append(x.vary, {"Cookie"})] ELSE x

BypassVary(x) ==
  IF conf.bypass_vary THEN [x EXCEPT !.vary = Append(x.vary, {"Cookie"})] ELSE x

Bypass ==
  /\ InHeaderFilter
  /\ Eligible
  /\ Bypassed
  /\ r' = BypassVary(r)
  /\ pc' = "gzip"

(* Mutant: the response is not said to depend on Sec-Fetch-Site.            *)
NegotiatedAnySite(x) ==
  IF dcb_dicts # {}
  THEN [x EXCEPT !.vary = Append(x.vary, {"Accept-Encoding", "Available-Dictionary"})]
  ELSE VaryAcceptEncoding(x)

(* The Vary line of every response the module negotiates.                   *)
Negotiated(x) ==
  IF dcb_dicts # {}
  THEN [x EXCEPT !.vary = Append(x.vary, {"Accept-Encoding", "Available-Dictionary",
                                          "Sec-Fetch-Site"})]
  ELSE VaryAcceptEncoding(x)

AcceptsDcb ==                                     \* ngx_http_brotli_dcb_negotiate
  /\ req.main
  /\ conf.dcb_assume_secure \/ req.secure
  /\ req.site # "cross-site"
  /\ Accepted(req, "dcb", FALSE)
  /\ req.dict \in dcb_dicts

(* Mutant: the coding is announced under a name that is none.               *)
EncodedAs(x, coding, dict) ==
  [Latched(x) EXCEPT !.codings = Append(x.codings, dict), !.by = "filter", !.dict = dict,
                     !.length = Unset]

(* The context is created and the response becomes an encoded one of        *)
(* unknown length.                                                          *)
Encoded(x, coding, dict) ==
  [Latched(x) EXCEPT !.codings = Append(x.codings, coding), !.by = "filter", !.dict = dict,
                     !.length = Unset]

Negotiate ==
  /\ InHeaderFilter
  /\ Eligible
  /\ ~Bypassed
  /\ LET x == Negotiated(BypassVary(r)) IN
       \/ AcceptsDcb /\ r' = Encoded(x, "dcb", req.dict)
       \/ ~AcceptsDcb /\ Accepts /\ r' = Encoded(x, "br", NoHash)
       \/ ~AcceptsDcb /\ ~Accepts /\ r' = x
  /\ pc' = "gzip"

(* An allocation fails and the request is closed without an answer.         *)
HeaderFilterFails ==
  /\ InHeaderFilter
  /\ Eligible
  /\ conf.bypass_vary \/ ~Bypassed
  /\ r' = NoResponse
  /\ pc' = "closed"

(***************************************************************************)
(* The filters behind it: external.  gzip encodes what has no coding yet    *)
(* unless it is latched off, and asks the core filter for Vary; the core    *)
(* emits it when "gzip_vary on" and no line says so already.                *)
(***************************************************************************)
GzipFilter ==
  /\ pc = "gzip"
  /\ \/ r' = r
     \/ /\ conf.gzip /\ r.codings = <<>> /\ r.status \in {200, 403, 404} /\ ~r.header_only
        /\ r' = [r EXCEPT !.gzip_vary = TRUE,
                          !.codings = IF req.main /\ ~r.gzip_off /\ Accepted(req, "gzip", TRUE)
                                      THEN <<"other">> ELSE <<>>]
  /\ pc' = "core"
  /\ UNCHANGED <<conf, dcb_dicts, req, sidecar, cache>>

CoreHeaderFilter ==
  /\ pc = "core"
  /\ r' = IF r.gzip_vary /\ conf.gzip_vary /\ "Accept-Encoding" \notin Listed(r.vary)
          THEN [r EXCEPT !.vary = Append(r.vary, {"Accept-Encoding"})] ELSE r
  /\ pc' = "sent"
  /\ UNCHANGED <<conf, dcb_dicts, req, sidecar, cache>>

(***************************************************************************)
(* The specification.                                                       *)
(***************************************************************************)
Init ==
  /\ conf \in Configs
  /\ dcb_dicts \in SUBSET Hashes
  /\ pc = "idle"
  /\ req \in Clients
  /\ r = NoResponse
  /\ sidecar = "unprobed"
  /\ cache = {}

StaticHandler == SkipSidecar \/ MissesSidecar \/ RefusesSidecar \/ ServesSidecar \/ SidecarFails

HeaderFilter == LeaveAlone \/ Bypass \/ Negotiate \/ HeaderFilterFails

Next == Hit \/ Forward \/ Deliver \/ Reload \/ StaticHandler \/ Respond \/ HeaderFilter
        \/ GzipFilter \/ CoreHeaderFilter

Spec == Init /\ [][Next]_vars

(***************************************************************************)
(* Properties.                                                              *)
(***************************************************************************)
TypeOK ==
  /\ conf \in Configs
  /\ dcb_dicts \subseteq Hashes
  /\ pc \in {"idle", "static", "handler", "header", "gzip", "core", "sent", "hit", "closed"}
  /\ req \in Clients
  /\ r \in Responses
  /\ sidecar \in {"unprobed", "unusable", "usable"}
  /\ cache \subseteq [req : Clients, r : Responses]

Answered == pc \in {"sent", "hit"}

Encodes(coding) == \E n \in DOMAIN r.codings : r.codings[n] = coding

(* Whoever asks, and whoever filled the cache: a br answer reaches only a   *)
(* client that accepts br, and a dcb answer only one that lists dcb, holds  *)
(* that very dictionary and is not cross-site; a subrequest, whose body is  *)
(* spliced into another, is never encoded.  "brotli_static always" ignores  *)
(* Accept-Encoding, so its answers are left out.                            *)
Decodable ==
  Answered /\ (r.by = "static" => conf.static # "always") =>
    /\ Encodes("br") => Accepts
    /\ Encodes("dcb") => /\ req.main /\ Accepted(req, "dcb", FALSE)
                         /\ req.dict = r.dict /\ req.site # "cross-site"

(* A request that brotli_bypass exempts never gets a body this filter has   *)
(* compressed, from a shared cache neither, once brotli_bypass_vary names   *)
(* the header the predicate reads.                                          *)
BypassHonoured ==
  Answered /\ conf.bypass_vary /\ Bypassed => r.by # "filter"

(* No response is encoded twice, whoever encoded it first.                  *)
NoDoubleCoding == Len(r.codings) <= 1

(* gzip is latched off only for a response that did become br or dcb: a     *)
(* client whose br was refused or missing still gets its gzip.  A response  *)
(* that ends with an error status is not covered.                           *)
LatchedMeansEncoded ==
  pc = "sent" /\ r.gzip_off /\ r.status \notin {400, 500} => Encodes("br") \/ Encodes("dcb")

(* Where a usable .br exists and acceptance decides, every answer says so,  *)
(* the one to a client that does not accept br included.                    *)
PartitionedWhenUsable ==
  pc = "sent" /\ conf.static = "on" /\ sidecar = "usable" /\ r.status # 500
  => "Accept-Encoding" \in Listed(r.vary)

(* Where nothing was negotiated - no usable .br, and the filter is off or   *)
(* the response is no-transform - brotli changes neither Vary nor coding.   *)
UntouchedUnlessNegotiated ==
  pc = "sent" /\ sidecar # "usable" /\ (~conf.enable \/ r.no_transform) /\ ~conf.gzip
  => \E o \in Origins : r.vary = o.vary /\ r.codings = o.codings

(* What the README says of it: "exactly one `Vary: Accept-Encoding` in      *)
(* every state" - no answer names Accept-Encoding on two lines.             *)
OneVaryLine ==
  pc = "sent" => \A i, j \in DOMAIN r.vary :
    "Accept-Encoding" \in r.vary[i] \cap r.vary[j] => i = j
===============================================================================
