---------------------------- MODULE MCNegotiation ----------------------------
(* Clients, origins and configurations small enough for TLC.                *)
EXTENDS BrotliNegotiation

Request(accept, dict, site) ==
  [main |-> TRUE, get |-> TRUE, secure |-> TRUE, accept |-> accept, dict |-> dict,
   site |-> site, cookie |-> FALSE]

Lists(yes, no) ==
  [c \in {"br", "dcb", "gzip", "*"} |->
     IF c \in yes THEN "yes" ELSE IF c \in no THEN "no" ELSE "unlisted"]

Browser(hash, site) == Request(Lists({"br", "dcb", "gzip"}, {}), hash, site)

MCClients ==
  {Browser("h1", "same-origin"), Browser("h2", "same-origin"), Browser("h1", "cross-site"),
   [Browser("h1", "same-origin") EXCEPT !.cookie = TRUE],
   [Browser("h1", "same-origin") EXCEPT !.main = FALSE],
   [Browser("h1", "same-origin") EXCEPT !.secure = FALSE],
   Request(Lists({"gzip", "dcb"}, {}), "h1", "none"),
   Request(Lists({"*"}, {}), "h1", "absent"),
   Request(Lists({"*"}, {"br"}), NoHash, "absent")}

Page == [NoResponse EXCEPT !.typed = TRUE]

MCOrigins ==
  {Page, [Page EXCEPT !.length = 9], [Page EXCEPT !.vary = <<{"Accept-Encoding", "Cookie"}>>],
   [Page EXCEPT !.no_transform = TRUE], [Page EXCEPT !.codings = <<"other">>],
   [Page EXCEPT !.status = 500]}

MCPlainOrigins == {Page}            \* no Vary line but this module's

Location(static) ==
  [enable |-> TRUE, min_length |-> 2, max_length |-> 8, bypass |-> FALSE,
   bypass_vary |-> FALSE, dcb_assume_secure |-> FALSE, static |-> static,
   gzip |-> TRUE, gzip_vary |-> FALSE]

MCStaticOn == {Location("on")}

MCConfigs ==
  {Location("off"), Location("on"), Location("always"),
   [Location("on") EXCEPT !.gzip_vary = TRUE],
   [Location("on") EXCEPT !.enable = FALSE, !.gzip = FALSE],
   [Location("off") EXCEPT !.bypass = TRUE, !.bypass_vary = TRUE, !.gzip = FALSE],
   [Location("on") EXCEPT !.bypass = TRUE, !.max_length = Unset],
   [Location("off") EXCEPT !.dcb_assume_secure = TRUE, !.gzip_vary = TRUE]}
===============================================================================
