------------------------------- MODULE MCHooks -------------------------------
(* http, a server, a location of it and an "if" in that location.           *)
EXTENDS BrotliHooks

MCContexts == {"http", "server", "location", "if"}

MCParent == [c \in MCContexts \ {"http"} |->
  CASE c = "server" -> "http" [] c = "location" -> "server" [] c = "if" -> "location"]
=============================================================================
