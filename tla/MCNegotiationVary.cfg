CONSTANTS
  Hashes = {"h1", "h2"}
  Clients <- MCClients
  Origins <- MCPlainOrigins
  Configs <- MCStaticOn
SPECIFICATION Spec
INVARIANT OneVaryLine
