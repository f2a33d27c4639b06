CONSTANTS
  Hashes = {"h1", "h2"}
  Clients <- MCClients
  Origins <- MCOrigins
  Configs <- MCConfigs
SPECIFICATION Spec
INVARIANTS
  TypeOK
  Decodable
  BypassHonoured
  NoDoubleCoding
  LatchedMeansEncoded
  PartitionedWhenUsable
  UntouchedUnlessNegotiated
