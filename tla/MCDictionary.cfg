SPECIFICATION FairSpec
CONSTANTS
  R = R
  D = D
  E = E
  F = F
  G = G
  H = H
  L = L
  P = P
  Nothing = Nothing
  Inodes <- MCInodes
  Root = R
  Names = {"d", "f", "g", "..", "long"}
  TooLong = {"long"}
  Descriptors = {3, 4, 5}
  NoFile = NoFile
  Layouts <- MCLayouts
  Moves <- MCMoves
  Contents <- MCContents
  Rewrites <- MCRewrites
  MaxDictSize = 2
  Configs <- MCConfigs
INVARIANTS OnlyCleanDictionaries NoDescriptorLeft DictionariesWhole KeysDistinct
PROPERTIES ImplementsPolicy LoadingEnds
CHECK_DEADLOCK FALSE
