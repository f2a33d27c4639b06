CONSTANTS
  MaxChunk = 1
  MaxInput = 2
  MaxFeeds = 2
  MaxLinks = 1
  MaxLengths <- MCMaxLengths
  HeaderLen = 36
SPECIFICATION Spec
INVARIANTS
  ClearMeansPushed
