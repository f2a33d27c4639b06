CONSTANTS
  MaxChunk = 2
  MaxInput = 2
  MaxFeeds = 2
  MaxLinks = 1
  MaxLengths <- MCMaxLengths
  HeaderLen = 36
SPECIFICATION FairSpec
PROPERTIES
  Terminates
