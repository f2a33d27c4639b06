CONSTANTS
  MaxChunk = 2
  MaxInput = 3
  MaxFeeds = 2
  MaxLinks = 2
  MaxLengths <- MCMaxLengths
  HeaderLen = 36
SPECIFICATION Spec
INVARIANTS
  TypeOK
  Contiguous
  NeverTruncated
  DcbFramedOnce
  CapHonoured
  WakeupGuaranteed
  NoRawBytesInStream
PROPERTIES
  EncoderMemoryStable
  ImplementsContentCoding
