CONSTANT Word = 64
SPECIFICATION RatioSpec
INVARIANTS
  RatioTypeOK
  DigitsExact
  PrintedHalfUp
CHECK_DEADLOCK FALSE
