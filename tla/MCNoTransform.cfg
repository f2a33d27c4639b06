SPECIFICATION FairSpec
CONSTANTS
  Chars <- MCChars
  Lower <- MCLower
  Directive <- MCDirective
  Lists <- MCLists
INVARIANTS FoundIfSaid SegmentsWhole
PROPERTIES WalkEnds
CHECK_DEADLOCK FALSE
