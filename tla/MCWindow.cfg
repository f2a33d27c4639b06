SPECIFICATION Spec
CONSTANTS
  MinBits = 10
  MaxBits = 24
  Default = 19
  MaxHint = 20000000
  Sizes <- MCSizes
  Lengths <- MCLengths
INVARIANTS WindowAssumption TypeOK WindowAsConfigured SmallestWindow
CHECK_DEADLOCK FALSE
