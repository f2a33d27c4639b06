SPECIFICATION Spec
CONSTANTS
  MaxLen = 130
  Messages <- MCMessages
  MaxUpdates = 2
  Libcrypto = TRUE
  Garbage = 255
INVARIANTS TypeOK DigestRight LengthInBits
CHECK_DEADLOCK FALSE
