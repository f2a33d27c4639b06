SPECIFICATION FieldsSpec
CONSTANTS
  Chars <- MCChars
  Lower <- MCLower
  NameChars <- MCNameChars
  Coding <- MCCoding
  AllowWildcard = TRUE
  Fields <- MCFields
INVARIANTS TypeOK AgreesWithOracle ElementsWhole FieldMeansItsMembers
PROPERTIES Progress
