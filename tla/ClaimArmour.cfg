SPECIFICATION Spec
CONSTANTS
  RecordsUnsupported = TRUE
  Alphabet <- BoundaryCharacters
  MaxChars = 3
CHECK_DEADLOCK FALSE
INVARIANT
  CharactersAreArmoured
