SPECIFICATION Spec
CONSTANTS
  Sentences <- PlainFeed
  SentenceCap = 511
  MaxParts = 5
  PayloadCap = 1023
  RecordsUnsupported = TRUE
  CleanStack = FALSE
  Malformed = Malformed
  NoPart = NoPart
INVARIANT
  NoCrash
