SPECIFICATION Spec
CONSTANTS
  Sentences <- PlainFeed
  SentenceCap = 511
  MaxParts = 5
  PayloadCap = 1023
  RecordsUnsupported = TRUE
  CleanStack = TRUE
  Malformed = Malformed
  NoPart = NoPart
PROPERTY
  LoneSentenceDecodes
