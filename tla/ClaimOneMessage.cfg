SPECIFICATION Spec
CONSTANTS
  Sentences <- MixedFeed
  SentenceCap = 511
  MaxParts = 5
  PayloadCap = 1023
  RecordsUnsupported = TRUE
  CleanStack = TRUE
  Malformed = Malformed
  NoPart = NoPart
INVARIANT
  OneMessagePerReply
