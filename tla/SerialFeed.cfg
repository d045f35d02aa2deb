SPECIFICATION SpecFeed
CONSTANTS
  Sentences <- FeedSentences
  Messages <- FeedMessages
  None = None
  SentenceCap = 511
  MaxParts = 5
  PayloadCap = 1023
  RecordsUnsupported = FALSE
  CleanStack = TRUE
  Malformed = Malformed
  NoPart = NoPart
INVARIANT
  HeldIsOwn
PROPERTIES
  ImplementsAssembler
  EveryMessageDelivered
