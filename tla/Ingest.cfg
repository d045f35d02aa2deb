SPECIFICATION SpecIngest
CONSTANTS
  Sentences <- IngestSentences
  Messages <- IngestMessages
  None = None
  SentenceCap = 511
  MaxParts = 5
  PayloadCap = 1023
  RecordsUnsupported = FALSE
  CleanStack = TRUE
  Malformed = Malformed
  NoPart = NoPart
  MaxFaults = 3
INVARIANTS
  RowIsOwn
PROPERTIES
  ImplementsDelivery
