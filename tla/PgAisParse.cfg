SPECIFICATION BoundedSpec
CONSTANTS
  Sentences <- BackendFeed
  SentenceCap = 511
  MaxParts = 5
  PayloadCap = 1023
  RecordsUnsupported = TRUE
  CleanStack = FALSE
  Malformed = Malformed
  NoPart = NoPart
  MaxMessages = 8
  MaxBlocks = 32
INVARIANTS
  BackendTypeOK
  
  HeldPartsAreAllocated

  
