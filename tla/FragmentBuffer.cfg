SPECIFICATION Spec
CONSTANTS
  Sentences <- WholeFeed
  SentenceCap = 511
  MaxParts = 5
  PayloadCap = 1023
  RecordsUnsupported = TRUE
  CleanStack = FALSE
  Malformed = Malformed
  NoPart = NoPart
INVARIANTS
  TypeOK
  ReceivedCountsParts
  LoopsStayInside
  NoCompleteMessageWaits
  DeliveredInSequence
  PairsJoinWhole
  PayloadIsWholeField
PROPERTY
  StuckStaysStuck
