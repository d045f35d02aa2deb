SPECIFICATION Spec
CONSTANTS
  RecordsUnsupported = TRUE
  Payloads <- AllPayloads
CHECK_DEADLOCK FALSE
INVARIANTS
  DecoderTypeOK
  ResultIsDecode
  FieldsSurviveStores
  ZeroedStaysZero
  DecodesFromLeastLength
  RequiredTailCoversPosition
  OverrunIsExact
