SPECIFICATION Spec
CONSTANTS
  Lengths <- TestLengths
  None = None
CHECK_DEADLOCK FALSE
INVARIANT
  RoundTrip
