SPECIFICATION Spec
CONSTANTS
  RecordsUnsupported = TRUE
  Reports <- EdgeReports
  Leftovers <- StackValues
  Missing = Missing
  NaN = NaN
  Residue = Residue
  Own = Own
  Null = Null
CHECK_DEADLOCK FALSE
INVARIANTS
  PointIffOnGlobe
  SentinelsAreNull
  CoursesAgree
  AnswersAreKnown
  TypeTellsColumns
  NaNOnlyWhenCutOff
