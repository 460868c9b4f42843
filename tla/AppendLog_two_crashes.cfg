CONSTANTS
  Series = {s1}
  Tsdbs <- OneTsdb
  Span = 2
  MaxPages = 2
  MaxCrashes = 2
SPECIFICATION ASpec
INVARIANTS
  LoggedPointsSurvive
CHECK_DEADLOCK FALSE
