CONSTANTS
  Series = {s1}
  Tsdbs <- OneTsdb
  Span = 2
  MaxPages = 2
  MaxCrashes = 1
  Ids <- Grows
  PageCount = 2
  Increment = 2
  CrashPoints = {0, 2, 3, 4, 5}
  MaxAppends = 4
  Threads = {t1, t2}
  Mappings = {m1, m2}
  Spellings = {o, a}
  Ordered = o
  Formats <- Both
  Requests <- TwoFields
  MaxPuts = 3
  MaxStarts = 1
SYMMETRY Alike
SPECIFICATION StoreSpec
INVARIANTS
  LoggedPointsSurvive
  PagesCanBeRead
  ChainHoldsPages
  OneIdPerSeries
  OwnPages
CHECK_DEADLOCK FALSE
