CONSTANTS
  Series = {s1}
  Tsdbs <- OneTsdb
  Span = 3
  MaxPages = 2
  MaxQueries = 1
SPECIFICATION QSpec
INVARIANTS
  QueryExact
  QueryFindsFlushed
CHECK_DEADLOCK FALSE
