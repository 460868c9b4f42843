CONSTANTS
  Ids <- LastEntry
  PageCount = 2
  Increment = 2
  CrashPoints = {}
  MaxAppends = 3
  MaxCrashes = 0
SPECIFICATION Spec
INVARIANTS
  ChainHoldsPages
CHECK_DEADLOCK FALSE
