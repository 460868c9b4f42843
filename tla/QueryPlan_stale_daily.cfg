CONSTANTS
  NShards = 1
  Hour = 6
  Day = 24
  Intervals = {24}
  MaxChanges = 1
SPECIFICATION PSpec
INVARIANT HourlyOrRawInstead
CHECK_DEADLOCK FALSE
