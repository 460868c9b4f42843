CONSTANTS
  Queries <- EveryDownsampler
  PointTimes = {3, 4, 5, 7, 35, 40, 55}
  PointValues = {1, 4}
  PerSec = 10
  SecLimit = 20
  MaxFed = 4
  Tasks <- ThreeTasks
  Requests <- EveryAggregator
  CounterMax = 9
  Times = {1, 2, 3, 4, 5}
  TsdbLen = 4
  PageCap = 2
  MaxWrites = 4
  Threads = {t1, t2}
  TagLists <- FiveLists
  Filters <- ElevenFilters
  Field = 5
  NoField = 6
  Growth = 3
  Series = {1}
  DayLen = 2
  MonthLen = 4
  Months = 2
  PointHours = {0, 1, 3, 4, 6}
  Today = 1
  BuffEntries = 2
  MaxPoints = 3
  MaxRestarts = 1
  Writers = {w1, w2}
  Days = {1, 2}
  MaxQueries = 2
  AskedQueries <- FiveQueries
  Absent = none
  ResultLists <- FiveResults
  BufferSize = 24
  Slack = 4
  Starts = {0, 3, 5, 8, 10, 13, 16}
  CalendarTimes = {1, 3, 4, 6, 9, 11, 14}
  Skip = 4
  NShards = 2
  Hour = 6
  Day = 24
  Intervals = {0, 13, 35, 37}
  MaxChanges = 2
  Channels = {c1}
  MaxCp = 2
  DayCount = 2
  Retain = 1
  Digit = 2
  MaxClock = 2
SPECIFICATION AnswersSpec
INVARIANTS
  OneValuePerInterval
  MergedExact
  NewestWins
  IdsAreNames
  QueriesFindTheirSeries
  HourlyExact
  DailyCountsDays
  RefsAreHolders
  WholeOrRefused
  MonthsAreExact
  
  ToldWereFlushed
CHECK_DEADLOCK FALSE
