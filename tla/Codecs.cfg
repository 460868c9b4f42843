CONSTANTS
  ByteBits = 2
  Bytes = 3
  Sources <- TwoBytes
  FirstBits = 4
  SmallBits = 2
  MidBits = 3
  LargeBits = 9
  Half = 4
  HalfLog = 2
  DigitBits = 2
  LongBytes = 3
  Unit = 9
  SubUnit = 3
  Formats <- Versions
  Start = 1
  Times = {1, 2, 12}
  Nums = {0, 40, 129}
  PageBits = 24
  PageDps = 3
  CountMod = 16
  MaxDps = 4
  Entries <- ThreeEntries
  Base = 2
  Precision = 2
  BuffSize = 34
  MaxEntries = 4
  Documents <- TwoLevels
  PlainRequests <- PlainPuts
  JsonRequests <- JsonPuts
  InfluxRequests <- InfluxPuts
  Batches <- Datagrams
  RefusedMetrics = {"bad"}
SPECIFICATION CodecsSpec
INVARIANTS
  RoundTrip
  DriftIsBounded
  ReadsWhatWasAdded
  TornTailIsDropped
  ParsesBack
  EveryPointTried
PROPERTIES
  ImplementsBitLog
CHECK_DEADLOCK FALSE
