CONSTANTS
  Items = {a, b}
  NoItem = none
  m_capacity = 4
  m_thread_count = 2
  Conns = {c1, c2, c3}
  Room = 1
  MaxTasks = 3
  HttpRequests <- SixRequests
  Handled = {"q", "put"}
  BuffLen = 5
  MaxRequests = 3
  Users = {0, 1}
  Memory = {1, 2, 3}
  UsageSize = 2
  MaxAllocs = 3
  Threads = {0, 1}
  MaxFwd = 3
  BuffCap = 2
  MaxBuffs = 3
  WorkerBuffs = 2
  RotationSize = 2
  SizeMod = 16
  MaxOutages = 1
  Writers = {0, 1}
  Lines <- TwoLines
  Newline = "eol"
  StopLine <- Stop
  PipeRoom = 7
  BuffSize = 6
  ReadTries = 2
  MaxLines = 4
SPECIFICATION ServiceSpec
INVARIANTS
  InOrderPerConn
  OneOwnerEach
PROPERTIES
  ImplementsFifo
  ShutdownEnds
  WholeRequestIsAnswered
  BacklogIsBackfilled
  CommandsAreRead
CHECK_DEADLOCK FALSE
