CONSTANTS
  Fds = {1}
  Workers = {w1, w2}
  Resets = TRUE
  BuffSize = 1
  MaxClients = 2
  MaxSent = 2
SPECIFICATION Spec
INVARIANTS
  PendingExact
  OneAtATime
  OnlyStaleHurt
PROPERTIES
  EventuallyRead
CHECK_DEADLOCK FALSE
