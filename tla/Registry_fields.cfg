CONSTANTS
  Threads = {t1, t2}
  Mappings = {m1, m2}
  Spellings = {o}
  Ordered = o
  Formats <- OnlyLine
  Requests <- OneField
  MaxPuts = 3
  MaxStarts = 1
SPECIFICATION Spec
INVARIANTS
  NoMixing
CHECK_DEADLOCK FALSE
