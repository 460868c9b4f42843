CONSTANTS
  Series = {s1}
  Tsdbs <- TwoTsdbs
  Span = 2
  MaxPages = 2
SPECIFICATION Spec
INVARIANTS
  BuffersPointAtTail
  NoPointLost
  OooFlagged
CHECK_DEADLOCK FALSE
