CONSTANTS
  Limits <- MCDefaultOrder
  Ping = 2
  MaxMissed = 2
  MaxEmpty = 1
  BacklogMax = 1
  QuietMax = 8
SPECIFICATION Spec
INVARIANT IdleSessionCloses
CHECK_DEADLOCK FALSE
