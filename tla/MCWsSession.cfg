CONSTANTS
  Limits <- MCLimits
  Ping = 2
  MaxMissed = 1
  MaxEmpty = 0
  BacklogMax = 2
  QuietMax = 0
SPECIFICATION FairSpec
INVARIANT WholeOrDecoding
INVARIANT EndsOnce
INVARIANT CancelledIsTrue
CHECK_DEADLOCK FALSE
PROPERTY SessionIsLeft
PROPERTY SlotComesBack
PROPERTY SilentClientIsDropped
