\* A server that starts late, dies or is held up, and clients that leave.
SPECIFICATION FairSpec
CONSTANTS
  Clients = {c1, c2}
  QLen = 1
  Lines = 3
  BufLen = 2
  MaxSleep = 2
  MaxNow = 1
  Recorders = {c2}
  Troubled = TRUE
INVARIANTS
  OneRunEach
  DoneIsWhole
  GivesUpLate
PROPERTY EveryClientEnds
CHECK_DEADLOCK FALSE
