\* Samples from before, between and behind the answers, and two messages lost anywhere.
SPECIFICATION FairSpec
CONSTANTS
  Kinds <- AllKinds
  MaxSamples = 5
  MaxLost = 2
  Noisy = TRUE
INVARIANTS
  AcknowledgedHolds
  RowsAreFreshSamples
  LogHasNoGap
PROPERTY SessionStarts
CHECK_DEADLOCK FALSE
