\* Three frames, packets in up to three parts, a reset anywhere; two UDP clients, up to
\* three server processes, lost and reordered datagrams.
SPECIFICATION PairSpec
CONSTANTS
  Images = 3
  Parts = 3
  Capacity = 3
  MayBreak = TRUE
  Clients = {c1, c2}
  MaxLines = 1
INVARIANTS
  ShownAsTransmitted
  OnePairEach
  OwnLines
PROPERTIES
  AllShown
  WaitsEnd
CHECK_DEADLOCK FALSE
