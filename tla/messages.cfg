\* Every sequence of operations around the length at which the header changes form;
\* counters that wrap at 4, over two wraps, and packets without one.
SPECIFICATION ClassSpec
CONSTANTS
  BusIds <- FewBusIds
  MessageIds <- FewMessageIds
  Sizes <- FewSizes
  Offsets <- FewOffsets
  Values <- FewValues
  Counts <- FewCounts
  MaxData = 511
  Half = 2
  MaxCount = 8
  MaxId = 8
INVARIANTS
  DeleteUndoesInsert
  ExactDifferences
  HighestIsNewest
PROPERTY SettersKeepReadable
