\* Every stream of up to two blocks, messages and noise, and chosen longer ones, in reads of any size.
SPECIFICATION FairSpec
CONSTANTS
  Blocks <- AllBlocks
  LongLists <- Triples
  MaxRead = 24
  Streams <- MCStreams
  Bounds <- MCBounds
INVARIANTS
  LocationSound
  NothingLeftBehind
  SpansSound
  LostOnlyByOverlap
  CleanStreamExact
PROPERTIES
  ImplementsStream
  CleanStreamDelivered
