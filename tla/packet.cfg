\* Two packets; one group of items in each behaviour.
SPECIFICATION ConversionSpec
CONSTANTS
  Packets = {p1, p2}
  Groups <- AllGroups
  Rotations <- OneRotation
  Velocities <- OneVelocity
  Frames = {"enu", "ned", "nwu"}
  Boundary = 3
  CoarseFactor = 2
  Half = 3
  RawParts = {"acc"}
  Formats <- OnePerTwo
  Systems <- MCSystems
  Topics <- MCTopics
  MaxSets = 3
  None = None
  Open = Open
INVARIANTS
  DirectionsAsTold
  ReadAsTold
  LegacyAsTold
PROPERTY TimesStayTrue
SYMMETRY Symmetry
