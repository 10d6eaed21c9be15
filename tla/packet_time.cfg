\* What a packet sent in a message says of its sample time.
SPECIFICATION ConversionSpec
CONSTANTS
  Packets = {p1, p2}
  Groups = {"time"}
  Rotations <- OneRotation
  Velocities <- OneVelocity
  Frames = {"enu", "ned", "nwu"}
  Boundary = 3
  CoarseFactor = 2
  Half = 3
  RawParts = {"acc"}
  Formats <- OnePerTwo
  Systems <- MCSystems
  Topics <- MCTopics
  MaxSets = 3
  None = None
  Open = Open
INVARIANT TimesAgree
SYMMETRY Symmetry
