\* Every sequence of calls on files of up to four bytes, in blocks of two.
SPECIFICATION Spec
CONSTANTS
  Data <- FewData
  Sizes = {0, 1, 2, 3}
  Files <- FewFiles
  Block = 2
  MaxSize = 4
INVARIANTS
  InStep
PROPERTIES
  ImplementsByteFile
