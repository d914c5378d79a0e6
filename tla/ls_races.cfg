CONSTANTS
  w1 = w1
  w2 = w2
  Writers = {w1, w2}
  Stoppers = {s1}
  MaxProcs = 2
  PreMax = 1
  FrameBuf = 1

SPECIFICATION Spec

INVARIANTS
  TypeOK
  StartedIsRead
  StartedIsPaced
  FewUnkeyed

SYMMETRY WriterSymmetry

CHECK_DEADLOCK FALSE
