CONSTANTS
  Senders = {t1, t2}
  MsgCap = 1
  DataCap = 2
  MaxBatch = 2

SPECIFICATION ConnFairSpec

INVARIANTS
  NeverPanics
  ReturnsClean

PROPERTIES
  StopEndsRun
  TxEndsRun
  KeepsLife

CHECK_DEADLOCK FALSE
