CONSTANTS
  c1 = c1
  c2 = c2
  Clients = {c1, c2}
  Phones = {p1}
  Bodies <- Session
  RxCap = 2
  TxCap = 1
  MaxSent <- Talks
  MaxBatch = 2

SPECIFICATION Spec

INVARIANTS
  TypeOK
  NothingLeaks

PROPERTY
  AnswersInOrder

CHECK_DEADLOCK FALSE
