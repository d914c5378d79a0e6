CONSTANTS
  c1 = c1
  c2 = c2
  c3 = c3
  i1 = i1
  i2 = i2
  Conns = {c1, c2, c3}
  Ids = {i1, i2}
  IdOf <- Redialled
  Channels = {ch1}
  None = None

SPECIFICATION FairSpec

INVARIANTS
  RegisteredIsReached

PROPERTIES
  EveryoneStopped
  StopEnds

CHECK_DEADLOCK FALSE
