CONSTANTS
  Channels = {"a", "b"}
  MaxPushers = 2
  None = None

SPECIFICATION RelayFairSpec

INVARIANTS
  OnePush
  NoneLeft

PROPERTIES
  LiveIsRelayed
  StaleIsStopped
  StopEndsLoop

CHECK_DEADLOCK FALSE
