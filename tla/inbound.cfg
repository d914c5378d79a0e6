CONSTANTS
  Magic <- TwoBytes
  Base = 1
  Longer = 1
  SubInfo = 1
  MaxPayload = 3
  Messages <- SomeMessages
  Payloads <- SomePayloads
  Noise <- SomeNoise
  MaxUnits = 2

SPECIFICATION Spec

INVARIANTS
  TypeOK
  PairsOfMarkers
  ChainOfPackets
  LaterHandled
  PacketsKept

CHECK_DEADLOCK FALSE
