SPECIFICATION Spec
CONSTANTS
  Streams <- MCStreams
  Phone <- MCPhone
  Chunks = {1, 7, 20, 128}
INVARIANTS
  DeliveredAsSent
  ReadBackAsWritten
  AnswersReadable
CHECK_DEADLOCK FALSE
