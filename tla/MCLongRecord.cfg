SPECIFICATION Spec
CONSTANTS
  Word = 65536
  MinRecord = 2
  RecordAlign = 2
  MaxBufferSize = 48
  PrefBufferSize = 24
  Requests <- LongRecordRequests
INVARIANTS
  RoundRobinEquallyDivided
CHECK_DEADLOCK FALSE
