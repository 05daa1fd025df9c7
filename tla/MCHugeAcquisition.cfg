SPECIFICATION Spec
CONSTANTS
  Word = 67108864
  MinRecord = 4
  RecordAlign = 1
  MaxBufferSize = 4000000
  PrefBufferSize = 62500
  Requests <- HugeRequests
INVARIANTS
  RoundRobinsDividedEqually
