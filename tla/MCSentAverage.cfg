SPECIFICATION ProcessSpec
CONSTANTS
  Word = 65536
  MinRecord = 1
  RecordAlign = 1
  MaxBufferSize = 24
  PrefBufferSize = 12
  Requests <- PartialAverageRequests
INVARIANT SentAverageHasSamples
