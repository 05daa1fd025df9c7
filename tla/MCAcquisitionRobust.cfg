SPECIFICATION ThreadSpec
CONSTANTS
  Buffers = {b1, b2}
  NoBuffer = NoBuffer
  MaxNumBuffers = 2
  MinNumBuffers = 2
  Configs <- RobustConfigs
  MaxSlots = 1
  Faults = {"post", "start", "wait", "send"}
  MidRun = {"sockets", "setAll"}
INVARIANTS
  MemoryLive
  ExclusiveBuffers
  CleanWhenStopped
PROPERTIES
  StopReturns
  AcquireReturns
