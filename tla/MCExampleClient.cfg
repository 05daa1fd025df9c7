SPECIFICATION FairExampleSpec
CONSTANTS
  Buffers = {b1, b2}
  NoBuffer = NoBuffer
  MaxNumBuffers = 2
  MinNumBuffers = 2
  Configs <- ExampleConfigs
  MaxSlots = 1
  Faults = {"post", "start", "wait"}
  MidRun = {}
  MaxSystems = 2
  MaxBoards = 2
  Usage <- ExampleUsage
  Numbers <- TypedNumbers
  CommandLines <- TypedLines
  Atoi <- AtoiOf
  DefaultTimeout = 1
INVARIANTS
  ExampleTypeOK
  EveryBoardVisited
  LedsOff
  FileRight
  CleanExit
PROPERTIES
  ExampleEnds
CHECK_DEADLOCK FALSE
