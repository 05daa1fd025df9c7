SPECIFICATION Spec
CONSTANTS
  Buffers = {b1, b2, b3}
  NoBuffer = NoBuffer
  MaxNumBuffers = 3
  MinNumBuffers = 2
  Configs <- PartialConfigs
  MaxSlots = 2
  Faults = {}
  MidRun = {}
INVARIANTS
  AppRoundsWhole
