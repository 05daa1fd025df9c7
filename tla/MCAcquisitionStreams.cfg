SPECIFICATION Spec
CONSTANTS
  Buffers = {b1, b2, b3}
  NoBuffer = NoBuffer
  MaxNumBuffers = 3
  MinNumBuffers = 2
  Configs <- BothConfigs
  MaxSlots = 2
  Faults = {}
  MidRun = {}
SYMMETRY BufferSymmetry
INVARIANTS
  TypeOK
  QueueAgreement
  NoBufferLost
  PostedFits
  CapturesInOrder
PROPERTIES
  AppStreamSpec
  Ch1StreamSpec
  Ch2StreamSpec
