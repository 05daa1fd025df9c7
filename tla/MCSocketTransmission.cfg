SPECIFICATION PolledSpec
CONSTANTS
  Buffers = {b1, b2}
  NoBuffer = NoBuffer
  MaxNumBuffers = 2
  MinNumBuffers = 2
  Configs <- SocketConfigs
  MaxSlots = 1
  Faults = {}
  MidRun = {"sockets"}
  WorkLen = 3
  SocketFloats = 3
  WireCapacity = 2
INVARIANTS
  SocketTypeOK
  FramesWhole
  OneProducer
PROPERTIES
  LibrarySpec
  FloatStreams
  StopReturnsHere
  AllReceived
