CONSTANTS
  VCpus = {0}
  Main = main
  Natives = {main}
  NativeBase = 2
  NumSlots = 4
  BufferSize = 3
  MaxRequests = 5
  None = None
SPECIFICATION FairSpec
PROPERTIES
  Served
CHECK_DEADLOCK FALSE
