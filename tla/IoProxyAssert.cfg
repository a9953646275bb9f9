CONSTANTS
  VCpus = {0}
  Main = main
  Natives = {main}
  NativeBase = 2
  NumSlots = 4
  BufferSize = 4
  MaxRequests = 3
  None = None
SPECIFICATION Spec
INVARIANTS
  CallbackFree
CHECK_DEADLOCK FALSE
