CONSTANTS
  VCpus = {0, 1}
  Main = main
  Natives = {main}
  NativeBase = 2
  NumSlots = 4
  BufferSize = 4
  MaxRequests = 4
  None = None
SPECIFICATION Spec
INVARIANTS
  TypeOK
  BufferLentOnce
  AnswersMatch
  FailsOnlyInAckWindow
PROPERTIES
  ImplementsAccess
CHECK_DEADLOCK FALSE
