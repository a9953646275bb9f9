CONSTANTS
  BackendSlots = {2, 3}
  VmmSlots = {1, 5}
  MaxDevs = 2
  IntxBase = 61
  MsiBase = 96
  MsiNum = 32
  MsiIrqs = {127}
  EmuIrqs = {40}
  Regions = {1}
  QueueSize = 1
  MaxEvents = 4
SPECIFICATION Spec
INVARIANTS
  TypeOK
  LinesFollowBackend
  MsisInjected
  RegionsReserved
  FailsOnlyWhenOverlapped
PROPERTIES
  OverlapOnlyAtBoot
CHECK_DEADLOCK FALSE
