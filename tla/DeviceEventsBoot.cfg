CONSTANTS
  BackendSlots = {2, 3}
  VmmSlots = {1, 5}
  MaxDevs = 2
  IntxBase = 61
  MsiBase = 96
  MsiNum = 32
  MsiIrqs = {}
  EmuIrqs = {}
  Regions = {}
  QueueSize = 2
  MaxEvents = 3
SPECIFICATION Spec
INVARIANTS
  LinesAlwaysFollowBackend
CHECK_DEADLOCK FALSE
