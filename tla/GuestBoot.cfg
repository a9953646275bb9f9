CONSTANTS
  BackendSlots = {2, 3}
  VmmSlots = {1, 5}
  MaxDevs = 2
  IntxBase = 61
  MsiBase = 96
  MsiNum = 32
  MsiIrqs = {}
  EmuIrqs = {}
  Regions = {}
  QueueSize = 2
  MaxEvents = 3
  Confs <- MCConfs
  MaxPhandle = 7
SPECIFICATION BootSpec
INVARIANTS
  BootTypeOK
  DevicesInTree
  PciUsesOwnPool
  MemoryBacked
PROPERTIES
  Boots
CHECK_DEADLOCK FALSE
