CONSTANTS
  Producers = {km, qemu}
  Consumers = {vmm}
  KernelThreads = {km}
  MultiCore = FALSE
  BufferSize = 4
  Word = 16
  InitPos = 14
  MaxOps = 3
SPECIFICATION FairSpec
PROPERTIES
  CallsReturn
