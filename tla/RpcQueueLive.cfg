CONSTANTS
  Producers = {p1, p2}
  Consumers = {c1}
  KernelThreads = {c1}
  MultiCore = TRUE
  BufferSize = 4
  Word = 16
  InitPos = 14
  MaxOps = 5
SPECIFICATION FairSpec
INVARIANTS
  IInv
PROPERTIES
  CallsReturn
