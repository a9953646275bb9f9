CONSTANTS
  Producers = {p1, p2, p3}
  Consumers = {c1, c2}
  KernelThreads = {}
  MultiCore = FALSE
  BufferSize = 4
  Word = 16
  InitPos = 13
  MaxOps = 5
SPECIFICATION Spec
SYMMETRY Symmetry
INVARIANTS
  TypeOK
  SlotExclusive
  ReadsOwnTicket
  QuiescentPublished
  TailDistance
  MarkerOrder
PROPERTIES
  RefusalIsTrue
  HeadsAdvance
  ImplementsFifo
