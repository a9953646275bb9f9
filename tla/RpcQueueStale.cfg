CONSTANTS
  Producers = {p1, p2}
  Consumers = {c1}
  KernelThreads = {}
  MultiCore = TRUE
  BufferSize = 4
  Word = 16
  InitPos = 14
  MaxOps = 2
SPECIFICATION Spec
SYMMETRY Symmetry
INVARIANTS
  ReadsOwnTicket
