CONSTANTS
  Threads = {ntfn}
  Sources = {1, 33}
SPECIFICATION Spec
INVARIANTS
  WiredOr
