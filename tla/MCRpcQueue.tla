----------------------------- MODULE MCRpcQueue -----------------------------
(***************************************************************************)
(* RpcQueue for TLC.  Threads with the same role and the same build of the *)
(* header are interchangeable.                                             *)
(***************************************************************************)
EXTENDS RpcQueue, TLC

Users == Threads \ KernelThreads

Symmetry ==
  Permutations(Producers \cap Users) \cup Permutations(Consumers \cap Users)
    \cup Permutations(Producers \cap KernelThreads)
    \cup Permutations(Consumers \cap KernelThreads)
=============================================================================
