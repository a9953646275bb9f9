---------------------------- MODULE MCSharedIrqLine ----------------------------
(***************************************************************************)
(* SharedIrqLine for TLC: two sources 32 apart.                            *)
(***************************************************************************)
EXTENDS SharedIrqLine
================================================================================
