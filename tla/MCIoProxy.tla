------------------------------ MODULE MCIoProxy ------------------------------
(***************************************************************************)
(* IoProxy for TLC.  vCPUs are numbers and find_first_zero_bit orders the  *)
(* buffers, so there is no symmetry to use.                                *)
(***************************************************************************)
EXTENDS IoProxy
==============================================================================
