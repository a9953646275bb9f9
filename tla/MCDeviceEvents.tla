---------------------------- MODULE MCDeviceEvents ----------------------------
(***************************************************************************)
(* DeviceEvents for TLC: two devices whose slots share INTx pin 1, the     *)
(* last MSI of the qemu-arm-virt range, one other interrupt, one region.   *)
(***************************************************************************)
EXTENDS DeviceEvents
==============================================================================
