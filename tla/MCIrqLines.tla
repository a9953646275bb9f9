------------------------------ MODULE MCIrqLines ------------------------------
(***************************************************************************)
(* IrqLines for TLC: the MSI ranges of qemu-arm-virt and rpi4, the largest *)
(* range at the top of the numbers v2m_init accepts, one beyond it, and    *)
(* one that is too long.                                                   *)
(***************************************************************************)
EXTENDS IrqLines

Frame(b, n) == [irq_base |-> b, num_irq |-> n]

MCFrames ==
  {Frame(96, 32), Frame(144, 32), Frame(892, 128), Frame(893, 128), Frame(32, 129)}
==============================================================================
