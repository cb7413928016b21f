------------------------ MODULE MCInterruptManager ------------------------
(***************************************************************************)
(* Instances of InterruptManager; the vectors are real ones: the timer     *)
(* (0x20) and the ATA controller (0x76).                                   *)
(***************************************************************************)
EXTENDS InterruptManager
=============================================================================
