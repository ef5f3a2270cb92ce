------------------------------ MODULE MCVMEngine ------------------------------
(* Instances of VMEngine for TLC. *)
EXTENDS VMEngine
=============================================================================
