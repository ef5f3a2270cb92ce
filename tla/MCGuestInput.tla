---------------------------- MODULE MCGuestInput ----------------------------
(* The input queues on a small instance.                                     *)
EXTENDS GuestInput
=============================================================================
