-------------------------------- MODULE MCTcpNat --------------------------------
(* Small instances of TcpNat for TLC. *)
EXTENDS TcpNat
=============================================================================
