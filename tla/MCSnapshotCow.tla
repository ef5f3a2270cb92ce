----------------------------- MODULE MCSnapshotCow -----------------------------
(* SnapshotCow for TLC. *)
EXTENDS SnapshotCow
=============================================================================
