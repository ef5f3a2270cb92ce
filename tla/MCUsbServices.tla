--------------------------- MODULE MCUsbServices ----------------------------
(***************************************************************************)
(* Two calls of openPort and one channel, which the second call can only   *)
(* have after the first.  The first client writes more than the guest's    *)
(* window holds; both services answer, the second one with more than the   *)
(* receive buffer holds.                                                   *)
(***************************************************************************)
EXTENDS UsbServices

MCUp == [k \in Opens |-> IF k = 1 THEN 2 ELSE 0]

MCDown == [p \in Ports |-> IF p = 1 THEN 1 ELSE 2]
=============================================================================
