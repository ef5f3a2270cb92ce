---- MODULE MCMdRawBridge ----
(* The instance of MdRawBridge: a request that reaches from the medium into  *)
(* the guard, one for the end of the guard and one that leaves it.           *)
EXTENDS MdRawBridge

MCShapes == {<<0, 2>>, <<2, 1>>, <<2, 2>>}
====
