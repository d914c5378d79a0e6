---------------------------- MODULE MCMsgServer -----------------------------
(* Instances of MsgServer for TLC.                                          *)
EXTENDS MsgServer, TLC

CONSTANTS c1, c2, c3, i1, i2

(* A connection that is dialled again from the same address, and another.   *)
Redialled == (c1 :> i1) @@ (c2 :> i1) @@ (c3 :> i2)
=============================================================================
