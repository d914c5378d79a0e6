------------------------------ MODULE MCGoConn ------------------------------
(* Instances of GoConn for TLC.                                             *)
EXTENDS GoConn, TLC
=============================================================================
