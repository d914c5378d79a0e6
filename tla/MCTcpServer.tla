---------------------------- MODULE MCTcpServer -----------------------------
(* Instances of TcpServer for TLC.                                          *)
EXTENDS TcpServer, TLC

CONSTANTS c1, c2

(* Which messages they are does not change what becomes of them.            *)
Session == {[kind |-> "auth", valid |-> TRUE]}

(* One connection sends two messages, the other one.                        *)
Talks == (c1 :> 2) @@ (c2 :> 1)
=============================================================================
