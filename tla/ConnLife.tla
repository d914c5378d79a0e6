------------------------------ MODULE ConnLife -------------------------------
(***************************************************************************)
(* What a connection of the Go message server promises the server, which   *)
(* calls Run and Stop: a stop that was asked for is never taken back, and  *)
(* Run returns once, only when a stop was asked for, be it by Run itself,  *)
(* and never while RunTX is inside tcpconn.Write, which has no deadline    *)
(* and may take for ever.  GoConn is shown to keep this promise for its    *)
(* connection, and MsgServer is built on it for all.                       *)
(***************************************************************************)
CONSTANT Conns

VARIABLES
  asked,   (* connections whose stopped is set             *)
  over,    (* connections whose Run has returned           *)
  writing  (* connections whose RunTX is in tcpconn.Write  *)

LifeInit == asked = {} /\ over = {} /\ writing = {}

(* Stop, on each connection of S.                                           *)
Ask(S) == asked' = asked \cup S /\ UNCHANGED <<over, writing>>

WriteBegins(c) ==
  /\ c \notin over \cup writing
  /\ writing' = writing \cup {c}
  /\ UNCHANGED <<asked, over>>

WriteEnds(c) ==
  /\ c \in writing
  /\ writing' = writing \ {c}
  /\ UNCHANGED <<asked, over>>

(* Run returns.                                                             *)
Returns(c) ==
  /\ c \in asked \ (over \cup writing)
  /\ over' = over \cup {c}
  /\ UNCHANGED <<asked, writing>>

LifeNext ==
  \E c \in Conns : Ask({c}) \/ WriteBegins(c) \/ WriteEnds(c) \/ Returns(c)

LifeSpec == LifeInit /\ [][LifeNext]_<<asked, over, writing>>
=============================================================================
