----------------------------- MODULE MsgServer ------------------------------
(***************************************************************************)
(* JTT808MsgServer with the FabTCPServer that accepts for it: start, stop, *)
(* the clean-up of the connections and the two tables of connections.  A   *)
(* connection is what ConnLife promises; GoConn is its detail.             *)
(*                                                                         *)
(* mgr is the manager goroutine of Start: "poll" (waits for a stop),       *)
(* "join" (activethreads.Wait), "look" and "sweep" in cleanupconnections,  *)
(* and "told" when it has called Stopped.  lpc is the goroutine of         *)
(* FabTCPServer: "listen" and "bind" (the attempts to listen), "check" and *)
(* "accept", "reset", "tell" and "ended".  hpc[c] is the goroutine of      *)
(* jtt808ConnHandler: "accepted" before it registers c, "running" in Run,  *)
(* then "done".                                                            *)
(*                                                                         *)
(* Two connections may have one id, the pair of their addresses: a peer    *)
(* that resets its connection may dial again from the same port before     *)
(* the server has noticed.  RegisterChannel, UnregisterChannel and TX are  *)
(* for external code ("used by external code to send messages"); served    *)
(* is its view: who has registered a channel and not unregistered it.      *)
(***************************************************************************)
EXTENDS Naturals, ConnLife

CONSTANTS
  Ids, IdOf,     (* connid of each connection                              *)
  Channels, None

ASSUME MsgServerAssumption == IdOf \in [Conns -> Ids] /\ None \notin Conns

VARIABLES
  srvStopped, fabStopped,   (* stopped of each: 0 idle, 1 running, 2 to stop *)
  mgr, lpc, hpc,
  activetcpconn, channelmap,
  served

lifeVars   == <<asked, over, writing>>
threadVars == <<srvStopped, fabStopped, mgr, lpc>>
chanVars   == <<channelmap, served>>
srvVars    == <<threadVars, hpc, activetcpconn, chanVars, lifeVars>>

Init ==
  /\ srvStopped = 0 /\ fabStopped = 0
  /\ mgr = "none" /\ lpc = "none"
  /\ hpc = [c \in Conns |-> "none"]
  /\ activetcpconn = [i \in Ids |-> None]
  /\ channelmap = [ch \in Channels |-> None]
  /\ served = [ch \in Channels |-> {}]
  /\ LifeInit

(* CompareAndSwap on a stopped: only if it was running.                     *)
SwapToStop(n) == IF n = 1 THEN 2 ELSE n

-----------------------------------------------------------------------------
(* JTT808MsgServer.Start and Stop; its stopped is never set back to 0.      *)
Start ==
  /\ srvStopped = 0 /\ srvStopped' = 1
  /\ fabStopped' = 1
  /\ mgr' = "poll" /\ lpc' = "listen"
  /\ UNCHANGED <<hpc, activetcpconn, chanVars, lifeVars>>

StopServer ==
  /\ srvStopped = 1 /\ srvStopped' = SwapToStop(srvStopped)
  /\ UNCHANGED <<fabStopped, mgr, lpc, hpc, activetcpconn, chanVars, lifeVars>>

MgrStops ==
  /\ mgr = "poll" /\ srvStopped # 1
  /\ mgr' = "join"
  /\ fabStopped' = SwapToStop(fabStopped)
  /\ UNCHANGED <<srvStopped, lpc, hpc, activetcpconn, chanVars, lifeVars>>

(* The wait for the accept loop.  Mutant: without it.                       *)
AcceptedAnyway == TRUE
AcceptedLast   == lpc = "ended"

MgrJoins ==
  /\ mgr = "join" /\ AcceptedLast
  /\ mgr' = "look"
  /\ UNCHANGED <<srvStopped, fabStopped, lpc, hpc, activetcpconn, chanVars, lifeVars>>

(* cleanupconnections: until nobody is left, stop everybody.                *)
Registered == {c \in Conns : activetcpconn[IdOf[c]] = c}

MgrLooks ==
  /\ mgr = "look"
  /\ mgr' = IF Registered = {} THEN "told" ELSE "sweep"
  /\ UNCHANGED <<srvStopped, fabStopped, lpc, hpc, activetcpconn, chanVars, lifeVars>>

(* Mutant: only the connections that have no channel.                       *)
ToStopIdle == {c \in Registered : \A ch \in Channels : channelmap[ch] # c}
ToStop     == Registered

MgrSweeps ==
  /\ mgr = "sweep" /\ mgr' = "look"
  /\ Ask(ToStop)
  /\ UNCHANGED <<srvStopped, fabStopped, lpc, hpc, activetcpconn, chanVars>>

-----------------------------------------------------------------------------
(* FabTCPServer.  A failed attempt to listen is repeated.                   *)
LGoes(from, to) == lpc = from /\ lpc' = to

Attempt ==
  /\ LGoes("listen", IF fabStopped = 1 THEN "bind" ELSE "reset")
  /\ UNCHANGED <<srvStopped, fabStopped, mgr, hpc, activetcpconn, chanVars, lifeVars>>

Bound(where) ==
  /\ LGoes("bind", where)
  /\ UNCHANGED <<srvStopped, fabStopped, mgr, hpc, activetcpconn, chanVars, lifeVars>>

AcceptLoop ==
  /\ LGoes("check", IF fabStopped = 1 THEN "accept" ELSE "reset")
  /\ UNCHANGED <<srvStopped, fabStopped, mgr, hpc, activetcpconn, chanVars, lifeVars>>

Accept(c) ==
  /\ LGoes("accept", "check")
  /\ hpc[c] = "none" /\ hpc' = [hpc EXCEPT ![c] = "accepted"]
  /\ UNCHANGED <<srvStopped, fabStopped, mgr, activetcpconn, chanVars, lifeVars>>

AcceptTimesOut ==
  /\ LGoes("accept", "check")
  /\ UNCHANGED <<srvStopped, fabStopped, mgr, hpc, activetcpconn, chanVars, lifeVars>>

(* Any other error stops the listener, and nobody tells JTT808MsgServer.    *)
AcceptFails ==
  /\ LGoes("accept", "check")
  /\ fabStopped' = SwapToStop(fabStopped)
  /\ UNCHANGED <<srvStopped, mgr, hpc, activetcpconn, chanVars, lifeVars>>

Reset ==
  /\ LGoes("reset", "tell")
  /\ fabStopped' = 0
  /\ UNCHANGED <<srvStopped, mgr, hpc, activetcpconn, chanVars, lifeVars>>

Tell ==
  /\ LGoes("tell", "ended")
  /\ UNCHANGED <<srvStopped, fabStopped, mgr, hpc, activetcpconn, chanVars, lifeVars>>

-----------------------------------------------------------------------------
(* The goroutine of jtt808ConnHandler; what it registers may replace, and   *)
(* what it deletes may be, another connection's entry.                      *)
Register(c) ==
  /\ hpc[c] = "accepted" /\ hpc' = [hpc EXCEPT ![c] = "running"]
  /\ activetcpconn' = [activetcpconn EXCEPT ![IdOf[c]] = c]
  /\ UNCHANGED <<threadVars, chanVars, lifeVars>>

(* Run meets the end of the stream or an error, and asks itself to stop.    *)
RunEnds(c) ==
  /\ hpc[c] = "running" /\ c \notin asked
  /\ Ask({c})
  /\ UNCHANGED <<threadVars, hpc, activetcpconn, chanVars>>

(* cmdHandle answers, in RunTX: tcpconn.Write, which has no deadline, takes *)
(* until the peer reads or is gone.                                         *)
Writes(c) ==
  /\ hpc[c] = "running"
  /\ WriteBegins(c) \/ WriteEnds(c)
  /\ UNCHANGED <<threadVars, hpc, activetcpconn, chanVars>>

ConnReturns(c) ==
  /\ hpc[c] = "running"
  /\ Returns(c)
  /\ UNCHANGED <<threadVars, hpc, activetcpconn, chanVars>>

Deregister(c) ==
  /\ hpc[c] = "running" /\ c \in over
  /\ hpc' = [hpc EXCEPT ![c] = "done"]
  /\ activetcpconn' = [activetcpconn EXCEPT ![IdOf[c]] = None]
  /\ UNCHANGED <<threadVars, chanVars, lifeVars>>

-----------------------------------------------------------------------------
(* The channels.  The connection that is replaced is asked to stop, even    *)
(* when it is the one that registers.                                       *)
RegisterChannel(ch, c) ==
  /\ hpc[c] = "running"
  /\ channelmap' = [channelmap EXCEPT ![ch] = c]
  /\ served' = [served EXCEPT ![ch] = @ \cup {c}]
  /\ Ask({channelmap[ch]} \ {None})
  /\ UNCHANGED <<threadVars, hpc, activetcpconn>>

(* Mutant: whoever has the channel loses it.                                *)
OwnsAnyway(ch, c) == channelmap[ch] # None
Owns(ch, c)       == channelmap[ch] # None /\ IdOf[channelmap[ch]] = IdOf[c]

UnregisterChannel(ch, c) ==
  /\ c \in served[ch]
  /\ served' = [served EXCEPT ![ch] = @ \ {c}]
  /\ channelmap' = IF Owns(ch, c) THEN [channelmap EXCEPT ![ch] = None] ELSE channelmap
  /\ UNCHANGED <<threadVars, hpc, activetcpconn, lifeVars>>

(* TX hands a message to this connection, if Send of it takes one.          *)
TX(ch, c) == channelmap[ch] = c /\ c \notin asked

-----------------------------------------------------------------------------
Manager  == MgrStops \/ MgrJoins \/ MgrLooks \/ MgrSweeps
Listener == Attempt \/ Bound("check") \/ AcceptLoop \/ AcceptTimesOut \/ Reset \/ Tell
Handler(c) == Register(c) \/ Deregister(c)

Next ==
  \/ Start \/ StopServer \/ Manager
  \/ Listener \/ Bound("listen") \/ AcceptFails
  \/ \E c \in Conns : Accept(c) \/ Handler(c) \/ RunEnds(c) \/ Writes(c) \/ ConnReturns(c)
  \/ \E ch \in Channels, c \in Conns : RegisterChannel(ch, c) \/ UnregisterChannel(ch, c)

Spec == Init /\ [][Next]_srvVars

(* Goroutines that can run do; AcceptTCP has a deadline of a second, so it  *)
(* returns.  Run returns when it is asked to, if again and again it is not  *)
(* in a write: that is GoConn's StopEndsRun, condition included, and the    *)
(* reason for the strong fairness.  No write need end, and nobody need      *)
(* start, stop or connect to the server.                                    *)
Fairness ==
  /\ WF_srvVars(Manager) /\ WF_srvVars(Listener)
  /\ \A c \in Conns : WF_srvVars(Handler(c)) /\ SF_srvVars(ConnReturns(c))

FairSpec == Spec /\ Fairness

-----------------------------------------------------------------------------
(* Also: entries are filed under their own ids.                             *)
TypeOK ==
  /\ srvStopped \in 0..2 /\ fabStopped \in 0..2
  /\ mgr \in {"none", "poll", "join", "look", "sweep", "told"}
  /\ lpc \in {"none", "listen", "bind", "check", "accept", "reset", "tell", "ended"}
  /\ hpc \in [Conns -> {"none", "accepted", "running", "done"}]
  /\ asked \subseteq Conns /\ over \subseteq asked /\ writing \subseteq Conns \ over
  /\ activetcpconn \in [Ids -> Conns \cup {None}]
  /\ \A i \in Ids : activetcpconn[i] # None => IdOf[activetcpconn[i]] = i
  /\ channelmap \in [Channels -> Conns \cup {None}]
  /\ served \in [Channels -> SUBSET Conns]

(* Another connection has had the same id.                                  *)
Shared(c) == \E d \in Conns \ {c} : IdOf[d] = IdOf[c] /\ hpc[d] # "none"

(* "kill everyone" (jtt808msgserver.go:78): when the manager goes to call   *)
(* Stopped no registered connection is still running, except for one whose  *)
(* entry a connection with the same id has taken, and no connection is      *)
(* accepted any more.  A connection whose goroutine has not registered it   *)
(* by then is left behind.                                                  *)
EveryoneStopped ==
  [][mgr' = "told" /\ mgr # "told" =>
       /\ lpc = "ended"
       /\ \A c \in Conns : hpc[c] = "running" => Shared(c)]_mgr

(* A connection that has registered a channel, has not unregistered it and  *)
(* is not asked to stop is the one TX reaches: whoever it replaced is asked *)
(* to stop, and a late UnregisterChannel by one of those does not take the  *)
(* channel away from it.  Connections with one id take it from each other.  *)
RegisteredIsReached ==
  \A ch \in Channels : \A c \in served[ch] \ asked : TX(ch, c) \/ Shared(c)

(* A server that is told to stop comes to call Stopped, whoever connects    *)
(* meanwhile, unless a connection stays in a write to a peer that does not  *)
(* read: its entry is never deleted, and cleanupconnections never ends.     *)
StopEnds ==
  (\A c \in Conns : []<>(c \notin writing)) => (srvStopped = 2 ~> mgr = "told")
=============================================================================
