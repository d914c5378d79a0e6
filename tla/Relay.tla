------------------------------- MODULE Relay -------------------------------
(***************************************************************************)
(* RelayManager of rtsp_relay.py: one coroutine that polls /status, starts *)
(* an FFmpeg for every live channel, starts again those that have ended,   *)
(* stops those of channels that are live no more, and stops all of them at *)
(* the end.                                                                *)
(*                                                                         *)
(* pc is where run() is: "fetch" (_fetch_status), "start", "restart" and   *)
(* "stale" (the loops of _reconcile), "sleep", "shut" (the loop after the  *)
(* while), "ended", or "failed" (an exception has left run).  doing is the *)
(* await inside such a loop: <<"spawn", k>> for create_subprocess_exec,    *)
(* <<"wait", k>> for _stop_relay's wait.  A turn of a loop is a step of    *)
(* its own, also where the code reaches the next turn without an await:    *)
(* FFmpeg may then end between the two, which only adds behaviours.        *)
(*                                                                         *)
(* The processes of channel k are <<k, 1>>, <<k, 2>>, ...; a process that  *)
(* nothing refers to any more is free to stand for a new one.              *)
(***************************************************************************)
EXTENDS Naturals

CONSTANTS
  Channels,   (* keys: pairs of a phone and a channel                      *)
  MaxPushers,   (* bound: processes of one channel at a time                 *)
  None

ASSUME RelayAssumption ==
  /\ MaxPushers \in Nat
  /\ None \notin Channels \X (1..MaxPushers)
  /\ None \notin {"spawn", "wait"} \X Channels

Pushers == Channels \X (1..MaxPushers)
Loops == {"start", "restart", "stale", "shut"}
Over  == {"ended", "failed"}

VARIABLES
  live,       (* the server: channels it reports as live                   *)
  relays,     (* _relays: the process of each entry, None for no entry     *)
  ps,         (* "free", "running", "reaped" (returncode set) or "killed"  *)
  running,    (* _running                                                  *)
  desired,    (* of the reconciliation                                     *)
  idle,       (* now - last_live > idle_timeout                            *)
  pc, doing,
  todo        (* entries the loop has yet to come to                       *)

runVars == <<pc, doing, todo>>
relayVars == <<live, relays, ps, running, desired, idle, runVars>>

Entries == {k \in Channels : relays[k] # None}
HasEnded(k) == ps[relays[k]] = "reaped"

RelayInit ==
  /\ live \in SUBSET Channels
  /\ relays = [k \in Channels |-> None]
  /\ ps = [p \in Pushers |-> "free"]
  /\ running = TRUE
  /\ desired = {} /\ idle = {}
  /\ pc = "fetch" /\ doing = None /\ todo = {}

-----------------------------------------------------------------------------
(* The server, the processes, time and the signals.                         *)
Streams ==
  /\ live' \in SUBSET Channels
  /\ UNCHANGED <<relays, ps, running, desired, idle, runVars>>

Exits(p) ==
  /\ ps[p] = "running"
  /\ ps' = [ps EXCEPT ![p] = "reaped"]
  /\ UNCHANGED <<live, relays, running, desired, idle, runVars>>

Collected(p) ==
  /\ ps[p] = "killed"
  /\ ps' = [ps EXCEPT ![p] = "free"]
  /\ UNCHANGED <<live, relays, running, desired, idle, runVars>>

(* The 15 s are over.  A reconciliation takes the time once, at its start.  *)
GrowsOld(k) ==
  /\ pc \in {"fetch", "sleep"}
  /\ k \in Entries \ idle
  /\ idle' = idle \cup {k}
  /\ UNCHANGED <<live, relays, ps, running, desired, runVars>>

(* stop(), called for SIGINT and SIGTERM.                                   *)
Stop ==
  /\ running
  /\ running' = FALSE
  /\ UNCHANGED <<live, relays, ps, desired, idle, runVars>>

-----------------------------------------------------------------------------
(* _fetch_status answers {} for whatever goes wrong.                        *)
FetchFails ==
  /\ pc = "fetch"
  /\ pc' = "sleep"
  /\ UNCHANGED <<live, relays, ps, running, desired, idle, doing, todo>>

(* last_live of the entries the answer names is now.  Mutant: of all.       *)
RefreshedAll == {}
Refreshed    == idle \ live

Fetched ==
  /\ pc = "fetch"
  /\ desired' = live
  /\ idle' = Refreshed
  /\ pc' = "start"
  /\ UNCHANGED <<live, relays, ps, running, doing, todo>>

-----------------------------------------------------------------------------
(* The three loops of _reconcile.                                           *)
GoesTo(loop) == pc' = loop /\ todo' = Entries /\ UNCHANGED doing

Begins(what, k) ==
  /\ doing' = <<what, k>>
  /\ todo' = todo \ {k}
  /\ UNCHANGED pc

(* Mutant: whatever _relays holds.                                          *)
MissesAny(k) == k \in desired
Misses(k)    == k \in desired \ Entries

StartMissing(k) ==
  /\ pc = "start" /\ doing = None
  /\ Misses(k)
  /\ Begins("spawn", k)
  /\ UNCHANGED <<live, relays, ps, running, desired, idle>>

Started ==
  /\ pc = "start" /\ doing = None
  /\ desired \subseteq Entries
  /\ GoesTo("restart")
  /\ UNCHANGED <<live, relays, ps, running, desired, idle>>

(* Crashed and still desired: _stop_relay has nothing to wait for.          *)
(* Mutant: they are left as they are.                                       *)
CrashedNever(k) == FALSE
Crashed(k)      == k \in desired /\ HasEnded(k)

Restart(k) ==
  /\ pc = "restart" /\ doing = None
  /\ k \in todo /\ Crashed(k)
  /\ Begins("spawn", k)
  /\ UNCHANGED <<live, relays, ps, running, desired, idle>>

(* create_subprocess_exec returns; the entry is made, with last_live now.   *)
PusherSpawned(p) ==
  /\ doing = <<"spawn", p[1]>>
  /\ ps[p] = "free"
  /\ ps' = [q \in Pushers |-> CASE q = p -> "running"
                              [] q = relays[p[1]] /\ ps[q] = "reaped" -> "free"
                              [] OTHER -> ps[q]]
  /\ relays' = [relays EXCEPT ![p[1]] = p]
  /\ idle' = idle \ {p[1]}
  /\ doing' = None
  /\ UNCHANGED <<live, running, desired, pc, todo>>

(* It raises, and nobody catches it.                                        *)
Fails ==
  /\ pc' = "failed"
  /\ doing' = None
  /\ UNCHANGED <<live, relays, ps, running, desired, idle, todo>>

PusherFails == doing # None /\ doing[1] = "spawn" /\ Fails

Stale(k) == k \notin desired /\ k \in idle

(* _stop_relay terminates a process that runs and waits for its end.        *)
PusherStops(k) ==
  /\ doing = None /\ k \in todo
  /\ (pc = "stale" /\ Stale(k)) \/ pc = "shut"
  /\ ~HasEnded(k)
  /\ Begins("wait", k)
  /\ UNCHANGED <<live, relays, ps, running, desired, idle>>

Deleted(k) == relays' = [relays EXCEPT ![k] = None] /\ idle' = idle \ {k}

PusherGone(k) ==
  /\ pc = "stale" /\ doing = None
  /\ k \in todo /\ Stale(k)
  /\ HasEnded(k)
  /\ Deleted(k)
  /\ ps' = [ps EXCEPT ![relays[k]] = "free"]
  /\ todo' = todo \ {k}
  /\ UNCHANGED <<live, running, desired, pc, doing>>

(* The process has ended, or is killed after five seconds.                  *)
After(state) == IF state = "running" THEN "killed" ELSE "free"

Waited(k) ==
  /\ doing = <<"wait", k>>
  /\ ps' = [ps EXCEPT ![relays[k]] = After(@)]
  /\ IF pc = "stale" THEN Deleted(k) ELSE UNCHANGED <<relays, idle>>
  /\ doing' = None
  /\ UNCHANGED <<live, running, desired, pc, todo>>

(* The process ends just when the five seconds are over: kill() raises.     *)
WaitRaises(k) == doing = <<"wait", k>> /\ HasEnded(k) /\ Fails

(* A turn that has nothing to do for its entry.                             *)
PassesOver(k) ==
  /\ doing = None /\ k \in todo
  /\ \/ pc = "restart" /\ ~Crashed(k)
     \/ pc = "stale" /\ ~Stale(k)
     \/ pc = "shut" /\ HasEnded(k)
  /\ todo' = todo \ {k}
  /\ UNCHANGED <<live, relays, ps, running, desired, idle, pc, doing>>

Restarted ==
  /\ pc = "restart" /\ doing = None /\ todo = {}
  /\ GoesTo("stale")
  /\ UNCHANGED <<live, relays, ps, running, desired, idle>>

Reconciled ==
  /\ pc = "stale" /\ doing = None /\ todo = {}
  /\ pc' = "sleep"
  /\ UNCHANGED <<live, relays, ps, running, desired, idle, doing, todo>>

-----------------------------------------------------------------------------
(* The turns of run(), and its end.  Mutants: only desired ones are         *)
(* stopped; the loop does not look at _running.                             *)
ToShutDesired == Entries \cap desired
ToShut        == Entries
GoesOnAlways == TRUE
GoesOn       == running

Wakes ==
  /\ pc = "sleep"
  /\ IF GoesOn THEN pc' = "fetch" /\ UNCHANGED todo
               ELSE pc' = "shut" /\ todo' = ToShut
  /\ UNCHANGED <<live, relays, ps, running, desired, idle, doing>>

Clears ==
  /\ pc = "shut" /\ doing = None /\ todo = {}
  /\ relays' = [k \in Channels |-> None]
  /\ idle' = {}
  /\ pc' = "ended"
  /\ UNCHANGED <<live, ps, running, desired, doing, todo>>

Run ==
  \/ FetchFails \/ Fetched
  \/ Started \/ Restarted \/ Reconciled \/ Wakes \/ Clears
  \/ \E k \in Channels : StartMissing(k) \/ Restart(k) \/ PassesOver(k)
                           \/ PusherStops(k) \/ PusherGone(k) \/ Waited(k)
  \/ \E p \in Pushers : PusherSpawned(p)

RelayNext ==
  \/ Streams \/ Stop
  \/ \E p \in Pushers : Exits(p) \/ Collected(p)
  \/ \E k \in Channels : GrowsOld(k) \/ WaitRaises(k)
  \/ PusherFails
  \/ Run

RelaySpec == RelayInit /\ [][RelayNext]_relayVars

(* The loop goes on by itself: the request, the wait and the sleep have     *)
(* timeouts.  What is killed ends.  Every sleep takes time, so an entry     *)
(* that is not renewed grows old although it can only do so between two     *)
(* reconciliations.                                                         *)
RelayFairness ==
  /\ WF_relayVars(Run)
  /\ \A k \in Channels : SF_relayVars(GrowsOld(k))
  /\ \A p \in Pushers : WF_relayVars(Collected(p))

RelayFairSpec == RelaySpec /\ RelayFairness

-----------------------------------------------------------------------------
(* Also: the process of an entry is one of its channel.                     *)
RelayTypeOK ==
  /\ live \subseteq Channels /\ desired \subseteq Channels
  /\ idle \subseteq Channels /\ todo \subseteq Channels
  /\ \A k \in Channels : relays[k] \in Pushers => relays[k][1] = k
  /\ relays \in [Channels -> Pushers \cup {None}]
  /\ ps \in [Pushers -> {"free", "running", "reaped", "killed"}]
  /\ running \in BOOLEAN
  /\ pc \in Loops \cup Over \cup {"fetch", "sleep"}
  /\ doing \in ({"spawn", "wait"} \X Channels) \cup {None}

Pushed(k) == \E p \in Pushers : p[1] = k /\ ps[p] = "running"

(* No two FFmpeg push to the URL of one channel, however they end, are      *)
(* started again and are stopped (_reconcile): one that has been asked to   *)
(* end has ended, or has been killed, before the next is started.           *)
OnePush ==
  \A p, q \in Pushers : p[1] = q[1] /\ ps[p] = "running" /\ ps[q] = "running" => p = q

(* "Clean shutdown" (rtsp_relay.py:213): when run returns, no FFmpeg that   *)
(* it started still runs unkilled, those included that were started after   *)
(* the signal.                                                              *)
NoneLeft == pc = "ended" => \A k \in Channels : ~Pushed(k)

(* While the server goes on to answer, a channel that stays live is pushed  *)
(* again and again, whenever its FFmpeg ends.                               *)
LiveIsRelayed ==
  \A k \in Channels :
    <>[](k \in live) /\ []<>(pc = "start") => []<>Pushed(k)

(* And a channel that stays down is at last pushed no more.                 *)
StaleIsStopped ==
  \A k \in Channels :
    <>[](k \notin live) /\ []<>(pc = "start") => <>[](~Pushed(k))

(* A signal ends the loop, whatever the server and FFmpeg do.               *)
StopEndsLoop == ~running ~> pc \in Over
=============================================================================
