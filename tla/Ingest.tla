------------------------------- MODULE Ingest -------------------------------
(***************************************************************************)
(* Video: JT1078Connection and _jt1078_owners of main.py, StreamManager of *)
(* hls.py, the MJPEG branch of http_handler, and the stop_all tasks that   *)
(* the signalling side schedules.  Of the signalling side only DeviceTable *)
(* is visible; of a LiveStreamer (module LiveStreamer) only whether        *)
(* _started is set and whether the process _proc names still runs.         *)
(*                                                                         *)
(* spc[s] is the await at which the coroutine of connection s is suspended:*)
(*   "unborn"   not connected yet                                          *)
(*   "reading"  reader.read, or between two packets of its buffer          *)
(*   "reset"    stop(), called by soft_reset on claiming a channel         *)
(*   "spawn"    create_subprocess_exec, inside write                       *)
(*   "drain"    stdin.drain, after a payload went to FFmpeg                *)
(*   "closed"   run() has returned                                         *)
(***************************************************************************)
EXTENDS Naturals, FiniteSets, DeviceTable

CONSTANTS
  Unknown,    (* "unknown", the name of unresolved connections             *)
  Sources,    (* video connections                                         *)
  Channels,
  Streamers,  (* LiveStreamer objects that may be allocated                *)
  Viewers     (* HTTP clients                                              *)

ASSUME IngestAssumption ==
  /\ Unknown \in Names
  /\ IsFiniteSet(Channels)
  /\ None \notin Sources /\ None \notin Streamers /\ None \notin Names
  /\ None \notin Channels

VARIABLES
  spc, name, mgr, seen,   (* my_phone, mgr, channels_seen                  *)
  cur, at,                (* the channel and the streamer it awaits on     *)
  owner,                  (* _jt1078_owners                                *)
  slot,                   (* StreamManager._streamers                      *)
  started, up,            (* _started; _proc runs                          *)
  vpc, watched,           (* viewers; what each one is attached to         *)
  cleanup, visited,       (* stop_all tasks: progress, channels stopped,   *)
  size,                   (*   entries when the iteration began            *)
  late                    (* history: payloads s fed to FFmpeg for a       *)
                          (*   channel it no longer owned                  *)

sourceVars  == <<spc, name, mgr, seen, cur, at>>
streamVars  == <<slot, started, up>>
viewerVars  == <<vpc, watched>>
cleanupVars == <<cleanup, visited, size>>
ingestVars  == <<sourceVars, owner, streamVars, viewerVars, cleanupVars, late>>
vars == <<tableVars, ingestVars>>

Init ==
  /\ TableInit
  /\ spc  = [s \in Sources |-> "unborn"]
  /\ name = [s \in Sources |-> Unknown]
  /\ mgr  = [s \in Sources |-> None]
  /\ seen = [s \in Sources |-> {}]
  /\ cur  = [s \in Sources |-> None]
  /\ at   = [s \in Sources |-> None]
  /\ owner = [n \in Names |-> [ch \in Channels |-> None]]
  /\ slot  = [m \in Managers |-> [ch \in Channels |-> None]]
  /\ started = [x \in Streamers |-> FALSE]
  /\ up      = [x \in Streamers |-> FALSE]
  /\ vpc     = [v \in Viewers |-> <<"none">>]
  /\ watched = [v \in Viewers |-> None]
  /\ cleanup = [m \in Managers |-> "none"]
  /\ visited = [m \in Managers |-> {}]
  /\ size    = [m \in Managers |-> 0]
  /\ late  = [s \in Sources |-> [ch \in Channels |-> 0]]

-----------------------------------------------------------------------------
(* The signalling side.                                                     *)
Signal ==
  /\ \E n \in Names \ {Unknown} : TableStep(n)
  /\ UNCHANGED ingestVars

Suspend(s, where, ch, x) ==
  /\ spc' = [spc EXCEPT ![s] = where]
  /\ cur' = [cur EXCEPT ![s] = ch]
  /\ at'  = [at EXCEPT ![s] = x]
  /\ UNCHANGED <<name, mgr>>

Resume(s) ==
  /\ spc' = [spc EXCEPT ![s] = "reading"]
  /\ cur' = [cur EXCEPT ![s] = None]
  /\ at'  = [at EXCEPT ![s] = None]
  /\ UNCHANGED <<name, mgr>>

(* run() resolves the device by the address of its JT808 peer, which may    *)
(* match any known one or none, and keeps its manager for good.             *)
SourceOpens(s, n, m) ==
  /\ spc[s] = "unborn"
  /\ n \in known \cup {Unknown}
  /\ Serve(n, m)
  /\ spc'  = [spc EXCEPT ![s] = "reading"]
  /\ name' = [name EXCEPT ![s] = n]
  /\ mgr'  = [mgr EXCEPT ![s] = m]
  /\ UNCHANGED <<seen, cur, at, owner, streamVars, viewerVars, cleanupVars,
                 late>>

(* The key of _jt1078_owners.                                               *)
KeyOf(s) == name[s]

(* This packet claims its channel.  Mutant: any packet does.                *)
AlwaysClaims(s, ch) == TRUE
Claims(s, ch)       == ch \notin seen[s]

(* The check that follows.  Mutant: it is left out.                         *)
HoldsAnyway(s, ch) == TRUE
Holds(s, ch)       == owner[KeyOf(s)][ch] = s

Running(x) == x # None /\ started[x]
Idle(x)    == x # None /\ ~started[x]

(* StreamManager.soft_reset: a running streamer is kept, one that is not    *)
(* started is stopped and deleted.                                          *)
SoftReset(s, ch) == LET m == mgr[s]
                        x == slot[m][ch] IN
  \/ /\ x = None \/ Running(x)
     /\ UNCHANGED <<spc, name, mgr, cur, at, slot>>
  \/ /\ Idle(x) /\ ~up[x]
     /\ slot' = [slot EXCEPT ![m][ch] = None]
     /\ UNCHANGED <<spc, name, mgr, cur, at>>
  \/ /\ Idle(x) /\ up[x]
     /\ Suspend(s, "reset", ch, x)
     /\ UNCHANGED slot

Claim(s, ch) ==
  /\ spc[s] = "reading"
  /\ Claims(s, ch)
  /\ seen'  = [seen EXCEPT ![s] = @ \cup {ch}]
  /\ owner' = [owner EXCEPT ![KeyOf(s)][ch] = s]
  /\ SoftReset(s, ch)
  /\ UNCHANGED <<tableVars, started, up, viewerVars, cleanupVars, late>>

(* The finally block of run().  Mutants: ownership is kept; it is released  *)
(* whoever holds it by now.                                                 *)
ReleaseNothing(s) == UNCHANGED owner
ReleaseSeen(s) ==
  owner' = [owner EXCEPT ![KeyOf(s)] =
              [ch \in Channels |-> IF ch \in seen[s] THEN None ELSE @[ch]]]
Release(s) ==
  owner' = [owner EXCEPT ![KeyOf(s)] =
              [ch \in Channels |-> IF @[ch] = s THEN None ELSE @[ch]]]

(* The channels are then requested again over some link, which changes no  *)
(* state here.                                                              *)
Leave(s) ==
  /\ spc' = [spc EXCEPT ![s] = "closed"]
  /\ cur' = [cur EXCEPT ![s] = None]
  /\ at'  = [at EXCEPT ![s] = None]
  /\ Release(s)
  /\ UNCHANGED <<tableVars, name, mgr, seen, late>>

(* EOF, a reset or READ_TIMEOUT.                                            *)
SourceCloses(s) ==
  /\ spc[s] = "reading"
  /\ Leave(s)
  /\ UNCHANGED <<streamVars, viewerVars, cleanupVars>>

(* The rest of stop().  What _proc names by now may run on: a process that  *)
(* has been killed and is not gone yet, or a newer one.                     *)
Halt(x) ==
  /\ \E runs \in {FALSE, up[x]} : up' = [up EXCEPT ![x] = runs]
  /\ started' = [started EXCEPT ![x] = FALSE]

(* kill() finds that process gone already and raises: the connection ends.  *)
ResetRaises(s) ==
  /\ spc[s] = "reset" /\ ~up[at[s]]
  /\ Leave(s)
  /\ UNCHANGED <<streamVars, viewerVars, cleanupVars>>

(* stop() is over; del raises KeyError if another reset was faster.         *)
ResetEnds(s) ==
  /\ spc[s] = "reset"
  /\ Halt(at[s])
  /\ IF slot[mgr[s]][cur[s]] # None
     THEN /\ slot' = [slot EXCEPT ![mgr[s]][cur[s]] = None]
          /\ Resume(s)
          /\ UNCHANGED <<tableVars, seen, owner, late>>
     ELSE Leave(s) /\ UNCHANGED slot
  /\ UNCHANGED <<viewerVars, cleanupVars>>

-----------------------------------------------------------------------------
(* StreamManager.get: objects nothing refers to any more may be reused.     *)
Free(x) ==
  /\ ~up[x] /\ ~started[x]
  /\ \A m \in Managers, ch \in Channels : slot[m][ch] # x
  /\ \A s \in Sources : at[s] # x
  /\ \A v \in Viewers : watched[v] # x

Get(m, ch, x) ==
  \/ slot[m][ch] = x /\ UNCHANGED slot
  \/ slot[m][ch] = None /\ Free(x) /\ slot' = [slot EXCEPT ![m][ch] = x]

(* A packet of a channel claimed before, past the ownership check.          *)
Packet(s, ch, x) ==
  /\ spc[s] = "reading"
  /\ ch \in seen[s] /\ Holds(s, ch)
  /\ Get(mgr[s], ch, x)

Feeds(s, ch) ==
  late' = [late EXCEPT ![s][ch] = IF owner[name[s]][ch] = s THEN @ ELSE @ + 1]

(* No keyframe yet.                                                         *)
WriteBuffers(s, ch, x) ==
  /\ Packet(s, ch, x)
  /\ UNCHANGED <<tableVars, sourceVars, owner, started, up, viewerVars,
                 cleanupVars, late>>

WriteFeeds(s, ch, x) ==
  /\ Packet(s, ch, x) /\ started[x]
  /\ Feeds(s, ch)
  /\ Suspend(s, "drain", ch, x)
  /\ UNCHANGED <<tableVars, seen, owner, started, up, viewerVars,
                 cleanupVars>>

WriteStarts(s, ch, x) ==
  /\ Packet(s, ch, x) /\ ~started[x]
  /\ Suspend(s, "spawn", ch, x)
  /\ UNCHANGED <<tableVars, seen, owner, started, up, viewerVars,
                 cleanupVars, late>>

(* FFmpeg runs and gets the payload, whoever owns the channel by now.       *)
Spawned(s) ==
  /\ spc[s] = "spawn"
  /\ up' = [up EXCEPT ![at[s]] = TRUE]
  /\ started' = [started EXCEPT ![at[s]] = TRUE]
  /\ Feeds(s, cur[s])
  /\ Suspend(s, "drain", cur[s], at[s])
  /\ UNCHANGED <<tableVars, seen, owner, slot, viewerVars, cleanupVars>>

SpawnFails(s) ==
  /\ spc[s] = "spawn"
  /\ Leave(s)
  /\ UNCHANGED <<streamVars, viewerVars, cleanupVars>>

Drained(s) ==
  /\ spc[s] = "drain"
  /\ Resume(s)
  /\ UNCHANGED <<tableVars, seen, owner, streamVars, viewerVars, cleanupVars,
                 late>>

(* FFmpeg ends; a reader, a broken pipe or a late stop clears _started,     *)
(* which may happen while the process runs (see LiveStreamer).              *)
Dies(x) ==
  /\ up[x]
  /\ up' = [up EXCEPT ![x] = FALSE]
  /\ UNCHANGED <<tableVars, sourceVars, owner, slot, started, viewerVars,
                 cleanupVars, late>>

Clears(x) ==
  /\ started[x]
  /\ started' = [started EXCEPT ![x] = FALSE]
  /\ UNCHANGED <<tableVars, sourceVars, owner, slot, up, viewerVars,
                 cleanupVars, late>>

-----------------------------------------------------------------------------
(* stop_all of a doomed manager.  Streamers without a process are stopped   *)
(* on the way; the iteration raises if the dict has changed size meanwhile. *)
Held(m) == {ch \in Channels : slot[m][ch] # None}

StopStreamers(m, stopped) ==
  started' = [x \in Streamers |->
    started[x] /\ \A ch \in stopped : slot[m][ch] # x]

CleanupBegins(m) ==
  /\ m \in doomed /\ cleanup[m] = "none"
  /\ cleanup' = [cleanup EXCEPT ![m] = "next"]
  /\ size' = [size EXCEPT ![m] = Cardinality(Held(m))]
  /\ UNCHANGED <<tableVars, sourceVars, owner, streamVars, viewerVars,
                 visited, late>>

CleanupEnds(m) ==
  /\ cleanup[m] = "next"
  /\ LET left == Held(m) \ visited[m] IN
       \/ size[m] # Cardinality(Held(m)) /\ UNCHANGED started
       \/ /\ size[m] = Cardinality(Held(m))
          /\ \A ch \in left : ~up[slot[m][ch]]
          /\ StopStreamers(m, left)
  /\ cleanup' = [cleanup EXCEPT ![m] = "done"]
  /\ UNCHANGED <<tableVars, sourceVars, owner, slot, up, viewerVars, visited,
                 size, late>>

CleanupWaits(m, ch, passed) ==
  /\ cleanup[m] = "next" /\ size[m] = Cardinality(Held(m))
  /\ ch \in Held(m) \ visited[m] /\ up[slot[m][ch]]
  /\ passed \subseteq Held(m) \ visited[m]
  /\ \A k \in passed : ~up[slot[m][k]]
  /\ StopStreamers(m, passed)
  /\ cleanup' = [cleanup EXCEPT ![m] = slot[m][ch]]
  /\ visited' = [visited EXCEPT ![m] = @ \cup passed \cup {ch}]
  /\ UNCHANGED <<tableVars, sourceVars, owner, slot, up, viewerVars, size,
                 late>>

CleanupStopped(m) ==
  /\ cleanup[m] \in Streamers
  /\ Halt(cleanup[m])
  /\ cleanup' = [cleanup EXCEPT ![m] = "next"]
  /\ UNCHANGED <<tableVars, sourceVars, owner, slot, viewerVars, visited,
                 size, late>>

(* kill() raises, and the task ends.                                        *)
CleanupRaises(m) ==
  /\ cleanup[m] \in Streamers /\ ~up[cleanup[m]]
  /\ cleanup' = [cleanup EXCEPT ![m] = "done"]
  /\ UNCHANGED <<tableVars, sourceVars, owner, streamVars, viewerVars, visited,
                 size, late>>

-----------------------------------------------------------------------------
(* GET /mjpeg/<n>/<ch>: the manager is looked up, the headers are drained,  *)
(* then the writer joins the streamer's clients.                            *)
ViewerComes(v, n, ch, m) ==
  /\ vpc[v] = <<"none">>
  /\ Serve(n, m)
  /\ vpc' = [vpc EXCEPT ![v] = <<"headers", m, ch>>]
  /\ UNCHANGED <<sourceVars, owner, streamVars, watched, cleanupVars,
                 late>>

ViewerJoins(v, x) ==
  /\ vpc[v][1] = "headers"
  /\ Get(vpc[v][2], vpc[v][3], x)
  /\ watched' = [watched EXCEPT ![v] = x]
  /\ vpc' = [vpc EXCEPT ![v] = <<"joined">>]
  /\ UNCHANGED <<tableVars, sourceVars, owner, started, up, cleanupVars,
                 late>>

(* _push_frame_nowait drops a dead or slow client; nothing else removes it, *)
(* the handler sleeps for good.                                             *)
ViewerDropped(v) ==
  /\ Running(watched[v])
  /\ watched' = [watched EXCEPT ![v] = None]
  /\ UNCHANGED <<tableVars, sourceVars, owner, streamVars, vpc, cleanupVars,
                 late>>

(* GET /status looks up the manager of every known device.                  *)
StatusAsked(n, m) ==
  /\ n \in known
  /\ Allocate(n, m)
  /\ UNCHANGED ingestVars

-----------------------------------------------------------------------------
Source(s) ==
  \/ \E n \in Names, m \in Managers : SourceOpens(s, n, m)
  \/ \E ch \in Channels :
       \/ Claim(s, ch)
       \/ \E x \in Streamers :
            WriteBuffers(s, ch, x) \/ WriteFeeds(s, ch, x) \/ WriteStarts(s, ch, x)
  \/ ResetEnds(s) \/ ResetRaises(s) \/ Spawned(s) \/ SpawnFails(s) \/ Drained(s)
  \/ SourceCloses(s)

StopAll(m) ==
  \/ CleanupBegins(m) \/ CleanupEnds(m) \/ CleanupStopped(m) \/ CleanupRaises(m)
  \/ \E ch \in Channels : \E passed \in SUBSET Channels :
       CleanupWaits(m, ch, passed)

Viewer(v) ==
  \/ \E n \in Names, ch \in Channels, m \in Managers : ViewerComes(v, n, ch, m)
  \/ \E x \in Streamers : ViewerJoins(v, x)
  \/ ViewerDropped(v)

Next ==
  \/ Signal
  \/ \E s \in Sources : Source(s)
  \/ \E x \in Streamers : Dies(x) \/ Clears(x)
  \/ \E m \in Managers : StopAll(m)
  \/ \E v \in Viewers : Viewer(v)
  \/ \E n \in Names, m \in Managers : StatusAsked(n, m)

Spec == Init /\ [][Next]_vars

-----------------------------------------------------------------------------
(* Also: an owner of a key is a connection of that key's device.            *)
TypeOK ==
  /\ known \subseteq Names /\ authed \subseteq known
  /\ streams \in [Names -> Managers \cup {None}] /\ doomed \subseteq Managers
  /\ spc \in [Sources -> {"unborn", "reading", "reset", "spawn", "drain", "closed"}]
  /\ name \in [Sources -> Names]
  /\ mgr \in [Sources -> Managers \cup {None}]
  /\ seen \in [Sources -> SUBSET Channels]
  /\ cur \in [Sources -> Channels \cup {None}]
  /\ at \in [Sources -> Streamers \cup {None}]
  /\ owner \in [Names -> [Channels -> Sources \cup {None}]]
  /\ slot \in [Managers -> [Channels -> Streamers \cup {None}]]
  /\ started \in [Streamers -> BOOLEAN] /\ up \in [Streamers -> BOOLEAN]
  /\ watched \in [Viewers -> Streamers \cup {None}]
  /\ visited \in [Managers -> SUBSET Channels]
  /\ late \in [Sources -> [Channels -> Nat]]
  /\ \A n \in Names, ch \in Channels :
       owner[n][ch] # None => name[owner[n][ch]] = n

(* "so only one source ever writes to a given LiveStreamer" (main.py:84):   *)
(* once another connection has claimed its channel, a connection gets at    *)
(* most one more payload through to FFmpeg, the one it was awaiting with.   *)
EvictedFeedsOnce == \A s \in Sources, ch \in Channels : late[s][ch] <= 1

Evicted(s, ch) == ch \in seen[s] /\ owner[name[s]][ch] # s

(* A connection that has lost a channel never gets it back.                 *)
EvictionIsFinal ==
  [][\A s \in Sources, ch \in Channels : Evicted(s, ch) => Evicted(s, ch)']_vars

(* Only the connection that holds a channel gives it up, by closing: the    *)
(* late end of an evicted one does not unseat its successor.                *)
OnlyOwnerReleases ==
  [][\A n \in Names, ch \in Channels :
       owner[n][ch] # None /\ owner'[n][ch] = None
         => spc'[owner[n][ch]] = "closed"]_vars

(* No channel is held by a connection that has ended.                       *)
OwnerIsOpen ==
  \A n \in Names, ch \in Channels :
    owner[n][ch] # None => spc[owner[n][ch]] \notin {"unborn", "closed"}

(* An open connection feeds the manager that viewers of its device are      *)
(* given, or one whose stop_all has been scheduled.                         *)
SourceIsServed ==
  \A s \in Sources : spc[s] \notin {"unborn", "closed"} =>
    mgr[s] = streams[name[s]] \/ mgr[s] \in doomed
=============================================================================
