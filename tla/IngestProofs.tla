---------------------------- MODULE IngestProofs ----------------------------
(***************************************************************************)
(* Theorems about Ingest, for any devices, connections, channels, managers *)
(* and viewers: its type, that a channel has one owner, which is open, and *)
(* that an evicted connection gets at most one more payload through.       *)
(***************************************************************************)
EXTENDS Ingest, TLAPS

USE TableAssumption, IngestAssumption
    DEF TableAssumption, IngestAssumption, tableVars, sourceVars, streamVars, viewerVars,
        cleanupVars, ingestVars, vars

(* What only the steps of connections change.                               *)
Untouched == UNCHANGED <<sourceVars, owner, late>>

(* Everything that is not a step of a connection.                           *)
Others ==
  \/ Signal
  \/ \E x \in Streamers : Dies(x) \/ Clears(x)
  \/ \E m \in Managers : StopAll(m)
  \/ \E v \in Viewers : Viewer(v)
  \/ \E n \in Names, m \in Managers : StatusAsked(n, m)

LEMMA OthersLeaveSources ==
  ASSUME Others
  PROVE  Untouched
BY DEF Others, Untouched, Signal, Dies, Clears, StopAll, CleanupBegins, CleanupEnds,
   CleanupStopped, CleanupRaises, CleanupWaits, Viewer, ViewerComes, ViewerJoins, ViewerDropped, StatusAsked

LEMMA NextCases ==
  ASSUME [Next]_vars
  PROVE  Others \/ UNCHANGED vars \/ \E s \in Sources : Source(s)
BY DEF Next, Others

-----------------------------------------------------------------------------
(* The parts of TypeOK, by what they speak of.                              *)
TablesOK ==
  /\ known \subseteq Names /\ authed \subseteq known
  /\ streams \in [Names -> Managers \cup {None}] /\ doomed \subseteq Managers

SourcesOK ==
  /\ spc \in [Sources -> {"unborn", "reading", "reset", "spawn", "drain", "closed"}]
  /\ name \in [Sources -> Names]
  /\ mgr \in [Sources -> Managers \cup {None}]
  /\ seen \in [Sources -> SUBSET Channels]
  /\ cur \in [Sources -> Channels \cup {None}]
  /\ at \in [Sources -> Streamers \cup {None}]

Managed == \A s \in Sources : spc[s] # "unborn" => mgr[s] \in Managers

OwnersOK ==
  /\ owner \in [Names -> [Channels -> Sources \cup {None}]]
  /\ \A n \in Names, ch \in Channels : owner[n][ch] # None => name[owner[n][ch]] = n

LateOK == late \in [Sources -> [Channels -> Nat]]

FlagsOK == started \in [Streamers -> BOOLEAN] /\ up \in [Streamers -> BOOLEAN]

SlotsOK ==
  /\ slot \in [Managers -> [Channels -> Streamers \cup {None}]]
  /\ watched \in [Viewers -> Streamers \cup {None}]
  /\ visited \in [Managers -> SUBSET Channels]

(* Every step is one of the device table or leaves it alone: the video and  *)
(* HTTP sides only allocate managers.                                       *)
LEMMA TableCases ==
  ASSUME [Next]_vars
  PROVE  [TableNext]_tableVars
<1> USE DEF TableNext
<1>1. ASSUME NEW n \in Names, NEW m \in Managers, Serve(n, m) \/ Allocate(n, m)
      PROVE  [TableNext]_tableVars
  BY <1>1 DEF Serve
<1>2. CASE Signal
  BY <1>2 DEF Signal
<1>3. ASSUME NEW n \in Names, NEW m \in Managers,
             \/ \E s \in Sources : SourceOpens(s, n, m)
             \/ \E v \in Viewers, ch \in Channels : ViewerComes(v, n, ch, m)
             \/ StatusAsked(n, m)
      PROVE  [TableNext]_tableVars
  BY <1>1, <1>3 DEF SourceOpens, ViewerComes, StatusAsked
<1>4. ASSUME NEW s \in Sources, Source(s),
             ~\E n \in Names, m \in Managers : SourceOpens(s, n, m)
      PROVE  UNCHANGED tableVars
  BY <1>4 DEF Source, Claim, WriteBuffers, WriteFeeds, WriteStarts, ResetEnds, ResetRaises,
     Spawned, SpawnFails, Drained, SourceCloses, Leave
<1>5. CASE \E x \in Streamers : Dies(x) \/ Clears(x)
  BY <1>5 DEF Dies, Clears
<1>6. CASE \E m \in Managers : StopAll(m)
  BY <1>6 DEF StopAll, CleanupBegins, CleanupEnds, CleanupStopped, CleanupRaises, CleanupWaits
<1>7. CASE \E v \in Viewers : ViewerDropped(v) \/ \E x \in Streamers : ViewerJoins(v, x)
  BY <1>7 DEF ViewerDropped, ViewerJoins
<1> QED
  BY <1>2, <1>3, <1>4, <1>5, <1>6, <1>7 DEF Next, Source, Viewer

(* A manager is not lost: when its device forgets it, it is doomed.         *)
LEMMA TablesStep ==
  ASSUME TablesOK, [TableNext]_tableVars
  PROVE  /\ TablesOK'
         /\ doomed \subseteq doomed'
         /\ \A n \in Names : streams[n] # None => streams'[n] = streams[n] \/ streams[n] \in doomed'
<1> USE DEF TablesOK
<1>1. CASE UNCHANGED tableVars
  BY <1>1
<1>2. ASSUME NEW n \in Names, Appear(n) \/ Authenticate(n) \/ LogOut(n)
      PROVE  TablesOK' /\ UNCHANGED <<streams, doomed>>
  BY <1>2 DEF Appear, Authenticate, LogOut
<1>3. ASSUME NEW n \in Names, Vanish(n)
      PROVE  /\ TablesOK' /\ doomed \subseteq doomed'
             /\ \A q \in Names : streams[q] # None => streams'[q] = streams[q] \/ streams[q] \in doomed'
  BY <1>3 DEF Vanish
<1>4. ASSUME NEW n \in Names, NEW m \in Managers, Allocate(n, m)
      PROVE  /\ TablesOK' /\ doomed' = doomed
             /\ \A q \in Names : streams[q] # None => streams'[q] = streams[q]
  BY <1>4 DEF Allocate
<1> QED
  BY <1>1, <1>2, <1>3, <1>4 DEF TableNext, TableStep

(* The steps of a connection, by what they do to who owns what.             *)
Opens(s)  == \E n \in Names, m \in Managers : SourceOpens(s, n, m)
Takes(s)  == \E ch \in Channels : Claim(s, ch)
Leaves(s) == spc[s] \in {"reading", "reset", "spawn"} /\ Leave(s)
GoesOn(s) ==
  /\ spc[s] \in {"reading", "reset", "spawn", "drain"}
  /\ \E where \in {"reading", "spawn", "drain"} : spc' = [spc EXCEPT ![s] = where]
  /\ UNCHANGED <<name, mgr, seen, owner>>

LEMMA SourceCases ==
  ASSUME SourcesOK, NEW s \in Sources, Source(s)
  PROVE  Opens(s) \/ Takes(s) \/ Leaves(s) \/ GoesOn(s)
<1> USE DEF SourcesOK, Opens, Takes, Leaves, GoesOn
<1>1. CASE SourceCloses(s) \/ SpawnFails(s) \/ ResetRaises(s)
  BY <1>1 DEF SourceCloses, SpawnFails, ResetRaises
<1>2. CASE ResetEnds(s)
  BY <1>2 DEF ResetEnds, Resume
<1>3. CASE Spawned(s) \/ Drained(s)
  BY <1>3 DEF Spawned, Drained, Suspend, Resume
<1>4. ASSUME NEW ch \in Channels, NEW x \in Streamers,
             WriteBuffers(s, ch, x) \/ WriteFeeds(s, ch, x) \/ WriteStarts(s, ch, x)
      PROVE  GoesOn(s)
  BY <1>4 DEF WriteBuffers, WriteFeeds, WriteStarts, Packet, Suspend
<1> QED
  BY <1>1, <1>2, <1>3, <1>4 DEF Source

LEMMA ManagedStep ==
  ASSUME SourcesOK, Managed, [Next]_vars
  PROVE  Managed'
<1> USE DEF SourcesOK, Managed
<1>1. CASE Others \/ UNCHANGED vars
  BY <1>1, OthersLeaveSources DEF Untouched
<1>2. ASSUME NEW s \in Sources, NEW n \in Names, NEW m \in Managers, SourceOpens(s, n, m)
      PROVE  Managed'
  BY <1>2 DEF SourceOpens
<1>3. ASSUME NEW s \in Sources, spc[s] # "unborn", mgr' = mgr,
             \A t \in Sources \ {s} : spc'[t] = spc[t]
      PROVE  Managed'
  BY <1>3
<1>4. ASSUME NEW s \in Sources, Takes(s) \/ Leaves(s) \/ GoesOn(s)
      PROVE  Managed'
  <2>1. spc[s] # "unborn" /\ mgr' = mgr
    BY <1>4 DEF Takes, Leaves, GoesOn, Claim, SoftReset, Suspend, Leave
  <2>2. \A t \in Sources \ {s} : spc'[t] = spc[t]
    BY <1>4 DEF Takes, Leaves, GoesOn, Claim, SoftReset, Suspend, Leave
  <2> QED
    BY <1>3, <2>1, <2>2
<1> QED
  BY <1>1, <1>2, <1>4, NextCases, SourceCases DEF Opens

LEMMA SourcesStep ==
  ASSUME SourcesOK, TablesOK, SlotsOK, Managed, [Next]_vars
  PROVE  SourcesOK'
<1> USE DEF SourcesOK
<1>1. CASE Others \/ UNCHANGED vars
  BY <1>1, OthersLeaveSources DEF Untouched
<1>2. ASSUME NEW s \in Sources, Opens(s)
      PROVE  SourcesOK'
  BY <1>2 DEF Opens, SourceOpens
<1>3. ASSUME NEW s \in Sources, NEW ch \in Channels, Claim(s, ch)
      PROVE  SourcesOK'
  <2>1. seen' \in [Sources -> SUBSET Channels]
    BY <1>3 DEF Claim
  <2>2. mgr' = mgr /\ name' = name
    BY <1>3 DEF Claim, SoftReset, Suspend
  <2>3. CASE UNCHANGED <<spc, cur, at>>
    BY <2>1, <2>2, <2>3
  <2>4. CASE \E x \in Streamers : Suspend(s, "reset", ch, x)
    BY <2>1, <2>2, <2>4 DEF Suspend
  <2> QED
    <3>1. spc[s] = "reading" /\ SoftReset(s, ch)
      BY <1>3 DEF Claim
    <3>2. CASE Suspend(s, "reset", ch, slot[mgr[s]][ch]) /\ slot[mgr[s]][ch] # None
      <4>1. mgr[s] \in Managers
        BY <3>1 DEF Managed
      <4>2. slot[mgr[s]][ch] \in Streamers
        BY <3>2, <4>1 DEF SlotsOK
      <4> QED
        BY <2>4, <3>2, <4>2
    <3> QED
      BY <2>3, <3>1, <3>2 DEF SoftReset, Idle
<1>4. ASSUME NEW s \in Sources, Leave(s)
      PROVE  SourcesOK'
  BY <1>4 DEF Leave
<1>5. ASSUME NEW s \in Sources, ResetEnds(s) \/ Drained(s), ~Leave(s)
      PROVE  SourcesOK'
  BY <1>5 DEF ResetEnds, Drained, Resume
<1>6. ASSUME NEW s \in Sources, Spawned(s)
      PROVE  SourcesOK'
  BY <1>6 DEF Spawned, Suspend
<1>7. ASSUME NEW s \in Sources, NEW ch \in Channels, NEW x \in Streamers,
             WriteBuffers(s, ch, x) \/ WriteFeeds(s, ch, x) \/ WriteStarts(s, ch, x)
      PROVE  SourcesOK'
  BY <1>7 DEF WriteBuffers, WriteFeeds, WriteStarts, Suspend
<1> QED
  BY <1>1, <1>2, <1>3, <1>4, <1>5, <1>6, <1>7, NextCases
  DEF Source, Opens, SourceCloses, SpawnFails, ResetRaises

(* A streamer's flags are set by a connection that has started FFmpeg, and  *)
(* cleared by whatever stops it.                                            *)
LEMMA FlagsStep ==
  ASSUME FlagsOK, [Next]_vars
  PROVE  FlagsOK'
<1> USE DEF FlagsOK
<1>1. CASE UNCHANGED <<started, up>>
  BY <1>1
<1>2. ASSUME NEW x, Halt(x)
      PROVE  FlagsOK'
  <2>1. PICK runs \in {FALSE, up[x]} : up' = [up EXCEPT ![x] = runs]
    BY <1>2 DEF Halt
  <2>2. up' \in [Streamers -> BOOLEAN]
    <3>1. x \in Streamers => runs \in BOOLEAN
      BY Zenon
    <3>2. x \notin Streamers => up' = up
      BY <2>1
    <3> QED
      BY <2>1, <3>1, <3>2, Zenon
  <2>3. started' \in [Streamers -> BOOLEAN]
    BY <1>2 DEF Halt
  <2> QED
    BY <2>2, <2>3
<1>3. ASSUME NEW m \in Managers, NEW stopped, StopStreamers(m, stopped), up' = up
      PROVE  FlagsOK'
  BY <1>3, Zenon DEF StopStreamers
<1>4. ASSUME NEW x \in Streamers, Dies(x) \/ Clears(x)
      PROVE  FlagsOK'
  BY <1>4 DEF Dies, Clears
<1>5. ASSUME NEW m \in Managers, StopAll(m)
      PROVE  FlagsOK'
  <2>1. CASE CleanupBegins(m) \/ CleanupStopped(m) \/ CleanupRaises(m)
    BY <1>1, <1>2, <2>1 DEF CleanupBegins, CleanupStopped, CleanupRaises
  <2>2. CASE CleanupEnds(m)
    BY <1>1, <1>3, <2>2 DEF CleanupEnds
  <2>3. CASE \E ch \in Channels : \E passed \in SUBSET Channels : CleanupWaits(m, ch, passed)
    BY <1>3, <2>3 DEF CleanupWaits
  <2> QED
    BY <1>5, <2>1, <2>2, <2>3 DEF StopAll
<1>6. ASSUME NEW s \in Sources, Source(s)
      PROVE  FlagsOK'
  <2>1. CASE ResetEnds(s)
    BY <1>2, <2>1 DEF ResetEnds
  <2>2. CASE Spawned(s)
    BY <2>2 DEF Spawned
  <2>3. CASE SpawnFails(s) \/ Drained(s) \/ SourceCloses(s) \/ ResetRaises(s)
    BY <1>1, <2>3 DEF SpawnFails, Drained, SourceCloses, ResetRaises
  <2>4. CASE \E n \in Names, m \in Managers : SourceOpens(s, n, m)
    BY <1>1, <2>4 DEF SourceOpens
  <2>5. ASSUME NEW ch \in Channels,
               \/ Claim(s, ch)
               \/ \E x \in Streamers :
                    WriteBuffers(s, ch, x) \/ WriteFeeds(s, ch, x) \/ WriteStarts(s, ch, x)
        PROVE  FlagsOK'
    BY <1>1, <2>5 DEF Claim, WriteBuffers, WriteFeeds, WriteStarts
  <2> QED
    BY <1>6, <2>1, <2>2, <2>3, <2>4, <2>5 DEF Source
<1>7. CASE Signal \/ UNCHANGED vars
           \/ \E n \in Names, m \in Managers : StatusAsked(n, m)
  BY <1>1, <1>7 DEF Signal, StatusAsked
<1>8. ASSUME NEW v \in Viewers, Viewer(v)
      PROVE  FlagsOK'
  BY <1>1, <1>8 DEF Viewer, ViewerComes, ViewerJoins, ViewerDropped
<1> QED
  BY <1>4, <1>5, <1>6, <1>7, <1>8 DEF Next

LEMMA SlotsStep ==
  ASSUME SlotsOK, [Next]_vars
  PROVE  SlotsOK'
<1> USE DEF SlotsOK
<1>1. CASE UNCHANGED <<slot, watched, visited>>
  BY <1>1
<1>9. ASSUME NEW m, NEW ch, NEW x \in Streamers \cup {None}, slot' = [slot EXCEPT ![m][ch] = x]
      PROVE  slot' \in [Managers -> [Channels -> Streamers \cup {None}]]
  BY <1>9
<1>10. ASSUME NEW m, NEW ch, NEW x \in Streamers, Get(m, ch, x)
       PROVE  slot' \in [Managers -> [Channels -> Streamers \cup {None}]]
  BY <1>9, <1>10 DEF Get
<1>2. ASSUME NEW m, NEW ch, UNCHANGED <<watched, visited>>,
             \/ slot' = [slot EXCEPT ![m][ch] = None]
             \/ \E x \in Streamers : Get(m, ch, x)
      PROVE  SlotsOK'
  BY <1>2, <1>9, <1>10
<1>3. ASSUME NEW m \in Managers, StopAll(m)
      PROVE  SlotsOK'
  BY <1>3 DEF StopAll, CleanupBegins, CleanupEnds, CleanupStopped, CleanupRaises, CleanupWaits
<1>4. ASSUME NEW s \in Sources, Source(s)
      PROVE  SlotsOK'
  <2>1. CASE ResetEnds(s)
    BY <1>1, <1>2, <2>1 DEF ResetEnds
  <2>2. ASSUME NEW ch \in Channels, Claim(s, ch)
        PROVE  SlotsOK'
    BY <1>1, <1>2, <2>2 DEF Claim, SoftReset
  <2>3. ASSUME NEW ch \in Channels, NEW x \in Streamers,
               WriteBuffers(s, ch, x) \/ WriteFeeds(s, ch, x) \/ WriteStarts(s, ch, x)
        PROVE  SlotsOK'
    BY <1>2, <2>3 DEF WriteBuffers, WriteFeeds, WriteStarts, Packet
  <2>4. CASE \/ Spawned(s) \/ SpawnFails(s) \/ Drained(s) \/ SourceCloses(s) \/ ResetRaises(s)
             \/ \E n \in Names, m \in Managers : SourceOpens(s, n, m)
    BY <1>1, <2>4 DEF Spawned, SpawnFails, Drained, SourceCloses, ResetRaises, SourceOpens
  <2> QED
    BY <1>4, <2>1, <2>2, <2>3, <2>4 DEF Source
<1>5. ASSUME NEW v \in Viewers, NEW x \in Streamers, ViewerJoins(v, x)
      PROVE  SlotsOK'
  <2>1. watched' = [watched EXCEPT ![v] = x] /\ visited' = visited
    BY <1>5 DEF ViewerJoins
  <2>2. slot' \in [Managers -> [Channels -> Streamers \cup {None}]]
    BY <1>5, <1>10 DEF ViewerJoins
  <2> QED
    BY <2>1, <2>2
<1>6. ASSUME NEW v \in Viewers, Viewer(v)
      PROVE  SlotsOK'
  BY <1>1, <1>5, <1>6 DEF Viewer, ViewerComes, ViewerDropped
<1>7. CASE \/ Signal \/ UNCHANGED vars \/ \E x \in Streamers : Dies(x) \/ Clears(x)
           \/ \E n \in Names, m \in Managers : StatusAsked(n, m)
  BY <1>1, <1>7 DEF Signal, StatusAsked, Dies, Clears
<1> QED
  BY <1>3, <1>4, <1>6, <1>7 DEF Next

LEMMA LateStep ==
  ASSUME LateOK, [Next]_vars
  PROVE  LateOK'
<1> USE DEF LateOK
<1>1. CASE Others \/ UNCHANGED vars
  BY <1>1, OthersLeaveSources DEF Untouched
<1>2. ASSUME NEW s \in Sources, NEW ch, Feeds(s, ch)
      PROVE  LateOK'
  <2> DEFINE rest == [late[s] EXCEPT ![ch] = IF owner[name[s]][ch] = s THEN @ ELSE @ + 1]
  <2>1. late' = [late EXCEPT ![s] = rest]
    BY <1>2 DEF Feeds
  <2>2. late[s] \in [Channels -> Nat]
    OBVIOUS
  <2>3. rest \in [Channels -> Nat]
    <3>1. CASE ch \in Channels
      <4>1. late[s][ch] \in Nat /\ late[s][ch] + 1 \in Nat
        BY <2>2, <3>1
      <4> QED
        BY <2>2, <3>1, <4>1
    <3>2. CASE ch \notin Channels
      BY <2>2, <3>2
    <3> QED
      BY <3>1, <3>2
  <2> QED
    BY <2>1, <2>3
<1>3. ASSUME NEW s \in Sources, Source(s)
      PROVE  late' = late \/ \E ch : Feeds(s, ch)
  BY <1>3 DEF Source, SourceOpens, Claim, WriteBuffers, WriteFeeds, WriteStarts, ResetEnds,
     ResetRaises, Spawned, SpawnFails, Drained, SourceCloses, Leave
<1> QED
  BY <1>1, <1>2, <1>3, NextCases

-----------------------------------------------------------------------------
(* An owner is open and of the device whose key it holds; a connection that *)
(* has not begun has claimed nothing.                                       *)
UnbornIsNew == \A s \in Sources : spc[s] = "unborn" => seen[s] = {}

OwnInv == OwnersOK /\ OwnerIsOpen /\ UnbornIsNew

LEMMA OwnStep ==
  ASSUME SourcesOK, OwnInv, [Next]_vars
  PROVE  OwnInv'
<1> USE DEF SourcesOK, OwnInv, OwnersOK, OwnerIsOpen, UnbornIsNew
<1>1. CASE Others \/ UNCHANGED vars
  BY <1>1, OthersLeaveSources DEF Untouched
<1>2. ASSUME NEW s \in Sources, Opens(s)
      PROVE  OwnInv'
  BY <1>2 DEF Opens, SourceOpens
<1>3. ASSUME NEW s \in Sources, NEW ch \in Channels, Claim(s, ch)
      PROVE  OwnInv'
  <2>1. /\ spc[s] = "reading" /\ name' = name
        /\ seen' = [seen EXCEPT ![s] = @ \cup {ch}]
        /\ owner' = [owner EXCEPT ![name[s]][ch] = s]
        /\ spc' = spc \/ spc' = [spc EXCEPT ![s] = "reset"]
    BY <1>3 DEF Claim, KeyOf, SoftReset, Suspend
  <2>2. \A n \in Names, c \in Channels :
          owner'[n][c] = IF n = name[s] /\ c = ch THEN s ELSE owner[n][c]
    <3>1. owner' = [owner EXCEPT ![name[s]] = [owner[name[s]] EXCEPT ![ch] = s]]
      BY <2>1
    <3>2. owner[name[s]] \in [Channels -> Sources \cup {None}]
      OBVIOUS
    <3> QED
      BY <3>1, <3>2
  <2>3. \A t \in Sources : spc'[t] = spc[t] \/ (t = s /\ spc'[t] = "reset")
    <3>1. CASE spc' = spc
      BY <3>1, Zenon
    <3>2. CASE spc' = [spc EXCEPT ![s] = "reset"]
      BY <3>2, Zenon
    <3> QED
      BY <2>1, <3>1, <3>2
  <2> QED
    BY <2>1, <2>2, <2>3
<1>4. ASSUME NEW s \in Sources, Leaves(s)
      PROVE  OwnInv'
  <2>1. /\ spc' = [spc EXCEPT ![s] = "closed"] /\ name' = name /\ seen' = seen
        /\ owner' = [owner EXCEPT ![name[s]] =
                       [c \in Channels |-> IF @[c] = s THEN None ELSE @[c]]]
    BY <1>4 DEF Leaves, Leave, Release, KeyOf
  <2>2. \A n \in Names, c \in Channels :
          owner'[n][c] = IF n = name[s] /\ owner[n][c] = s THEN None ELSE owner[n][c]
    BY <2>1
  <2>3. owner' \in [Names -> [Channels -> Sources \cup {None}]]
    BY <2>1
  <2> QED
    BY <2>1, <2>2, <2>3
<1>5. ASSUME NEW s \in Sources, GoesOn(s)
      PROVE  OwnInv'
  BY <1>5 DEF GoesOn
<1> QED
  BY <1>1, <1>2, <1>3, <1>4, <1>5, NextCases, SourceCases DEF Takes

(* Once evicted, always evicted: a channel is claimed once, by a connection *)
(* that has not seen it.                                                    *)
LEMMA EvictedStep ==
  ASSUME SourcesOK, OwnInv, [Next]_vars, NEW s \in Sources, NEW ch \in Channels, Evicted(s, ch)
  PROVE  Evicted(s, ch)'
<1> USE DEF SourcesOK, OwnInv, OwnersOK, UnbornIsNew, Evicted
<1>1. CASE Others \/ UNCHANGED vars
  BY <1>1, OthersLeaveSources DEF Untouched
<1>2. ASSUME NEW t \in Sources, Opens(t)
      PROVE  Evicted(s, ch)'
  BY <1>2 DEF Opens, SourceOpens
<1>3. ASSUME NEW t \in Sources, NEW c \in Channels, Claim(t, c)
      PROVE  Evicted(s, ch)'
  <2>1. /\ c \notin seen[t] /\ name' = name
        /\ seen' = [seen EXCEPT ![t] = @ \cup {c}]
        /\ owner' = [owner EXCEPT ![name[t]] = [owner[name[t]] EXCEPT ![c] = t]]
    BY <1>3 DEF Claim, Claims, KeyOf, SoftReset, Suspend
  <2>2. ch \in seen'[s]
    BY <2>1
  <2>3. owner'[name[s]][ch] # s
    <3>1. CASE name[t] = name[s] /\ c = ch
      BY <2>1, <3>1
    <3>2. CASE ~(name[t] = name[s] /\ c = ch)
      <4>1. owner[name[t]] \in [Channels -> Sources \cup {None}]
        OBVIOUS
      <4> QED
        BY <2>1, <3>2, <4>1
    <3> QED
      BY <3>1, <3>2
  <2> QED
    BY <2>1, <2>2, <2>3
<1>4. ASSUME NEW t \in Sources, Leaves(t)
      PROVE  Evicted(s, ch)'
  <2>1. /\ name' = name /\ seen' = seen
        /\ owner' = [owner EXCEPT ![name[t]] =
                       [c \in Channels |-> IF @[c] = t THEN None ELSE @[c]]]
    BY <1>4 DEF Leaves, Leave, Release, KeyOf
  <2> QED
    BY <2>1, IngestAssumption
<1>5. ASSUME NEW t \in Sources, GoesOn(t)
      PROVE  Evicted(s, ch)'
  BY <1>5 DEF GoesOn
<1> QED
  BY <1>1, <1>2, <1>3, <1>4, <1>5, NextCases, SourceCases DEF Takes

(* A channel loses its owner only in the finally block of that owner.       *)
LEMMA ReleaseStep ==
  ASSUME SourcesOK, OwnInv, [Next]_vars, NEW n \in Names, NEW ch \in Channels,
         owner[n][ch] # None, owner'[n][ch] = None
  PROVE  spc'[owner[n][ch]] = "closed"
<1> USE DEF SourcesOK, OwnInv, OwnersOK
<1>1. PICK s \in Sources : Takes(s) \/ Leaves(s)
  <2>1. owner' # owner
    OBVIOUS
  <2>2. ~Others /\ ~UNCHANGED vars
    BY <2>1, OthersLeaveSources DEF Untouched
  <2>3. PICK s \in Sources : Opens(s) \/ Takes(s) \/ Leaves(s) \/ GoesOn(s)
    BY <2>2, NextCases, SourceCases
  <2>4. ~Opens(s) /\ ~GoesOn(s)
    BY <2>1 DEF Opens, SourceOpens, GoesOn
  <2> QED
    BY <2>3, <2>4
<1>2. ASSUME NEW c \in Channels, Claim(s, c)
      PROVE  FALSE
  <2>1. owner' = [owner EXCEPT ![name[s]] = [owner[name[s]] EXCEPT ![c] = s]]
    BY <1>2 DEF Claim, KeyOf
  <2>2. owner[name[s]] \in [Channels -> Sources \cup {None}]
    OBVIOUS
  <2> QED
    BY <2>1, <2>2, IngestAssumption
<1>3. CASE Leaves(s)
  <2>1. /\ spc' = [spc EXCEPT ![s] = "closed"]
        /\ owner' = [owner EXCEPT ![name[s]] =
                       [c \in Channels |-> IF @[c] = s THEN None ELSE @[c]]]
    BY <1>3 DEF Leaves, Leave, Release, KeyOf
  <2>2. owner[n][ch] = s
    BY <2>1
  <2> QED
    BY <2>1, <2>2
<1> QED
  BY <1>1, <1>2, <1>3 DEF Takes

-----------------------------------------------------------------------------
(* What an evicted connection may still have on its way: the payload it was *)
(* starting FFmpeg for.  Once that is through the channel is evicted, and   *)
(* it is not the one the connection starts FFmpeg for again.                *)
SpawnsSeen == \A s \in Sources : spc[s] = "spawn" => cur[s] \in seen[s]

LateInv ==
  \A s \in Sources, ch \in Channels :
    \/ late[s][ch] = 0
    \/ late[s][ch] = 1 /\ Evicted(s, ch) /\ (spc[s] = "spawn" => cur[s] # ch)

(* What is on its way changes only where a connection starts FFmpeg for a   *)
(* channel it holds, and where FFmpeg has started.                          *)
Keeps(s) == late' = late /\ spc'[s] # "spawn"

LEMMA WayCases ==
  ASSUME SourcesOK, LateOK, NEW s \in Sources, Source(s)
  PROVE  /\ \/ Keeps(s) \/ Spawned(s)
            \/ \E ch \in Channels, x \in Streamers : WriteStarts(s, ch, x)
         /\ \A t \in Sources \ {s} : spc'[t] = spc[t] /\ cur'[t] = cur[t]
<1> USE DEF SourcesOK, Keeps
<1>1. CASE Opens(s)
  BY <1>1 DEF Opens, SourceOpens
<1>2. ASSUME NEW ch \in Channels, Claim(s, ch)
      PROVE  /\ Keeps(s)
             /\ \A t \in Sources \ {s} : spc'[t] = spc[t] /\ cur'[t] = cur[t]
  BY <1>2 DEF Claim, SoftReset, Suspend
<1>3. ASSUME NEW ch \in Channels, NEW x \in Streamers, WriteBuffers(s, ch, x)
      PROVE  /\ Keeps(s)
             /\ \A t \in Sources \ {s} : spc'[t] = spc[t] /\ cur'[t] = cur[t]
  BY <1>3 DEF WriteBuffers, Packet
<1>4. ASSUME NEW ch \in Channels, NEW x \in Streamers, WriteFeeds(s, ch, x)
      PROVE  /\ Keeps(s)
             /\ \A t \in Sources \ {s} : spc'[t] = spc[t] /\ cur'[t] = cur[t]
  <2>1. late' = late
    BY <1>4 DEF WriteFeeds, Packet, Holds, KeyOf, Feeds, LateOK
  <2> QED
    BY <1>4, <2>1 DEF WriteFeeds, Suspend
<1>5. ASSUME NEW ch \in Channels, NEW x \in Streamers, WriteStarts(s, ch, x)
      PROVE  \A t \in Sources \ {s} : spc'[t] = spc[t] /\ cur'[t] = cur[t]
  BY <1>5 DEF WriteStarts, Suspend
<1>6. CASE Spawned(s)
  BY <1>6 DEF Spawned, Suspend
<1>7. ASSUME SpawnFails(s) \/ SourceCloses(s) \/ ResetEnds(s) \/ ResetRaises(s) \/ Drained(s)
      PROVE  /\ Keeps(s)
             /\ \A t \in Sources \ {s} : spc'[t] = spc[t] /\ cur'[t] = cur[t]
  BY <1>7 DEF SpawnFails, SourceCloses, ResetEnds, ResetRaises, Drained, Leave, Resume
<1> QED
  BY <1>1, <1>2, <1>3, <1>4, <1>5, <1>6, <1>7 DEF Source, Opens

LEMMA SpawnsSeenStep ==
  ASSUME SourcesOK, LateOK, SpawnsSeen, [Next]_vars
  PROVE  SpawnsSeen'
<1> USE DEF SourcesOK, SpawnsSeen
<1>1. CASE Others \/ UNCHANGED vars
  BY <1>1, OthersLeaveSources DEF Untouched
<1>2. ASSUME NEW s \in Sources, Source(s)
      PROVE  SpawnsSeen'
  <2>1. \A t \in Sources : seen[t] \subseteq seen'[t]
    <3>1. \/ seen' = seen
          \/ \E ch \in Channels : seen' = [seen EXCEPT ![s] = @ \cup {ch}]
      BY <1>2, SourceCases DEF Opens, SourceOpens, Takes, Claim, Leaves, Leave, GoesOn
    <3> QED
      BY <3>1
  <2>2. ASSUME NEW ch \in Channels, NEW x \in Streamers, WriteStarts(s, ch, x)
        PROVE  cur'[s] \in seen'[s]
    BY <2>2 DEF WriteStarts, Packet, Suspend
  <2>3. Spawned(s) => spc'[s] # "spawn"
    BY DEF Spawned, Suspend
  <2> QED
    BY <1>2, <2>1, <2>2, <2>3, WayCases DEF Keeps
<1> QED
  BY <1>1, <1>2, NextCases

LEMMA LateInvStep ==
  ASSUME SourcesOK, LateOK, OwnInv, SpawnsSeen, LateInv, [Next]_vars
  PROVE  LateInv'
<1>1. CASE Others \/ UNCHANGED vars
  BY <1>1, OthersLeaveSources DEF Untouched, LateInv, Evicted
<1>2. ASSUME NEW s \in Sources, Source(s), NEW t \in Sources, NEW ch \in Channels
      PROVE  \/ late'[t][ch] = 0
             \/ late'[t][ch] = 1 /\ Evicted(t, ch)' /\ (spc'[t] = "spawn" => cur'[t] # ch)
  <2>1. \/ late[t][ch] = 0
        \/ late[t][ch] = 1 /\ Evicted(t, ch) /\ (spc[t] = "spawn" => cur[t] # ch)
    BY DEF LateInv
  <2>2. Evicted(t, ch) => Evicted(t, ch)'
    BY EvictedStep
  <2>3. CASE t # s
    <3>1. spc'[t] = spc[t] /\ cur'[t] = cur[t]
      BY <1>2, <2>3, WayCases
    <3>2. late'[t] = late[t]
      BY <1>2, <2>3, WayCases DEF Keeps, Spawned, WriteStarts, Feeds, LateOK
    <3> QED
      BY <2>1, <2>2, <3>1, <3>2
  <2>4. CASE t = s /\ Keeps(s)
    BY <2>1, <2>2, <2>4 DEF Keeps
  <2>5. CASE t = s /\ \E c \in Channels, x \in Streamers : WriteStarts(s, c, x)
    <3>1. PICK c \in Channels, x \in Streamers : WriteStarts(s, c, x)
      BY <2>5
    <3>2. late' = late /\ cur'[s] = c /\ owner[name[s]][c] = s
      BY <3>1 DEF WriteStarts, Packet, Holds, KeyOf, Suspend, SourcesOK
    <3>3. Evicted(s, ch) => c # ch
      BY <3>2 DEF Evicted
    <3> QED
      BY <2>1, <2>2, <2>5, <3>2, <3>3
  <2>6. CASE t = s /\ Spawned(s)
    <3>1. /\ spc[s] = "spawn" /\ spc'[s] = "drain"
          /\ late' = [late EXCEPT ![s] = [late[s] EXCEPT ![cur[s]] =
                        IF owner[name[s]][cur[s]] = s THEN late[s][cur[s]]
                        ELSE late[s][cur[s]] + 1]]
      BY <2>6 DEF Spawned, Suspend, Feeds, SourcesOK
    <3>2. CASE ch # cur[s]
      <4>1. late'[s][ch] = late[s][ch]
        BY <3>1, <3>2 DEF LateOK
      <4> QED
        BY <2>1, <2>2, <2>6, <3>1, <4>1
    <3>3. CASE ch = cur[s]
      <4>1. late[s][ch] = 0
        BY <2>1, <2>6, <3>1, <3>3
      <4>2. late'[s][ch] = IF owner[name[s]][ch] = s THEN 0 ELSE 1
        BY <3>1, <3>3, <4>1 DEF LateOK
      <4>3. owner[name[s]][ch] # s => Evicted(s, ch)
        BY <3>1, <3>3 DEF SpawnsSeen, Evicted
      <4> QED
        BY <2>2, <2>6, <3>1, <4>2, <4>3
    <3> QED
      BY <3>2, <3>3
  <2> QED
    BY <1>2, <2>3, <2>4, <2>5, <2>6, WayCases
<1> QED
  BY <1>1, <1>2, NextCases DEF LateInv

-----------------------------------------------------------------------------
LEMMA ServedStep ==
  ASSUME SourcesOK, TablesOK, Managed, SourceIsServed, [Next]_vars
  PROVE  SourceIsServed'
<1> USE DEF SourcesOK, SourceIsServed
<1>1. /\ doomed \subseteq doomed'
      /\ \A n \in Names : streams[n] # None => streams'[n] = streams[n] \/ streams[n] \in doomed'
  BY TableCases, TablesStep
<1>2. ASSUME NEW t \in Sources, name'[t] = name[t], mgr'[t] = mgr[t], mgr[t] # None,
             spc[t] \notin {"unborn", "closed"}
      PROVE  mgr'[t] = streams'[name'[t]] \/ mgr'[t] \in doomed'
  BY <1>1, <1>2
<1>3. CASE Others \/ UNCHANGED vars
  <2>1. UNCHANGED <<spc, name, mgr>>
    BY <1>3, OthersLeaveSources DEF Untouched
  <2>2. \A t \in Sources : spc[t] # "unborn" => mgr[t] # None
    BY DEF Managed
  <2> QED
    BY <1>2, <2>1, <2>2
<1>4. ASSUME NEW s \in Sources, Takes(s) \/ Leaves(s) \/ GoesOn(s)
      PROVE  SourceIsServed'
  <2>1. name' = name /\ mgr' = mgr
    BY <1>4 DEF Takes, Leaves, GoesOn, Claim, SoftReset, Suspend, Leave
  <2>2. /\ \A t \in Sources \ {s} : spc'[t] = spc[t]
        /\ spc[s] \notin {"unborn", "closed"}
    BY <1>4 DEF Takes, Leaves, GoesOn, Claim, SoftReset, Suspend, Leave
  <2>3. \A t \in Sources : spc[t] # "unborn" => mgr[t] # None
    BY DEF Managed
  <2> QED
    BY <1>2, <2>1, <2>2, <2>3
<1>5. ASSUME NEW s \in Sources, NEW n \in Names, NEW m \in Managers, SourceOpens(s, n, m)
      PROVE  SourceIsServed'
  <2>1. /\ name'[s] = n /\ mgr'[s] = m
        /\ \A t \in Sources \ {s} : spc'[t] = spc[t] /\ name'[t] = name[t] /\ mgr'[t] = mgr[t]
    BY <1>5 DEF SourceOpens
  <2>2. streams'[n] = m
    BY <1>5 DEF SourceOpens, Serve, Allocate, TablesOK
  <2>3. \A t \in Sources : spc[t] # "unborn" => mgr[t] # None
    BY DEF Managed
  <2> QED
    BY <1>2, <2>1, <2>2, <2>3
<1> QED
  BY <1>3, <1>4, <1>5, NextCases, SourceCases DEF Opens

-----------------------------------------------------------------------------
Inv ==
  /\ TablesOK /\ SourcesOK /\ Managed /\ FlagsOK /\ SlotsOK /\ LateOK
  /\ OwnInv /\ SpawnsSeen /\ LateInv /\ SourceIsServed

LEMMA InvHolds == Spec => []Inv
<1>1. Init => Inv
  <2> SUFFICES ASSUME Init
               PROVE  Inv
    OBVIOUS
  <2>1. TablesOK /\ SourcesOK /\ Managed
    BY DEF Init, TableInit, TablesOK, SourcesOK, Managed
  <2>2. FlagsOK /\ LateOK
    BY DEF Init, FlagsOK, LateOK
  <2>3. SlotsOK
    BY DEF Init, SlotsOK
  <2>4. OwnInv
    BY DEF Init, OwnInv, OwnersOK, OwnerIsOpen, UnbornIsNew
  <2>5. SpawnsSeen /\ LateInv /\ SourceIsServed
    BY DEF Init, SpawnsSeen, LateInv, SourceIsServed
  <2> QED
    BY <2>1, <2>2, <2>3, <2>4, <2>5 DEF Inv
<1>2. Inv /\ [Next]_vars => Inv'
  <2> SUFFICES ASSUME Inv, [Next]_vars
               PROVE  Inv'
    OBVIOUS
  <2>1. TablesOK' /\ SourcesOK' /\ Managed' /\ SourceIsServed'
    BY TableCases, TablesStep, SourcesStep, ManagedStep, ServedStep DEF Inv
  <2>2. FlagsOK' /\ SlotsOK' /\ LateOK'
    BY FlagsStep, SlotsStep, LateStep DEF Inv
  <2>3. OwnInv' /\ SpawnsSeen' /\ LateInv'
    BY OwnStep, SpawnsSeenStep, LateInvStep DEF Inv
  <2> QED
    BY <2>1, <2>2, <2>3 DEF Inv
<1> QED
  BY <1>1, <1>2, PTL DEF Spec

(* The state keeps to its type, and who holds the key of a device is a      *)
(* connection of that device (TypeOK; JT1078Connection.run).                *)
THEOREM IngestTypeCorrect == Spec => []TypeOK
<1>1. Inv => TypeOK
  BY DEF Inv, TypeOK, TablesOK, SourcesOK, FlagsOK, SlotsOK, LateOK, OwnInv, OwnersOK
<1> QED
  BY <1>1, InvHolds, PTL

(* What the video and HTTP sides do to the device table is what DeviceTable *)
(* promises: they allocate managers and nothing else (TableSpec;            *)
(* get_device_streams).                                                     *)
THEOREM IngestKeepsTable == Spec => TableSpec
<1>1. Init => TableInit
  BY DEF Init
<1> QED
  BY <1>1, TableCases, PTL DEF Spec, TableSpec

(* No channel is held by a connection that has ended (OwnerIsOpen; run and  *)
(* its finally block).                                                      *)
THEOREM OwnersAreOpen == Spec => []OwnerIsOpen
<1>1. Inv => OwnerIsOpen
  BY DEF Inv, OwnInv
<1> QED
  BY <1>1, InvHolds, PTL

(* A connection that has lost a channel never gets it back                  *)
(* (EvictionIsFinal; JT1078Connection.run).                                 *)
THEOREM EvictedStayEvicted == Spec => EvictionIsFinal
<1>1. Inv /\ [Next]_vars =>
        [\A s \in Sources, ch \in Channels : Evicted(s, ch) => Evicted(s, ch)']_vars
  BY EvictedStep DEF Inv
<1> QED
  BY <1>1, InvHolds, PTL DEF Spec, EvictionIsFinal

(* Only the connection that holds a channel gives it up, by closing         *)
(* (OnlyOwnerReleases; the finally block of JT1078Connection.run).          *)
THEOREM OwnersReleaseTheirOwn == Spec => OnlyOwnerReleases
<1>1. Inv /\ [Next]_vars =>
        [\A n \in Names, ch \in Channels :
           owner[n][ch] # None /\ owner'[n][ch] = None => spc'[owner[n][ch]] = "closed"]_vars
  BY ReleaseStep DEF Inv
<1> QED
  BY <1>1, InvHolds, PTL DEF Spec, OnlyOwnerReleases

(* Once a channel has been claimed by another connection, the first gets at *)
(* most one more payload through (EvictedFeedsOnce; LiveStreamer.write).    *)
THEOREM EvictedSlipOnce == Spec => []EvictedFeedsOnce
<1>1. Inv => EvictedFeedsOnce
  BY DEF Inv, LateInv, EvictedFeedsOnce
<1> QED
  BY <1>1, InvHolds, PTL

(* An open connection feeds the manager its viewers are given, or one that  *)
(* will be stopped (SourceIsServed; get_device_streams and the clean-up of  *)
(* a signalling connection).                                                *)
THEOREM SourcesAreServed == Spec => []SourceIsServed
<1>1. Inv => SourceIsServed
  BY DEF Inv
<1> QED
  BY <1>1, InvHolds, PTL
=============================================================================
