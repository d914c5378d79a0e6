---------------------------- MODULE FfmpegProofs ----------------------------
(***************************************************************************)
(* Theorems about the two parts of the server that run FFmpeg.  Of         *)
(* LiveStreamer, for any writers, resets, processes and bounds: its type,  *)
(* that a streamer which counts as started is read and paced, and how many *)
(* payloads may slip past a cleared keyframe gate.  Of Relay, for any      *)
(* channels and any number of processes: its type, that no channel is      *)
(* pushed twice, and that an orderly end leaves no FFmpeg running.         *)
(***************************************************************************)
EXTENDS LiveStreamer, Relay, FiniteSetTheorems, TLAPS

(* LiveStreamer.                                                            *)
USE StreamerAssumption DEF StreamerAssumption, Procs, lsVars, streamerVars, writerVars, stopperVars, readerVars

(* The flags are only set, cleared or combined.                             *)
LEMMA FlagsStep ==
  ASSUME FlagsOK, [Next]_lsVars
  PROVE  FlagsOK'
<1> USE DEF FlagsOK
<1>1. ASSUME NEW w \in Writers, Write(w)
      PROVE  FlagsOK'
  <2>1. CASE WriteBuffered(w) \/ SpawnFails(w) \/ Drained(w) \/ Broken(w)
    BY <2>1 DEF WriteBuffered, SpawnFails, Drained, Broken
  <2>2. ASSUME NEW f \in {"key", "delta", "forced"},
               WriteFed(w, f) \/ WriteLost(w, f) \/ WriteStarts(w, f)
        PROVE  FlagsOK'
    BY <2>2 DEF WriteFed, WriteLost, WriteStarts, KeySeen
  <2>3. ASSUME NEW k \in Procs, Spawned(w, k) \/ SpawnedDead(w, k)
        PROVE  FlagsOK'
    BY <2>3 DEF Spawned, SpawnedDead
  <2> QED
    BY <1>1, <2>1, <2>2, <2>3 DEF Write
<1>2. ASSUME NEW s \in Stoppers, Reset(s)
      PROVE  FlagsOK'
  <2>1. ASSUME NEW delete \in BOOLEAN, StopWaits(s, delete) \/ StopAtOnce(s, delete)
        PROVE  FlagsOK'
    BY <2>1 DEF StopWaits, StopAtOnce, StopCalled
  <2>2. CASE StopEnds(s) \/ StopKills(s) \/ StopRaises(s)
    BY <2>2 DEF StopEnds, StopKills, StopRaises, Stopped
  <2> QED
    BY <1>2, <2>1, <2>2 DEF Reset
<1>3. ASSUME NEW k \in Procs, Exit(k) \/ Reap(k) \/ Read(k) \/ Pace(k)
      PROVE  FlagsOK'
  <2>1. CASE Exit(k) \/ Reap(k)
    BY <2>1 DEF Exit, Reap
  <2>2. CASE Read(k)
    BY <2>2 DEF Read, ReaderBegins, Chunk, EndOfOutput, ReadOrEnd, ReaderEnds
  <2>3. CASE Pace(k)
    BY <2>3 DEF Pace, PacerBegins, Take, Push, PacerTimesOut
  <2> QED
    BY <1>3, <2>1, <2>2, <2>3
<1>4. CASE View \/ SoftReset \/ UNCHANGED lsVars
  BY <1>4 DEF View, SoftReset
<1> QED
  BY <1>1, <1>2, <1>3, <1>4 DEF Next

(* A reader goes on with the pipe of the process _proc names, or ends.      *)
LEMMA ReaderMoves ==
  ASSUME reader \in [Procs -> {"none", "ready", "read", "done"}],
         source \in [Procs -> 0..MaxProcs], proc \in 0..MaxProcs,
         NEW k \in Procs, ReadOrEnd(k) \/ ReaderEnds(k)
  PROVE  /\ reader' \in [Procs -> {"none", "ready", "read", "done"}]
         /\ source' \in [Procs -> 0..MaxProcs]
BY DEF ReadOrEnd, ReaderEnds

(* The rest of the state: the queue is emptied, grows by a frame as far as  *)
(* its bound, or shrinks when it is not empty.                              *)
LEMMA CountsStep ==
  ASSUME CountsOK, [Next]_lsVars
  PROVE  CountsOK'
<1> USE DEF CountsOK
<1>1. ASSUME NEW w \in Writers, Write(w)
      PROVE  CountsOK'
  <2>1. CASE WriteBuffered(w)
    BY <2>1 DEF WriteBuffered
  <2>2. ASSUME NEW f \in {"key", "delta", "forced"}, WriteFed(w, f)
        PROVE  CountsOK'
    <3>1. /\ preBuf' = 0 /\ unkeyed' \in {0, unkeyed + 1}
          /\ wpc' = [wpc EXCEPT ![w] = "drain"]
          /\ payload' = [payload EXCEPT ![w] = "none"]
          /\ UNCHANGED <<proc, queue, ffmpeg, stopperVars, readerVars, pacer>>
      BY <2>2, Zenon DEF WriteFed, KeySeen, Fed
    <3> QED
      BY <3>1
  <2>6. ASSUME NEW f \in {"key", "delta", "forced"}, WriteLost(w, f)
        PROVE  CountsOK'
    BY <2>6 DEF WriteLost
  <2>3. ASSUME NEW f \in {"key", "delta", "forced"}, WriteStarts(w, f)
        PROVE  CountsOK'
    <3>1. pacer' \in [Procs -> {"none", "ready", "get", "stale", "hold", "done"}]
      <4>1. PICK woken \in SUBSET Waiting :
              pacer' = [k \in Procs |-> IF k \in woken THEN "hold"
                                          ELSE IF k \in Waiting THEN "stale" ELSE pacer[k]]
        BY <2>3 DEF WriteStarts, NewQueue
      <4> QED
        BY <4>1
    <3>2. queue' = 0
      BY <2>3 DEF WriteStarts, NewQueue
    <3>3. /\ preBuf' = 0 /\ unkeyed' \in {0, unkeyed + 1}
          /\ wpc' = [wpc EXCEPT ![w] = "spawn"]
          /\ payload' = [payload EXCEPT ![w] = IF f = "delta" THEN f ELSE "key"]
          /\ UNCHANGED <<proc, ffmpeg, stopperVars, readerVars>>
      BY <2>3, Zenon DEF WriteStarts, KeySeen
    <3> QED
      BY <3>1, <3>2, <3>3
  <2>4. ASSUME NEW k \in Procs, Spawned(w, k) \/ SpawnedDead(w, k)
        PROVE  CountsOK'
    <3>1. /\ \E state \in {"running", "reaped"} : ffmpeg' = [ffmpeg EXCEPT ![k] = state]
          /\ proc' = k
          /\ reader' = [reader EXCEPT ![k] = "ready"]
          /\ pacer' = [pacer EXCEPT ![k] = "ready"]
          /\ UNCHANGED <<preBuf, queue, stopperVars, source>>
      BY <2>4 DEF Spawned, SpawnedDead, NewProcess
    <3>2. /\ \E next \in {"drain", "idle"} : wpc' = [wpc EXCEPT ![w] = next]
          /\ payload' = [payload EXCEPT ![w] = "none"]
          /\ unkeyed' \in {unkeyed, unkeyed + 1}
      BY <2>4 DEF Spawned, SpawnedDead, Fed, WriteReturns
    <3> QED
      BY <3>1, <3>2
  <2>5. CASE SpawnFails(w) \/ Drained(w) \/ Broken(w)
    <3>1. /\ wpc' = [wpc EXCEPT ![w] = "idle"] \/ wpc' = [wpc EXCEPT ![w] = "ended"]
          /\ payload' = [payload EXCEPT ![w] = "none"]
          /\ UNCHANGED <<proc, preBuf, queue, ffmpeg, stopperVars, readerVars, pacer, unkeyed>>
      BY <2>5 DEF SpawnFails, Drained, Broken, WriteReturns
    <3>2. wpc' \in [Writers -> {"idle", "spawn", "drain", "ended"}]
      BY <3>1, Zenon
    <3> QED
      BY <3>1, <3>2
  <2> QED
    BY <1>1, <2>1, <2>2, <2>3, <2>4, <2>5, <2>6 DEF Write
<1>2. ASSUME NEW s \in Stoppers, Reset(s)
      PROVE  CountsOK'
  <2>1. ASSUME NEW delete \in BOOLEAN, StopWaits(s, delete) \/ StopAtOnce(s, delete)
        PROVE  CountsOK'
    <3>1. /\ preBuf' = 0
          /\ \/ /\ spc' = [spc EXCEPT ![s] = "wait"]
                /\ awaited' = [awaited EXCEPT ![s] = proc]
             \/ UNCHANGED <<spc, awaited>>
          /\ UNCHANGED <<proc, queue, ffmpeg, writerVars, readerVars, pacer, unkeyed>>
      BY <2>1 DEF StopWaits, StopAtOnce, StopCalled
    <3>2. deletes' \in [Stoppers -> BOOLEAN]
      <4>1. deletes' = deletes \/ deletes' = [deletes EXCEPT ![s] = delete]
        BY <2>1 DEF StopWaits, StopAtOnce
      <4> QED
        BY <2>1, <4>1, Zenon
    <3>3. spc' \in [Stoppers -> {"idle", "wait"}] /\ awaited' \in [Stoppers -> 0..MaxProcs]
      BY <3>1
    <3> QED
      BY <3>1, <3>2, <3>3
  <2>2. CASE StopEnds(s) \/ StopKills(s) \/ StopRaises(s)
    <3>1. /\ spc' = [spc EXCEPT ![s] = "idle"]
          /\ awaited' = [awaited EXCEPT ![s] = 0]
          /\ UNCHANGED <<proc, preBuf, queue, writerVars, readerVars, pacer, unkeyed>>
      BY <2>2 DEF StopEnds, StopKills, StopRaises, Stopped, StopReturns
    <3>2. deletes' \in [Stoppers -> BOOLEAN]
      <4>1. deletes' = [deletes EXCEPT ![s] = FALSE]
        BY <2>2 DEF StopEnds, StopKills, StopRaises, Stopped, StopReturns
      <4> QED
        BY <4>1, Zenon
    <3>3. ffmpeg' \in [Procs -> {"none", "running", "gone", "reaped"}]
      <4>1. \/ ffmpeg' = ffmpeg
            \/ ffmpeg' = [ffmpeg EXCEPT ![proc] = IF @ = "running" THEN "gone" ELSE @]
        BY <2>2 DEF StopEnds, StopKills, StopRaises
      <4> QED
        BY <4>1
    <3>4. spc' \in [Stoppers -> {"idle", "wait"}] /\ awaited' \in [Stoppers -> 0..MaxProcs]
      BY <3>1
    <3>5. UNCHANGED <<proc, preBuf, queue, writerVars, readerVars, pacer, unkeyed>>
      BY <3>1
    <3> QED
      BY <3>2, <3>3, <3>4, <3>5
  <2> QED
    BY <1>2, <2>1, <2>2 DEF Reset
<1>3. ASSUME NEW k \in Procs, Exit(k) \/ Reap(k) \/ Pace(k)
      PROVE  CountsOK'
  <2>1. CASE Exit(k) \/ Reap(k)
    <3>1. /\ \E next \in {"gone", "reaped"} : ffmpeg' = [ffmpeg EXCEPT ![k] = next]
          /\ UNCHANGED <<proc, preBuf, queue, writerVars, stopperVars, readerVars, pacer, unkeyed>>
      BY <2>1, Zenon DEF Exit, Reap
    <3>2. ffmpeg' \in [Procs -> {"none", "running", "gone", "reaped"}]
      BY <3>1
    <3> QED
      BY <3>1, <3>2
  <2>2. CASE Pace(k)
    <3>1. pacer' \in [Procs -> {"none", "ready", "get", "stale", "hold", "done"}]
      <4>1. \E next \in {"get", "hold", "done"} : pacer' = [pacer EXCEPT ![k] = next]
        BY <2>2 DEF Pace, PacerBegins, Take, Push, PacerTimesOut, PacerGoes, AfterTimeout
      <4> QED
        BY <4>1
    <3>2. UNCHANGED <<proc, preBuf, ffmpeg, writerVars, stopperVars, readerVars, unkeyed>>
      BY <2>2, Zenon DEF Pace, PacerBegins, Take, Push, PacerTimesOut
    <3>3. CASE Take(k)
      BY <3>1, <3>2, <3>3 DEF Take
    <3>4. ASSUME ~Take(k)
          PROVE  queue' = queue
      BY <2>2, <3>4, Zenon DEF Pace, PacerBegins, Push, PacerTimesOut
    <3> QED
      BY <3>1, <3>2, <3>3, <3>4
  <2> QED
    BY <1>3, <2>1, <2>2
<1>4. ASSUME NEW k \in Procs, Read(k)
      PROVE  CountsOK'
  <2>1. ReadOrEnd(k) \/ ReaderEnds(k)
        => /\ reader' \in [Procs -> {"none", "ready", "read", "done"}]
           /\ source' \in [Procs -> 0..MaxProcs]
    BY ReaderMoves
  <2>2. CASE ReaderBegins(k) \/ EndOfOutput(k)
    <3>1. /\ ReadOrEnd(k) \/ ReaderEnds(k)
          /\ UNCHANGED <<proc, preBuf, queue, ffmpeg, writerVars, stopperVars, pacer, unkeyed>>
      BY <2>2 DEF ReaderBegins, EndOfOutput
    <3> QED
      BY <2>1, <3>1
  <2>3. ASSUME NEW n \in 0..1, Chunk(k, n)
        PROVE  CountsOK'
    <3>1. queue' \in 0..FrameBuf
      BY <2>3 DEF Chunk, Enqueued
    <3> QED
      BY <2>1, <2>3, <3>1 DEF Chunk
  <2> QED
    BY <1>4, <2>2, <2>3 DEF Read
<1>5. CASE View \/ SoftReset \/ UNCHANGED lsVars
  BY <1>5 DEF View, SoftReset
<1> QED
  BY <1>1, <1>2, <1>3, <1>4, <1>5 DEF Next

(* The state keeps to its type: the frame queue holds no more than its      *)
(* bound, whoever fills it and whenever it is replaced (TypeOK; start,      *)
(* _read_jpeg_frames).                                                      *)
THEOREM StreamerTypeCorrect == Spec => []TypeOK
<1>1. Init => FlagsOK
  BY DEF Init, FlagsOK
<1>2. Init => CountsOK
  BY DEF Init, CountsOK
<1> QED
  BY <1>1, <1>2, FlagsStep, CountsStep, PTL DEF Spec, TypeOK

-----------------------------------------------------------------------------
(* Only three things happen to the readers and the pacers: a process comes  *)
(* with both, a reader ends and takes _started with it, or a pacer ends     *)
(* when _started is already down.  Everybody else leaves the living alive   *)
(* and sets nothing.                                                        *)
LEMMA StartedStep ==
  ASSUME TypeOK, StartedIsRead, StartedIsPaced, [Next]_lsVars
  PROVE  StartedIsRead' /\ StartedIsPaced'
<1> USE DEF TypeOK, CountsOK, StartedIsRead, StartedIsPaced, ReaderAlive, PacerAlive
<1>1. ASSUME NEW w \in Writers, NEW k \in Procs, Spawned(w, k) \/ SpawnedDead(w, k)
      PROVE  StartedIsRead' /\ StartedIsPaced'
  BY <1>1 DEF Spawned, SpawnedDead, NewProcess
<1>2. ASSUME NEW k \in Procs, Read(k)
      PROVE  StartedIsRead' /\ StartedIsPaced'
  <2>1. ReadOrEnd(k) \/ ReaderEnds(k)
    BY <1>2 DEF Read, ReaderBegins, Chunk, EndOfOutput
  <2>2. pacer' = pacer
    BY <1>2 DEF Read, ReaderBegins, Chunk, EndOfOutput
  <2> QED
    BY <2>1, <2>2 DEF ReadOrEnd, ReaderEnds
<1>3. ASSUME NEW k \in Procs, Pace(k)
      PROVE  StartedIsRead' /\ StartedIsPaced'
  BY <1>3 DEF Pace, PacerBegins, Take, Push, PacerTimesOut, PacerGoes, AfterTimeout
<1>4. ASSUME NEW w \in Writers, NEW f \in {"key", "delta", "forced"}, WriteStarts(w, f)
      PROVE  StartedIsRead' /\ StartedIsPaced'
  BY <1>4 DEF WriteStarts
<1>5. CASE /\ reader' = reader /\ pacer' = pacer
           /\ started' = started \/ started' = FALSE
  BY <1>5
<1>6. ASSUME NEW w \in Writers,
             \/ WriteBuffered(w) \/ SpawnFails(w) \/ Drained(w) \/ Broken(w)
             \/ \E f \in {"key", "delta", "forced"} : WriteFed(w, f) \/ WriteLost(w, f)
      PROVE  StartedIsRead' /\ StartedIsPaced'
  BY <1>5, <1>6 DEF WriteBuffered, WriteFed, WriteLost, SpawnFails, Drained, Broken
<1>7. ASSUME NEW s \in Stoppers, Reset(s)
      PROVE  StartedIsRead' /\ StartedIsPaced'
  BY <1>5, <1>7 DEF Reset, StopWaits, StopAtOnce, StopCalled, StopEnds, StopKills,
     StopRaises, Stopped
<1>8. CASE View \/ SoftReset \/ UNCHANGED lsVars \/ \E k \in Procs : Exit(k) \/ Reap(k)
  BY <1>5, <1>8 DEF View, SoftReset, Exit, Reap
<1> QED
  BY <1>1, <1>2, <1>3, <1>4, <1>6, <1>7, <1>8 DEF Next, Write

LEMMA StartedCorrect == Spec => [](StartedIsRead /\ StartedIsPaced)
<1>1. Init => StartedIsRead /\ StartedIsPaced
  BY DEF Init, StartedIsRead, StartedIsPaced
<1> QED
  BY <1>1, StartedStep, StreamerTypeCorrect, PTL DEF Spec

(* While the streamer counts as started, some task reads FFmpeg's output    *)
(* (StartedIsRead; start and _read_jpeg_frames).                            *)
THEOREM SomebodyReads == Spec => []StartedIsRead
BY StartedCorrect, PTL

(* While the streamer counts as started, some task delivers its frames      *)
(* (StartedIsPaced; start and _pace_frames).                                *)
THEOREM SomebodyPaces == Spec => []StartedIsPaced
BY StartedCorrect, PTL

-----------------------------------------------------------------------------
(* The writers inside start().  Each of them may still slip one payload     *)
(* past the gate; whoever joins them has just opened it.                    *)
Spawning == {w \in Writers : wpc[w] = "spawn"}

GateInv == unkeyed + Cardinality(Spawning) <= Cardinality(Writers)

LEMMA SomeWriters ==
  ASSUME NEW S \in SUBSET Writers
  PROVE  /\ IsFiniteSet(S) /\ Cardinality(S) \in Nat
         /\ Cardinality(S) <= Cardinality(Writers) /\ Cardinality(Writers) \in Nat
BY FS_Subset, FS_CardinalityType

(* A writer leaves start().                                                 *)
LEMMA SpawningShrinks ==
  ASSUME TypeOK, NEW w \in Spawning,
         NEW next \in {"drain", "idle", "ended"}, wpc' = [wpc EXCEPT ![w] = next]
  PROVE  Cardinality(Spawning') = Cardinality(Spawning) - 1
<1>1. Spawning' = Spawning \ {w}
  BY DEF Spawning, TypeOK, CountsOK
<1>2. IsFiniteSet(Spawning)
  BY SomeWriters DEF Spawning
<1> QED
  BY <1>1, <1>2, FS_RemoveElement

LEMMA GateStep ==
  ASSUME TypeOK, TypeOK', GateInv, [Next]_lsVars
  PROVE  GateInv'
<1>1. /\ unkeyed \in Nat /\ unkeyed' \in Nat /\ Cardinality(Writers) \in Nat
      /\ Cardinality(Spawning) \in Nat /\ Cardinality(Spawning') \in Nat
      /\ Cardinality(Spawning') <= Cardinality(Writers)
  <2>1. Spawning \in SUBSET Writers /\ Spawning' \in SUBSET Writers
    BY DEF Spawning
  <2> QED
    BY <2>1, SomeWriters DEF TypeOK, CountsOK
<1>2. ASSUME unkeyed' = 0
      PROVE  GateInv'
  BY <1>1, <1>2 DEF GateInv
<1>3. ASSUME unkeyed' \in {unkeyed, unkeyed + 1}, Cardinality(Spawning') = Cardinality(Spawning) - 1
      PROVE  GateInv'
  BY <1>1, <1>3 DEF GateInv
<1>4. ASSUME unkeyed' = unkeyed, Spawning' = Spawning
      PROVE  GateInv'
  BY <1>4 DEF GateInv
<1>5. ASSUME NEW w \in Writers, NEW f \in {"key", "delta", "forced"},
             WriteFed(w, f) \/ WriteStarts(w, f)
      PROVE  GateInv'
  <2>1. unkeyed' = 0
    BY <1>5 DEF WriteFed, WriteStarts, KeySeen, Passes, TypeOK, CountsOK
  <2> QED
    BY <1>2, <2>1
<1>6. ASSUME NEW w \in Writers,
             SpawnFails(w) \/ \E k \in Procs : Spawned(w, k) \/ SpawnedDead(w, k)
      PROVE  GateInv'
  <2>1. w \in Spawning
    BY <1>6 DEF Spawned, SpawnedDead, SpawnFails, Spawning
  <2>2. PICK next \in {"drain", "idle", "ended"} : wpc' = [wpc EXCEPT ![w] = next]
    BY <1>6 DEF Spawned, SpawnedDead, SpawnFails, Fed, WriteReturns
  <2>3. unkeyed' \in {unkeyed, unkeyed + 1}
    BY <1>6 DEF Spawned, SpawnedDead, SpawnFails
  <2> QED
    BY <1>3, <2>1, <2>2, <2>3, SpawningShrinks
<1>7. ASSUME NEW w \in Writers, Drained(w) \/ Broken(w)
      PROVE  GateInv'
  <2>1. Spawning' = Spawning
    BY <1>7 DEF Drained, Broken, WriteReturns, Spawning, TypeOK, CountsOK
  <2> QED
    BY <1>4, <1>7, <2>1 DEF Drained, Broken
<1>8. CASE unkeyed' = unkeyed /\ wpc' = wpc
  <2>1. Spawning' = Spawning
    BY <1>8 DEF Spawning
  <2> QED
    BY <1>4, <1>8, <2>1
<1>9. ASSUME NEW w \in Writers,
             WriteBuffered(w) \/ \E f \in {"key", "delta", "forced"} : WriteLost(w, f)
      PROVE  GateInv'
  BY <1>8, <1>9 DEF WriteBuffered, WriteLost
<1>10. ASSUME NEW s \in Stoppers, Reset(s)
       PROVE  GateInv'
  BY <1>8, <1>10 DEF Reset, StopWaits, StopAtOnce, StopEnds, StopKills, StopRaises
<1>11. ASSUME NEW k \in Procs, Exit(k) \/ Reap(k) \/ Read(k) \/ Pace(k)
       PROVE  GateInv'
  BY <1>8, <1>11 DEF Exit, Reap, Read, ReaderBegins, Chunk, EndOfOutput, Pace,
     PacerBegins, Take, Push, PacerTimesOut
<1>12. CASE View \/ SoftReset \/ UNCHANGED lsVars
  BY <1>8, <1>12 DEF View, SoftReset
<1> QED
  BY <1>5, <1>6, <1>7, <1>9, <1>10, <1>11, <1>12 DEF Next, Write

(* No more payloads slip past a gate that has been cleared than there are   *)
(* writers (FewUnkeyed; soft_reset, stop and write).                        *)
THEOREM FewSlipPast == Spec => []FewUnkeyed
<1>1. Init => GateInv
  <2>1. ASSUME Init
        PROVE  Spawning = {} /\ unkeyed = 0
    BY <2>1 DEF Init, Spawning
  <2> QED
    BY <2>1, SomeWriters, FS_EmptySet DEF GateInv
<1>2. TypeOK /\ GateInv => FewUnkeyed
  <2>1. Spawning \in SUBSET Writers
    BY DEF Spawning
  <2>2. TypeOK => unkeyed \in Nat
    BY Zenon DEF TypeOK, CountsOK
  <2> QED
    BY <2>1, <2>2, SomeWriters DEF GateInv, FewUnkeyed
<1>3. TypeOK /\ TypeOK' /\ GateInv /\ [Next]_lsVars => GateInv'
  BY GateStep
<1> QED
  BY <1>1, <1>2, <1>3, StreamerTypeCorrect, PTL DEF Spec

HIDE StreamerAssumption DEF StreamerAssumption, Procs, lsVars, streamerVars,
     writerVars, stopperVars, readerVars

-----------------------------------------------------------------------------
(* Relay.                                                                   *)
(* What runs is what _relays names: there are no strays.                    *)
Tracked == \A p \in Pushers : ps[p] = "running" => relays[p[1]] = p

(* What run() may be awaiting, and where.  A process is created only for a  *)
(* channel whose last one, if any, does not run.                            *)
AwaitsOK ==
  \A k \in Channels :
    /\ doing = <<"spawn", k>> => pc \in {"start", "restart"} /\ ~Pushed(k)
    /\ doing = <<"wait", k>> => pc \in {"stale", "shut"}

(* Whatever still runs during the shutdown has yet to be stopped.           *)
ShutOK ==
  pc = "shut" => \A k \in Channels : Pushed(k) => k \in todo \/ doing = <<"wait", k>>

RelayInv == Tracked /\ AwaitsOK /\ ShutOK /\ NoneLeft

USE RelayAssumption DEF relayVars, runVars

(* The state keeps to its type, and the processes of an entry are processes *)
(* of its channel (RelayTypeOK).                                            *)
THEOREM RelayTypeCorrect == RelaySpec => []RelayTypeOK
<1> USE DEF RelayTypeOK, Pushers, Loops, Over, Entries
<1>1. RelayInit => RelayTypeOK
  BY DEF RelayInit
<1>2. ASSUME RelayTypeOK, [RelayNext]_relayVars
      PROVE  RelayTypeOK'
  <2>1. CASE Streams \/ Stop
    BY <1>2, <2>1 DEF Streams, Stop
  <2>2. ASSUME NEW p \in Pushers, Exits(p) \/ Collected(p)
        PROVE  RelayTypeOK'
    BY <1>2, <2>2 DEF Exits, Collected
  <2>3. ASSUME NEW k \in Channels, GrowsOld(k) \/ WaitRaises(k)
        PROVE  RelayTypeOK'
    BY <1>2, <2>3 DEF GrowsOld, WaitRaises, Fails
  <2>4. CASE PusherFails
    BY <1>2, <2>4 DEF PusherFails, Fails
  <2>5. CASE FetchFails \/ Fetched \/ Started \/ Restarted \/ Reconciled \/ Wakes \/ Clears
    BY <1>2, <2>5 DEF FetchFails, Fetched, Refreshed, Started, Restarted, Reconciled,
       GoesTo, Wakes, ToShut, Clears
  <2>6. ASSUME NEW k \in Channels, StartMissing(k) \/ Restart(k) \/ PassesOver(k) \/ PusherStops(k)
        PROVE  RelayTypeOK'
    BY <1>2, <2>6 DEF StartMissing, Restart, PassesOver, PusherStops, Begins
  <2>7. ASSUME NEW k \in Channels, PusherGone(k) \/ Waited(k)
        PROVE  RelayTypeOK'
    BY <1>2, <2>7 DEF PusherGone, Waited, Deleted, After
  <2>8. ASSUME NEW p \in Pushers, PusherSpawned(p)
        PROVE  RelayTypeOK'
    <3>1. p[1] \in Channels /\ relays' = [relays EXCEPT ![p[1]] = p]
      BY <2>8 DEF PusherSpawned
    <3>2. relays' \in [Channels -> Pushers \cup {None}]
          /\ \A k \in Channels : relays'[k] \in Pushers => relays'[k][1] = k
      BY <1>2, <3>1
    <3>3. ps' \in [Pushers -> {"free", "running", "reaped", "killed"}]
      BY <1>2, <2>8 DEF PusherSpawned
    <3> QED
      BY <1>2, <2>8, <3>2, <3>3 DEF PusherSpawned
  <2>9. CASE UNCHANGED relayVars
    BY <1>2, <2>9
  <2> QED
    BY <1>2, <2>1, <2>2, <2>3, <2>4, <2>5, <2>6, <2>7, <2>8, <2>9 DEF RelayNext, Run
<1> QED
  BY <1>1, <1>2, PTL DEF RelaySpec

LEMMA RelayInvStep ==
  ASSUME RelayTypeOK, RelayInv, [RelayNext]_relayVars
  PROVE  RelayInv'
<1> USE DEF RelayTypeOK, RelayInv, Tracked, AwaitsOK, ShutOK, NoneLeft, Pushed, Pushers, Entries
<1>1. CASE Streams \/ Stop
  BY <1>1 DEF Streams, Stop
<1>2. ASSUME NEW p \in Pushers, Exits(p) \/ Collected(p)
      PROVE  RelayInv'
  BY <1>2 DEF Exits, Collected
<1>3. ASSUME NEW k \in Channels, GrowsOld(k) \/ WaitRaises(k)
      PROVE  RelayInv'
  BY <1>3 DEF GrowsOld, WaitRaises, Fails
<1>4. CASE PusherFails
  BY <1>4 DEF PusherFails, Fails
<1>5. CASE FetchFails \/ Fetched \/ Started \/ Restarted \/ Reconciled
  BY <1>5 DEF FetchFails, Fetched, Started, Restarted, Reconciled, GoesTo
<1>6. CASE Wakes
  BY <1>6 DEF Wakes, ToShut
<1>7. CASE Clears
  BY <1>7 DEF Clears
<1>8. ASSUME NEW k \in Channels, StartMissing(k) \/ Restart(k)
      PROVE  RelayInv'
  BY <1>8 DEF StartMissing, Misses, Restart, Crashed, HasEnded, Begins
<1>9. ASSUME NEW k \in Channels, PassesOver(k) \/ PusherStops(k)
      PROVE  RelayInv'
  BY <1>9 DEF PassesOver, PusherStops, HasEnded, Begins
<1>10. ASSUME NEW k \in Channels, PusherGone(k)
       PROVE  RelayInv'
  BY <1>10 DEF PusherGone, HasEnded, Deleted
<1>11. ASSUME NEW k \in Channels, Waited(k)
       PROVE  RelayInv'
  BY <1>11 DEF Waited, Deleted, After
<1>12. ASSUME NEW p \in Pushers, PusherSpawned(p)
       PROVE  RelayInv'
  BY <1>12 DEF PusherSpawned
<1>13. CASE UNCHANGED relayVars
  BY <1>13
<1> QED
  BY <1>1, <1>2, <1>3, <1>4, <1>5, <1>6, <1>7, <1>8, <1>9, <1>10, <1>11, <1>12, <1>13
  DEF RelayNext, Run

LEMMA RelayCorrect == RelaySpec => []RelayInv
<1>1. RelayInit => RelayInv
  BY DEF RelayInit, RelayInv, Tracked, AwaitsOK, ShutOK, NoneLeft, Pushed, Pushers
<1> QED
  BY <1>1, RelayInvStep, RelayTypeCorrect, PTL DEF RelaySpec

(* No channel is pushed by two FFmpeg processes (OnePush; _reconcile and    *)
(* _stop_relay).                                                            *)
THEOREM NeverPushedTwice == RelaySpec => []OnePush
<1>1. RelayInv => OnePush
  BY DEF RelayInv, Tracked, OnePush, Pushers
<1> QED
  BY <1>1, RelayCorrect, PTL

(* When run returns, nothing that it started still runs (NoneLeft; the      *)
(* shutdown of run).                                                        *)
THEOREM ShutdownIsClean == RelaySpec => []NoneLeft
<1>1. RelayInv => NoneLeft
  BY DEF RelayInv
<1> QED
  BY <1>1, RelayCorrect, PTL
=============================================================================
