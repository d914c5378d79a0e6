---------------------------- MODULE LiveStreamer ----------------------------
(***************************************************************************)
(* One LiveStreamer of hls.py: the camera connections that feed it, the    *)
(* FFmpeg processes it starts, and the reader and pacer tasks of each.     *)
(*                                                                         *)
(* A task runs from one await to the next without interruption.  FFmpeg    *)
(* process k, and the reader and the pacer that start() creates beside it, *)
(* share the index k.  A writer is a JT1078Connection inside write(), a    *)
(* stopper a task inside StreamManager.soft_reset, reset or stop_all.      *)
(*                                                                         *)
(* A payload is "key" (with it the buffered bytes contain a VPS, IDR or    *)
(* CRA prefix), "delta" (they do not) or "forced" (what the 50 KB limit    *)
(* lets through).  JPEG contents and times are not kept: the frame queue   *)
(* is its length, and a timeout may come at any moment of a wait.          *)
(*                                                                         *)
(* Which connection may begin a write is not decided here: any writer may. *)
(* A RASL payload is dropped before anything else and needs no action.     *)
(***************************************************************************)
EXTENDS Naturals, FiniteSets

CONSTANTS
  Writers,    (* connections that may be inside write()                    *)
  Stoppers,   (* tasks that may be inside a reset                          *)
  MaxProcs,   (* bound: FFmpeg processes started                           *)
  PreMax,     (* payloads that make the 50 KB of _pre_buf                  *)
  FrameBuf    (* _FRAME_BUF, 30 in the code                                *)

ASSUME StreamerAssumption ==
  /\ IsFiniteSet(Writers)
  /\ MaxProcs \in Nat \ {0}
  /\ PreMax \in Nat
  /\ FrameBuf \in Nat \ {0}

Procs == 1..MaxProcs

VARIABLES
  proc,                     (* _proc, 0 for None                           *)
  started, gotKey, preBuf,  (* _started, _got_keyframe, len of _pre_buf    *)
  viewed, queue,            (* _http_clients is not empty; _frame_queue    *)
  attached,                 (* the manager still holds this streamer       *)
  ffmpeg,                   (* state of each process                       *)
  wpc, payload,             (* writers                                     *)
  spc, awaited, deletes,    (* stoppers                                    *)
  reader, source,           (* _read_jpeg_frames tasks                     *)
  pacer,                    (* _pace_frames tasks                          *)
  unkeyed                   (* history: deltas fed to FFmpeg while         *)
                            (*   _got_keyframe is False                    *)

streamerVars == <<proc, started, gotKey, preBuf, viewed, queue, attached>>
writerVars   == <<wpc, payload>>
stopperVars  == <<spc, awaited, deletes>>
readerVars   == <<reader, source>>
lsVars == <<streamerVars, ffmpeg, writerVars, stopperVars, readerVars,
            pacer, unkeyed>>

Init ==
  /\ proc = 0 /\ started = FALSE /\ gotKey = FALSE /\ preBuf = 0
  /\ viewed = FALSE /\ queue = 0 /\ attached = TRUE
  /\ ffmpeg  = [k \in Procs |-> "none"]
  /\ wpc     = [w \in Writers |-> "idle"]
  /\ payload = [w \in Writers |-> "none"]
  /\ spc     = [s \in Stoppers |-> "idle"]
  /\ awaited = [s \in Stoppers |-> 0]
  /\ deletes = [s \in Stoppers |-> FALSE]
  /\ reader  = [k \in Procs |-> "none"]
  /\ source  = [k \in Procs |-> 0]
  /\ pacer   = [k \in Procs |-> "none"]
  /\ unkeyed = 0

-----------------------------------------------------------------------------
(* FFmpeg.  "running", then "gone" once it has exited, then "reaped" once   *)
(* asyncio has set its returncode.  The end of its stdout reaches the       *)
(* reader before or after the returncode does.                              *)

(* returncode is None, for the process _proc names.                         *)
Unreaped(k) == k # 0 /\ ffmpeg[k] \in {"running", "gone"}

Exit(k) ==
  /\ ffmpeg[k] = "running"
  /\ ffmpeg' = [ffmpeg EXCEPT ![k] = "gone"]
  /\ UNCHANGED <<streamerVars, writerVars, stopperVars, readerVars,
                 pacer, unkeyed>>

Reap(k) ==
  /\ ffmpeg[k] = "gone"
  /\ ffmpeg' = [ffmpeg EXCEPT ![k] = "reaped"]
  /\ UNCHANGED <<streamerVars, writerVars, stopperVars, readerVars,
                 pacer, unkeyed>>

-----------------------------------------------------------------------------
(* write().                                                                 *)

(* stdin.write(frame) to the process _proc names, then drain.               *)
Fed(w) ==
  /\ wpc' = [wpc EXCEPT ![w] = "drain"]
  /\ payload' = [payload EXCEPT ![w] = "none"]

WriteReturns(w) ==
  /\ wpc' = [wpc EXCEPT ![w] = "idle"]
  /\ payload' = [payload EXCEPT ![w] = "none"]

(* No keyframe yet: f joins _pre_buf and write() returns.                   *)
WriteBuffered(w) ==
  /\ attached /\ wpc[w] = "idle"
  /\ ~gotKey /\ preBuf < PreMax
  /\ preBuf' = preBuf + 1
  /\ UNCHANGED <<proc, started, gotKey, viewed, queue, attached, ffmpeg,
                 writerVars, stopperVars, readerVars, pacer, unkeyed>>

(* What write() lets through: f itself, or _pre_buf from its first keyframe *)
(* or, past the limit, from its start.  Mutant: once FFmpeg runs, anything. *)
PassesStarted(f) ==
  \/ gotKey /\ f \in {"key", "delta"}
  \/ ~gotKey /\ f = "key"
  \/ ~gotKey /\ f = "delta" /\ started
  \/ ~gotKey /\ f = "forced" /\ preBuf = PreMax
Passes(f) ==
  \/ gotKey /\ f \in {"key", "delta"}
  \/ ~gotKey /\ f = "key"
  \/ ~gotKey /\ f = "forced" /\ preBuf = PreMax

(* _got_keyframe is set, or was; _pre_buf is empty in either case.          *)
KeySeen(f) ==
  /\ gotKey' = (gotKey \/ f # "delta")
  /\ preBuf' = 0
  /\ unkeyed' = IF gotKey' THEN 0 ELSE unkeyed + 1

(* The process _proc names can still be written to.                         *)
WriteFed(w, f) ==
  /\ attached /\ wpc[w] = "idle"
  /\ Passes(f) /\ started /\ Unreaped(proc)
  /\ KeySeen(f)
  /\ Fed(w)
  /\ UNCHANGED <<proc, started, viewed, queue, attached, ffmpeg,
                 stopperVars, readerVars, pacer>>

(* FFmpeg has ended: f is lost and the next keyframe starts a new one.      *)
WriteLost(w, f) ==
  /\ attached /\ wpc[w] = "idle"
  /\ Passes(f) /\ started /\ ~Unreaped(proc)
  /\ preBuf' = 0
  /\ started' = FALSE /\ gotKey' = FALSE
  /\ UNCHANGED <<proc, viewed, queue, attached, ffmpeg, writerVars,
                 stopperVars, readerVars, pacer, unkeyed>>

(* A new frame queue replaces the old one, on which pacers may be waiting:  *)
(* those that its last frames have already woken go on with them.           *)
Waiting == {k \in Procs : pacer[k] = "get"}

NewQueue ==
  /\ queue' = 0
  /\ \E woken \in SUBSET Waiting :
       /\ Cardinality(woken) <= queue
       /\ woken = Waiting \/ Cardinality(woken) = queue
       /\ pacer' = [k \in Procs |-> IF k \in woken THEN "hold"
                                     ELSE IF k \in Waiting THEN "stale" ELSE pacer[k]]

(* write() calls start(), which runs up to its await.                       *)
WriteStarts(w, f) ==
  /\ attached /\ wpc[w] = "idle"
  /\ Passes(f) /\ ~started
  /\ KeySeen(f)
  /\ NewQueue
  /\ wpc' = [wpc EXCEPT ![w] = "spawn"]
  /\ payload' = [payload EXCEPT ![w] = IF f = "delta" THEN f ELSE "key"]
  /\ UNCHANGED <<proc, started, viewed, attached, ffmpeg,
                 stopperVars, readerVars>>

(* create_subprocess_exec has returned process k; the reader and the pacer  *)
(* are scheduled.                                                           *)
NewProcess(k, state) ==
  /\ ffmpeg[k] = "none" /\ \A j \in Procs : j < k => ffmpeg[j] # "none"
  /\ ffmpeg' = [ffmpeg EXCEPT ![k] = state]
  /\ proc' = k
  /\ reader' = [reader EXCEPT ![k] = "ready"]
  /\ pacer' = [pacer EXCEPT ![k] = "ready"]

(* The rest of start() and of write().                                      *)
Spawned(w, k) ==
  /\ wpc[w] = "spawn"
  /\ NewProcess(k, "running")
  /\ started' = TRUE
  /\ Fed(w)
  /\ unkeyed' = IF gotKey \/ payload[w] # "delta" THEN unkeyed ELSE unkeyed + 1
  /\ UNCHANGED <<gotKey, preBuf, viewed, queue, attached,
                 stopperVars, source>>

(* The same, but the process has ended already.                             *)
SpawnedDead(w, k) ==
  /\ wpc[w] = "spawn"
  /\ NewProcess(k, "reaped")
  /\ WriteReturns(w)
  /\ started' = FALSE /\ gotKey' = FALSE
  /\ UNCHANGED <<preBuf, viewed, queue, attached,
                 stopperVars, source, unkeyed>>

(* create_subprocess_exec raises and takes the connection with it.          *)
SpawnFails(w) ==
  /\ wpc[w] = "spawn"
  /\ wpc' = [wpc EXCEPT ![w] = "ended"]
  /\ payload' = [payload EXCEPT ![w] = "none"]
  /\ UNCHANGED <<streamerVars, ffmpeg, stopperVars,
                 readerVars, pacer, unkeyed>>

Drained(w) ==
  /\ wpc[w] = "drain"
  /\ WriteReturns(w)
  /\ UNCHANGED <<streamerVars, ffmpeg, stopperVars,
                 readerVars, pacer, unkeyed>>

(* BrokenPipeError or ConnectionResetError: the process has gone or is      *)
(* about to, having closed its end, or stop() has closed this one.          *)
Broken(w) ==
  /\ wpc[w] = "drain"
  /\ WriteReturns(w)
  /\ started' = FALSE /\ gotKey' = FALSE
  /\ UNCHANGED <<proc, preBuf, viewed, queue, attached, ffmpeg,
                 stopperVars, readerVars, pacer, unkeyed>>

-----------------------------------------------------------------------------
(* _read_jpeg_frames.  Every turn of its loop looks at _proc again, and a   *)
(* second reader of one pipe makes StreamReader raise.                      *)
ReadsOn(k) ==
  /\ Unreaped(proc)
  /\ \A j \in Procs \ {k} : ~(reader[j] = "read" /\ source[j] = proc)

(* The finally block.  Mutant: the flag is left alone.                      *)
ReaderEndsQuietly(k) ==
  /\ reader' = [reader EXCEPT ![k] = "done"]
  /\ source' = [source EXCEPT ![k] = 0]
  /\ UNCHANGED started
ReaderEnds(k) ==
  /\ reader' = [reader EXCEPT ![k] = "done"]
  /\ source' = [source EXCEPT ![k] = 0]
  /\ started' = FALSE

ReadOrEnd(k) ==
  IF ReadsOn(k)
  THEN /\ reader' = [reader EXCEPT ![k] = "read"]
       /\ source' = [source EXCEPT ![k] = proc]
       /\ UNCHANGED started
  ELSE ReaderEnds(k)

ReaderBegins(k) ==
  /\ reader[k] = "ready"
  /\ ReadOrEnd(k)
  /\ UNCHANGED <<proc, gotKey, preBuf, viewed, queue, attached, ffmpeg,
                 writerVars, stopperVars, pacer, unkeyed>>

(* The oldest frame makes room.  Mutant: it does not.                       *)
EnqueuedPastEnd(n) == queue + n
Enqueued(n) == IF queue + n > FrameBuf THEN FrameBuf ELSE queue + n

(* A chunk of stdout that completes n JPEGs.                                *)
Chunk(k, n) ==
  /\ reader[k] = "read"
  /\ queue' = IF viewed THEN Enqueued(n) ELSE queue
  /\ ReadOrEnd(k)
  /\ UNCHANGED <<proc, gotKey, preBuf, viewed, attached, ffmpeg,
                 writerVars, stopperVars, pacer, unkeyed>>

EndOfOutput(k) ==
  /\ reader[k] = "read"
  /\ ffmpeg[source[k]] \in {"gone", "reaped"}
  /\ ReaderEnds(k)
  /\ UNCHANGED <<proc, gotKey, preBuf, viewed, queue, attached, ffmpeg,
                 writerVars, stopperVars, pacer, unkeyed>>

-----------------------------------------------------------------------------
(* _pace_frames: "ready" before its first step, "get" waiting on            *)
(* _frame_queue, "stale" on a queue that start() has replaced, "hold"       *)
(* asleep with a frame in hand.                                             *)
PacerGoes(k, next) == pacer' = [pacer EXCEPT ![k] = next]

PacerBegins(k) ==
  /\ pacer[k] = "ready"
  /\ PacerGoes(k, "get")
  /\ UNCHANGED <<streamerVars, ffmpeg, writerVars, stopperVars, readerVars,
                 unkeyed>>

Take(k) ==
  /\ pacer[k] = "get" /\ queue > 0
  /\ queue' = queue - 1
  /\ PacerGoes(k, "hold")
  /\ UNCHANGED <<proc, started, gotKey, preBuf, viewed, attached, ffmpeg,
                 writerVars, stopperVars, readerVars, unkeyed>>

(* _push_frame_nowait may find that every client is dead or too slow.       *)
Push(k, left) ==
  /\ pacer[k] = "hold"
  /\ viewed' = (viewed /\ left)
  /\ PacerGoes(k, "get")
  /\ UNCHANGED <<proc, started, gotKey, preBuf, queue, attached, ffmpeg,
                 writerVars, stopperVars, readerVars, unkeyed>>

(* Two seconds without a frame.  Mutant: it ends although FFmpeg runs.       *)
AfterTimeoutEager == "done"
AfterTimeout == IF started THEN "get" ELSE "done"

PacerTimesOut(k) ==
  /\ \/ pacer[k] = "get" /\ queue = 0
     \/ pacer[k] = "stale"
  /\ PacerGoes(k, AfterTimeout)
  /\ UNCHANGED <<streamerVars, ffmpeg, writerVars, stopperVars, readerVars,
                 unkeyed>>

(* add_mjpeg_client.                                                        *)
View ==
  /\ attached /\ ~viewed
  /\ viewed' = TRUE
  /\ UNCHANGED <<proc, started, gotKey, preBuf, queue, attached, ffmpeg,
                 writerVars, stopperVars, readerVars, pacer, unkeyed>>

-----------------------------------------------------------------------------
(* StreamManager.soft_reset on a running streamer.                          *)
SoftReset ==
  /\ attached /\ started
  /\ gotKey' = FALSE /\ preBuf' = 0
  /\ UNCHANGED <<proc, started, viewed, queue, attached, ffmpeg,
                 writerVars, stopperVars, readerVars, pacer, unkeyed>>

(* stop(), called by reset, which soft_reset calls on a streamer that is    *)
(* not started and which deletes it afterwards, or by stop_all.             *)
StopCalled(s, delete) ==
  /\ attached /\ spc[s] = "idle"
  /\ delete => ~started
  /\ gotKey' = FALSE /\ preBuf' = 0

StopWaits(s, delete) ==
  /\ StopCalled(s, delete)
  /\ Unreaped(proc)
  /\ spc' = [spc EXCEPT ![s] = "wait"]
  /\ awaited' = [awaited EXCEPT ![s] = proc]
  /\ deletes' = [deletes EXCEPT ![s] = delete]
  /\ UNCHANGED <<proc, started, viewed, queue, attached, ffmpeg, writerVars,
                 readerVars, pacer, unkeyed>>

StopAtOnce(s, delete) ==
  /\ StopCalled(s, delete)
  /\ ~Unreaped(proc)
  /\ started' = FALSE
  /\ attached' = ~delete
  /\ UNCHANGED <<proc, viewed, queue, ffmpeg, writerVars, stopperVars,
                 readerVars, pacer, unkeyed>>

StopReturns(s) ==
  /\ spc' = [spc EXCEPT ![s] = "idle"]
  /\ awaited' = [awaited EXCEPT ![s] = 0]
  /\ deletes' = [deletes EXCEPT ![s] = FALSE]

Stopped(s) ==
  /\ started' = FALSE
  /\ attached' = (attached /\ ~deletes[s])
  /\ StopReturns(s)

StopEnds(s) ==
  /\ spc[s] = "wait" /\ ffmpeg[awaited[s]] = "reaped"
  /\ Stopped(s)
  /\ UNCHANGED <<proc, gotKey, preBuf, viewed, queue, ffmpeg, writerVars,
                 readerVars, pacer, unkeyed>>

(* Five seconds were not enough: kill the process _proc names by now.       *)
StopKills(s) ==
  /\ spc[s] = "wait" /\ ffmpeg[awaited[s]] # "reaped"
  /\ ffmpeg' = [ffmpeg EXCEPT ![proc] = IF @ = "running" THEN "gone" ELSE @]
  /\ Stopped(s)
  /\ UNCHANGED <<proc, gotKey, preBuf, viewed, queue, writerVars,
                 readerVars, pacer, unkeyed>>

(* The same, but kill() finds that process collected already and raises.    *)
StopRaises(s) ==
  /\ spc[s] = "wait" /\ ffmpeg[awaited[s]] # "reaped"
  /\ ffmpeg[proc] = "reaped"
  /\ StopReturns(s)
  /\ UNCHANGED <<streamerVars, ffmpeg, writerVars, readerVars, pacer,
                 unkeyed>>

-----------------------------------------------------------------------------
Write(w) ==
  \/ WriteBuffered(w)
  \/ \E f \in {"key", "delta", "forced"} :
       WriteFed(w, f) \/ WriteLost(w, f) \/ WriteStarts(w, f)
  \/ \E k \in Procs : Spawned(w, k) \/ SpawnedDead(w, k)
  \/ SpawnFails(w) \/ Drained(w) \/ Broken(w)

Reset(s) ==
  \/ \E delete \in BOOLEAN : StopWaits(s, delete) \/ StopAtOnce(s, delete)
  \/ StopEnds(s) \/ StopKills(s) \/ StopRaises(s)

Read(k) == ReaderBegins(k) \/ (\E n \in 0..1 : Chunk(k, n)) \/ EndOfOutput(k)

Pace(k) ==
  PacerBegins(k) \/ Take(k) \/ (\E left \in BOOLEAN : Push(k, left))
  \/ PacerTimesOut(k)

Next ==
  \/ \E w \in Writers : Write(w)
  \/ \E s \in Stoppers : Reset(s)
  \/ \E k \in Procs : Exit(k) \/ Reap(k) \/ Read(k) \/ Pace(k)
  \/ View
  \/ SoftReset

Spec == Init /\ [][Next]_lsVars

-----------------------------------------------------------------------------
FlagsOK ==
  started \in BOOLEAN /\ gotKey \in BOOLEAN /\ viewed \in BOOLEAN /\ attached \in BOOLEAN

CountsOK ==
  /\ proc \in 0..MaxProcs /\ preBuf \in 0..PreMax /\ queue \in 0..FrameBuf
  /\ ffmpeg \in [Procs -> {"none", "running", "gone", "reaped"}]
  /\ wpc \in [Writers -> {"idle", "spawn", "drain", "ended"}]
  /\ payload \in [Writers -> {"none", "key", "delta"}]
  /\ spc \in [Stoppers -> {"idle", "wait"}]
  /\ awaited \in [Stoppers -> 0..MaxProcs]
  /\ deletes \in [Stoppers -> BOOLEAN]
  /\ reader \in [Procs -> {"none", "ready", "read", "done"}]
  /\ source \in [Procs -> 0..MaxProcs]
  /\ pacer \in [Procs -> {"none", "ready", "get", "stale", "hold", "done"}]
  /\ unkeyed \in Nat

(* Also: the frame queue never holds more than _FRAME_BUF frames.           *)
TypeOK == FlagsOK /\ CountsOK

ReaderAlive(k) == reader[k] \in {"ready", "read"}
PacerAlive(k)  == pacer[k] \in {"ready", "get", "stale", "hold"}

(* While the streamer counts as started (is_live, and start() returns at    *)
(* once) some task reads FFmpeg's output, whatever the readers and stops of *)
(* earlier processes do to _started.                                        *)
StartedIsRead == started => \E k \in Procs : ReaderAlive(k)

(* While the streamer counts as started some task delivers frames: a pacer  *)
(* gives up only when it sees _started False, and then a new one comes.     *)
StartedIsPaced == started => \E k \in Procs : PacerAlive(k)

(* After _got_keyframe is cleared (soft_reset, stop, a broken pipe), no     *)
(* more non-key payloads reach FFmpeg before the next keyframe than there   *)
(* were writers waiting inside start().                                     *)
FewUnkeyed == unkeyed <= Cardinality(Writers)
=============================================================================
