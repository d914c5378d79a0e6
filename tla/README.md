# A formal model of the N9 dashcam server

The repository holds a Python server for dashcams that speak JT/T 808 (signalling)
and JT/T 1078 (video), a relay that republishes its video over RTSP, and a Go
implementation of JT/T 808. This directory holds TLA+ models of the parts that
carry the program's own logic, the TLC configurations that check them on small
instances, and TLAPS proofs of what matters most about them for every instance.

    tlc -workers 2 -config sig_reconnect.cfg MCSignalling.tla
    tlapm SignallingProofs.tla

and so for every run of section 3 and every module whose name ends in `Proofs`.

## 1. The system

### Components

| Component | Source | State | Operations |
|---|---|---|---|
| JT808 signalling connection | `main.py` `JT808Connection` | own number, serials, input buffer, heartbeat count | one handler per message id, the end of `run`, channel requests, refresh tasks |
| Auth code store | `jt808.py` `AuthCodeStore` | code issued per number | `issue`, `validate`, `revoke` |
| Shared device tables | `main.py` `devices`, `active_jt808`, `device_streams` | entry, link and stream manager per number | written by the handlers, read by video and HTTP |
| JT1078 connection | `main.py` `JT1078Connection`, `_jt1078_owners` | its device, its manager, channels claimed; the owner of each channel | claim, write, release, re-request |
| Stream manager | `hls.py` `StreamManager` | one streamer per channel | `get`, `write_frame`, `soft_reset`, `reset`, `stop_all`, clients |
| Live streamer | `hls.py` `LiveStreamer` | FFmpeg process, `_started`, `_got_keyframe`, `_pre_buf`, frame queue, clients | `write`, `start`, `stop`, reader and pacer tasks |
| HTTP handler | `main.py` `http_handler` | none | `/mjpeg/<phone>/<channel>`, `/status`, the player page |
| Listeners | `main.py` `main`, `jt808_dispatcher` | none | protocol detection on the shared port |
| JT808 codec | `jt808.py` | none | escaping, checksum, frames, bodies |
| JT1078 parser | `jt1078.py` | `StreamBuffer` bytes | resynchronisation, packets; `FrameAssembler` is unused |
| RTSP relay | `rtsp_relay.py` `RelayManager` | relays, their FFmpeg processes | reconcile with `/status`, shut down |
| Go connection | `jtt808msgserver/jtt808msgconn*.go` `JTT808Conn` | `stopped`, `msgch`, `datach`, the count of senders | receive, transmit, answer, send, stop |
| Go message server | `jtt808msgserver.go`, `_impl.go`, `fabtcpserver.go` | connections by id, connections by channel, the states of server and listener | start, stop, accept, register and unregister a channel, send to a channel, clean up |
| Go parser and writer | `jtt808msg/` | none | find a frame, unescape, check, parse; write an answer |
| Go command bodies | `jtt808msg/cmd/` | none | `Write` and `Parse` of 34 commands |
| Go TCP server | `tcpserver.go` `TCPServer` | `running`, `clients` | accept, handle a client, write, stop |
| Go protocol handler | `jtt808_handler.go` `JTT808MessageHandler` | `running`, `rxChan`, `txChan`, a parser per client, who has registered and authenticated | one handler per message id, the two processing goroutines, stop |

### How they interact

A camera opens a link to port 6608, registers (0x0100), is given a code, and
authenticates with it (0x0102). The handler answers, waits, and asks for every
channel with 0x9101; every fiftieth heartbeat starts a task that asks again. The
camera opens video connections to port 1078. Each one looks up its device by IP
address in `devices`, takes that device's `StreamManager` from `device_streams`
(allocating it if need be), claims the channel of each packet in
`_jt1078_owners` and feeds the payloads to the channel's `LiveStreamer`, which
runs one FFmpeg whose output two tasks read and deliver to the HTTP clients.
When a link ends, its device, code, link entry and manager are removed and the
manager is stopped by a task of its own; when a video connection ends it asks
for its channels again over some authenticated link.

The relay is a process of its own. It polls `/status`, and pushes every live
channel to an RTSP server with one FFmpeg that reads the channel's MJPEG stream.

The Go code is two programs that share nothing with the Python server or each
other. `jtt808msgserver` accepts connections with a `FabTCPServer`; each runs a
receiver, which takes frames out of the stream and puts the messages into
`datach`, and a transmitter, which parses, answers and sends what others put
into `msgch`. External code reaches a connection by a channel it has registered.
The stand-alone server (`tcpserver.go`, `jtt808_handler.go`) reads in one
goroutine per client, which queues messages in `rxChan`; two goroutines take
them from there, one to answer through `txChan` and a third goroutine, one only
to log. Its `JTT808Parser` is not in the repository.

All of the Python server is one asyncio event loop. What runs between two
`await`s is atomic; at each `await` any other task may run. That is the
concurrency of the models: a program counter names the `await` at which a task
is suspended, and an action is what it does from there to the next one.

### What is hard

* A camera reconnects before the server notices that the old link is dead
  (up to `READ_TIMEOUT` later), so two links of one number overlap.
* A handler of one link is suspended while another link changes the same tables.
* A stream manager is popped and stopped while connections and viewers hold it.
* The relay acts on a status that is old by the time it acts, and its processes
  end while it starts or awaits others.
* Ownership of a channel is checked, then the connection awaits.
* FFmpeg may end at any moment; its readers and pacers outlive it, `start` may
  be entered twice, and `stop` may wait for a process that is no longer `_proc`.
* The Go goroutines share channels that are closed while others may send.
* Connections come, register, replace each other and end while the Go servers
  are being stopped; two of them may have one id.
* A stream arrives in segments that know nothing of frames; a frame that is
  refused must not take the next one with it.
* Thirty-four commands are written and parsed by code written apart, at
  positions that depend on what has been read before.

### What makes each component correct

* *Signalling*: nobody counts as authenticated except by the code the store
  holds now; logout and disconnection take the right away; an authenticated
  terminal can be reached; every channel is asked for.
* *Device tables*: the rest of the server may rely on `DeviceTable`.
* *Ownership*: one connection feeds a channel; taking over is final; the late
  end of a connection that was evicted does not unseat its successor.
* *Streamer*: a streamer that counts as started is read and paced; nothing but
  keyframes starts a decoder; queues are bounded; tasks end.
* *Managers*: the manager viewers are given is the one that is fed; a manager
  that was thrown away is cleaned up.
* *Relay*: a live channel is pushed, once; a stale one is not; a stop leaves no
  FFmpeg behind.
* *Codecs*: what is written is read back; damage is skipped and bounded.
* *Go connection*: no send meets a closed channel; a stop ends it and leaves
  nothing behind.
* *Go servers*: a stop comes to its end, unless a peer holds a write for ever, and
  leaves no connection running or in a table; a channel reaches whoever registered it last; answers come in order.

## 2. The modules

| Module | Models | Checked by |
|---|---|---|
| `DeviceTable` | what the signalling side promises the video and HTTP sides (abstract) | `KeepsTable` in `sig_reconnect`; part of `ing_takeover` |
| `Signalling` | `JT808Connection`, `AuthCodeStore`, the tables | `sig_reconnect`, `sig_stale` |
| `SignallingProofs` | proofs about `Signalling` | TLAPS |
| `LiveStreamer` | one `LiveStreamer` with its processes and tasks | `ls_races` |
| `Ingest` | `JT1078Connection`, `_jt1078_owners`, `StreamManager`, `stop_all`, MJPEG viewers | `ing_takeover` |
| `IngestProofs` | proofs about `Ingest` | TLAPS |
| `Relay` | `RelayManager` and its FFmpeg processes | `relay` |
| `FfmpegProofs` | proofs about `Relay` and `LiveStreamer` | TLAPS |
| `Codec` | frames of `jt808.py`, packets of `jt1078.py` | with `Inbound` |
| `Inbound` | `jt808_dispatcher`, `_process_buf`, `StreamBuffer` on one connection | `inbound`, `inb_detect` |
| `InboundProofs` | proofs about `Inbound` and the functions of `Codec` | TLAPS |
| `GoConn` | one `JTT808Conn` of the Go message server | `go_conn` |
| `ConnLife` | what a connection promises the message server (abstract) | `KeepsLife` in `go_conn`; part of `msg_server` |
| `MsgServer` | `JTT808MsgServer`, `FabTCPServer`, the tables of connections | `msg_server` |
| `GoServerProofs` | proofs about `GoConn` and `MsgServer` | TLAPS |
| `GoBodies` | `Write` and `Parse` of the commands | with `GoFrames` |
| `GoFrames` | parser, header, writer, `RunRX` and `cmdHandle` on one stream | `go_frames` |
| `GoFramesProofs` | proofs about `GoFrames` and the layouts of `GoBodies` | TLAPS |
| `TcpServer` | `TCPServer`, `JTT808MessageHandler`, `main` | `tcp_server`, `tcp_shutdown` |
| `TcpServerProofs` | proofs about `TcpServer` | TLAPS |
| `SequenceLemmas` | lemmas on sequences, flattening and recursive functions | TLAPS |
| `MC*` | the instances | |

The composition goes through `DeviceTable`: `Signalling` is shown to implement
it (by TLC and by proof), and `Ingest` EXTENDS it and takes its steps as the
whole of the signalling side. So what holds of `Ingest` holds of the video side
beside the real signalling side, and the two large state spaces are never
multiplied. `ConnLife` does the same for the Go message server: `GoConn` is shown
to implement it, and `MsgServer` EXTENDS it and knows of a connection only
whether it is asked to stop, whether it is inside a write to its peer and whether
its `Run` has returned. In the same way
`Ingest` keeps of a `LiveStreamer` only whether `_started` is set and whether
`_proc` runs, and lets both change whenever `LiveStreamer` shows that they may.

### Signalling

`pc[c]` is the `await` at which the coroutine of link `c` is suspended.
`Register` ... `Logout` are the handlers, each from its dispatch to its first
await; `Resume` and `BeatDone` are what follows the answer, `QueryParams` and
`RequestNext` the rest of `_on_auth`, `RefreshStep` a step of a `refresh_all`
task, `Disconnect` the end of `run` with its `finally` block (`RunEnds`).
`GetDeviceStreams` is the call the video and HTTP sides make. `devices` is kept
as one set of numbers per field (`known`, `authed`, `online`, `located`).

Three history variables serve the properties: `proved` (the code presented in
the last accepted 0x0102), `session` (what an open link has authenticated and
nobody has registered again or logged out) and `requested`.

Abstracted: message bodies, serial numbers, times, the contents of answers.
A failed write that `_send` catches changes nothing and needs no action. What it
does not catch (an `OSError` of another kind) cuts a handler short and ends the
link (`HandlerRaises`), or ends a refresh task (`RefreshRaises`). A read timeout is a disconnection, which may come at any moment a link waits to read.

### LiveStreamer

FFmpeg process `k` shares its index with the reader and the pacer that `start`
creates beside it. A process is `running`, then `gone` (it has exited) and then
`reaped` (asyncio has set `returncode`); its end of output reaches the reader
before or after. A writer is any connection inside `write`, a stopper a task
inside `soft_reset`, `reset` or `stop_all`. A `drain` into FFmpeg may fail at any
moment (`Broken`): the process has gone or closed its end, or `stop` has closed
this one while the process still runs. The keyframe scan is abstracted to
its outcome: `key`, `delta`, or `forced` when 50 KB have been buffered; whether
a buffer may be forced does depend on how much has been buffered. Frames are
counted, not kept. RASL payloads are dropped before anything else.

### Ingest

`spc[s]` is the await of video connection `s`. `Claim` is the first packet of a
channel, up to the await inside `soft_reset`; `ResetEnds` what follows;
`WriteBuffers`, `WriteFeeds` and `WriteStarts` are a later packet past the
ownership check, by what `write` does with it; `Leave` is the `finally` block.
`Dies` and `Clears` are FFmpeg's end and the tasks that notice.
`CleanupBegins` ... `CleanupStopped` are the `stop_all` task, whose iteration
raises when the dict has changed size. The end of `stop` (`Halt`) forgets whatever
`_proc` names by then, which may be a newer process that runs on; and the `kill` in
it raises when the process has gone already, which ends the connection
(`ResetRaises`) or the task (`CleanupRaises`). `ViewerComes` and `ViewerJoins` are the
two halves of an MJPEG request, `StatusAsked` the allocation `/status` makes.

A connection may resolve to any known number or to none: the lookup compares
address prefixes, so every outcome is possible. History: `late` counts the
payloads fed after eviction. What `finally` requests again changes no state of
the server and has no step; that it asks the first authenticated link, whatever
its device, is listed as a hazard.

### Relay

`pc` is where `run` is, `doing` the await inside one of its loops, `todo` the
entries the loop has yet to come to; a turn of a loop is a step. `live` is what
the server would answer, `desired` what it answered. A process is `running`,
`reaped` (it has exited by itself or when asked), or `killed` until it is gone.
`idle` is the set of entries whose `last_live` is older than the idle timeout,
which grows only between two reconciliations because each takes the time once.
Any request may fail, and so may `create_subprocess_exec` and `kill`, whose
exceptions leave `run`: `failed` is a state of its own, and `NoneLeft` speaks of
the orderly end only.

### Codec and Inbound

`Codec` holds the functions of `jt808.py` and `jt1078.py` under their own names,
on bytes that are numbers, with headers reduced to the fields the code decides
by and lengths that are constants. `Inbound` is one connection: `Arrive` appends
a segment of any size to asyncio's buffer, `Detect` is `jt808_dispatcher` with
its `feed_data`, `Ends` the end of the stream, a timeout, an error of the socket or the
assertion `feed_data` makes when the stream has ended before it, each of which may
leave bytes unread; `Read` is a turn of `run`, `NextFrame` and `NextPacket` a turn of
the loops of `_process_buf` and `StreamBuffer.packets`. The properties compare
what the loops handle with definitions over the whole stream that know neither
buffers nor segments.

### GoConn

`rx` is where the goroutine of `Run` is (inside `RunRX`, then in its own end),
`tx` where that of `RunTX` is, `spc[t]` where a call of `Send` is: here the unit
of atomicity is one access to a channel, an atomic variable or the socket.
`msgch` and `datach` are lengths; `activereqcount` is the set of calls it counts,
so that a count that is wrong shows. `panicked` records a send on the closed
`msgch`, which panics in Go even inside a `select` with a `default`. One `Read`
completes any number of messages up to `MaxBatch`; what the handler of a command
does is abstracted to: nothing, an answer to write, or an error. Its definitions
are named `ConnInit`, `ConnNext`, `ConnSpec`, and those of `Relay` `RelayNext` and so
on, because one module of proofs extends `GoConn` and `MsgServer`, and one `Relay`
and `LiveStreamer`.

### MsgServer

`mgr` is the manager goroutine of `Start`, `lpc` the goroutine of `FabTCPServer`,
`hpc[c]` the goroutine that registers connection `c`, runs it and removes it.
An action is one access to a `stopped`, one critical section of a table or one
return of a call; `Writes` is the transmitter of a connection going into
`tcpconn.Write` or coming out of it. `stopped` and `fabStopped` are the two state words, which only
`CompareAndSwap` moves to 2. `IdOf` gives the connections their ids: a peer that
resets its connection may dial again from the same port before the server has
noticed, so two may share one. `RegisterChannel`, `UnregisterChannel` and `TX`
are for external code, of which the repository has none; any running connection
may register any channel at any moment, and `served` records who has.

### GoBodies and GoFrames

A command of the library is the sequence of its fields. `Cmd0001` ... `CmdB051`
give, for one command, what `Write` appends (`writes`: sizes, and which fields
hold a length), what `Parse` asks for at least (`least`) and where and how far
it reads (`reads`, which depends on lengths found in the body). Field contents
are bytes that differ from field to field, so a field read from the wrong place
shows.

`GoFrames` is one connection: `Read` is a turn of `RunRX` with any number of
bytes of `Chunks`, its inner loop taken to the end; `cmdHandle` parses and
answers the next message. The functions carry their Go names; positions count
from one. `FrameOf` is the terminal, which escapes as JT/T 808 says.
`FramesAssumption` says of a terminal that its number is made of digits, that it
sends commands the library knows, and that a body is made of bytes and no longer
than the 10 bits of its length can say. The properties are stated over the whole
stream: `Deliverable` says which frames
must have come through by now, `NotReadBack` which commands the library does
not read back as it wrote them.

### TcpServer

`main` is where the goroutine of `main` is, from the start of the handler to the
end of the process; `acc` is the accept loop, `hpc[c]` the goroutine of a client,
`rpc`, `tpc` and `spc` are `processRx`, `processTx` and the second reader of
`rxChan`. `clientsMux` is held while `main` is at `clear`; every other critical
section is one step. A look at `running` and the send that follows are two
steps; so are the receive of `processTx`, the look of `SendToClientDirect` and its
write. That a client has gone is no state: its handler may find out at any
moment, and a write to it may succeed until this side closes. A closed channel can still be drained, a send on it ends the process. What
`JTT808Parser` makes of the bytes is free: no messages, some, or an error. A
body is its kind and whether it can be parsed; an answer is whom it is for,
which message it is about, and its result. `last` is a history variable: the
answer written to a connection last.

## 3. The runs

| Run | Question | Instance |
|---|---|---|
| `sig_reconnect` | do the session invariants survive a reconnection, are all channels requested of a link that lasts, and does the signalling side implement `DeviceTable`? | 2 links of 1 number, 2 codes, 2 managers, 2 cameras, refresh every 2 heartbeats |
| `sig_stale` | does an open session stay authenticated? **No** | as `sig_reconnect`, 1 manager |
| `ls_races` | reader, pacer, queue and keyframe gate under every race | 2 writers, 1 stopper, 2 processes |
| `ing_takeover` | ownership, eviction and managers under every race | 2 connections, 2 streamers, 2 managers, 1 channel, 1 viewer |
| `relay` | does the relay follow the server, push each channel once and leave nothing behind? | 2 channels, 2 processes of each |
| `inbound` | is a stream taken apart rightly, however it is cut? | 1 or 2 messages or packets, 3 kinds of noise, magic of 2 bytes, headers of 1 to 4, payloads to 3 |
| `inb_detect` | does the connection read what was sent? **No** | as `inbound` |
| `go_conn` | does a connection end cleanly while others send? | 2 senders, `msgch` of 1, `datach` of 2, 2 messages per read |
| `msg_server` | does a stop end, if no write lasts for ever, and leave nobody running; does a channel reach its connection? | 3 connections, of which 2 share an id, 1 channel |
| `go_frames` | which frames come through, which commands are read back, which answers can be read? | every command empty, with 5 entries (1205 and 1210: 2) and, escaped, with 2; streams of 2 and 3 messages; segments of 1, 7, 20, 128 bytes |
| `tcp_server` | is anybody left behind; do answers come in order? | 2 clients sending 2 and 1 messages, 1 terminal, `rxChan` of 2, `txChan` of 1, 2 messages per read |
| `tcp_shutdown` | does a signal stop the server without a panic? **No** | as `tcp_server`, 1 message per read |

The bounds. Two links of one number are what a reconnection is; a third adds
another dead link. Two codes let a re-registration draw the same code or a
different one. Two cameras make the request loop turn; a refresh period of two
makes it happen and not happen. `MaxRefresh` bounds the tasks of one link: they
end in seconds while starting one takes fifty heartbeats. Two FFmpeg processes
are an old one and a new one, which is what every race of `LiveStreamer` is
between. `FrameBuf` of one makes the queue full, and `PreMax` of one makes both
a buffered and a forced start. Two connections are an evicted one and its
successor; `late` needs no bound, it is shown never to pass one. In `relay` two
channels are one that comes and one that goes, or one that is awaited while the
other ends; a channel has at most one process that runs, and another that is
killed and not yet gone. In
`inbound` the messages and payloads hold every byte that means something, and the
segments are cut everywhere; a magic of two bytes can be cut as one of four can,
and like that one its first byte does not come again in it. In
`go_conn` a `datach` of two with two messages per read makes it full, not full
and full again within one batch; a second sender is one that is counted while
another has yet to be. In `msg_server` one connection is old, one has redialled
from the same port, and one is neither. In `go_frames` a segment of one byte
cuts a message everywhere, one of 128 holds several whole ones; texts and lists
are empty, of five entries (of two in 1205 and 1210, whose entries are long), or of
two entries whose bytes start from 123 and are partly ones to escape. In `tcp_server` three
messages fill `rxChan` and leave one over, two answers overfill `txChan`, and a
batch of two is taken up between its messages.

Deadlock is not checked: every link, process and connection of an instance may
end, and then nothing is left to do.

Symmetry is used in `ls_races` (writers) and `ing_takeover` (connections,
streamers, managers), which check no liveness property.

The type invariants of `Signalling`, `GoConn`, `MsgServer`, `Relay` and `Ingest`
are proved and not run again; those of the other modules are run because there
they also bound a queue or a buffer.

Fairness. `sig_reconnect` assumes weak fairness of the steps a task takes when the
event loop resumes it: each await there ends by itself (a write is bounded by
`WRITE_TIMEOUT`, a sleep is a timer). Nothing is assumed of the peers.

`relay` assumes weak fairness of `Run`: the request, the wait and the sleep have
timeouts. What has been killed is gone at last (`Collected`). `GrowsOld` is
strongly fair: an entry can only grow old between two reconciliations, but every
sleep takes its time. That the server answers again and again is not assumed; it
stands in the properties that need it (`[]<>(pc = "start")`).

`go_conn` assumes weak fairness of each goroutine and of the one-second timer,
which is what the Go scheduler gives, and strong fairness of `RxInsert`: a
goroutine that waits in a `select` to send is handed the slot as soon as there is
one, so the timer cannot win for ever. A `Read` and a `Write` end only when the
peer lets them, and are not fair; `StopEndsRun` and `TxEndsRun` say what that costs.

`msg_server` assumes weak fairness of the manager, of the listener's goroutine
(`AcceptTCP` has a deadline of one second) and of the goroutine of each connection
where it registers and deregisters. `Run` is another matter: by `StopEndsRun` it
returns once it has been asked to, if again and again the transmitter is not inside
`tcpconn.Write`, which has no deadline (`jtt808msgconn_cmdhdlr.go:22`). Hence strong
fairness of `ConnReturns`, which a write in progress disables, and no fairness of
`Writes`. `StopEnds` carries the same condition, for every connection. Without it the
property is false of the code and of the model: a peer that does not read keeps
its entry in `activetcpconn`, and `cleanupconnections` looks at it for ever.
`go_frames` and `tcp_server` check safety only.

### What was found

* `sig_stale` (`SessionStays`): the `finally` block of an old link
  (`main.py:148-159`) removes the session a newer link has authenticated. The
  invariants that do hold say what remains true: nobody is authenticated by it,
  and `active_jt808` names no closed link.
* `inb_detect` (`StreamKept`): `feed_data` appends, so the first four bytes of a
  connection to the shared port go behind the rest of its first segment. A first
  frame that arrives whole is lost, and with it all that arrived by then
  (`LaterHandled` says that nothing else is); the camera must register again.
* `tcp_shutdown` (`Graceful`): `Stop` closes `rxChan` and `txChan` while
  `ProcessMessage` or `SendToClient` may be between its look at `running` and its
  send, and the send on the closed channel panics. It takes two steps of two
  goroutines in the wrong order, and a client that sends while the server stops.

What the passing runs say beside the properties' names:

* `go_frames`: the checksum is compared over escaped bytes, and each escape flips
  one bit of it, so exactly the frames with an even number of escapes are
  delivered (`DeliveredAsSent`). The commands 0704, 9201, 9202, 9205, 9206, B051,
  1205 with items, 0900, 8300 and 8900 with empty texts and 9101 with addresses
  of fewer than four bytes are not read back as the library writes them; all
  others are (`ReadBackAsWritten` is an equivalence, so a repair of one of these
  shows as well). Answers are not escaped, and repeat package numbers without the
  bit that announces them; all other answers can be read (`AnswersReadable`).
* `tcp_server`: the second reader takes messages that are then never answered.
  What remains true is that answers come in order and none twice.
* `msg_server`: a stop ends only if no peer holds a write (`StopEnds`).
  `EveryoneStopped` speaks of registered connections. One that has
  been accepted and is registered after the clean-up has seen an empty table is
  left running, and of two connections with one id the second may be.
* Known from the code and the models, without a run: when FFmpeg ends,
  `_got_keyframe` stays set, so the next payload may start a decoder without
  keyframe (`hls.py:265`); `soft_reset` of a streamer that is not started drops
  its early viewers (`hls.py:327`); a connection inside `start` while `stop_all`
  passes leaves an FFmpeg behind (`hls.py:342`). They are in `hazards`.

## 4. The proofs

`SignallingProofs` proves every safety property of `Signalling` that holds,
from `SigAssumption` alone: for any numbers of links, terminals, codes and
cameras.

* `TypeCorrect` by one case per action. `NextCases` names the actions once, so
  that every later proof splits `Next` the same way.
* `AuthProvesCode`, `LogoutIsFinal`, `CodeHasDevice` and `LocatedWasAuthed` are
  proved together as `TableInv` (lemma `TableInvStep`). Neither of the first two
  is inductive alone: that a logout ends a session needs that only an
  authenticated number has a code and a proof that agree, and that a position
  without authentication means a logout needs that an entry which is not online
  has no code to authenticate with.
* `DoomedDetached` is inductive with the types (`DoomedStep`).
* `AuthedHasLink` and `ActiveIsOpen` need links that carry one number each, and
  the strengthening `LinkInv`: a link that appears anywhere in the tables has
  dispatched a frame, so its `phone` is the number it carries, and its
  `Disconnect` will clean up that very number.
* `ImplementsTable`: every step of `Signalling` is a step of `DeviceTable` or
  leaves its variables alone, under `TypeOK` and `TableInv`; `AuthOk` is where
  `CodeHasDevice` is needed, because `DeviceTable` authenticates known numbers
  only.

`GoServerProofs` proves the three invariants of `GoConn` from `GoConnAssumption`,
for any set of senders and any capacities. That no `Send` panics is not inductive;
`ConnInv` adds that the counter counts exactly the calls between their two updates
of it (`CountIsRight`), that `msgch` is closed only after `stopped` is set
(`CloseIsLate`), and that nobody is past the second look at `stopped` once it is
closed (`NoLateSender`): whoever looks later sees `stopped`, whoever looked
earlier is counted and holds the close up.

`KeepsItsPromise` shows that every step of `GoConn` is a step of `ConnLife` or
leaves its variables alone: what is needed is that `stopped` is set when `Run`
comes to its end, and that the transmitter has ended by then, so that no write
outlasts it.

It proves as well, from `MsgServerAssumption` (the ids are a function of
the connections), `TypeOK`, `EveryoneStopped` and `RegisteredIsReached` for any
connections, ids and channels. `EveryoneStopped` is an action property: the
invariant behind it says that the listener has ended once the manager is past
`join` (`CleanupIsLast`), and that a running connection whose id no other has had
is still in the table (`Filed`). `RegisteredIsReached` needs that whoever has replaced another in
`channelmap` has asked it to stop, and that who is served has been accepted (`ServedExist`).

`FfmpegProofs` proves the four invariants of `LiveStreamer` from
`StreamerAssumption`, for any finite set of writers and any resets, processes and
bounds. `TypeOK` is proved in two parts, the flags and the rest. `StartedIsRead`
and `StartedIsPaced` are inductive with it. `FewUnkeyed` is not: `GateInv` counts
the payloads that have slipped past the gate together with the writers inside
`start`, each of which may still slip one past; whoever joins them opens the gate
first, which sets the count of payloads back.

`IngestProofs` proves every property of `Ingest` that `ing_takeover` checks, its
type, and that its steps keep to `DeviceTable` (`IngestKeepsTable`), from
`TableAssumption` and `IngestAssumption`. `SourceCases` reduces the steps of a
connection to four: it opens, claims a channel, leaves, or goes on. That an owner
is open (`OwnInv`) needs that a key holds only connections of its device and that
a connection which has not begun has claimed nothing. `EvictedFeedsOnce` rests on
`LateInv`: a connection that has got its one payload through is evicted, and what
it may be starting FFmpeg for is another channel. `SourceIsServed` needs that the
table dooms the managers it forgets, which `TablesStep` shows of `DeviceTable`.

`FfmpegProofs` also proves the type of `Relay` (`RelayTypeOK`), `OnePush` and `NoneLeft`
from `RelayAssumption`. Behind
them are `Tracked` (a process that runs is the one `_relays` names), `AwaitsOK` (a
process is created only for a channel that has none running) and `ShutOK` (during
the shutdown, what runs has yet to be stopped or is being awaited).

`TcpServerProofs` proves `TypeOK` and `NothingLeaks` from `TcpAssumption`, for
any clients, terminals, bodies and capacities, in four parts (`PlacesStep`,
`FlagsStep`, `ConnsStep`, `PipeStep`), with lemmas on what the sends of `select`
(`OfferFits`), a receive (`TailFits`) and the handlers (`Handled`) do. `NothingLeaks` is
inductive with the types of the connections and `ClosedIsClosed`: a handler that
is past its `Close` has a closed socket. `AnswersInOrder` rests on `OrderInv`, the
order of the whole pipeline: what has been written to a client comes before what
`processTx` holds, that before what waits in `txChan`, before what `processRx`
holds, before what waits in `rxChan`, before what is left of the client's batch
(`InHandInOrder`, `TxInOrder`, ...). It says nothing of whole sequences: two
messages of one client that are in two places, or in one, are in the order of
their numbers. So it survives the second reader and the default branches, which
only remove messages.

`InboundProofs` proves every property of `Inbound` that `inbound` checks, for any
magic whose first byte does not come again in it (`CodecAssumption`), any lengths
of headers, everything a camera may send and segments of any size.

* `TypeOK` with `Typed` (the types of the sequences). That `StreamBuffer` holds less
  than a packet between two reads is where `Plausible`'s upper bound is needed.
* `PairsOfMarkers` with `PairsInv`: of the bytes taken, those up to some `p` have
  been handled; their markers are even in number, `got` is what they hold
  (`HandledUpTo`), and what is behind `p` is the buffer. A turn of the loop moves
  `p` to the end of a frame, or to the next marker when there is only one.
* `ChainOfPackets` with `ChainInv`: for every continuation `t` of what was taken,
  the packets of the whole are those yielded and then the chain from `p`
  (`YieldedUpTo`). It has to speak of continuations: that a packet is incomplete, or
  a magic cut in two, is only known when more has come.
* `PacketsKept` with `KeptInv` (nothing comes between what is sent to the video port
  and `StreamBuffer`) and a lemma that the chain of a stream of packets is the
  payloads, if the noise holds no magic. It assumes `Sendable`: a payload is not
  empty and no longer than `MaxPayload`, which is what the server takes; the field
  has two bytes, so a camera could name 535 lengths more, and the checks refuse them.
* `LaterHandled` with `TurnedInv`: the connection reads the stream with the first
  bytes turned behind what had arrived by then (`Delivered`). The markers of the one
  are matched with those of the other (`MarksTurned`), so the pairs behind the turn
  are the frames as they were sent. It assumes `HeadersWhole`: a header is as long as
  its properties say it is, as `build_frame` makes it (`jt808.py`).
* `EscapeRoundTrip` and `FrameRoundTrip`, on which `LaterHandled` rests, say of the
  codec alone that what is built is parsed again.

`GoFramesProofs` proves every property of `GoFrames` that `go_frames` checks, from
`FramesAssumption`: for any number, any streams of commands of any size, and any sizes
of segments.

* `Delivered` (`DeliveredAsSent`) with `FramesInv`: of the `r` bytes read, `c` frames are
  complete (`Complete`); `buf` is what is behind the last of them, or behind all of it
  but the marker that closes it (`Stands`), which the parser may take for an opening
  one; what has been passed on is `Got` of the complete frames with an even number of
  escapes. That a frame with an odd number never passes and one with an even number always
  does is `FrameSum`: the checksum is the parity of eight counts (`ChecksumBits`), and
  `StuffedParity` says what an escape does to them. Between two frames there is nothing
  to read (`AtGap`), and a frame is read as it was written (`ExtractFrame`). `RunRX`
  ends its loop when nothing is dropped; `SortedRun` says that it has then come to the
  end of what can be read.
* `AnswersRead` (`AnswersReadable`) adds `Answering`: the answers are `Reply` of the
  headers asked with, in order. A frame without marker or escape in it is taken apart
  by the same lemma as one that has been escaped (`CleanTaken`), its header is the
  request's with another id and length (`HeaderParsed`, `AnswerHeader`), and the bodies
  of 8100 and 8001 begin with the serial number (`Begins8100`, `Begins8001`).
* `ReadBack` (`ReadBackAsWritten`) takes every message handled through `ReadOrNot`: a
  command is read back as it was written if and only if `NotReadBack` does not list it,
  for any `n` and any contents. `FieldsRead` is the common part: where each field is
  asked for directly behind the one before and at its own size (`Consecutive`), what
  is read is what was written, and a field that holds a length holds it where it is
  looked for. `Suits` says that of each of 26 commands, given the lengths in
  the body (`Says`), and `SaysWritten` that the body has them. A list is a sequence of
  rows (`RunsRows`); the attachments of 1210, each found from the length of the one
  before, need the equation of a recursive function (`ChainExists`, `ChainIs`). The
  others are wrong by a field of another size (`WrongSize`) or a body that is refused
  (`TooShort`). That a body is made of bytes bounds the
  attachments of 1210, and with them the recursion over their places.

The operators these speak of are recursive functions, or the folds of the community
modules, which are. The library's induction theorems cannot be used (they take an
operator as a parameter, which no installed prover instantiates). Instead
`SetInduction`, from `LeastElement`, says that a set of naturals which holds 0 and
with each number the next one holds all of them; the set is defined from the claim
where it is needed. That there is a function that meets a recursive definition is
proved the same way (`DownwardRecursion`, `FlatExists`), which makes of the `CHOOSE`
in it an equation (`UnescapeSolves`, `FlattenIs`).

Only model-checked: `CamerasRequested`, `StopEndsRun`, `TxEndsRun`, `StopEnds`,
`LiveIsRelayed`, `StaleIsStopped` and `StopEndsLoop`, because liveness under
fairness is beyond TLAPS, as is ENABLED. Every invariant and every action property
that a run checks and that holds is a theorem.

## 5. Not modelled

* Gateway links that speak for several terminals are allowed by `Signalling`
  (`Carries`), and the invariants about links are stated for links of one
  number; what a gateway should see is documented nowhere.
* The layouts of message bodies in Python and in the stand-alone Go server
  (`JTT808Parser`, which the repository uses but does not contain, is free in
  `TcpServer`: what it makes of a body is that it is valid or not).
* `FrameAssembler`, whose output is opaque to the streamers.
* That the tasks of a streamer end, and what a viewer of an idle streamer holds on
  to: `LiveStreamer` and `Ingest` check safety only.
* `Broadcast` and the getters of `TCPServer`, which nothing calls.
* GBK and BCD conversions, and the Kafka logging of beacons.
* What follows from a lost marker is not a property of its own: `PairsOfMarkers`
  says that frames are found by pairing the markers of the stream, so that one
  marker too many or too few turns every later frame into a gap.
* Time. A timeout may come at any moment of a wait.
* Frames of the Go library that are shorter than their own header. At the end of
  what has been read such a frame makes `extractJTT808Msg` index past its buffer
  (`jtt808msg_parser.go:25-28`, `139-144`); `FramesAssumption` lets a terminal send
  whole commands only, and `GoFrames` says nothing of others.
* Exceptions nobody raises on purpose (out of memory, a broken event loop).
* The player page and the mediamtx configuration: no state of the server.

## 6. What could come next

In the order in which it would add most: an abstract specification of what
`LiveStreamer` promises `Ingest`, so that the flags `Ingest` keeps of it are a refinement
and not only the weakest assumption; the layouts of the message bodies of `jt808.py`, as
`GoBodies` has those of the Go library; and what gateway links should see, once that is
decided.
