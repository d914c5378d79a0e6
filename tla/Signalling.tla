----------------------------- MODULE Signalling -----------------------------
(***************************************************************************)
(* JT/T 808 signalling: class JT808Connection of main.py, AuthCodeStore of *)
(* jt808.py, and the tables they share with the rest of the server         *)
(* (devices, active_jt808, device_streams).                                *)
(*                                                                         *)
(* The server is one asyncio thread: the code between two awaits is one    *)
(* step.  pc[c] names the await at which the coroutine of connection c is  *)
(* suspended:                                                              *)
(*   "unborn"  the peer has not connected yet                              *)
(*   "reading" reader.read in run(), with or without whole frames buffered *)
(*   "reply"   the last await of a handler (drain of its answer, or the    *)
(*             sleep after the last channel request)                       *)
(*   "beat"    drain of the answer to an accepted heartbeat                *)
(*   "query"   before build_query_all_params in _on_auth                   *)
(*   "request" before _request_stream(channel=turn[c]) in _on_auth         *)
(*   "closed"  run() has returned                                          *)
(*                                                                         *)
(* devices is a dict of records; it is kept here as one set of phones per  *)
(* field, known being the set of its keys.  A time of day, the message     *)
(* serial numbers and the parsed bodies are not kept.                      *)
(***************************************************************************)
EXTENDS Naturals

CONSTANTS
  Conns,          (* connections to port 6608                              *)
  Phones,         (* terminal numbers                                      *)
  Codes,          (* what _generate_auth_code can return                   *)
  Managers,       (* StreamManager objects that may be allocated           *)
  Carries,        (* Carries[c]: the numbers the frames of c may carry     *)
  NumCameras,     (* _NUM_CAMERAS, 4 in the code                           *)
  RefreshPeriod,  (* heartbeats between two refreshes, 50 in the code      *)
  MaxRefresh,     (* bound: refresh_all tasks of one connection            *)
  None

ASSUME SigAssumption ==
  /\ Carries \in [Conns -> SUBSET Phones]
  /\ NumCameras \in Nat \ {0}
  /\ RefreshPeriod \in Nat \ {0}
  /\ MaxRefresh \in Nat
  /\ None \notin Conns /\ None \notin Phones
  /\ None \notin Codes /\ None \notin Managers

VARIABLES
  pc, phone, turn, hb, refresh,   (* per connection                        *)
  known, authed, online, located, (* devices                               *)
  codes, active,                  (* auth_store._codes, active_jt808       *)
  streams, doomed,                (* device_streams; managers whose        *)
                                  (*   stop_all task has been scheduled    *)
  proved, session, requested      (* history, below                        *)

(***************************************************************************)
(* History.  proved[p]: the code p presented in its last accepted 0x0102.  *)
(* session[c]: the numbers that c, still open, has authenticated and that  *)
(* nobody has registered again or logged out since.  requested[c]: the     *)
(* channels asked for with 0x9101 on c since its last accepted 0x0102.     *)
(***************************************************************************)

connVars   == <<pc, phone, turn, hb, refresh>>
deviceVars == <<known, authed, online, located>>
streamVars == <<streams, doomed>>
history    == <<proved, session, requested>>
sigVars    == <<connVars, deviceVars, codes, active, streamVars, history>>

Cameras == 1..NumCameras

-----------------------------------------------------------------------------
Init ==
  /\ pc        = [c \in Conns |-> "unborn"]
  /\ phone     = [c \in Conns |-> None]
  /\ turn      = [c \in Conns |-> 1]
  /\ hb        = [c \in Conns |-> 0]
  /\ refresh   = [c \in Conns |-> [ch \in Cameras |-> 0]]
  /\ known     = {} /\ authed = {} /\ online = {} /\ located = {}
  /\ codes     = [p \in Phones |-> None]
  /\ active    = [p \in Phones |-> None]
  /\ streams   = [p \in Phones |-> None]
  /\ doomed    = {}
  /\ proved    = [p \in Phones |-> None]
  /\ session   = [c \in Conns |-> {}]
  /\ requested = [c \in Conns |-> {}]

(* jt808_dispatcher hands the accepted socket to JT808Connection.run.       *)
Open(c) ==
  /\ pc[c] = "unborn"
  /\ pc' = [pc EXCEPT ![c] = "reading"]
  /\ UNCHANGED <<phone, turn, hb, refresh, deviceVars, codes, active,
                 streamVars, history>>

(* A frame of c whose header carries p is dispatched; the handler will be   *)
(* suspended at await point next once this step is over.                    *)
Dispatch(c, p, next) ==
  /\ pc[c] = "reading"
  /\ p \in Carries[c]
  /\ phone' = [phone EXCEPT ![c] = p]
  /\ pc' = [pc EXCEPT ![c] = next]

EndSession(p) == session' = [c \in Conns |-> session[c] \ {p}]

(* AuthCodeStore.revoke.  Mutant: the code survives.                        *)
KeepCode(p) == UNCHANGED codes
Revoke(p)   == codes' = [codes EXCEPT ![p] = None]

(* authed becomes False or the entry goes.  Mutant: the flag survives.      *)
KeepAuth(p) == UNCHANGED authed
Deauth(p)   == authed' = authed \ {p}

(* 0x0100: a new devices entry and a new code, whatever was there before.   *)
Register(c, p, code) ==
  /\ Dispatch(c, p, "reply")
  /\ known'   = known \cup {p}
  /\ Deauth(p)
  /\ online'  = online \cup {p}
  /\ located' = located \ {p}
  /\ codes'   = [codes EXCEPT ![p] = code]
  /\ EndSession(p)
  /\ UNCHANGED <<turn, hb, refresh, active, streamVars, proved, requested>>

(* AuthCodeStore.validate: an absent code matches nothing.  Mutant: it      *)
(* matches anything.                                                        *)
ValidateAbsent(p, presented) == codes[p] \in {None, presented}
Validate(p, presented) == codes[p] # None /\ presented = codes[p]

(* self enters active_jt808.  Mutant: setdefault instead of assignment.     *)
ActivateFirst(c, p) ==
  active' = [active EXCEPT ![p] = IF @ = None THEN c ELSE @]
Activate(c, p) == active' = [active EXCEPT ![p] = c]

(* 0x0102, accepted.  The answer is followed by the parameter query and the *)
(* channel requests, so the coroutine does not come back to read before.    *)
AuthOk(c, p, presented) ==
  /\ Validate(p, presented)
  /\ Dispatch(c, p, "query")
  /\ known'     = known \cup {p}
  /\ authed'    = authed \cup {p}
  /\ online'    = online \cup {p}
  /\ located'   = IF p \in known THEN located ELSE located \ {p}
  /\ Activate(c, p)
  /\ proved'    = [proved EXCEPT ![p] = presented]
  /\ session'   = [session EXCEPT ![c] = @ \cup {p}]
  /\ requested' = [requested EXCEPT ![c] = {}]
  /\ UNCHANGED <<turn, hb, refresh, codes, streamVars>>

AuthFail(c, p, presented) ==
  /\ ~Validate(p, presented)
  /\ Dispatch(c, p, "reply")
  /\ UNCHANGED <<turn, hb, refresh, deviceVars, codes, active, streamVars,
                 history>>

(* 0x0002 with the auth-state check; the count is kept modulo the period.   *)
Heartbeat(c, p) ==
  /\ IF p \in authed
     THEN Dispatch(c, p, "beat") /\ online' = online \cup {p}
     ELSE Dispatch(c, p, "reply") /\ UNCHANGED online
  /\ UNCHANGED <<turn, hb, refresh, known, authed, located, codes, active,
                 streamVars, history>>

(* A position is stored.  Mutant: without the auth-state check.             *)
StoresAnyway(p, parsed) == parsed /\ p \in known
Stores(p, parsed) == p \in authed /\ parsed /\ p \in known

(* 0x0200 with the auth-state check; parsed says whether parse_location     *)
(* returned a fix.                                                          *)
Location(c, p, parsed) ==
  /\ Dispatch(c, p, "reply")
  /\ located' = IF Stores(p, parsed) THEN located \cup {p} ELSE located
  /\ UNCHANGED <<turn, hb, refresh, known, authed, online, codes, active,
                 streamVars, history>>

(* 0x0704 only logs the items, and is answered either way.                  *)
LocationBatch(c, p) ==
  /\ Dispatch(c, p, "reply")
  /\ UNCHANGED <<turn, hb, refresh, deviceVars, codes, active, streamVars,
                 history>>

(* 0x0003: the entry stays, no longer authed or online; the code goes.      *)
Logout(c, p) ==
  /\ Dispatch(c, p, "reply")
  /\ Deauth(p)
  /\ online'  = online \ {p}
  /\ Revoke(p)
  /\ EndSession(p)
  /\ UNCHANGED <<turn, hb, refresh, known, located, active, streamVars,
                 proved, requested>>

(* 0x1003, 0x1005 and unknown ids are answered and leave self.phone alone;  *)
(* 0x0001 and 0x0104 change nothing at all and need no action.              *)
OtherMessage(c) ==
  /\ pc[c] = "reading"
  /\ pc' = [pc EXCEPT ![c] = "reply"]
  /\ UNCHANGED <<phone, turn, hb, refresh, deviceVars, codes, active,
                 streamVars, history>>

(* The handler returns to run().                                            *)
Resume(c) ==
  /\ pc[c] = "reply"
  /\ pc' = [pc EXCEPT ![c] = "reading"]
  /\ UNCHANGED <<phone, turn, hb, refresh, deviceVars, codes, active,
                 streamVars, history>>

(* The rest of _on_heartbeat: every RefreshPeriod accepted heartbeats a     *)
(* refresh_all task is started.  refresh[c][ch] counts the tasks of c that  *)
(* are about to request channel ch.                                         *)
BeatDone(c) ==
  /\ pc[c] = "beat"
  /\ pc' = [pc EXCEPT ![c] = "reading"]
  /\ hb' = [hb EXCEPT ![c] = (@ + 1) % RefreshPeriod]
  /\ IF hb'[c] = 0
     THEN /\ \A ch \in Cameras : refresh[c][ch] < MaxRefresh
          /\ refresh' = [refresh EXCEPT ![c][1] = @ + 1]
     ELSE UNCHANGED refresh
  /\ UNCHANGED <<phone, turn, deviceVars, codes, active, streamVars, history>>

RequestStream(c, ch) == requested' = [requested EXCEPT ![c] = @ \cup {ch}]

RefreshStep(c, ch) ==
  /\ refresh[c][ch] > 0
  /\ refresh' = [refresh EXCEPT ![c] =
       [k \in Cameras |-> CASE k = ch     -> @[k] - 1
                            [] k = ch + 1 -> @[k] + 1
                            [] OTHER      -> @[k]]]
  /\ RequestStream(c, ch)
  /\ UNCHANGED <<pc, phone, turn, hb, deviceVars, codes, active, streamVars,
                 proved, session>>

(* _on_auth after its sleeps: 0x8104, then 0x9101 for each camera in turn.  *)
(* turn is local to the loop, and 1 whenever it is not running.             *)
QueryParams(c) ==
  /\ pc[c] = "query"
  /\ pc' = [pc EXCEPT ![c] = "request"]
  /\ UNCHANGED <<phone, turn, hb, refresh, deviceVars, codes, active, streamVars,
                 history>>

(* The loop over the cameras goes on.  Mutant: one turn too few.            *)
MoreTooFew(c)  == turn[c] + 1 < NumCameras
More(c)        == turn[c] < NumCameras

RequestNext(c) ==
  /\ pc[c] = "request"
  /\ RequestStream(c, turn[c])
  /\ IF More(c)
     THEN turn' = [turn EXCEPT ![c] = @ + 1] /\ UNCHANGED pc
     ELSE pc' = [pc EXCEPT ![c] = "reply"] /\ turn' = [turn EXCEPT ![c] = 1]
  /\ UNCHANGED <<phone, hb, refresh, deviceVars, codes, active, streamVars,
                 proved, session>>

(* active_jt808.pop.                                                        *)
DropLink(p) == active' = [active EXCEPT ![p] = None]

(* device_streams.pop and the stop_all task.  Mutant: without the pop.      *)
KeepStreams(p) ==
  /\ doomed' = doomed \cup ({streams[p]} \ {None})
  /\ UNCHANGED streams
DropStreams(p) ==
  /\ doomed' = doomed \cup ({streams[p]} \ {None})
  /\ streams' = [streams EXCEPT ![p] = None]

(* The finally block of run() forgets the number the connection last        *)
(* carried and schedules stop_all on the manager of that number; the        *)
(* counters are gone with the connection.                                   *)
Forget(p) ==
  /\ known'   = known \ {p}
  /\ Deauth(p)
  /\ online'  = online \ {p}
  /\ located' = located \ {p}
  /\ Revoke(p)
  /\ DropLink(p)
  /\ DropStreams(p)

RunEnds(c) ==
  /\ pc' = [pc EXCEPT ![c] = "closed"]
  /\ IF phone[c] = None
     THEN UNCHANGED <<deviceVars, codes, active, streamVars>>
     ELSE Forget(phone[c])
  /\ session' = [session EXCEPT ![c] = {}]
  /\ turn' = [turn EXCEPT ![c] = 1] /\ hb' = [hb EXCEPT ![c] = 0]
  /\ UNCHANGED <<phone, refresh, proved, requested>>

(* EOF, a reset or READ_TIMEOUT.                                            *)
Disconnect(c) == pc[c] = "reading" /\ RunEnds(c)

(* drain raises what _send does not catch, an OSError such as an            *)
(* unreachable host, and nothing above it does: the handler is cut short.   *)
HandlerRaises(c) ==
  /\ pc[c] \in {"reply", "beat", "query", "request"}
  /\ RunEnds(c)

(* The same in a refresh_all task, which ends.                              *)
RefreshRaises(c, ch) ==
  /\ refresh[c][ch] > 0
  /\ refresh' = [refresh EXCEPT ![c][ch] = @ - 1]
  /\ UNCHANGED <<pc, phone, turn, hb, deviceVars, codes, active, streamVars,
                 history>>

(* get_device_streams(p), called by the JT1078 and the HTTP side.           *)
GetDeviceStreams(p, m) ==
  /\ streams[p] = None
  /\ m \in Managers \ (doomed \cup {streams[q] : q \in Phones})
  /\ streams' = [streams EXCEPT ![p] = m]
  /\ UNCHANGED <<connVars, deviceVars, codes, active, doomed, history>>

-----------------------------------------------------------------------------
Message(c) ==
  \/ \E p \in Phones :
       \/ \E code \in Codes : \/ Register(c, p, code)
                              \/ AuthOk(c, p, code)
                              \/ AuthFail(c, p, code)
       \/ Heartbeat(c, p)
       \/ \E parsed \in BOOLEAN : Location(c, p, parsed)
       \/ LocationBatch(c, p)
       \/ Logout(c, p)
  \/ OtherMessage(c)

Continue(c) == Resume(c) \/ BeatDone(c) \/ QueryParams(c) \/ RequestNext(c)

Step(c) ==
  \/ Open(c)
  \/ Message(c)
  \/ Continue(c)
  \/ \E ch \in Cameras : RefreshStep(c, ch) \/ RefreshRaises(c, ch)
  \/ Disconnect(c) \/ HandlerRaises(c)

Next ==
  \/ \E c \in Conns : Step(c)
  \/ \E p \in Phones, m \in Managers : GetDeviceStreams(p, m)

Spec == Init /\ [][Next]_sigVars

(* The event loop runs every ready task; drain is bounded by WRITE_TIMEOUT. *)
(* A peer need not connect, send or hang up.                                *)
Fairness == \A c \in Conns :
  /\ WF_sigVars(Continue(c))
  /\ WF_sigVars(\E ch \in Cameras : RefreshStep(c, ch))

FairSpec == Spec /\ Fairness

-----------------------------------------------------------------------------
PCs == {"unborn", "reading", "reply", "beat", "query", "request", "closed"}

(* Every table keeps to the connections, numbers, codes and managers.       *)
TypeOK ==
  /\ pc \in [Conns -> PCs]
  /\ phone \in [Conns -> Phones \cup {None}]
  /\ turn \in [Conns -> Cameras]
  /\ hb \in [Conns -> 0..(RefreshPeriod - 1)]
  /\ refresh \in [Conns -> [Cameras -> Nat]]
  /\ known \subseteq Phones /\ authed \subseteq Phones
  /\ online \subseteq Phones /\ located \subseteq Phones
  /\ codes \in [Phones -> Codes \cup {None}]
  /\ active \in [Phones -> Conns \cup {None}]
  /\ streams \in [Phones -> Managers \cup {None}]
  /\ doomed \subseteq Managers
  /\ proved \in [Phones -> Codes \cup {None}]
  /\ session \in [Conns -> SUBSET Phones]
  /\ requested \in [Conns -> SUBSET Cameras]

(* A terminal counts as authenticated (_is_authed) only while the code      *)
(* AuthCodeStore holds for it is the very code it presented: a later        *)
(* 0x0100, on whatever connection, takes the old proof away.                *)
AuthProvesCode == \A p \in authed : codes[p] # None /\ proved[p] = codes[p]

(* A code never outlives the devices entry it was issued for, so the branch *)
(* of _on_auth that creates a missing entry never runs.                     *)
CodeHasDevice == \A p \in Phones : codes[p] # None => p \in known

(* A terminal that is known but logged out (0x0003) is not authenticated    *)
(* and cannot become so again with its old code.                            *)
LogoutIsFinal == \A p \in known \ online : p \notin authed /\ codes[p] = None

(* A position shown by /status was accepted from an authenticated terminal: *)
(* if the terminal is no longer authenticated, it has logged out since.     *)
LocatedWasAuthed == located \ authed \subseteq known \ online

(* stop_all is never scheduled on a manager that is still handed out by     *)
(* get_device_streams, nor is a manager shared by two numbers.              *)
DoomedDetached ==
  /\ \A p \in Phones : streams[p] \notin doomed
  /\ \A p, q \in Phones : streams[p] # None /\ streams[p] = streams[q] => p = q

(* What holds on links that carry one number each.                          *)
SingleCarrier ==
  \A c \in Conns : \A p, q \in Carries[c] : p = q

(* An authenticated terminal has an entry in active_jt808, the connection   *)
(* named there is still open, and it is the one that authenticated it:      *)
(* JT1078Connection re-requests channels over it.                           *)
AuthedHasLink == SingleCarrier =>
  \A p \in authed : active[p] # None /\ p \in session[active[p]]

(* active_jt808 never names a connection whose run() has returned.          *)
ActiveIsOpen == SingleCarrier =>
  \A p \in Phones : active[p] # None => pc[active[p]] \notin {"unborn", "closed"}

(* The README has the server acknowledge the heartbeats of a terminal whose *)
(* 0x0102 it accepted (README.md:151-153): an open connection that has      *)
(* authenticated a number keeps it authenticated until somebody registers   *)
(* that number again or logs it out.                                        *)
SessionStays == \A c \in Conns : session[c] \subseteq authed

(* Once a 0x0102 is accepted, every camera is requested (_on_auth), unless  *)
(* an error that _send does not catch ends the connection on the way.       *)
CamerasRequested ==
  \A c \in Conns : pc[c] = "query" ~> requested[c] = Cameras \/ pc[c] = "closed"

-----------------------------------------------------------------------------
(* The rest of the server may rely on DeviceTable: every step of the        *)
(* signalling side is one of its steps, or leaves the table alone.          *)
Table == INSTANCE DeviceTable WITH Names <- Phones

KeepsTable == Table!TableSpec
=============================================================================
