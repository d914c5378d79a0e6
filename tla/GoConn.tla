------------------------------- MODULE GoConn -------------------------------
(***************************************************************************)
(* One connection of the Go message server: JTT808Conn of                  *)
(* jtt808msgconnhdlr.go, with the goroutine of Run (which runs RunRX), the *)
(* goroutine of RunTX, and the goroutines that call Send and Stop.         *)
(*                                                                         *)
(* rx is where Run is:                                                     *)
(*   "check"    the condition of RunRX's loop                              *)
(*   "read"     tcpconn.Read                                               *)
(*   "insert"   runRxInsertDataCh, first select                            *)
(*   "recheck"  the condition of its loop                                  *)
(*   "blocked"  its second select                                          *)
(*   "stop"     RunRX has returned                                         *)
(*   "wait"     waiting for activereqcount to be 0                         *)
(*   "join"     msgch is closed, wg.Wait                                   *)
(*   "returned"                                                            *)
(* tx is where RunTX is: "check", "select", "write" (inside cmdHandle), or *)
(* "close", then "done".                                                   *)
(* spc[t] is where Send called by t is: "passed" after its first look at   *)
(* stopped, "counted" after activereqcount.Add(1), "sending" after the     *)
(* second look, "leaving" before Add(-1).                                  *)
(*                                                                         *)
(* Messages have no content and channels are their lengths.  The counter   *)
(* activereqcount is kept as the set of the calls it counts.               *)
(***************************************************************************)
EXTENDS Naturals

CONSTANTS
  Senders,   (* goroutines that call Send                                  *)
  MsgCap,    (* capacity of msgch, 16 in the code                          *)
  DataCap,   (* capacity of datach, 128 in the code                        *)
  MaxBatch   (* bound: whole messages that one Read completes              *)

ASSUME GoConnAssumption ==
  /\ MsgCap \in Nat \ {0} /\ DataCap \in Nat \ {0} /\ MaxBatch \in Nat \ {0}

VARIABLES
  rx, batch,          (* Run; whole messages left in inprogbuf             *)
  tx,                 (* RunTX                                             *)
  spc, counted,       (* Send; activereqcount                              *)
  stopped,
  msgch, msgchOpen,   (* its length; FALSE once it is closed               *)
  datach,
  sock,               (* "up", "reset" by the peer, or "closed" by RunTX   *)
  panicked            (* a send on a closed channel                        *)

sendVars == <<spc, counted>>
msgVars  == <<msgch, msgchOpen>>
connVars == <<rx, batch, tx, sendVars, stopped, msgVars, datach, sock, panicked>>

ConnInit ==
  /\ rx = "check" /\ batch = 0
  /\ tx = "check"
  /\ spc = [t \in Senders |-> "idle"] /\ counted = {}
  /\ stopped = FALSE
  /\ msgch = 0 /\ msgchOpen = TRUE
  /\ datach = 0
  /\ sock = "up"
  /\ panicked = FALSE

-----------------------------------------------------------------------------
(* RunRX.                                                                   *)
RxLoop ==
  /\ rx = "check"
  /\ rx' = IF stopped THEN "stop" ELSE "read"
  /\ UNCHANGED <<batch, tx, sendVars, stopped, msgVars, datach, sock, panicked>>

RxAfter(n) ==
  /\ batch' = n
  /\ rx' = IF n = 0 THEN "check" ELSE "insert"

RxRead(n) ==
  /\ rx = "read" /\ sock # "closed"
  /\ RxAfter(n)
  /\ UNCHANGED <<tx, sendVars, stopped, msgVars, datach, sock, panicked>>

RxFails ==
  /\ rx = "read" /\ sock # "up"
  /\ rx' = "stop"
  /\ UNCHANGED <<batch, tx, sendVars, stopped, msgVars, datach, sock, panicked>>

(* A message goes into datach, from either select.                          *)
Room == datach < DataCap

RxInsert ==
  /\ rx \in {"insert", "blocked"} /\ Room
  /\ datach' = datach + 1
  /\ RxAfter(batch - 1)
  /\ UNCHANGED <<tx, sendVars, stopped, msgVars, sock, panicked>>

(* datach is full, or the second of patience is over.                       *)
RxFull ==
  /\ \/ rx = "insert" /\ datach = DataCap
     \/ rx = "blocked"
  /\ rx' = "recheck"
  /\ UNCHANGED <<batch, tx, sendVars, stopped, msgVars, datach, sock, panicked>>

(* ErrStopped leaves the inner loop of RunRX only.                          *)
RxRecheck ==
  /\ rx = "recheck"
  /\ IF stopped THEN RxAfter(0) ELSE rx' = "blocked" /\ UNCHANGED batch
  /\ UNCHANGED <<tx, sendVars, stopped, msgVars, datach, sock, panicked>>

-----------------------------------------------------------------------------
(* Run after RunRX: o.Stop().  Mutant: it goes straight on to the wait.     *)
StopsNot == UNCHANGED stopped
Stops    == stopped' = TRUE

RunStops ==
  /\ rx = "stop"
  /\ rx' = "wait"
  /\ Stops
  /\ UNCHANGED <<batch, tx, sendVars, msgVars, datach, sock, panicked>>

(* The senders have left.  Mutant: without the wait.                        *)
SendersGoneAnyway == TRUE
SendersGone       == counted = {}

RunCloses ==
  /\ rx = "wait" /\ SendersGone
  /\ rx' = "join"
  /\ msgchOpen' = FALSE
  /\ UNCHANGED <<batch, tx, sendVars, stopped, msgch, datach, sock, panicked>>

RunReturns ==
  /\ rx = "join" /\ tx = "done"
  /\ rx' = "returned"
  /\ UNCHANGED <<batch, tx, sendVars, stopped, msgVars, datach, sock, panicked>>

-----------------------------------------------------------------------------
(* RunTX.                                                                   *)
TxGoes(where) == tx' = where

(* The condition of its loop.  Mutant: it never ends by itself.             *)
TxEndlessly == "select"
TxLoops     == IF stopped THEN "close" ELSE "select"

TxLoop ==
  /\ tx = "check"
  /\ TxGoes(TxLoops)
  /\ UNCHANGED <<rx, batch, sendVars, stopped, msgVars, datach, sock, panicked>>

(* A message of msgch is only logged; a closed msgch yields nil.            *)
TxTakesMsg ==
  /\ tx = "select" /\ (msgch > 0 \/ ~msgchOpen)
  /\ msgch' = IF msgch > 0 THEN msgch - 1 ELSE 0
  /\ TxGoes("check")
  /\ UNCHANGED <<rx, batch, sendVars, stopped, msgchOpen, datach, sock, panicked>>

(* cmdHandle answers a registration or an authentication, does nothing for  *)
(* other commands, and fails on a body it cannot parse.                     *)
TxTakesData(next) ==
  /\ tx = "select" /\ datach > 0
  /\ datach' = datach - 1
  /\ TxGoes(next)
  /\ UNCHANGED <<rx, batch, sendVars, stopped, msgVars, sock, panicked>>

TxTick ==
  /\ tx = "select"
  /\ TxGoes("check")
  /\ UNCHANGED <<rx, batch, sendVars, stopped, msgVars, datach, sock, panicked>>

(* tcpconn.Write has no deadline: it ends when the peer reads or is gone;   *)
(* what is written after the peer has gone may still seem to be sent.       *)
TxWritten ==
  /\ tx = "write"
  /\ TxGoes("check")
  /\ UNCHANGED <<rx, batch, sendVars, stopped, msgVars, datach, sock, panicked>>

TxFails ==
  /\ tx = "write" /\ sock # "up"
  /\ TxGoes("close")
  /\ UNCHANGED <<rx, batch, sendVars, stopped, msgVars, datach, sock, panicked>>

(* tcpconn.Close().  Mutant: the socket stays open.                         *)
LeaveOpen   == UNCHANGED sock
CloseSocket == sock' = "closed"

TxCloses ==
  /\ tx = "close"
  /\ TxGoes("done")
  /\ CloseSocket
  /\ UNCHANGED <<rx, batch, sendVars, stopped, msgVars, datach, panicked>>

-----------------------------------------------------------------------------
(* Send.                                                                    *)
SendGoes(t, where) == spc' = [spc EXCEPT ![t] = where]

SendCalled(t) ==
  /\ spc[t] = "idle" /\ ~stopped
  /\ SendGoes(t, "passed")
  /\ UNCHANGED <<rx, batch, tx, counted, stopped, msgVars, datach, sock, panicked>>

SendCounts(t) ==
  /\ spc[t] = "passed"
  /\ SendGoes(t, "counted")
  /\ counted' = counted \cup {t}
  /\ UNCHANGED <<rx, batch, tx, stopped, msgVars, datach, sock, panicked>>

(* The second look at stopped.  Mutant: it is left out.                     *)
LooksOnce  == "sending"
LooksAgain == IF stopped THEN "leaving" ELSE "sending"

SendLooks(t) ==
  /\ spc[t] = "counted"
  /\ SendGoes(t, LooksAgain)
  /\ UNCHANGED <<rx, batch, tx, counted, stopped, msgVars, datach, sock, panicked>>

(* A send on a closed channel panics, even in a select with a default.      *)
SendPuts(t) ==
  /\ spc[t] = "sending"
  /\ SendGoes(t, "leaving")
  /\ IF msgchOpen
     THEN /\ msgch' = IF msgch < MsgCap THEN msgch + 1 ELSE msgch
          /\ UNCHANGED panicked
     ELSE panicked' = TRUE /\ UNCHANGED msgch
  /\ UNCHANGED <<rx, batch, tx, counted, stopped, msgchOpen, datach, sock>>

SendReturns(t) ==
  /\ spc[t] = "leaving"
  /\ SendGoes(t, "idle")
  /\ counted' = counted \ {t}
  /\ UNCHANGED <<rx, batch, tx, stopped, msgVars, datach, sock, panicked>>

-----------------------------------------------------------------------------
(* Stop, called by cleanupconnections or RegisterChannel.                   *)
Stop ==
  /\ ~stopped
  /\ stopped' = TRUE
  /\ UNCHANGED <<rx, batch, tx, sendVars, msgVars, datach, sock, panicked>>

(* The peer closes or resets the connection.                                *)
PeerGoes ==
  /\ sock = "up"
  /\ sock' = "reset"
  /\ UNCHANGED <<rx, batch, tx, sendVars, stopped, msgVars, datach, panicked>>

-----------------------------------------------------------------------------
Run ==
  \/ RxLoop \/ RxFails \/ RxInsert \/ RxRecheck
  \/ RunStops \/ RunCloses \/ RunReturns

RunTX ==
  \/ TxLoop \/ TxTakesMsg \/ TxTick \/ TxFails \/ TxCloses
  \/ \E next \in {"check", "write", "close"} : TxTakesData(next)

Send(t) == SendCounts(t) \/ SendLooks(t) \/ SendPuts(t) \/ SendReturns(t)

ConnNext ==
  \/ Run \/ RxFull \/ \E n \in 0..MaxBatch : RxRead(n)
  \/ RunTX \/ TxWritten
  \/ \E t \in Senders : SendCalled(t) \/ Send(t)
  \/ Stop
  \/ PeerGoes

ConnSpec == ConnInit /\ [][ConnNext]_connVars

(* Goroutines that can run do, and timers fire.  The peer need not send,    *)
(* read or hang up, so RxRead and TxWritten are not fair.  RunRX comes back *)
(* to its select with a new timer, so where there is room it inserts in the *)
(* end however often an old timer has been faster.                          *)
ConnFairness ==
  /\ WF_connVars(Run) /\ WF_connVars(RxFull) /\ SF_connVars(RxInsert)
  /\ WF_connVars(RunTX)
  /\ \A t \in Senders : WF_connVars(Send(t))

ConnFairSpec == ConnSpec /\ ConnFairness

-----------------------------------------------------------------------------
(* Also: no more messages wait in a channel than it has room for, and       *)
(* RunRX inserts only while it has a message in hand.                       *)
ConnTypeOK ==
  /\ rx \in {"check", "read", "insert", "recheck", "blocked", "stop", "wait",
             "join", "returned"}
  /\ batch \in 0..MaxBatch
  /\ rx \in {"insert", "recheck", "blocked"} => batch > 0
  /\ tx \in {"check", "select", "write", "close", "done"}
  /\ spc \in [Senders -> {"idle", "passed", "counted", "sending", "leaving"}]
  /\ counted \subseteq Senders
  /\ stopped \in BOOLEAN
  /\ msgch \in 0..MsgCap /\ msgchOpen \in BOOLEAN
  /\ datach \in 0..DataCap
  /\ sock \in {"up", "reset", "closed"}
  /\ panicked \in BOOLEAN

(* No Send ever meets the closed msgch (Run closes it while other           *)
(* goroutines may be anywhere inside Send).                                 *)
NeverPanics == ~panicked

(* When Run returns nothing of the connection is left behind: its socket is *)
(* closed, the transmitter has ended and later calls of Send are refused.   *)
ReturnsClean == rx = "returned" => sock = "closed" /\ tx = "done" /\ stopped

(* A connection that is asked to stop ends: Run returns, unless a write to  *)
(* a peer that does not read never ends.                                    *)
StopEndsRun ==
  []<>(tx # "write") => (stopped ~> rx = "returned")

(* When the transmitter has ended, which closes the socket, Run returns     *)
(* too, unless the receiver finds datach full: nobody empties it any more,  *)
(* and the receiver stays there until somebody calls Stop.                  *)
TxEndsRun == tx = "done" ~> rx = "returned" \/ datach = DataCap

(* The connection keeps the promise MsgServer is built on: a stop is never  *)
(* taken back, and Run returns once, not before a stop and not while the    *)
(* transmitter is in a write.                                               *)
Life == INSTANCE ConnLife WITH
  Conns <- {"conn"},
  asked <- IF stopped THEN {"conn"} ELSE {},
  over  <- IF rx = "returned" THEN {"conn"} ELSE {},
  writing <- IF tx = "write" THEN {"conn"} ELSE {}

KeepsLife == Life!LifeSpec
=============================================================================
