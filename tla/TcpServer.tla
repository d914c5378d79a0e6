----------------------------- MODULE TcpServer ------------------------------
(***************************************************************************)
(* The stand-alone Go server: TCPServer (tcpserver.go) with the protocol   *)
(* handler JTT808MessageHandler (jtt808_handler.go), from main's start to  *)
(* the end of the process.                                                 *)
(*                                                                         *)
(* main[pc] walks through StartJTT808Server, the wait for a signal and     *)
(* StopJTT808Server, one step per effect others can see.  acc is the       *)
(* accept loop: "adding" while it holds a new connection.  hpc[c] is where *)
(* the connection c is: "accepted", "added" to clients, then handleClient: *)
(* "check", "read", "parse" and "deliver"/"put" inside onClientMessage     *)
(* ("put": ProcessMessage has found the handler running), and its deferred *)
(* "close", "delete", "disconnect", at last "done".  rpc and tpc are       *)
(* processRx and processTx, spc the second reader of rxChan.               *)
(*                                                                         *)
(* clientsMux is held by server.Stop while main is at "clear"; every other *)
(* critical section is one step.  What the external JTT808Parser makes of  *)
(* the bytes it is given is free: no message, some, or an error.           *)
(***************************************************************************)
EXTENDS Naturals, Sequences

CONSTANTS
  Clients, Phones,
  Bodies,         (* what messages may hold: a subset of AnyBody            *)
  RxCap, TxCap,   (* capacities of rxChan and txChan, 100 in the code       *)
  MaxSent,        (* bound: messages of each connection                     *)
  MaxBatch        (* bound: messages that one Read completes                *)

Kinds == {"register", "auth", "heartbeat", "location", "batch", "logout", "other"}

(* valid: the body can be parsed; of an authentication, that the code has   *)
(* 1 to 49 bytes.                                                           *)
AnyBody == [kind : Kinds, valid : BOOLEAN]

ASSUME TcpAssumption ==
  /\ Bodies \subseteq AnyBody
  /\ RxCap \in Nat \ {0} /\ TxCap \in Nat \ {0}
  /\ MaxSent \in [Clients -> Nat] /\ MaxBatch \in Nat

VARIABLES
  proc,                 (* "running", or how the process ended              *)
  main, acc, hpc, rpc, tpc, spc,
  hRunning, sRunning,   (* running of the handler and of the server         *)
  listening,
  clients, parsers,     (* TCPServer.clients, clientParsers                 *)
  sock,                 (* "up" or "closed", by this side                   *)
  sent, batch,          (* messages parsed so far; those still in hand      *)
  rxChan, rxOpen, txChan, txOpen,
  inHand,               (* the answer processRx is about to send            *)
  outHand,              (* the answer processTx is writing                  *)
  authed, registered,   (* authenticatedTerminals, registeredTerminals      *)
  last                  (* the answer written to a connection last          *)

procVars == <<proc, hRunning, sRunning, listening>>
connVars == <<clients, parsers, sock>>
recvVars == <<sent, batch>>
chanVars == <<rxChan, rxOpen, txChan, txOpen>>
termVars == <<authed, registered>>
workVars == <<rpc, tpc, spc, inHand, outHand, termVars, last>>
vars == <<procVars, main, acc, hpc, connVars, recvVars, chanVars, workVars>>

Message == [client : Clients, phone : Phones, serial : Nat, body : Bodies]

Results == {"success", "failure", "message_error", "not_supported"}
Answer  == [client : Clients, serial : Nat, of : Kinds, result : Results]
NoAnswer == [serial |-> 0]

Init ==
  /\ proc = "running" /\ main = "start" /\ acc = "none"
  /\ hpc = [c \in Clients |-> "none"]
  /\ rpc = "none" /\ tpc = "none" /\ spc = "none"
  /\ hRunning = FALSE /\ sRunning = FALSE /\ listening = FALSE
  /\ clients = {} /\ parsers = {}
  /\ sock = [c \in Clients |-> "up"]
  /\ sent = [c \in Clients |-> 0] /\ batch = [c \in Clients |-> <<>>]
  /\ rxChan = <<>> /\ rxOpen = TRUE /\ txChan = <<>> /\ txOpen = TRUE
  /\ inHand = NoAnswer /\ outHand = NoAnswer
  /\ authed = {} /\ registered = {}
  /\ last = [c \in Clients |-> NoAnswer]

Goes(c, where) == hpc' = [hpc EXCEPT ![c] = where]

(* A send on a closed channel ends the process.                             *)
Panic == proc' = "panic" /\ UNCHANGED <<hRunning, sRunning, listening>>

(* select with default: what finds the channel full is dropped.  Mutant:    *)
(* one too many gets in.                                                    *)
OfferOneMore(chan, cap, item) ==
  IF Len(chan) <= cap THEN Append(chan, item) ELSE chan
Offer(chan, cap, item) == IF Len(chan) < cap THEN Append(chan, item) ELSE chan

-----------------------------------------------------------------------------
(* StartJTT808Server: the handler's goroutines first, then the listener and *)
(* the accept loop, the second reader last.  log.Fatalf ends the process.   *)
StartHandler ==
  /\ main = "start" /\ main' = "listen"
  /\ hRunning' = TRUE
  /\ rpc' = "range" /\ tpc' = "range"
  /\ UNCHANGED <<proc, sRunning, listening, acc, hpc, connVars, recvVars, chanVars,
                 spc, inHand, outHand, termVars, last>>

Listen ==
  /\ main = "listen" /\ main' = "consume"
  /\ listening' = TRUE /\ sRunning' = TRUE
  /\ acc' = "check"
  /\ UNCHANGED <<proc, hRunning, hpc, connVars, recvVars, chanVars, workVars>>

ListenFails ==
  /\ main = "listen"
  /\ proc' = "fatal"
  /\ UNCHANGED <<hRunning, sRunning, listening, main, acc, hpc, connVars, recvVars,
                 chanVars, workVars>>

StartSecond ==
  /\ main = "consume" /\ main' = "serve"
  /\ spc' = "range"
  /\ UNCHANGED <<procVars, acc, hpc, connVars, recvVars, chanVars, rpc, tpc, inHand,
                 outHand, termVars, last>>

-----------------------------------------------------------------------------
(* StopJTT808Server, after a signal: handler.Stop, then server.Stop.        *)
Signal ==
  /\ main = "serve" /\ main' = "closeRx"
  /\ hRunning' = FALSE
  /\ UNCHANGED <<proc, sRunning, listening, acc, hpc, connVars, recvVars, chanVars,
                 workVars>>

CloseRx ==
  /\ main = "closeRx" /\ main' = "closeTx"
  /\ rxOpen' = FALSE
  /\ UNCHANGED <<procVars, acc, hpc, connVars, recvVars, rxChan, txChan, txOpen, workVars>>

CloseTx ==
  /\ main = "closeTx" /\ main' = "flag"
  /\ txOpen' = FALSE
  /\ UNCHANGED <<procVars, acc, hpc, connVars, recvVars, rxChan, rxOpen, txChan, workVars>>

FlagServer ==
  /\ main = "flag" /\ main' = "unlisten"
  /\ sRunning' = FALSE
  /\ UNCHANGED <<proc, hRunning, listening, acc, hpc, connVars, recvVars, chanVars,
                 workVars>>

Unlisten ==
  /\ main = "unlisten" /\ main' = "clear"
  /\ listening' = FALSE
  /\ UNCHANGED <<proc, hRunning, sRunning, acc, hpc, connVars, recvVars, chanVars,
                 workVars>>

ClearOne(c) ==
  /\ main = "clear" /\ c \in clients
  /\ sock' = [sock EXCEPT ![c] = "closed"]
  /\ clients' = clients \ {c} /\ parsers' = parsers \ {c}
  /\ UNCHANGED <<procVars, main, acc, hpc, recvVars, chanVars, workVars>>

(* The lock is released; main returns and with it the process ends, at      *)
(* whatever the other goroutines are.                                       *)
Cleared ==
  /\ main = "clear" /\ clients = {} /\ main' = "exit"
  /\ UNCHANGED <<procVars, acc, hpc, connVars, recvVars, chanVars, workVars>>

Exit ==
  /\ main = "exit"
  /\ proc' = "stopped"
  /\ UNCHANGED <<hRunning, sRunning, listening, main, acc, hpc, connVars, recvVars,
                 chanVars, workVars>>

Unlocked == main # "clear"

-----------------------------------------------------------------------------
(* acceptConnections.                                                       *)
AcceptLoop ==
  /\ acc = "check"
  /\ acc' = IF sRunning THEN "accept" ELSE "done"
  /\ UNCHANGED <<procVars, main, hpc, connVars, recvVars, chanVars, workVars>>

Accept(c) ==
  /\ acc = "accept" /\ acc' = "adding"
  /\ listening /\ hpc[c] = "none"
  /\ Goes(c, "accepted")
  /\ UNCHANGED <<procVars, main, connVars, recvVars, chanVars, workVars>>

AcceptFails ==
  /\ acc = "accept" /\ acc' = "check"
  /\ ~listening
  /\ UNCHANGED <<procVars, main, hpc, connVars, recvVars, chanVars, workVars>>

Add(c) ==
  /\ hpc[c] = "accepted" /\ Goes(c, "added")
  /\ Unlocked
  /\ clients' = clients \cup {c}
  /\ UNCHANGED <<procVars, main, acc, parsers, sock, recvVars, chanVars, workVars>>

(* onClientConnect, then the goroutine of handleClient.                     *)
Connect(c) ==
  /\ hpc[c] = "added" /\ Goes(c, "check")
  /\ acc' = "check"
  /\ parsers' = parsers \cup {c}
  /\ UNCHANGED <<procVars, main, clients, sock, recvVars, chanVars, workVars>>

-----------------------------------------------------------------------------
(* handleClient.                                                            *)
HandlerLoop(c) ==
  /\ hpc[c] = "check"
  /\ Goes(c, IF sRunning THEN "read" ELSE "close")
  /\ UNCHANGED <<procVars, main, acc, connVars, recvVars, chanVars, workVars>>

ReadData(c) ==
  /\ hpc[c] = "read" /\ Goes(c, "parse")
  /\ sock[c] = "up"
  /\ UNCHANGED <<procVars, main, acc, connVars, recvVars, chanVars, workVars>>

(* The end of the stream, a reset, or 30 s without data.                    *)
ReadFails(c) ==
  /\ hpc[c] = "read" /\ Goes(c, "close")
  /\ UNCHANGED <<procVars, main, acc, connVars, recvVars, chanVars, workVars>>

(* onClientMessage looks for its parser, and drops the bytes without one.   *)
Parse(c, n, phone, body) ==
  /\ hpc[c] = "parse" /\ Goes(c, IF n = 0 THEN "check" ELSE "deliver")
  /\ n # 0 => c \in parsers
  /\ sent[c] + n <= MaxSent[c]
  /\ sent' = [sent EXCEPT ![c] = @ + n]
  /\ batch' = [batch EXCEPT ![c] =
       [i \in 1..n |-> [client |-> c, phone |-> phone[i], serial |-> sent[c] + i,
                        body |-> body[i]]]]
  /\ UNCHANGED <<procVars, main, acc, connVars, chanVars, workVars>>

(* The message in hand has been queued or dropped.                          *)
NextInBatch(c) ==
  /\ batch' = [batch EXCEPT ![c] = Tail(@)]
  /\ Goes(c, IF Len(batch[c]) = 1 THEN "check" ELSE "deliver")

(* ProcessMessage, its look at running and its select.                      *)
Deliver(c) ==
  /\ hpc[c] = "deliver"
  /\ IF hRunning THEN Goes(c, "put") /\ UNCHANGED batch ELSE NextInBatch(c)
  /\ UNCHANGED <<procVars, main, acc, connVars, sent, chanVars, workVars>>

Put(c) ==
  /\ hpc[c] = "put"
  /\ IF rxOpen
     THEN /\ rxChan' = Offer(rxChan, RxCap, Head(batch[c]))
          /\ NextInBatch(c)
          /\ UNCHANGED procVars
     ELSE Panic /\ UNCHANGED <<rxChan, batch, hpc>>
  /\ UNCHANGED <<main, acc, connVars, sent, rxOpen, txChan, txOpen, workVars>>

CloseConn(c) ==
  /\ hpc[c] = "close" /\ Goes(c, "delete")
  /\ sock' = [sock EXCEPT ![c] = "closed"]
  /\ UNCHANGED <<procVars, main, acc, clients, parsers, recvVars, chanVars, workVars>>

Delete(c) ==
  /\ hpc[c] = "delete" /\ Goes(c, "disconnect")
  /\ Unlocked
  /\ clients' = clients \ {c}
  /\ UNCHANGED <<procVars, main, acc, parsers, sock, recvVars, chanVars, workVars>>

(* onClientDisconnect, for the second time if server.Stop was there before. *)
(* Mutant: it is left to server.Stop once the server is to stop.            *)
ForgetsUnlessStopped(c) ==
  parsers' = IF sRunning THEN parsers \ {c} ELSE parsers
Forgets(c) == parsers' = parsers \ {c}

Disconnect(c) ==
  /\ hpc[c] = "disconnect" /\ Goes(c, "done")
  /\ Forgets(c)
  /\ UNCHANGED <<procVars, main, acc, clients, sock, recvVars, chanVars, workVars>>

-----------------------------------------------------------------------------
(* HandleMessage: the result the answer carries, and the tables after it.   *)
Reply(result, auth, reg) == [result |-> result, authed |-> auth, registered |-> reg]
Replies(result) == Reply(result, authed, registered)

IfValid(m) == Replies(IF m.body.valid THEN "success" ELSE "message_error")

handleTerminalRegister(m) ==
  IF m.body.valid THEN Reply("success", authed, registered \cup {m.phone})
                  ELSE Replies("message_error")
handleTerminalAuth(m) ==
  IF m.body.valid THEN Reply("success", authed \cup {m.phone}, registered)
                  ELSE Replies("failure")
handleTerminalHeartbeat(m) ==
  Replies(IF m.phone \in authed THEN "success" ELSE "failure")
handleLocationReport(m)      == IfValid(m)
handleLocationBatchReport(m) == IfValid(m)
handleTerminalLogout(m)      == Reply("success", authed \ {m.phone}, registered)

HandleMessage(m) ==
  CASE m.body.kind = "register"  -> handleTerminalRegister(m)
    [] m.body.kind = "auth"      -> handleTerminalAuth(m)
    [] m.body.kind = "heartbeat" -> handleTerminalHeartbeat(m)
    [] m.body.kind = "location"  -> handleLocationReport(m)
    [] m.body.kind = "batch"     -> handleLocationBatchReport(m)
    [] m.body.kind = "logout"    -> handleTerminalLogout(m)
    [] m.body.kind = "other"     -> Replies("not_supported")

(* processRx.                                                               *)
TakeRx ==
  /\ rpc = "range" /\ rxChan # <<>>
  /\ rpc' = "send"
  /\ LET m == Head(rxChan)
         h == HandleMessage(m)
     IN  /\ authed' = h.authed /\ registered' = h.registered
         /\ inHand' = [client |-> m.client, serial |-> m.serial, of |-> m.body.kind,
                       result |-> h.result]
  /\ rxChan' = Tail(rxChan)
  /\ UNCHANGED <<procVars, main, acc, hpc, connVars, recvVars, rxOpen, txChan, txOpen,
                 tpc, spc, outHand, last>>

(* SendToClient: its look at running, then its select.                      *)
SendLooks ==
  /\ rpc = "send"
  /\ rpc' = IF hRunning THEN "put" ELSE "range"
  /\ inHand' = IF hRunning THEN inHand ELSE NoAnswer
  /\ UNCHANGED <<procVars, main, acc, hpc, connVars, recvVars, chanVars, tpc, spc,
                 outHand, termVars, last>>

SendPuts ==
  /\ rpc = "put"
  /\ IF txOpen
     THEN /\ rpc' = "range" /\ inHand' = NoAnswer
          /\ txChan' = Offer(txChan, TxCap, inHand)
          /\ UNCHANGED procVars
     ELSE Panic /\ UNCHANGED <<rpc, inHand, txChan>>
  /\ UNCHANGED <<main, acc, hpc, connVars, recvVars, rxChan, rxOpen, txOpen, tpc, spc,
                 outHand, termVars, last>>

RxEnds ==
  /\ rpc = "range" /\ rxChan = <<>> /\ ~rxOpen
  /\ rpc' = "done"
  /\ UNCHANGED <<procVars, main, acc, hpc, connVars, recvVars, chanVars, tpc, spc,
                 inHand, outHand, termVars, last>>

(* The second reader only logs.  Mutant: it answers as well.                *)
SecondAnswers(m) ==
  txChan' = Offer(txChan, TxCap, [client |-> m.client, serial |-> m.serial,
                                  of |-> m.body.kind, result |-> "success"])
SecondLogs(m) == UNCHANGED txChan

TakeSecond ==
  /\ spc = "range" /\ rxChan # <<>>
  /\ SecondLogs(Head(rxChan))
  /\ rxChan' = Tail(rxChan)
  /\ UNCHANGED <<procVars, main, acc, hpc, connVars, recvVars, rxOpen, txOpen, workVars>>

SecondEnds ==
  /\ spc = "range" /\ rxChan = <<>> /\ ~rxOpen
  /\ spc' = "done"
  /\ UNCHANGED <<procVars, main, acc, hpc, connVars, recvVars, chanVars, rpc, tpc,
                 inHand, outHand, termVars, last>>

(* processTx.                                                               *)
TakeTx ==
  /\ tpc = "range" /\ txChan # <<>>
  /\ tpc' = "look" /\ outHand' = Head(txChan)
  /\ txChan' = Tail(txChan)
  /\ UNCHANGED <<procVars, main, acc, hpc, connVars, recvVars, rxChan, rxOpen, txOpen,
                 rpc, spc, inHand, termVars, last>>

(* SendToClientDirect looks at running, then writes.                        *)
DirectLooks ==
  /\ tpc = "look"
  /\ tpc' = IF sRunning THEN "write" ELSE "range"
  /\ outHand' = IF sRunning THEN outHand ELSE NoAnswer
  /\ UNCHANGED <<procVars, main, acc, hpc, connVars, recvVars, chanVars, rpc, spc,
                 inHand, termVars, last>>

(* writeToClient; it may succeed although the peer is gone, and fails when  *)
(* the connection is closed or broken, or after 10 s.                       *)
Written ==
  /\ tpc = "write" /\ tpc' = "range" /\ outHand' = NoAnswer
  /\ sock[outHand.client] = "up"
  /\ last' = [last EXCEPT ![outHand.client] = outHand]
  /\ UNCHANGED <<procVars, main, acc, hpc, connVars, recvVars, chanVars, rpc, spc,
                 inHand, termVars>>

WriteFails ==
  /\ tpc = "write" /\ tpc' = "range" /\ outHand' = NoAnswer
  /\ UNCHANGED <<procVars, main, acc, hpc, connVars, recvVars, chanVars, rpc, spc,
                 inHand, termVars, last>>

TxEnds ==
  /\ tpc = "range" /\ txChan = <<>> /\ ~txOpen
  /\ tpc' = "done"
  /\ UNCHANGED <<procVars, main, acc, hpc, connVars, recvVars, chanVars, rpc, spc,
                 inHand, outHand, termVars, last>>

-----------------------------------------------------------------------------
MainStep ==
  \/ StartHandler \/ Listen \/ StartSecond
  \/ CloseRx \/ CloseTx \/ FlagServer \/ Unlisten \/ Cleared \/ Exit
  \/ \E c \in Clients : ClearOne(c)

AcceptStep == AcceptLoop \/ AcceptFails \/ \E c \in Clients : Add(c) \/ Connect(c)

ParseSome(c) ==
  \E n \in 0..MaxBatch :
    \E phone \in [1..n -> Phones], body \in [1..n -> Bodies] : Parse(c, n, phone, body)

HandlerStep(c) ==
  \/ HandlerLoop(c) \/ ReadFails(c) \/ ParseSome(c) \/ Deliver(c) \/ Put(c)
  \/ CloseConn(c) \/ Delete(c) \/ Disconnect(c)

RxStep == TakeRx \/ SendLooks \/ SendPuts \/ RxEnds
TxStep == TakeTx \/ DirectLooks \/ Written \/ WriteFails \/ TxEnds

Next ==
  /\ proc = "running"
  /\ \/ MainStep \/ ListenFails \/ Signal
     \/ AcceptStep \/ \E c \in Clients : Accept(c)
     \/ \E c \in Clients : HandlerStep(c) \/ ReadData(c)
     \/ RxStep \/ TxStep \/ TakeSecond \/ SecondEnds

Spec == Init /\ [][Next]_vars

-----------------------------------------------------------------------------
PlacesOK ==
  /\ proc \in {"running", "fatal", "panic", "stopped"}
  /\ main \in {"start", "listen", "consume", "serve", "closeRx", "closeTx", "flag",
               "unlisten", "clear", "exit"}
  /\ acc \in {"none", "check", "accept", "adding", "done"}
  /\ rpc \in {"none", "range", "send", "put", "done"}
  /\ tpc \in {"none", "range", "look", "write", "done"} /\ spc \in {"none", "range", "done"}

FlagsOK ==
  /\ hRunning \in BOOLEAN /\ sRunning \in BOOLEAN /\ listening \in BOOLEAN
  /\ rxOpen \in BOOLEAN /\ txOpen \in BOOLEAN

ConnsOK ==
  /\ hpc \in [Clients -> {"none", "accepted", "added", "check", "read", "parse",
                          "deliver", "put", "close", "delete", "disconnect", "done"}]
  /\ clients \subseteq Clients /\ parsers \subseteq Clients
  /\ sock \in [Clients -> {"up", "closed"}]
  /\ sent \in [Clients -> Nat] /\ \A c \in Clients : sent[c] <= MaxSent[c]
  /\ batch \in [Clients -> Seq(Message)]
  /\ \A c \in Clients : hpc[c] \in {"deliver", "put"} => batch[c] # <<>>

PipeOK ==
  /\ rxChan \in Seq(Message) /\ Len(rxChan) <= RxCap
  /\ txChan \in Seq(Answer) /\ Len(txChan) <= TxCap
  /\ inHand \in Answer \cup {NoAnswer} /\ outHand \in Answer \cup {NoAnswer}
  /\ rpc \in {"send", "put"} => inHand \in Answer
  /\ tpc \in {"look", "write"} => outHand \in Answer
  /\ authed \subseteq Phones /\ registered \subseteq Phones
  /\ last \in [Clients -> Answer \cup {NoAnswer}]

TypeOK == PlacesOK /\ FlagsOK /\ ConnsOK /\ PipeOK

(* No connection is left behind: whoever is in clients or has a parser is   *)
(* a connection whose goroutine will still come past the clean-up, though   *)
(* the accept loop may add it after server.Stop has emptied clients, and    *)
(* server.Stop may have taken its parser before.                            *)
NothingLeaks ==
  \A c \in Clients :
    /\ c \in clients => hpc[c] \notin {"none", "accepted", "disconnect", "done"}
    /\ c \in parsers => hpc[c] \notin {"none", "accepted", "added", "done"}
    /\ hpc[c] = "done" => sock[c] = "closed"

(* What a terminal gets on its connection are answers to messages it has    *)
(* sent there, in the order in which it sent them, none of them twice;      *)
(* whatever is dropped at a full channel, and though two goroutines read    *)
(* rxChan.                                                                  *)
AnswersInOrder ==
  [][\A c \in Clients : last'[c] # last[c] =>
       /\ last'[c].client = c
       /\ last'[c].serial \in (last[c].serial + 1)..sent[c]]_last

(* main sets up a "graceful shutdown" (tcpserver.go:290): no signal makes   *)
(* the process panic.  handler.Stop closes rxChan while onClientMessage and *)
(* processRx may be between their look at running and their send.           *)
Graceful == proc # "panic"
=============================================================================
