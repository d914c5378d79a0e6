--------------------------- MODULE GoServerProofs ---------------------------
(***************************************************************************)
(* Theorems about the Go message server.  Of GoConn, for any senders and   *)
(* any capacity of the channels: its type, its safety properties, and that *)
(* it keeps the promise that MsgServer builds on.  Of MsgServer, for any   *)
(* connections, ids and channels: its type, that the clean-up leaves no    *)
(* registered connection running, and that TX reaches the connection that  *)
(* registered the channel.                                                 *)
(***************************************************************************)
EXTENDS GoConn, MsgServer, TLAPS

(* The connection.                                                          *)
USE DEF connVars, sendVars, msgVars

(* A call of Send is counted exactly while it is between the two updates of *)
(* the counter.                                                             *)
CountIsRight ==
  \A t \in Senders : t \in counted <=> spc[t] \in {"counted", "sending", "leaving"}

(* Run has called Stop before it waits, and closes msgch after.             *)
CloseIsLate ==
  /\ rx \in {"wait", "join", "returned"} => stopped
  /\ ~msgchOpen <=> rx \in {"join", "returned"}

(* Nobody is about to send on a closed msgch: who looks at stopped after    *)
(* being counted either sees it set, or holds up the close.                 *)
NoLateSender == ~msgchOpen => \A t \in Senders : spc[t] # "sending"

(* The transmitter closes the socket, and Run waits for the transmitter.    *)
CloseOrder ==
  /\ tx = "done" => sock = "closed"
  /\ rx = "returned" => tx = "done"

ConnInv ==
  CountIsRight /\ CloseIsLate /\ NoLateSender /\ CloseOrder /\ NeverPanics

(* Every variable keeps to its type (ConnTypeOK of GoConn): in particular no    *)
(* channel ever holds more than its capacity.                               *)
THEOREM ConnTypeCorrect == ConnSpec => []ConnTypeOK
<1>1. ConnInit => ConnTypeOK
  <2> SUFFICES ASSUME ConnInit PROVE ConnTypeOK
    OBVIOUS
  <2>1. stopped \in BOOLEAN /\ msgchOpen \in BOOLEAN /\ panicked \in BOOLEAN
    BY Zenon DEF ConnInit
  <2> QED
    BY <2>1, GoConnAssumption DEF ConnInit, ConnTypeOK
<1>2. ConnTypeOK /\ [ConnNext]_connVars => ConnTypeOK'
  <2> SUFFICES ASSUME ConnTypeOK, [ConnNext]_connVars PROVE ConnTypeOK'
    OBVIOUS
  <2> USE GoConnAssumption DEF ConnTypeOK
  <2>1. CASE RxLoop \/ RxFails \/ RxInsert \/ RxRecheck
    BY <2>1 DEF RxLoop, RxFails, RxInsert, Room, RxRecheck, RxAfter
  <2>2. CASE RunStops
    <3>1. stopped' \in BOOLEAN
      BY <2>2, Zenon DEF RunStops, Stops
    <3> QED
      BY <3>1, <2>2 DEF RunStops
  <2>3. CASE RunCloses
    <3>1. msgchOpen' \in BOOLEAN
      BY <2>3, Zenon DEF RunCloses
    <3> QED
      BY <3>1, <2>3 DEF RunCloses
  <2>4. CASE RunReturns
    BY <2>4 DEF RunReturns
  <2>5. CASE RxFull
    BY <2>5 DEF RxFull, Room
  <2>6. CASE \E n \in 0..MaxBatch : RxRead(n)
    BY <2>6 DEF RxRead, RxAfter
  <2>7. CASE RunTX
    BY <2>7 DEF RunTX, TxLoop, TxLoops, TxTakesMsg, TxTick, TxFails, TxCloses,
                TxTakesData, TxGoes, CloseSocket
  <2>8. CASE TxWritten
    BY <2>8 DEF TxWritten, TxGoes
  <2>9. ASSUME NEW t \in Senders, SendCalled(t) \/ Send(t) PROVE ConnTypeOK'
    <3>1. CASE SendPuts(t)
      <4>1. panicked' \in BOOLEAN
        BY <3>1, Zenon DEF SendPuts
      <4> QED
        BY <4>1, <3>1 DEF SendPuts, SendGoes
    <3> QED
      BY <2>9, <3>1 DEF SendCalled, Send, SendCounts, SendLooks, LooksAgain,
                        SendReturns, SendGoes
  <2>10. CASE Stop
    <3>1. stopped' \in BOOLEAN
      BY <2>10, Zenon DEF Stop
    <3> QED
      BY <3>1, <2>10 DEF Stop
  <2>11. CASE PeerGoes
    BY <2>11 DEF PeerGoes
  <2>12. CASE UNCHANGED connVars
    BY <2>12
  <2> QED
    BY <2>1, <2>2, <2>3, <2>4, <2>5, <2>6, <2>7, <2>8, <2>9, <2>10, <2>11, <2>12
       DEF ConnNext, Run
<1> QED
  BY <1>1, <1>2, PTL DEF ConnSpec

(* The strengthening is inductive.                                          *)
LEMMA ConnInvStep == ConnTypeOK /\ ConnInv /\ [ConnNext]_connVars => ConnInv'
<1> SUFFICES ASSUME ConnTypeOK, ConnInv, [ConnNext]_connVars PROVE ConnInv'
  OBVIOUS
<1> USE DEF ConnTypeOK, ConnInv, CountIsRight, CloseIsLate, NoLateSender,
            CloseOrder, NeverPanics
<1>1. CASE Run
  <2>1. CASE RxLoop \/ RxFails \/ RxInsert \/ RxRecheck
    BY <2>1 DEF RxLoop, RxFails, RxInsert, RxRecheck, RxAfter
  <2>2. CASE RunStops
    BY <2>2 DEF RunStops, Stops
  <2>3. CASE RunCloses
    BY <2>3 DEF RunCloses, SendersGone
  <2>4. CASE RunReturns
    BY <2>4 DEF RunReturns
  <2> QED
    BY <1>1, <2>1, <2>2, <2>3, <2>4 DEF Run
<1>2. CASE RxFull
  BY <1>2 DEF RxFull
<1>3. CASE \E n \in 0..MaxBatch : RxRead(n)
  BY <1>3 DEF RxRead, RxAfter
<1>4. CASE RunTX
  BY <1>4 DEF RunTX, TxLoop, TxLoops, TxTakesMsg, TxTick, TxFails, TxCloses,
              TxTakesData, TxGoes, CloseSocket
<1>5. CASE TxWritten
  BY <1>5 DEF TxWritten, TxGoes
<1>6. ASSUME NEW t \in Senders, SendCalled(t) \/ Send(t) PROVE ConnInv'
  <2>1. CASE SendCalled(t) \/ SendCounts(t)
    BY <2>1 DEF SendCalled, SendCounts, SendGoes
  <2>2. CASE SendLooks(t)
    BY <2>2 DEF SendLooks, LooksAgain, SendGoes
  <2>3. CASE SendPuts(t)
    BY <2>3 DEF SendPuts, SendGoes
  <2>4. CASE SendReturns(t)
    BY <2>4 DEF SendReturns, SendGoes
  <2> QED
    BY <1>6, <2>1, <2>2, <2>3, <2>4 DEF Send
<1>7. CASE Stop
  BY <1>7 DEF Stop
<1>8. CASE PeerGoes
  BY <1>8 DEF PeerGoes
<1>9. CASE UNCHANGED connVars
  BY <1>9
<1> QED
  BY <1>1, <1>2, <1>3, <1>4, <1>5, <1>6, <1>7, <1>8, <1>9 DEF ConnNext

LEMMA ConnCorrect == ConnSpec => []ConnInv
<1>1. ConnInit => ConnInv
  BY DEF ConnInit, ConnInv, CountIsRight, CloseIsLate, NoLateSender, CloseOrder,
         NeverPanics
<1> QED
  BY <1>1, ConnInvStep, ConnTypeCorrect, PTL DEF ConnSpec

(* Send never panics: msgch is closed only when no Send is about to use it  *)
(* (NeverPanics; Run and Send of jtt808msgconnhdlr.go).                     *)
THEOREM SendIsSafe == ConnSpec => []NeverPanics
<1>1. ConnInv => NeverPanics
  BY DEF ConnInv
<1> QED
  BY <1>1, ConnCorrect, PTL

(* Run returns only after the socket is closed, the transmitter has ended   *)
(* and stopped is set (ReturnsClean).                                       *)
THEOREM RunLeavesNothing == ConnSpec => []ReturnsClean
<1>1. ConnInv => ReturnsClean
  BY DEF ConnInv, CloseIsLate, CloseOrder, ReturnsClean
<1> QED
  BY <1>1, ConnCorrect, PTL

(* The connection keeps its promise to the server (KeepsLife): stopped is   *)
(* never reset, and Run returns once, after it was set and when the         *)
(* transmitter, which has ended, is in no write.                            *)
THEOREM KeepsItsPromise == ConnSpec => KeepsLife
<1> DEFINE Asked   == IF stopped THEN {"conn"} ELSE {}
           Over    == IF rx = "returned" THEN {"conn"} ELSE {}
           Writing == IF tx = "write" THEN {"conn"} ELSE {}
<1>1. ConnInit => Life!LifeInit
  BY DEF ConnInit, Life!LifeInit
<1>2. ASSUME ConnInv, [ConnNext]_connVars
      PROVE  [Life!LifeNext]_<<Asked, Over, Writing>>
  <2>1. CASE RunReturns
    <3>1. /\ stopped /\ rx # "returned" /\ rx' = "returned"
          /\ stopped' = stopped /\ tx = "done" /\ tx' = tx
      BY <2>1, <1>2 DEF RunReturns, ConnInv, CloseIsLate
    <3>2. Life!Returns("conn")
      BY <3>1 DEF Life!Returns
    <3> QED
      BY <3>2 DEF Life!LifeNext
  <2>2. CASE RunStops \/ Stop
    <3>1. stopped' = TRUE /\ (rx' = "returned") = (rx = "returned") /\ tx' = tx
      BY <2>2 DEF RunStops, Stops, Stop
    <3>2. Asked' = Asked \cup {"conn"} /\ Over' = Over /\ Writing' = Writing
      BY <3>1
    <3>3. Life!Ask({"conn"})
      BY <3>2 DEF Life!Ask
    <3> QED
      BY <3>3 DEF Life!LifeNext
  <2>3. CASE TxTakesData("write") \/ TxWritten \/ TxFails
    <3>1. /\ stopped' = stopped /\ rx' = rx /\ rx # "returned"
          /\ (tx # "write" /\ tx' = "write") \/ (tx = "write" /\ tx' # "write")
      BY <2>3, <1>2 DEF TxTakesData, TxWritten, TxFails, TxGoes, ConnInv, CloseOrder
    <3>2. CASE tx # "write" /\ tx' = "write"
      <4>1. Life!WriteBegins("conn")
        BY <3>1, <3>2 DEF Life!WriteBegins
      <4> QED
        BY <4>1 DEF Life!LifeNext
    <3>3. CASE tx = "write" /\ tx' # "write"
      <4>1. Life!WriteEnds("conn")
        BY <3>1, <3>3 DEF Life!WriteEnds
      <4> QED
        BY <4>1 DEF Life!LifeNext
    <3> QED
      BY <3>1, <3>2, <3>3
  <2>4. CASE /\ [ConnNext]_connVars /\ ~RunReturns /\ ~RunStops /\ ~Stop
             /\ ~TxTakesData("write") /\ ~TxWritten /\ ~TxFails
    <3>1. /\ stopped' = stopped /\ (rx' = "returned") = (rx = "returned")
          /\ (tx' = "write") = (tx = "write")
      BY <2>4 DEF ConnNext, Run, RunTX, Send, connVars, msgVars, sendVars, RxLoop, RxFails,
         RxInsert, RxRecheck, RunCloses, RxFull, RxRead, RxAfter, TxLoop, TxLoops, TxGoes,
         TxTakesMsg, TxTick, TxCloses, TxTakesData, SendCalled,
         SendCounts, SendLooks, SendPuts, SendReturns, PeerGoes
    <3>2. Asked' = Asked /\ Over' = Over /\ Writing' = Writing
      BY <3>1
    <3> QED
      BY <3>2
  <2> QED
    BY <1>2, <2>1, <2>2, <2>3, <2>4
<1> QED
  BY <1>1, <1>2, ConnCorrect, PTL DEF ConnSpec, KeepsLife, Life!LifeSpec

HIDE DEF connVars, sendVars, msgVars

-----------------------------------------------------------------------------
(* The server.                                                              *)
(* A running connection is filed under its id, unless another had that id.  *)
Filed == \A c \in Conns :
  hpc[c] = "running" /\ ~Shared(c) => activetcpconn[IdOf[c]] = c

(* The clean-up begins when nobody is accepted any more.                    *)
CleanupIsLast == mgr \in {"look", "sweep", "told"} => lpc = "ended"

(* Whoever has registered a channel has been accepted.                      *)
ServedExist == \A ch \in Channels : \A c \in served[ch] : hpc[c] # "none"

ServerInv ==
  TypeOK /\ Filed /\ CleanupIsLast /\ ServedExist /\ RegisteredIsReached

USE MsgServerAssumption

(* The state keeps to its type: entries of activetcpconn are filed under    *)
(* their own ids, and Run of no connection returns without having been      *)
(* asked to stop (TypeOK).                                                  *)
THEOREM ServerTypeCorrect == Spec => []TypeOK
<1>1. Init => TypeOK
  BY DEF Init, LifeInit, TypeOK
<1>2. ASSUME TypeOK, [Next]_srvVars
      PROVE  TypeOK'
  <2> USE DEF TypeOK, lifeVars, threadVars, chanVars, srvVars
  <2>1. CASE Start \/ StopServer \/ Manager
    <3>1. CASE Start \/ StopServer
      BY <1>2, <3>1 DEF Start, StopServer, SwapToStop
    <3>2. CASE MgrStops \/ MgrJoins \/ MgrLooks
      BY <1>2, <3>2 DEF MgrStops, MgrJoins, MgrLooks, SwapToStop
    <3>3. CASE MgrSweeps
      BY <1>2, <3>3 DEF MgrSweeps, Ask, ToStop, Registered
    <3> QED
      BY <2>1, <3>1, <3>2, <3>3 DEF Manager
  <2>2. CASE Listener \/ Bound("listen") \/ AcceptFails
    BY <1>2, <2>2 DEF Listener, Attempt, Bound, AcceptLoop, AcceptTimesOut, Reset, Tell,
                 AcceptFails, LGoes, SwapToStop
  <2>3. ASSUME NEW c \in Conns,
               Accept(c) \/ Handler(c) \/ RunEnds(c) \/ Writes(c) \/ ConnReturns(c)
        PROVE  TypeOK'
    <3>1. CASE Accept(c)
      BY <1>2, <3>1 DEF Accept, LGoes
    <3>2. CASE Register(c)
      BY <1>2, <3>2 DEF Register
    <3>3. CASE ConnReturns(c) \/ RunEnds(c)
      BY <1>2, <3>3 DEF ConnReturns, Returns, RunEnds, Ask
    <3>5. CASE Writes(c)
      BY <1>2, <3>5 DEF Writes, WriteBegins, WriteEnds
    <3>4. CASE Deregister(c)
      BY <1>2, <3>4 DEF Deregister
    <3> QED
      BY <2>3, <3>1, <3>2, <3>3, <3>4, <3>5 DEF Handler
  <2>4. ASSUME NEW ch \in Channels, NEW c \in Conns,
               RegisterChannel(ch, c) \/ UnregisterChannel(ch, c)
        PROVE  TypeOK'
    <3>1. CASE RegisterChannel(ch, c)
      BY <1>2, <3>1 DEF RegisterChannel, Ask
    <3>2. CASE UnregisterChannel(ch, c)
      BY <1>2, <3>2 DEF UnregisterChannel
    <3> QED
      BY <2>4, <3>1, <3>2
  <2>5. CASE UNCHANGED srvVars
    BY <1>2, <2>5
  <2> QED
    BY <1>2, <2>1, <2>2, <2>3, <2>4, <2>5 DEF Next
<1> QED
  BY <1>1, <1>2, PTL DEF Spec

(* Only the listener's goroutine, the managers and the handlers of          *)
(* connections move what Filed and CleanupIsLast speak of.                  *)
LEMMA FiledStep ==
  ASSUME TypeOK, Filed, CleanupIsLast, [Next]_srvVars
  PROVE  Filed' /\ CleanupIsLast'
<1> USE DEF TypeOK, Filed, CleanupIsLast, Shared, lifeVars, threadVars, chanVars, srvVars
<1>1. CASE Start \/ StopServer
  BY <1>1 DEF Start, StopServer
<1>2. CASE Manager
  BY <1>2 DEF Manager, MgrStops, MgrJoins, AcceptedLast, MgrLooks, MgrSweeps, Ask
<1>3. CASE Listener \/ Bound("listen") \/ AcceptFails
  BY <1>3 DEF Listener, Attempt, Bound, AcceptLoop, AcceptTimesOut, Reset, Tell,
              AcceptFails, LGoes
<1>4. ASSUME NEW c \in Conns, Accept(c) PROVE Filed' /\ CleanupIsLast'
  BY <1>4 DEF Accept, LGoes
<1>5. ASSUME NEW c \in Conns, Register(c) PROVE Filed' /\ CleanupIsLast'
  <2>1. ASSUME NEW d \in Conns, hpc'[d] = "running", ~Shared(d)'
        PROVE  activetcpconn'[IdOf[d]] = d
    <3>1. CASE d = c
      BY <1>5, <3>1 DEF Register
    <3>2. CASE d # c
      <4>1. IdOf[d] # IdOf[c]
        BY <1>5, <2>1, <3>2 DEF Register
      <4> QED
        BY <1>5, <2>1, <3>2, <4>1 DEF Register
    <3> QED
      BY <3>1, <3>2
  <2> QED
    BY <1>5, <2>1 DEF Register
<1>6. ASSUME NEW c \in Conns, ConnReturns(c) \/ RunEnds(c) \/ Writes(c)
      PROVE  Filed' /\ CleanupIsLast'
  BY <1>6 DEF ConnReturns, RunEnds, Writes, Returns, Ask
<1>7. ASSUME NEW c \in Conns, Deregister(c) PROVE Filed' /\ CleanupIsLast'
  <2>1. ASSUME NEW d \in Conns, hpc'[d] = "running", ~Shared(d)'
        PROVE  activetcpconn'[IdOf[d]] = d
    <3>1. d # c /\ hpc[d] = "running" /\ hpc'[c] = "done"
      BY <1>7, <2>1 DEF Deregister
    <3>2. IdOf[d] # IdOf[c] /\ ~Shared(d)
      BY <1>7, <2>1, <3>1 DEF Deregister
    <3> QED
      BY <1>7, <3>1, <3>2 DEF Deregister
  <2> QED
    BY <1>7, <2>1 DEF Deregister
<1>8. ASSUME NEW ch \in Channels, NEW c \in Conns,
             RegisterChannel(ch, c) \/ UnregisterChannel(ch, c)
      PROVE  Filed' /\ CleanupIsLast'
  BY <1>8 DEF RegisterChannel, UnregisterChannel
<1>9. CASE UNCHANGED srvVars
  BY <1>9
<1> QED
  BY <1>1, <1>2, <1>3, <1>4, <1>5, <1>6, <1>7, <1>8, <1>9 DEF Next, Handler

(* The channel side.  asked only grows, and hpc never comes back to "none". *)
LEMMA ServedStep ==
  ASSUME TypeOK, ServedExist, RegisteredIsReached, [Next]_srvVars
  PROVE  ServedExist' /\ RegisteredIsReached'
<1> USE DEF TypeOK, ServedExist, RegisteredIsReached, TX, Shared
<1>1. ASSUME NEW ch \in Channels, NEW c \in Conns, RegisterChannel(ch, c)
      PROVE  ServedExist' /\ RegisteredIsReached'
  <2>1. hpc[c] = "running" /\ hpc' = hpc
    BY <1>1 DEF RegisterChannel
  <2>2. ServedExist'
    BY <1>1, <2>1 DEF RegisterChannel
  <2>3. ASSUME NEW h \in Channels, NEW d \in served'[h] \ asked'
        PROVE  TX(h, d)' \/ Shared(d)'
    <3>1. CASE h # ch \/ d = c
      BY <1>1, <2>1, <2>3, <3>1 DEF RegisterChannel, Ask
    <3>2. CASE h = ch /\ d # c
      <4>1. d \in served[ch] \ asked /\ channelmap[ch] # d
        BY <1>1, <2>3, <3>2 DEF RegisterChannel, Ask
      <4> QED
        BY <2>1, <4>1
    <3> QED
      BY <3>1, <3>2
  <2> QED
    BY <2>2, <2>3
<1>2. ASSUME NEW ch \in Channels, NEW c \in Conns, UnregisterChannel(ch, c)
      PROVE  ServedExist' /\ RegisteredIsReached'
  <2>1. c \in served[ch] /\ hpc[c] # "none" /\ hpc' = hpc /\ asked' = asked
    BY <1>2 DEF UnregisterChannel, lifeVars
  <2>2. ServedExist'
    BY <1>2, <2>1 DEF UnregisterChannel
  <2>3. ASSUME NEW h \in Channels, NEW d \in served'[h] \ asked'
        PROVE  TX(h, d)' \/ Shared(d)'
    <3>1. d \in served[h] \ asked /\ (h = ch => d # c)
      BY <1>2, <2>1, <2>3 DEF UnregisterChannel
    <3>2. CASE h # ch \/ ~Owns(ch, c)
      BY <1>2, <2>1, <3>1, <3>2 DEF UnregisterChannel
    <3>3. CASE h = ch /\ Owns(ch, c)
      BY <2>1, <3>1, <3>3 DEF Owns
    <3> QED
      BY <3>2, <3>3
  <2> QED
    BY <2>2, <2>3
<1>3. CASE UNCHANGED <<channelmap, served>>
  <2>1. asked \subseteq asked' /\ \A c \in Conns : hpc[c] # "none" => hpc'[c] # "none"
    BY <1>3 DEF Next, srvVars, lifeVars, threadVars, chanVars, Start, StopServer,
       Manager, MgrStops, MgrJoins, MgrLooks, MgrSweeps, Ask, Listener, Attempt, Bound,
       AcceptLoop, AcceptTimesOut, Reset, Tell, AcceptFails, Accept, Handler, Register,
       ConnReturns, Returns, Writes, WriteBegins, WriteEnds, Deregister, RunEnds,
       RegisterChannel, UnregisterChannel
  <2> QED
    BY <1>3, <2>1
<1> QED
  BY <1>1, <1>2, <1>3 DEF Next, srvVars, chanVars, Start, StopServer, Manager, MgrStops,
     MgrJoins, MgrLooks, MgrSweeps, Listener, Attempt, Bound, AcceptLoop,
     AcceptTimesOut, Reset, Tell, AcceptFails, Accept, Handler, Register, ConnReturns,
     Deregister, Writes, RunEnds

LEMMA ServerCorrect == Spec => []ServerInv
<1>1. Init => Filed /\ CleanupIsLast /\ ServedExist /\ RegisteredIsReached
  BY DEF Init, Filed, CleanupIsLast, ServedExist, RegisteredIsReached
<1> QED
  BY <1>1, FiledStep, ServedStep, ServerTypeCorrect, PTL DEF Spec, ServerInv

(* When the manager calls Stopped, every connection that was registered has *)
(* returned from Run unless another had its id, and the listener has ended  *)
(* (EveryoneStopped; Start and cleanupconnections).                         *)
THEOREM CleanupStopsEveryone == Spec => EveryoneStopped
<1>1. ASSUME ServerInv, [Next]_srvVars, mgr' = "told", mgr # "told"
      PROVE  /\ lpc = "ended"
             /\ \A c \in Conns : hpc[c] = "running" => Shared(c)
  <2>1. mgr = "look" /\ Registered = {}
    BY <1>1 DEF Next, Start, StopServer, Manager, MgrStops, MgrJoins, MgrLooks,
       MgrSweeps, Listener, Attempt, Bound, AcceptLoop, AcceptTimesOut, Reset, Tell,
       AcceptFails, Accept, Handler, Register, ConnReturns, Writes, Deregister, RunEnds,
       RegisterChannel, UnregisterChannel, srvVars, threadVars
  <2> QED
    BY <1>1, <2>1 DEF ServerInv, Filed, CleanupIsLast, Registered
<1> QED
  BY <1>1, ServerCorrect, PTL DEF Spec, EveryoneStopped

(* TX on a channel reaches the connection that registered it, unless that   *)
(* one is asked to stop or shares its id (RegisteredIsReached;              *)
(* RegisterChannel and UnregisterChannel).                                  *)
THEOREM ChannelsReach == Spec => []RegisteredIsReached
<1>1. ServerInv => RegisteredIsReached
  BY DEF ServerInv
<1> QED
  BY <1>1, ServerCorrect, PTL
=============================================================================
