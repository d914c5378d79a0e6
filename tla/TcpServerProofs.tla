--------------------------- MODULE TcpServerProofs ---------------------------
(***************************************************************************)
(* Theorems about TcpServer: for any connections, terminals, messages and  *)
(* capacities, its type (the channels keep to their capacities), that no   *)
(* connection is left behind in the tables, and the order of the answers.  *)
(***************************************************************************)
EXTENDS TcpServer, TLAPS

USE TcpAssumption DEF procVars, connVars, recvVars, chanVars, termVars, workVars, vars

(* A connection that has been closed is; NothingLeaks needs it.             *)
ClosedIsClosed ==
  \A c \in Clients : hpc[c] \in {"delete", "disconnect", "done"} => sock[c] = "closed"

(* Offer never fills a channel past its capacity.                           *)
LEMMA OfferFits ==
  ASSUME NEW S, NEW chan \in Seq(S), NEW cap \in Nat, Len(chan) <= cap, NEW item \in S
  PROVE  Offer(chan, cap, item) \in Seq(S) /\ Len(Offer(chan, cap, item)) <= cap
BY DEF Offer

(* Receiving from a channel.                                                *)
LEMMA TailFits ==
  ASSUME NEW S, NEW chan \in Seq(S), chan # <<>>
  PROVE  /\ Tail(chan) \in Seq(S) /\ Len(Tail(chan)) = Len(chan) - 1
         /\ Len(chan) # 1 => Tail(chan) # <<>>
         /\ Head(chan) \in S /\ Len(chan) > 0
<1>1. /\ Tail(chan) \in Seq(S) /\ Len(Tail(chan)) = Len(chan) - 1
      /\ Head(chan) \in S /\ Len(chan) > 0
  OBVIOUS
<1> DEFINE t == Tail(chan)
<1>2. t \in Seq(S) /\ Len(t) = Len(chan) - 1 /\ Len(chan) \in Nat
  BY <1>1
<1> HIDE DEF t
<1>3. Len(chan) # 1 => Len(t) # 0
  BY <1>2
<1>4. Len(t) # 0 => t # <<>>
  BY <1>2
<1> QED
  BY <1>1, <1>3, <1>4 DEF t

(* What HandleMessage returns.                                              *)
HandledOK(h) ==
  h.result \in Results /\ h.authed \subseteq Phones /\ h.registered \subseteq Phones

LEMMA Handled ==
  ASSUME NEW m \in Message, authed \subseteq Phones, registered \subseteq Phones
  PROVE  HandledOK(HandleMessage(m))
<1>1. m.phone \in Phones /\ m.body.kind \in Kinds
  BY DEF Message, AnyBody
<1>2. \A r \in Results, A \in SUBSET Phones, R \in SUBSET Phones : HandledOK(Reply(r, A, R))
  BY DEF Reply, HandledOK
<1>3. \A r \in Results : HandledOK(Replies(r))
  BY <1>2 DEF Replies
<1>4. HandledOK(handleTerminalRegister(m))
  BY <1>1, <1>2, <1>3 DEF handleTerminalRegister, Results
<1>5. HandledOK(handleTerminalAuth(m))
  BY <1>1, <1>2, <1>3 DEF handleTerminalAuth, Results
<1>6. HandledOK(handleTerminalHeartbeat(m))
  BY <1>3 DEF handleTerminalHeartbeat, Results
<1>7. HandledOK(handleLocationReport(m)) /\ HandledOK(handleLocationBatchReport(m))
  BY <1>3 DEF handleLocationReport, handleLocationBatchReport, IfValid, Results
<1>8. HandledOK(handleTerminalLogout(m))
  BY <1>2 DEF handleTerminalLogout, Results
<1>9. HandledOK(Replies("not_supported"))
  BY <1>3 DEF Results
<1> QED
  BY <1>1, <1>4, <1>5, <1>6, <1>7, <1>8, <1>9 DEF HandleMessage, Kinds

-----------------------------------------------------------------------------
(* Where everybody is.                                                      *)
LEMMA PlacesStep ==
  ASSUME PlacesOK, [Next]_vars
  PROVE  PlacesOK'
<1> USE DEF PlacesOK
<1>1. CASE MainStep \/ ListenFails \/ Signal
  BY <1>1 DEF MainStep, StartHandler, Listen, StartSecond, CloseRx, CloseTx, FlagServer,
     Unlisten, Cleared, Exit, ClearOne, ListenFails, Signal
<1>2. CASE AcceptStep \/ \E c \in Clients : Accept(c) \/ ReadData(c)
  BY <1>2 DEF AcceptStep, AcceptLoop, AcceptFails, Add, Connect, Accept, ReadData
<1>3. CASE \E c \in Clients : HandlerStep(c)
  BY <1>3 DEF HandlerStep, HandlerLoop, ReadFails, ParseSome, Parse, Deliver, Put, Panic,
     CloseConn, Delete, Disconnect
<1>4. CASE RxStep
  BY <1>4 DEF RxStep, TakeRx, SendLooks, SendPuts, Panic, RxEnds
<1>5. CASE TxStep \/ TakeSecond \/ SecondEnds
  BY <1>5 DEF TxStep, TakeTx, DirectLooks, Written, WriteFails, TxEnds, TakeSecond,
     SecondEnds
<1>6. CASE UNCHANGED vars
  BY <1>6
<1> QED
  BY <1>1, <1>2, <1>3, <1>4, <1>5, <1>6 DEF Next

(* Only main moves the flags.                                               *)
LEMMA FlagsStep ==
  ASSUME FlagsOK, [Next]_vars
  PROVE  FlagsOK'
<1> DEFINE same == UNCHANGED <<hRunning, sRunning, listening, rxOpen, txOpen>>
<1>1. CASE StartHandler \/ Listen
  BY <1>1, Zenon DEF StartHandler, Listen, FlagsOK
<1>2. CASE Signal \/ CloseRx \/ CloseTx
  BY <1>2, Zenon DEF Signal, CloseRx, CloseTx, FlagsOK
<1>3. CASE FlagServer \/ Unlisten
  BY <1>3, Zenon DEF FlagServer, Unlisten, FlagsOK
<1>4. CASE StartSecond \/ Cleared \/ Exit \/ ListenFails \/ \E c \in Clients : ClearOne(c)
  <2>1. same
    BY <1>4 DEF StartSecond, Cleared, Exit, ListenFails, ClearOne
  <2> QED
    BY <2>1 DEF FlagsOK
<1>5. CASE AcceptStep \/ \E c \in Clients : Accept(c) \/ ReadData(c)
  <2>1. same
    BY <1>5 DEF AcceptStep, AcceptLoop, AcceptFails, Add, Connect, Accept, ReadData
  <2> QED
    BY <2>1 DEF FlagsOK
<1>6. CASE \E c \in Clients : HandlerStep(c)
  <2>1. same
    BY <1>6 DEF HandlerStep, HandlerLoop, ReadFails, ParseSome, Parse, Deliver, Put, Panic,
       CloseConn, Delete, Disconnect
  <2> QED
    BY <2>1 DEF FlagsOK
<1>7. CASE RxStep \/ TxStep \/ TakeSecond \/ SecondEnds \/ UNCHANGED vars
  <2>1. same
    BY <1>7 DEF RxStep, TakeRx, SendLooks, SendPuts, Panic, RxEnds, TxStep, TakeTx,
       DirectLooks, Written, WriteFails, TxEnds, TakeSecond, SecondEnds
  <2> QED
    BY <2>1 DEF FlagsOK
<1> QED
  BY <1>1, <1>2, <1>3, <1>4, <1>5, <1>6, <1>7 DEF Next, MainStep

(* The connections.  A batch is in hand while its messages are delivered.   *)
ConnsInv == ConnsOK /\ NothingLeaks /\ ClosedIsClosed

LEMMA ConnsStep ==
  ASSUME ConnsInv, [Next]_vars
  PROVE  ConnsInv'
<1> USE DEF ConnsInv, ConnsOK, NothingLeaks, ClosedIsClosed, Goes
<1>1. CASE MainStep \/ ListenFails \/ Signal
  BY <1>1 DEF MainStep, StartHandler, Listen, StartSecond, CloseRx, CloseTx, FlagServer,
     Unlisten, Cleared, Exit, ClearOne, ListenFails, Signal
<1>2. CASE AcceptLoop \/ AcceptFails
  BY <1>2 DEF AcceptLoop, AcceptFails
<1>3. ASSUME NEW c \in Clients, Add(c) \/ Connect(c) \/ Accept(c)
      PROVE  ConnsInv'
  BY <1>3 DEF Add, Connect, Accept
<1>4. ASSUME NEW c \in Clients, HandlerLoop(c) \/ ReadData(c) \/ ReadFails(c)
      PROVE  ConnsInv'
  BY <1>4 DEF HandlerLoop, ReadData, ReadFails
<1>5. ASSUME NEW c \in Clients, NEW n \in 0..MaxBatch,
             NEW phone \in [1..n -> Phones], NEW body \in [1..n -> Bodies],
             Parse(c, n, phone, body)
      PROVE  ConnsInv'
  <2> DEFINE msgs == [i \in 1..n |-> [client |-> c, phone |-> phone[i],
                                      serial |-> sent[c] + i, body |-> body[i]]]
  <2>1. sent[c] \in Nat /\ n \in Nat
    BY DEF TcpAssumption
  <2>2. \A i \in 1..n : msgs[i] \in Message
    BY <2>1 DEF Message
  <2>3. msgs \in Seq(Message) /\ Len(msgs) = n
    BY <2>1, <2>2
  <2>4. batch' = [batch EXCEPT ![c] = msgs] /\ sent' = [sent EXCEPT ![c] = @ + n]
    BY <1>5 DEF Parse
  <2> HIDE DEF msgs
  <2>5. batch' \in [Clients -> Seq(Message)] /\ batch'[c] = msgs
    BY <2>3, <2>4
  <2>6. n # 0 => batch'[c] # <<>>
    BY <2>3, <2>5
  <2>7. sent' \in [Clients -> Nat] /\ \A d \in Clients : sent'[d] <= MaxSent[d]
    BY <1>5, <2>1, <2>4 DEF Parse
  <2> QED
    BY <1>5, <2>4, <2>5, <2>6, <2>7 DEF Parse
<1>6. ASSUME NEW c \in Clients, Deliver(c) \/ Put(c)
      PROVE  ConnsInv'
  <2>1. batch[c] \in Seq(Message) /\ batch[c] # <<>>
    BY <1>6 DEF Deliver, Put
  <2>2. Tail(batch[c]) \in Seq(Message) /\ (Len(batch[c]) # 1 => Tail(batch[c]) # <<>>)
    BY <2>1, TailFits
  <2>3. UNCHANGED <<clients, parsers, sock, sent>>
    BY <1>6 DEF Deliver, Put
  <2>4. CASE NextInBatch(c)
    BY <2>1, <2>2, <2>3, <2>4 DEF NextInBatch
  <2>5. CASE UNCHANGED batch /\ (Goes(c, "put") \/ UNCHANGED hpc)
    BY <1>6, <2>1, <2>3, <2>5 DEF Deliver
  <2> QED
    BY <1>6, <2>4, <2>5 DEF Deliver, Put
<1>7. ASSUME NEW c \in Clients, CloseConn(c) \/ Delete(c) \/ Disconnect(c)
      PROVE  ConnsInv'
  BY <1>7 DEF CloseConn, Delete, Disconnect, Forgets
<1>8. CASE RxStep \/ TxStep \/ TakeSecond \/ SecondEnds
  BY <1>8 DEF RxStep, TakeRx, SendLooks, SendPuts, RxEnds, TxStep, TakeTx,
     DirectLooks, Written, WriteFails, TxEnds, TakeSecond, SecondEnds
<1>9. CASE UNCHANGED vars
  BY <1>9
<1> QED
  BY <1>1, <1>2, <1>3, <1>4, <1>5, <1>6, <1>7, <1>8, <1>9
  DEF Next, AcceptStep, HandlerStep, ParseSome

(* The channels, the answers and the tables of the terminals.  To know what *)
(* ProcessMessage puts it needs the batches.                                *)
LEMMA PipeStep ==
  ASSUME PipeOK, ConnsOK, [Next]_vars
  PROVE  PipeOK'
<1> USE DEF PipeOK
<1>1. CASE MainStep \/ ListenFails \/ Signal
  <2> HIDE DEF PipeOK
  <2>1. UNCHANGED <<rxChan, txChan, inHand, outHand, authed, registered, last>>
        /\ (rpc' = rpc \/ rpc' = "range") /\ (tpc' = tpc \/ tpc' = "range")
    BY <1>1 DEF MainStep, StartHandler, Listen, StartSecond, CloseRx, CloseTx, FlagServer,
       Unlisten, Cleared, Exit, ClearOne, ListenFails, Signal
  <2> QED
    BY <2>1 DEF PipeOK
<1>2. CASE AcceptStep \/ \E c \in Clients : Accept(c) \/ ReadData(c)
  BY <1>2 DEF AcceptStep, AcceptLoop, AcceptFails, Add, Connect, Accept, ReadData
<1>3. ASSUME NEW c \in Clients, HandlerStep(c), ~Put(c)
      PROVE  PipeOK'
  BY <1>3 DEF HandlerStep, HandlerLoop, ReadFails, ParseSome, Parse, Deliver,
     CloseConn, Delete, Disconnect
<1>4. ASSUME NEW c \in Clients, Put(c)
      PROVE  PipeOK'
  <2>1. Head(batch[c]) \in Message
    BY <1>4, TailFits DEF Put, ConnsOK
  <2>2. rxChan' \in Seq(Message) /\ Len(rxChan') <= RxCap
    BY <1>4, <2>1, OfferFits DEF Put, TcpAssumption
  <2> QED
    BY <1>4, <2>2 DEF Put
<1>5. CASE TakeRx
  <2> DEFINE m == Head(rxChan)
  <2>1. m \in Message /\ Tail(rxChan) \in Seq(Message) /\ Len(Tail(rxChan)) <= RxCap
    BY <1>5, TailFits DEF TakeRx, TcpAssumption
  <2>2. HandledOK(HandleMessage(m))
    BY <2>1, Handled
  <2>3. /\ authed' = HandleMessage(m).authed /\ registered' = HandleMessage(m).registered
        /\ inHand' = [client |-> m.client, serial |-> m.serial, of |-> m.body.kind,
                      result |-> HandleMessage(m).result]
        /\ rxChan' = Tail(rxChan) /\ UNCHANGED <<txChan, outHand, last, tpc>>
    BY <1>5 DEF TakeRx
  <2> HIDE DEF m
  <2>4. inHand' \in Answer
    BY <2>1, <2>2, <2>3 DEF Message, AnyBody, Answer, HandledOK
  <2> QED
    BY <2>1, <2>2, <2>3, <2>4 DEF HandledOK
<1>6. CASE SendLooks \/ RxEnds
  BY <1>6 DEF SendLooks, RxEnds
<1>7. CASE SendPuts
  <2>1. txChan' \in Seq(Answer) /\ Len(txChan') <= TxCap
    BY <1>7, OfferFits DEF SendPuts, TcpAssumption
  <2> QED
    BY <1>7, <2>1 DEF SendPuts
<1>8. CASE TakeSecond
  BY <1>8, TailFits DEF TakeSecond, SecondLogs, TcpAssumption
<1>9. CASE TakeTx
  BY <1>9, TailFits DEF TakeTx, TcpAssumption
<1>12. CASE DirectLooks
  BY <1>12 DEF DirectLooks
<1>10. CASE Written \/ WriteFails
  BY <1>10 DEF Written, WriteFails
<1>11. CASE TxEnds \/ SecondEnds \/ UNCHANGED vars
  BY <1>11 DEF TxEnds, SecondEnds
<1> QED
  BY <1>1, <1>2, <1>3, <1>4, <1>5, <1>6, <1>7, <1>8, <1>9, <1>10, <1>11, <1>12
  DEF Next, RxStep, TxStep

-----------------------------------------------------------------------------
LEMMA TcpCorrect == Spec => [](PlacesOK /\ FlagsOK /\ PipeOK /\ ConnsInv)
<1>1. Init => PlacesOK /\ FlagsOK /\ PipeOK /\ ConnsInv
  <2>1. Init => PlacesOK
    BY DEF Init, PlacesOK
  <2>2. Init => FlagsOK
    BY Zenon DEF Init, FlagsOK
  <2>3. Init => PipeOK
    BY DEF Init, PipeOK, TcpAssumption
  <2>4. Init => ConnsInv
    BY DEF Init, ConnsInv, ConnsOK, NothingLeaks, ClosedIsClosed, TcpAssumption
  <2> QED
    BY <2>1, <2>2, <2>3, <2>4
<1>2. ConnsInv => ConnsOK
  BY DEF ConnsInv
<1> QED
  BY <1>1, <1>2, PlacesStep, FlagsStep, PipeStep, ConnsStep, PTL DEF Spec

(* The state keeps to its type: rxChan and txChan never hold more than they *)
(* can, whatever is offered to them (TypeOK; ProcessMessage, SendToClient). *)
THEOREM TcpTypeCorrect == Spec => []TypeOK
<1>1. PlacesOK /\ FlagsOK /\ PipeOK /\ ConnsInv => TypeOK
  BY DEF TypeOK, ConnsInv
<1> QED
  BY <1>1, TcpCorrect, PTL

(* Whoever is in clients or has a parser has a goroutine that will still    *)
(* come past the clean-up, and a connection whose goroutine has ended is    *)
(* closed (NothingLeaks; handleClient's deferred steps and server.Stop).    *)
THEOREM NobodyLeaks == Spec => []NothingLeaks
<1>1. ConnsInv => NothingLeaks
  BY DEF ConnsInv
<1> QED
  BY <1>1, TcpCorrect, PTL

-----------------------------------------------------------------------------
(* The order of the pipeline: what has been written to a connection comes   *)
(* before what processTx holds, that before what waits in txChan, before    *)
(* what processRx holds, before what waits in rxChan, before the batch.     *)
Before(m, n) == m.client = n.client => m.serial < n.serial

Ordered(chan)     == \A i, j \in 1..Len(chan) : i < j => Before(chan[i], chan[j])
AllBefore(chan, n) == \A i \in 1..Len(chan) : Before(chan[i], n)
AllAfter(m, chan)  == \A i \in 1..Len(chan) : Before(m, chan[i])

(* m has been parsed and is out of its batch; it has not been answered.     *)
Underway(m) ==
  /\ m.serial > last[m.client].serial
  /\ m.serial + Len(batch[m.client]) <= sent[m.client]

(* b holds messages of c, the last of which is number s.                    *)
EndsAt(b, c, s) ==
  /\ Len(b) <= s
  /\ \A i \in 1..Len(b) : b[i].client = c /\ b[i].serial + Len(b) = s + i

BatchesInOrder == \A c \in Clients : EndsAt(batch[c], c, sent[c])

LastInOrder ==
  \A c \in Clients :
    /\ last[c] # NoAnswer => last[c].client = c
    /\ last[c].serial + Len(batch[c]) <= sent[c]

RxInOrder ==
  /\ Ordered(rxChan)
  /\ \A i \in 1..Len(rxChan) : Underway(rxChan[i])

TxInOrder ==
  /\ Ordered(txChan)
  /\ \A i \in 1..Len(txChan) : Underway(txChan[i]) /\ AllAfter(txChan[i], rxChan)

InHandInOrder ==
  rpc \in {"send", "put"} =>
    Underway(inHand) /\ AllBefore(txChan, inHand) /\ AllAfter(inHand, rxChan)

OutHandInOrder ==
  tpc \in {"look", "write"} =>
    /\ Underway(outHand) /\ AllAfter(outHand, txChan) /\ AllAfter(outHand, rxChan)
    /\ rpc \in {"send", "put"} => Before(outHand, inHand)

OrderInv ==
  /\ BatchesInOrder /\ LastInOrder /\ RxInOrder /\ TxInOrder
  /\ InHandInOrder /\ OutHandInOrder

Holds(pc)  == pc \in {"send", "put"}
Writes(pc) == pc \in {"look", "write"}

(* How many messages of c have left its batches never decreases.            *)
Leaves == \A c \in Clients : sent[c] + Len(batch'[c]) <= sent'[c] + Len(batch[c])

LEMMA StillLow ==
  ASSUME NEW n \in Nat, NEW a \in Nat, NEW b \in Nat, NEW s \in Nat, NEW t \in Nat,
         n + a <= s, s + b <= t + a
  PROVE  n + b <= t
OBVIOUS

(* What is left of a batch when its first message has gone.                 *)
LEMMA TailOfBatch ==
  ASSUME NEW b \in Seq(Message), b # <<>>, NEW c, NEW s \in Nat, EndsAt(b, c, s)
  PROVE  EndsAt(Tail(b), c, s) /\ s + Len(Tail(b)) <= s + Len(b)
<1>1. /\ Len(Tail(b)) = Len(b) - 1 /\ Len(b) \in Nat /\ Len(b) > 0
      /\ \A i \in 1..(Len(b) - 1) : Tail(b)[i] = b[i + 1]
  OBVIOUS
<1>2. ASSUME NEW i \in 1..(Len(b) - 1)
      PROVE  b[i + 1].client = c /\ b[i + 1].serial + (Len(b) - 1) = s + i
  <2>1. i + 1 \in 1..Len(b) /\ i \in Nat
    BY <1>1
  <2>2. b[i + 1] \in Message
    BY <2>1
  <2>3. b[i + 1].client = c /\ b[i + 1].serial + Len(b) = s + (i + 1)
    BY <2>1 DEF EndsAt
  <2>4. \A k, n, x \in Nat : x + n = s + (k + 1) => x + (n - 1) = s + k
    OBVIOUS
  <2> QED
    BY ONLY <1>1, <2>1, <2>2, <2>3, <2>4 DEF Message
<1>3. Len(b) <= s
  BY DEF EndsAt
<1> DEFINE t == Tail(b)
<1> HIDE DEF t
<1> QED
  BY <1>1, <1>2, <1>3 DEF t, EndsAt

LEMMA BatchesStep ==
  ASSUME ConnsOK, ConnsOK', BatchesInOrder, [Next]_vars
  PROVE  BatchesInOrder' /\ Leaves
<1> DEFINE inOrder(c) ==
      EndsAt(batch'[c], c, sent'[c]) /\ sent[c] + Len(batch'[c]) <= sent'[c] + Len(batch[c])
<1> SUFFICES ASSUME NEW c \in Clients
             PROVE  inOrder(c)
  BY DEF BatchesInOrder, Leaves
<1>1. batch \in [Clients -> Seq(Message)] /\ sent \in [Clients -> Nat]
  BY DEF ConnsOK
<1>2. batch[c] \in Seq(Message) /\ sent[c] \in Nat /\ Len(batch[c]) \in Nat
  BY <1>1
<1>3. EndsAt(batch[c], c, sent[c])
  BY DEF BatchesInOrder
<1>4. CASE UNCHANGED <<batch[c], sent[c]>>
  BY <1>2, <1>3, <1>4
<1>5. ASSUME NEW n \in 0..MaxBatch, NEW phone \in [1..n -> Phones],
             NEW body \in [1..n -> Bodies], Parse(c, n, phone, body)
      PROVE  inOrder(c)
  <2> DEFINE msgs == [i \in 1..n |-> [client |-> c, phone |-> phone[i],
                                      serial |-> sent[c] + i, body |-> body[i]]]
  <2>1. n \in Nat
    BY DEF TcpAssumption
  <2>2. batch'[c] = msgs /\ sent'[c] = sent[c] + n
    BY <1>1, <1>5 DEF Parse
  <2>3. /\ Len(msgs) = n
        /\ \A i \in 1..n : msgs[i].client = c /\ msgs[i].serial = sent[c] + i
    BY <2>1
  <2> HIDE DEF msgs
  <2> QED
    BY <1>2, <2>1, <2>2, <2>3 DEF EndsAt
<1>6. CASE NextInBatch(c) /\ UNCHANGED sent /\ batch[c] # <<>>
  <2>1. batch'[c] = Tail(batch[c]) /\ sent'[c] = sent[c]
    BY <1>1, <1>6 DEF NextInBatch
  <2> QED
    BY <1>2, <1>3, <1>6, <2>1, TailOfBatch
<1>7. CASE \E d \in Clients : HandlerStep(d)
  <2> PICK d \in Clients : HandlerStep(d)
    BY <1>7
  <2>1. CASE d # c
    <3>1. UNCHANGED <<batch[c], sent[c]>>
      BY <2>1, <1>1 DEF HandlerStep, HandlerLoop, ReadFails, ParseSome, Parse, Deliver, Put,
         NextInBatch, CloseConn, Delete, Disconnect
    <3> QED
      BY <1>4, <3>1
  <2>2. CASE d = c /\ (Deliver(c) \/ Put(c))
    <3>1. UNCHANGED sent /\ batch[c] # <<>> /\ (NextInBatch(c) \/ UNCHANGED batch)
      BY <2>2 DEF Deliver, Put, ConnsOK
    <3> QED
      BY <3>1, <1>4, <1>6
  <2>3. CASE d = c /\ ~(Deliver(c) \/ Put(c) \/ ParseSome(c))
    <3>1. UNCHANGED <<batch, sent>>
      BY <2>3 DEF HandlerStep, HandlerLoop, ReadFails, CloseConn, Delete, Disconnect
    <3> QED
      BY <3>1, <1>4
  <2> QED
    BY <2>1, <2>2, <2>3, <1>5 DEF ParseSome
<1>8. CASE ~\E d \in Clients : HandlerStep(d)
  <2>1. CASE MainStep \/ ListenFails \/ Signal
    BY <2>1, <1>4 DEF MainStep, StartHandler, Listen, StartSecond, CloseRx, CloseTx,
       FlagServer, Unlisten, Cleared, Exit, ClearOne, ListenFails, Signal
  <2>2. CASE AcceptStep \/ \E d \in Clients : Accept(d) \/ ReadData(d)
    BY <2>2, <1>4 DEF AcceptStep, AcceptLoop, AcceptFails, Add, Connect, Accept, ReadData
  <2>3. CASE RxStep \/ TxStep \/ TakeSecond \/ SecondEnds
    BY <2>3, <1>4 DEF RxStep, TakeRx, SendLooks, SendPuts, RxEnds, TxStep, TakeTx,
       DirectLooks, Written, WriteFails, TxEnds, TakeSecond, SecondEnds
  <2>4. CASE UNCHANGED vars
    BY <2>4, <1>4
  <2> QED
    BY <1>8, <2>1, <2>2, <2>3, <2>4 DEF Next
<1> QED
  BY <1>7, <1>8

(* A message underway stays so while the batches shrink and nothing is      *)
(* written to its connection.                                               *)
LEMMA StaysUnderway ==
  ASSUME ConnsOK, ConnsOK', Leaves,
         NEW m, m.client \in Clients, m.serial \in Nat, Underway(m),
         last'[m.client].serial < m.serial
  PROVE  Underway(m)'
<1> DEFINE c == m.client
<1>1. Len(batch[c]) \in Nat /\ Len(batch'[c]) \in Nat /\ sent[c] \in Nat /\ sent'[c] \in Nat
  BY DEF ConnsOK
<1>2. sent[c] + Len(batch'[c]) <= sent'[c] + Len(batch[c])
  BY DEF Leaves
<1>3. m.serial + Len(batch[c]) <= sent[c]
  BY DEF Underway
<1> HIDE DEF c
<1>4. m.serial + Len(batch'[c]) <= sent'[c]
  BY <1>1, <1>2, <1>3, StillLow
<1> QED
  BY <1>4 DEF Underway, c

(* The answer written last to a connection precedes its batch as well.      *)
LEMMA LastStep ==
  ASSUME ConnsOK, ConnsOK', PipeOK, LastInOrder, Leaves, last' = last
  PROVE  LastInOrder'
<1> SUFFICES ASSUME NEW c \in Clients
             PROVE  last[c].serial + Len(batch'[c]) <= sent'[c]
  BY DEF LastInOrder
<1>1. Len(batch[c]) \in Nat /\ Len(batch'[c]) \in Nat /\ sent[c] \in Nat /\ sent'[c] \in Nat
  BY DEF ConnsOK
<1>2. last[c].serial \in Nat
  BY DEF PipeOK, Answer, NoAnswer
<1>3. sent[c] + Len(batch'[c]) <= sent'[c] + Len(batch[c])
  BY DEF Leaves
<1>4. last[c].serial + Len(batch[c]) <= sent[c]
  BY DEF LastInOrder
<1> QED
  BY <1>1, <1>2, <1>3, <1>4, StillLow

(* What is in the channels and in hand, by its type.                        *)
LEMMA Members ==
  ASSUME PipeOK
  PROVE  /\ \A i \in 1..Len(rxChan) : rxChan[i] \in Message
         /\ \A i \in 1..Len(txChan) : txChan[i] \in Answer
         /\ Holds(rpc) => inHand \in Answer
         /\ Writes(tpc) => outHand \in Answer
BY DEF PipeOK, Holds, Writes

(* Steps that touch neither channel nor last, and take nothing in hand.     *)
LEMMA StillInOrder ==
  ASSUME OrderInv, ConnsOK, ConnsOK', PipeOK, BatchesInOrder', Leaves,
         UNCHANGED <<rxChan, txChan, last>>,
         Holds(rpc') => Holds(rpc) /\ inHand' = inHand,
         Writes(tpc') => Writes(tpc) /\ outHand' = outHand
  PROVE  OrderInv'
<1> USE DEF OrderInv, Holds, Writes
<1>1. \A m \in Message \cup Answer : Underway(m) => Underway(m)'
  BY StaysUnderway DEF Message, Answer, Underway
<1>2. LastInOrder'
  BY LastStep
<1>3. RxInOrder'
  BY <1>1, Members DEF RxInOrder, Ordered
<1>4. TxInOrder'
  BY <1>1, Members DEF TxInOrder, Ordered, AllAfter
<1>5. InHandInOrder'
  BY <1>1, Members DEF InHandInOrder, AllAfter, AllBefore
<1>6. OutHandInOrder'
  BY <1>1, Members DEF OutHandInOrder, AllAfter, Before
<1> QED
  BY <1>2, <1>3, <1>4, <1>5, <1>6

(* What joins a channel after all that is in it.                            *)
LEMMA AppendKeepsOrder ==
  ASSUME NEW S, NEW chan \in Seq(S), NEW n \in S
  PROVE  /\ Ordered(chan) /\ AllBefore(chan, n) => Ordered(Append(chan, n))
         /\ \A m : AllAfter(m, chan) /\ Before(m, n) => AllAfter(m, Append(chan, n))
         /\ \A m : AllBefore(chan, m) /\ Before(n, m) => AllBefore(Append(chan, n), m)
<1> DEFINE new == Append(chan, n)
<1>1. /\ Len(new) = Len(chan) + 1 /\ Len(chan) \in Nat
      /\ new[Len(chan) + 1] = n
      /\ \A i \in 1..Len(chan) : new[i] = chan[i]
  OBVIOUS
<1> HIDE DEF new
<1>2. \A i \in 1..Len(new) : i \in 1..Len(chan) \/ i = Len(chan) + 1
  BY <1>1
<1>3. \A i, j \in 1..Len(new) : i < j => i \in 1..Len(chan)
  BY <1>1
<1>4. Ordered(chan) /\ AllBefore(chan, n) => Ordered(new)
  BY <1>1, <1>2, <1>3 DEF Ordered, AllBefore
<1>5. \A m : AllAfter(m, chan) /\ Before(m, n) => AllAfter(m, new)
  BY <1>1, <1>2 DEF AllAfter
<1>6. \A m : AllBefore(chan, m) /\ Before(n, m) => AllBefore(new, m)
  BY <1>1, <1>2 DEF AllBefore
<1> QED
  BY <1>4, <1>5, <1>6 DEF new

(* What is taken from a channel comes before all that stays.                *)
LEMMA TailKeepsOrder ==
  ASSUME NEW S, NEW chan \in Seq(S), chan # <<>>
  PROVE  /\ \A i \in 1..Len(Tail(chan)) : \E j \in 1..Len(chan) : Tail(chan)[i] = chan[j]
         /\ Ordered(chan) => Ordered(Tail(chan)) /\ AllAfter(Head(chan), Tail(chan))
         /\ \A m : AllAfter(m, chan) => AllAfter(m, Tail(chan)) /\ Before(m, Head(chan))
         /\ \A m : AllBefore(chan, m) => AllBefore(Tail(chan), m) /\ Before(Head(chan), m)
<1> DEFINE new == Tail(chan)
<1>1. /\ Len(new) = Len(chan) - 1 /\ Len(chan) \in Nat /\ Len(chan) > 0
      /\ Head(chan) = chan[1]
      /\ \A i \in 1..(Len(chan) - 1) : new[i] = chan[i + 1]
  OBVIOUS
<1> HIDE DEF new
<1>2. \A i \in 1..Len(new) : i \in Nat /\ i + 1 \in 1..Len(chan) /\ new[i] = chan[i + 1]
  BY <1>1
<1>3. 1 \in 1..Len(chan) /\ \A i \in 1..Len(new) : 1 < i + 1
  BY <1>1
<1>4. \A i, j \in 1..Len(new) : i < j => i + 1 < j + 1
  BY <1>1
<1>5. Ordered(chan) => Ordered(new)
  BY <1>2, <1>4 DEF Ordered
<1>6. Ordered(chan) => AllAfter(Head(chan), new)
  BY <1>1, <1>2, <1>3 DEF Ordered, AllAfter
<1>7. \A m : AllAfter(m, chan) => AllAfter(m, new) /\ Before(m, Head(chan))
  BY <1>1, <1>2, <1>3 DEF AllAfter
<1>8. \A m : AllBefore(chan, m) => AllBefore(new, m) /\ Before(Head(chan), m)
  BY <1>1, <1>2, <1>3 DEF AllBefore
<1> QED
  BY <1>2, <1>5, <1>6, <1>7, <1>8 DEF new

(* What holds of every step: where there are messages underway they stay,   *)
(* unless they are written.                                                 *)
Steady ==
  /\ \A m \in Message \cup Answer : Underway(m) => Underway(m)'
  /\ LastInOrder' /\ BatchesInOrder'

LEMMA SteadyStep ==
  ASSUME ConnsOK, ConnsOK', PipeOK, OrderInv, last' = last, [Next]_vars
  PROVE  Steady /\ Leaves
<1>1. BatchesInOrder' /\ Leaves
  BY BatchesStep DEF OrderInv
<1>2. LastInOrder'
  BY <1>1, LastStep DEF OrderInv
<1>3. \A m \in Message \cup Answer : Underway(m) => Underway(m)'
  BY <1>1, StaysUnderway DEF Message, Answer, Underway
<1> QED
  BY <1>1, <1>2, <1>3 DEF Steady

(* ProcessMessage: the next message of a batch joins rxChan.                *)
LEMMA PutInOrder ==
  ASSUME ConnsOK, ConnsOK', PipeOK, OrderInv, Steady, Leaves, NEW c \in Clients, Put(c)
  PROVE  OrderInv'
<1>1. UNCHANGED <<txChan, last, rpc, tpc, inHand, outHand>>
  BY DEF Put
<1>2. CASE rxChan' = rxChan
  BY <1>1, <1>2, StillInOrder DEF Steady
<1>3. CASE rxChan' = Append(rxChan, Head(batch[c])) /\ NextInBatch(c)
  <2>1. batch[c] \in Seq(Message) /\ batch[c] # <<>> /\ sent[c] \in Nat
    BY DEF Put, ConnsOK
  <2>2. batch'[c] = Tail(batch[c]) /\ sent'[c] = sent[c]
    BY <1>3 DEF Put, NextInBatch, ConnsOK
  <2> PICK h \in Message : h = Head(batch[c])
    BY <2>1
  <2>3. h.client = c /\ h.serial + Len(batch[c]) = sent[c] + 1
    <3>1. 1 \in 1..Len(batch[c]) /\ h = batch[c][1]
      BY <2>1
    <3>2. EndsAt(batch[c], c, sent[c])
      BY DEF OrderInv, BatchesInOrder
    <3> QED
      BY <3>1, <3>2 DEF EndsAt
  <2>4. Len(batch'[c]) = Len(batch[c]) - 1 /\ Len(batch[c]) \in Nat
    BY <2>1, <2>2
  <2>5. h.serial \in Nat /\ last[c].serial \in Nat
    BY <2>3 DEF PipeOK, Message, Answer, NoAnswer
  <2>6. \A m \in Message \cup Answer : Underway(m) => Before(m, h)
    <3> SUFFICES ASSUME NEW m \in Message \cup Answer, Underway(m), m.client = c
                 PROVE  m.serial < h.serial
      BY <2>3 DEF Before
    <3>1. m.serial \in Nat /\ m.serial + Len(batch[c]) <= sent[c]
      BY DEF Underway, Message, Answer
    <3> QED
      BY <3>1, <2>1, <2>3, <2>4, <2>5
  <2>7. Underway(h)'
    <3>1. last[c].serial + Len(batch[c]) <= sent[c]
      BY DEF OrderInv, LastInOrder
    <3>0. \A a, b, n, t \in Nat : a + b <= t /\ n + b = t + 1 => a < n
      OBVIOUS
    <3>2. last[c].serial < h.serial
      BY ONLY <2>1, <2>3, <2>4, <2>5, <3>0, <3>1
    <3>3. h.serial + Len(batch'[c]) <= sent'[c]
      BY <2>1, <2>2, <2>3, <2>4, <2>5
    <3> QED
      BY <1>1, <2>3, <3>2, <3>3 DEF Underway
  <2>8. RxInOrder'
    <3>1. Ordered(rxChan')
      <4>1. AllBefore(rxChan, h)
        BY <2>6, Members DEF OrderInv, RxInOrder, AllBefore
      <4> QED
        BY <1>3, <2>3, <4>1, AppendKeepsOrder DEF PipeOK, OrderInv, RxInOrder
    <3>2. \A i \in 1..Len(rxChan') : rxChan'[i] = h \/ \E j \in 1..Len(rxChan) : rxChan'[i] = rxChan[j]
      BY <1>3, <2>3 DEF PipeOK
    <3> QED
      BY <2>7, <3>1, <3>2, Members DEF RxInOrder, OrderInv, Steady
  <2>9. \A m \in Answer : Underway(m) /\ AllAfter(m, rxChan) => AllAfter(m, rxChan')
    BY <1>3, <2>3, <2>6, AppendKeepsOrder DEF PipeOK
  <2>10. TxInOrder'
    BY <1>1, <2>9, Members DEF TxInOrder, OrderInv, Steady
  <2>11. InHandInOrder'
    BY <1>1, <2>9, Members DEF InHandInOrder, OrderInv, Steady, Holds
  <2>12. OutHandInOrder'
    BY <1>1, <2>9, Members DEF OutHandInOrder, OrderInv, Steady, Writes
  <2> QED
    BY <2>8, <2>10, <2>11, <2>12 DEF OrderInv, Steady
<1> QED
  BY <1>2, <1>3 DEF Put, Offer

(* processRx: the oldest message of rxChan becomes the answer in hand.      *)
LEMMA TakeRxInOrder ==
  ASSUME ConnsOK, ConnsOK', PipeOK, OrderInv, Steady, TakeRx
  PROVE  OrderInv'
<1> DEFINE m == Head(rxChan)
<1>1. rxChan \in Seq(Message) /\ rxChan # <<>> /\ rxChan' = Tail(rxChan)
  BY DEF TakeRx, PipeOK
<1>2. UNCHANGED <<txChan, last, tpc, outHand>> /\ ~Holds(rpc)
  BY DEF TakeRx, Holds
<1>3. m \in Message /\ inHand'.client = m.client /\ inHand'.serial = m.serial
  BY <1>1 DEF TakeRx
<1>4. Underway(m)
  <2>1. 1 \in 1..Len(rxChan) /\ m = rxChan[1]
    BY <1>1
  <2> QED
    BY <2>1 DEF OrderInv, RxInOrder
<1> HIDE DEF m
<1>5. Underway(inHand)'
  BY <1>3, <1>4 DEF Steady, Underway
<1>6. \A n : (Before(n, inHand') <=> Before(n, m)) /\ (Before(inHand', n) <=> Before(m, n))
  BY <1>3 DEF Before
<1>7. RxInOrder'
  <2>1. \A i \in 1..Len(rxChan') : \E j \in 1..Len(rxChan) : rxChan'[i] = rxChan[j]
    BY <1>1, TailKeepsOrder
  <2>2. Ordered(rxChan')
    BY <1>1, TailKeepsOrder DEF OrderInv, RxInOrder
  <2> QED
    BY <2>1, <2>2, Members DEF OrderInv, RxInOrder, Steady
<1>8. \A n : AllAfter(n, rxChan) => AllAfter(n, rxChan') /\ Before(n, m)
  BY <1>1, TailKeepsOrder DEF m
<1>9. TxInOrder'
  BY <1>2, <1>8, Members DEF TxInOrder, OrderInv, Steady
<1>10. InHandInOrder'
  <2>1. AllAfter(m, rxChan')
    BY <1>1, TailKeepsOrder DEF OrderInv, RxInOrder, m
  <2>2. \A i \in 1..Len(txChan) : Before(txChan[i], m)
    BY <1>8 DEF OrderInv, TxInOrder
  <2> QED
    BY <1>2, <1>5, <1>6, <2>1, <2>2 DEF InHandInOrder, AllAfter, AllBefore
<1>11. OutHandInOrder'
  BY <1>2, <1>6, <1>8, Members DEF OutHandInOrder, OrderInv, Steady, Writes
<1> QED
  BY <1>7, <1>9, <1>10, <1>11 DEF OrderInv, Steady

(* SendToClient: the answer in hand joins txChan.                           *)
LEMMA SendInOrder ==
  ASSUME ConnsOK, ConnsOK', PipeOK, OrderInv, Steady, Leaves, SendPuts
  PROVE  OrderInv'
<1>1. UNCHANGED <<rxChan, last, tpc, outHand>> /\ Holds(rpc)
  BY DEF SendPuts, Holds
<1>2. CASE txChan' = txChan
  BY <1>1, <1>2, StillInOrder DEF Steady, SendPuts, Holds
<1>3. CASE txChan' = Append(txChan, inHand) /\ rpc' = "range"
  <2> PICK m \in Answer : m = inHand
    BY <1>1, Members
  <2>1. Underway(m) /\ AllBefore(txChan, m) /\ AllAfter(m, rxChan)
    BY <1>1 DEF OrderInv, InHandInOrder, Holds
  <2>2. RxInOrder'
    BY <1>1, Members DEF OrderInv, RxInOrder, Steady
  <2>3. TxInOrder'
    <3>1. \A i \in 1..Len(txChan') : txChan'[i] = m \/ \E j \in 1..Len(txChan) : txChan'[i] = txChan[j]
      BY <1>3 DEF PipeOK
    <3>2. Ordered(txChan')
      BY <1>3, <2>1, AppendKeepsOrder DEF PipeOK, OrderInv, TxInOrder
    <3>3. \A n \in Answer : Underway(n) /\ AllAfter(n, rxChan) =>
            Underway(n)' /\ AllAfter(n, rxChan)'
      BY <1>1 DEF Steady, AllAfter
    <3> QED
      BY <2>1, <3>1, <3>2, <3>3, Members DEF TxInOrder, OrderInv
  <2>4. InHandInOrder'
    BY <1>3 DEF InHandInOrder
  <2>5. OutHandInOrder'
    <3>1. Writes(tpc) => AllAfter(outHand, txChan')
      BY <1>1, <1>3, AppendKeepsOrder DEF PipeOK, OrderInv, OutHandInOrder, Holds, Writes
    <3> QED
      BY <1>1, <1>3, <3>1, Members DEF OutHandInOrder, OrderInv, Steady, Writes
  <2> QED
    BY <2>2, <2>3, <2>4, <2>5 DEF OrderInv, Steady
<1> QED
  BY <1>2, <1>3 DEF SendPuts, Offer

(* The second reader takes the oldest message away.                         *)
LEMMA SecondInOrder ==
  ASSUME ConnsOK, ConnsOK', PipeOK, OrderInv, Steady, TakeSecond
  PROVE  OrderInv'
<1>1. rxChan \in Seq(Message) /\ rxChan # <<>> /\ rxChan' = Tail(rxChan)
  BY DEF TakeSecond, PipeOK
<1>2. UNCHANGED <<txChan, last, rpc, tpc, inHand, outHand>>
  BY DEF TakeSecond, SecondLogs
<1>3. RxInOrder'
  <2>1. \A i \in 1..Len(rxChan') : \E j \in 1..Len(rxChan) : rxChan'[i] = rxChan[j]
    BY <1>1, TailKeepsOrder
  <2>2. Ordered(rxChan')
    BY <1>1, TailKeepsOrder DEF OrderInv, RxInOrder
  <2> QED
    BY <2>1, <2>2, Members DEF OrderInv, RxInOrder, Steady
<1>4. \A n : AllAfter(n, rxChan) => AllAfter(n, rxChan')
  BY <1>1, TailKeepsOrder
<1>5. TxInOrder'
  BY <1>2, <1>4, Members DEF TxInOrder, OrderInv, Steady
<1>6. InHandInOrder'
  BY <1>2, <1>4, Members DEF InHandInOrder, OrderInv, Steady, Holds
<1>7. OutHandInOrder'
  BY <1>2, <1>4, Members DEF OutHandInOrder, OrderInv, Steady, Writes
<1> QED
  BY <1>3, <1>5, <1>6, <1>7 DEF OrderInv, Steady

(* processTx: the oldest answer of txChan is taken in hand, or thrown away. *)
LEMMA TakeTxInOrder ==
  ASSUME ConnsOK, ConnsOK', PipeOK, OrderInv, Steady, TakeTx
  PROVE  OrderInv'
<1> PICK m \in Answer : m = Head(txChan)
  BY DEF TakeTx, PipeOK
<1>1. txChan \in Seq(Answer) /\ txChan # <<>> /\ txChan' = Tail(txChan)
  BY DEF TakeTx, PipeOK
<1>2. UNCHANGED <<rxChan, last, rpc, inHand>>
  BY DEF TakeTx
<1>3. outHand' = m
  BY DEF TakeTx
<1>4. Underway(m) /\ AllAfter(m, rxChan)
  <2>1. 1 \in 1..Len(txChan) /\ m = txChan[1]
    BY <1>1
  <2> QED
    BY <2>1 DEF OrderInv, TxInOrder
<1>5. Ordered(txChan') /\ AllAfter(m, txChan')
  BY <1>1, TailKeepsOrder DEF OrderInv, TxInOrder
<1>6. RxInOrder'
  BY <1>2, Members DEF OrderInv, RxInOrder, Steady
<1>7. TxInOrder'
  <2>1. \A i \in 1..Len(txChan') : \E j \in 1..Len(txChan) : txChan'[i] = txChan[j]
    BY <1>1, TailKeepsOrder
  <2> QED
    BY <1>2, <1>5, <2>1, Members DEF OrderInv, TxInOrder, Steady
<1>8. \A n : AllBefore(txChan, n) => AllBefore(txChan', n) /\ Before(m, n)
  BY <1>1, TailKeepsOrder
<1>9. InHandInOrder'
  BY <1>2, <1>8, Members DEF InHandInOrder, OrderInv, Steady, Holds
<1>10. OutHandInOrder'
  BY <1>2, <1>3, <1>4, <1>5, <1>8 DEF OutHandInOrder, InHandInOrder, OrderInv, Steady
<1> QED
  BY <1>6, <1>7, <1>9, <1>10 DEF OrderInv, Steady

(* writeToClient: the answer in hand becomes the one written last.          *)
LEMMA WrittenInOrder ==
  ASSUME ConnsOK, ConnsOK', PipeOK, OrderInv, Written
  PROVE  OrderInv' /\ \A c \in Clients : last'[c] # last[c] =>
           /\ last'[c].client = c
           /\ last'[c].serial \in (last[c].serial + 1)..sent[c]
<1> PICK o \in Answer : o = outHand
  BY DEF Written, PipeOK
<1>1. /\ UNCHANGED <<rxChan, txChan, rpc, inHand, sent, batch>> /\ ~Writes(tpc')
      /\ last' = [last EXCEPT ![o.client] = o]
  BY DEF Written, Writes
<1>2. o.client \in Clients /\ o.serial \in Nat /\ last \in [Clients -> Answer \cup {NoAnswer}]
  BY DEF PipeOK, Answer
<1>3. /\ Underway(o) /\ AllAfter(o, txChan) /\ AllAfter(o, rxChan)
      /\ Holds(rpc) => Before(o, inHand)
  BY DEF Written, OrderInv, OutHandInOrder, Holds
<1>4. \A m \in Message \cup Answer : Underway(m) /\ Before(o, m) => Underway(m)'
  <2> SUFFICES ASSUME NEW m \in Message \cup Answer, Underway(m), Before(o, m)
               PROVE  last'[m.client].serial < m.serial
    BY <1>1 DEF Underway
  <2>1. m.client \in Clients
    BY DEF Message, Answer
  <2>2. last'[m.client] = IF m.client = o.client THEN o ELSE last[m.client]
    BY <1>1, <1>2, <2>1
  <2> QED
    BY <2>2 DEF Before, Underway
<1>5. LastInOrder'
  <2> SUFFICES ASSUME NEW c \in Clients
               PROVE  /\ last'[c] # NoAnswer => last'[c].client = c
                      /\ last'[c].serial + Len(batch[c]) <= sent[c]
    BY <1>1 DEF LastInOrder
  <2>1. last'[c] = IF c = o.client THEN o ELSE last[c]
    BY <1>1, <1>2
  <2> QED
    BY <1>3, <2>1 DEF OrderInv, LastInOrder, Underway
<1>6. RxInOrder'
  BY <1>1, <1>3, <1>4, Members DEF OrderInv, RxInOrder, AllAfter
<1>7. TxInOrder'
  BY <1>1, <1>3, <1>4, Members DEF OrderInv, TxInOrder, AllAfter
<1>8. InHandInOrder'
  BY <1>1, <1>3, <1>4, Members DEF OrderInv, InHandInOrder, Holds
<1>9. OutHandInOrder' /\ BatchesInOrder'
  BY <1>1 DEF OutHandInOrder, OrderInv, BatchesInOrder, Writes
<1>10. ASSUME NEW c \in Clients, last'[c] # last[c]
       PROVE  last'[c].client = c /\ last'[c].serial \in (last[c].serial + 1)..sent[c]
  <2>1. c = o.client /\ last'[c] = o
    BY <1>1, <1>2, <1>10
  <2>2. o.serial > last[c].serial /\ o.serial + Len(batch[c]) <= sent[c]
    BY <1>3, <2>1 DEF Underway
  <2>3. last[c].serial \in Nat /\ Len(batch[c]) \in Nat /\ sent[c] \in Nat
    BY <1>2 DEF Answer, NoAnswer, ConnsOK
  <2> QED
    BY <1>2, <2>1, <2>2, <2>3
<1> QED
  BY <1>5, <1>6, <1>7, <1>8, <1>9, <1>10 DEF OrderInv

InOrderStep ==
  \A c \in Clients : last'[c] # last[c] =>
    /\ last'[c].client = c
    /\ last'[c].serial \in (last[c].serial + 1)..sent[c]

LEMMA OrderStep ==
  ASSUME ConnsOK, ConnsOK', PipeOK, OrderInv, [Next]_vars
  PROVE  OrderInv' /\ InOrderStep
<1>1. CASE Written
  BY <1>1, WrittenInOrder DEF InOrderStep
<1>2. CASE ~Written
  <2>1. last' = last
    <3>1. CASE MainStep \/ ListenFails \/ Signal
      BY <3>1 DEF MainStep, StartHandler, Listen, StartSecond, CloseRx, CloseTx,
         FlagServer, Unlisten, Cleared, Exit, ClearOne, ListenFails, Signal
    <3>2. CASE AcceptStep \/ \E d \in Clients : Accept(d) \/ ReadData(d)
      BY <3>2 DEF AcceptStep, AcceptLoop, AcceptFails, Add, Connect, Accept, ReadData
    <3>3. CASE \E d \in Clients : HandlerStep(d)
      BY <3>3 DEF HandlerStep, HandlerLoop, ReadFails, ParseSome, Parse, Deliver, Put,
         CloseConn, Delete, Disconnect
    <3>4. CASE RxStep \/ TxStep \/ TakeSecond \/ SecondEnds
      BY <1>2, <3>4 DEF RxStep, TakeRx, SendLooks, SendPuts, RxEnds, TxStep, TakeTx,
         DirectLooks, WriteFails, TxEnds, TakeSecond, SecondEnds
    <3>5. CASE UNCHANGED vars
      BY <3>5
    <3> QED
      BY <3>1, <3>2, <3>3, <3>4, <3>5 DEF Next
  <2> SUFFICES OrderInv'
    BY <2>1 DEF InOrderStep
  <2>2. Steady /\ Leaves
    BY <2>1, SteadyStep
  <2>3. CASE TakeRx \/ SendPuts \/ TakeSecond \/ TakeTx
    BY <2>2, <2>3, TakeRxInOrder, SendInOrder, SecondInOrder, TakeTxInOrder
  <2>9. CASE \E c \in Clients : Put(c)
    BY <2>2, <2>9, PutInOrder
  <2> DEFINE still ==
        /\ UNCHANGED <<rxChan, txChan>>
        /\ Holds(rpc') => Holds(rpc) /\ inHand' = inHand
        /\ Writes(tpc') => Writes(tpc) /\ outHand' = outHand
  <2>4. still => OrderInv'
    BY <2>1, <2>2, StillInOrder DEF Steady
  <2> HIDE DEF still
  <2>5. CASE MainStep \/ ListenFails \/ Signal
    <3>1. still
      BY <2>5 DEF MainStep, StartHandler, Listen, StartSecond, CloseRx, CloseTx,
         FlagServer, Unlisten, Cleared, Exit, ClearOne, ListenFails, Signal, Holds, Writes, still
    <3> QED
      BY <2>4, <3>1
  <2>6. CASE AcceptStep \/ \E d \in Clients : Accept(d) \/ ReadData(d)
    <3>1. still
      BY <2>6 DEF AcceptStep, AcceptLoop, AcceptFails, Add, Connect, Accept, ReadData, still
    <3> QED
      BY <2>4, <3>1
  <2>7. CASE \E d \in Clients : HandlerStep(d) /\ ~Put(d)
    <3>1. still
      BY <2>7 DEF HandlerStep, HandlerLoop, ReadFails, ParseSome, Parse, Deliver,
         CloseConn, Delete, Disconnect, still
    <3> QED
      BY <2>4, <3>1
  <2>8. CASE \/ SendLooks \/ RxEnds \/ SecondEnds
             \/ DirectLooks \/ WriteFails \/ TxEnds \/ UNCHANGED vars
    <3>1. still
      BY <2>8 DEF SendLooks, RxEnds, SecondEnds, DirectLooks, WriteFails, TxEnds, Holds,
         Writes, still
    <3> QED
      BY <2>4, <3>1
  <2> QED
    BY <1>2, <2>3, <2>5, <2>6, <2>7, <2>8, <2>9 DEF Next, RxStep, TxStep
<1> QED
  BY <1>1, <1>2

(* What a terminal gets on its connection are answers to messages it has    *)
(* sent there, in the order in which it sent them and none twice, whatever  *)
(* is dropped at a full channel and whoever of the two readers of rxChan    *)
(* takes a message (AnswersInOrder; ProcessMessage, processRx, processTx).  *)
THEOREM AnswersKeepOrder == Spec => AnswersInOrder
<1>1. Init => OrderInv
  BY DEF Init, OrderInv, BatchesInOrder, EndsAt, LastInOrder, RxInOrder, TxInOrder,
     InHandInOrder, OutHandInOrder, Ordered, NoAnswer
<1>2. ConnsInv => ConnsOK
  BY DEF ConnsInv
<1>3. OrderInv /\ PipeOK /\ ConnsOK /\ ConnsOK' /\ [Next]_vars => OrderInv' /\ [InOrderStep]_last
  BY OrderStep
<1>4. [][InOrderStep]_last => AnswersInOrder
  BY PTL DEF AnswersInOrder, InOrderStep
<1> QED
  BY <1>1, <1>2, <1>3, <1>4, TcpCorrect, PTL DEF Spec

=============================================================================
