-------------------------- MODULE SignallingProofs --------------------------
(***************************************************************************)
(* The safety properties of Signalling, for any number of connections,     *)
(* terminals, codes and cameras.                                           *)
(***************************************************************************)
EXTENDS Signalling, TLAPS

USE DEF sigVars, connVars, deviceVars, streamVars, history

(* A step preserves a state predicate if each action does; the actions are  *)
(* named so that every proof below splits Next the same way.                *)
LEMMA NextCases ==
  ASSUME [Next]_sigVars
  PROVE  \/ \E c \in Conns : Open(c)
         \/ \E c \in Conns, p \in Phones, code \in Codes : Register(c, p, code)
         \/ \E c \in Conns, p \in Phones, code \in Codes : AuthOk(c, p, code)
         \/ \E c \in Conns, p \in Phones, code \in Codes : AuthFail(c, p, code)
         \/ \E c \in Conns, p \in Phones : Heartbeat(c, p)
         \/ \E c \in Conns, p \in Phones, b \in BOOLEAN : Location(c, p, b)
         \/ \E c \in Conns, p \in Phones : LocationBatch(c, p)
         \/ \E c \in Conns, p \in Phones : Logout(c, p)
         \/ \E c \in Conns : OtherMessage(c)
         \/ \E c \in Conns : Resume(c)
         \/ \E c \in Conns : BeatDone(c)
         \/ \E c \in Conns : QueryParams(c)
         \/ \E c \in Conns : RequestNext(c)
         \/ \E c \in Conns, ch \in Cameras : RefreshStep(c, ch)
         \/ \E c \in Conns, ch \in Cameras : RefreshRaises(c, ch)
         \/ \E c \in Conns : Disconnect(c) \/ HandlerRaises(c)
         \/ \E p \in Phones, m \in Managers : GetDeviceStreams(p, m)
         \/ UNCHANGED sigVars
BY Zenon DEF Next, Step, Message, Continue

(* Dispatch moves the connection to a known await point.                    *)
LEMMA DispatchType ==
  ASSUME TypeOK, NEW c \in Conns, NEW p \in Phones, NEW next \in PCs,
         Dispatch(c, p, next)
  PROVE  pc' \in [Conns -> PCs] /\ phone' \in [Conns -> Phones \cup {None}]
BY DEF TypeOK, Dispatch

(* A refresh_all task goes on to the next channel.                          *)
LEMMA OneMovesOn ==
  ASSUME NEW counts \in [Cameras -> Nat], NEW ch \in Cameras, counts[ch] > 0
  PROVE  [k \in Cameras |-> CASE k = ch -> counts[k] - 1
                             [] k = ch + 1 -> counts[k] + 1
                             [] OTHER -> counts[k]] \in [Cameras -> Nat]
<1>1. ASSUME NEW k \in Cameras
      PROVE  (CASE k = ch -> counts[k] - 1
                [] k = ch + 1 -> counts[k] + 1
                [] OTHER -> counts[k]) \in Nat
  <2>1. counts[k] \in Nat /\ k \in Nat /\ ch \in Nat
    BY DEF Cameras
  <2> QED BY <2>1
<1> QED BY <1>1

(* Every table keeps to its domain and range (TypeOK of Signalling).        *)
THEOREM TypeCorrect == Spec => []TypeOK
<1>1. Init => TypeOK
  BY SigAssumption DEF Init, TypeOK, PCs, Cameras
<1>2. TypeOK /\ [Next]_sigVars => TypeOK'
  <2> SUFFICES ASSUME TypeOK, [Next]_sigVars
               PROVE  TypeOK'
    OBVIOUS
  <2> USE SigAssumption DEF TypeOK, PCs
  <2>1. ASSUME NEW c \in Conns, Open(c)  PROVE TypeOK'
    BY <2>1 DEF Open
  <2>2. ASSUME NEW c \in Conns, NEW p \in Phones, NEW code \in Codes,
               Register(c, p, code)
        PROVE  TypeOK'
    BY <2>2 DEF Register, Dispatch, Deauth, EndSession
  <2>3. ASSUME NEW c \in Conns, NEW p \in Phones, NEW code \in Codes,
               AuthOk(c, p, code)
        PROVE  TypeOK'
    BY <2>3 DEF AuthOk, Dispatch, Activate
  <2>4. ASSUME NEW c \in Conns, NEW p \in Phones, NEW code \in Codes,
               AuthFail(c, p, code)
        PROVE  TypeOK'
    BY <2>4 DEF AuthFail, Dispatch
  <2>5. ASSUME NEW c \in Conns, NEW p \in Phones, Heartbeat(c, p)
        PROVE  TypeOK'
    <3>1. pc' \in [Conns -> PCs] /\ phone' \in [Conns -> Phones \cup {None}]
      BY <2>5, DispatchType DEF Heartbeat
    <3>2. online' \subseteq Phones
      BY <2>5 DEF Heartbeat
    <3> QED BY <3>1, <3>2, <2>5 DEF Heartbeat
  <2>6. ASSUME NEW c \in Conns, NEW p \in Phones, NEW b \in BOOLEAN,
               Location(c, p, b)
        PROVE  TypeOK'
    BY <2>6 DEF Location, Dispatch
  <2>7. ASSUME NEW c \in Conns, NEW p \in Phones, LocationBatch(c, p)
        PROVE  TypeOK'
    BY <2>7 DEF LocationBatch, Dispatch
  <2>8. ASSUME NEW c \in Conns, NEW p \in Phones, Logout(c, p)
        PROVE  TypeOK'
    BY <2>8 DEF Logout, Dispatch, Deauth, Revoke, EndSession
  <2>9. ASSUME NEW c \in Conns, OtherMessage(c)  PROVE TypeOK'
    BY <2>9 DEF OtherMessage
  <2>10. ASSUME NEW c \in Conns, Resume(c)  PROVE TypeOK'
    BY <2>10 DEF Resume
  <2>11. ASSUME NEW c \in Conns, BeatDone(c)  PROVE TypeOK'
    <3>1. hb' \in [Conns -> 0..(RefreshPeriod - 1)]
      BY <2>11 DEF BeatDone
    <3>2. refresh' \in [Conns -> [Cameras -> Nat]]
      <4> DEFINE more == [refresh[c] EXCEPT ![1] = @ + 1]
      <4>1. more \in [Cameras -> Nat]
        BY DEF Cameras
      <4>2. refresh' = [refresh EXCEPT ![c] = more] \/ refresh' = refresh
        BY <2>11 DEF BeatDone
      <4> HIDE DEF more
      <4> QED BY <4>1, <4>2
    <3> QED BY <3>1, <3>2, <2>11 DEF BeatDone
  <2>12. ASSUME NEW c \in Conns, QueryParams(c)  PROVE TypeOK'
    BY <2>12 DEF QueryParams
  <2>13. ASSUME NEW c \in Conns, RequestNext(c)  PROVE TypeOK'
    <3>1. turn' \in [Conns -> Cameras]
      <4>1. CASE More(c)
        <5>1. turn[c] \in Cameras /\ turn[c] < NumCameras
          BY <4>1 DEF More
        <5>2. turn[c] + 1 \in Cameras
          BY <5>1 DEF Cameras
        <5>3. turn' = [turn EXCEPT ![c] = turn[c] + 1]
          BY <4>1, <2>13, Zenon DEF RequestNext
        <5> QED BY <5>2, <5>3
      <4>2. CASE ~More(c)
        <5>1. 1 \in Cameras
          BY DEF Cameras
        <5>2. turn' = [turn EXCEPT ![c] = 1]
          BY <4>2, <2>13, Zenon DEF RequestNext
        <5> QED BY <5>1, <5>2
      <4> QED BY <4>1, <4>2
    <3>2. requested' \in [Conns -> SUBSET Cameras]
      BY <2>13 DEF RequestNext, RequestStream
    <3>3. pc' \in [Conns -> PCs]
      <4>1. pc' = pc \/ pc' = [pc EXCEPT ![c] = "reply"]
        BY <2>13, Zenon DEF RequestNext
      <4>2. pc \in [Conns -> PCs] /\ "reply" \in PCs
        OBVIOUS
      <4> HIDE DEF PCs
      <4> QED BY <4>1, <4>2, Zenon
    <3>4. UNCHANGED <<phone, hb, refresh, deviceVars, codes, active, streamVars, proved, session>>
      BY <2>13 DEF RequestNext
    <3> QED BY <3>1, <3>2, <3>3, <3>4
  <2>14. ASSUME NEW c \in Conns, NEW ch \in Cameras, RefreshStep(c, ch)
         PROVE  TypeOK'
    <3>1. refresh' \in [Conns -> [Cameras -> Nat]]
      <4> DEFINE next == [k \in Cameras |-> CASE k = ch -> refresh[c][k] - 1
                                              [] k = ch + 1 -> refresh[c][k] + 1
                                              [] OTHER -> refresh[c][k]]
      <4>1. next \in [Cameras -> Nat]
        <5>1. refresh[c] \in [Cameras -> Nat] /\ refresh[c][ch] > 0
          BY <2>14 DEF RefreshStep
        <5> QED BY <5>1, OneMovesOn
      <4>2. refresh' = [refresh EXCEPT ![c] = next]
        BY <2>14 DEF RefreshStep
      <4> HIDE DEF next
      <4> QED BY <4>1, <4>2
    <3>2. requested' \in [Conns -> SUBSET Cameras]
      BY <2>14 DEF RefreshStep, RequestStream
    <3> QED BY <3>1, <3>2, <2>14 DEF RefreshStep
  <2>18. ASSUME NEW c \in Conns, NEW ch \in Cameras, RefreshRaises(c, ch)
         PROVE  TypeOK'
    <3>1. refresh' \in [Conns -> [Cameras -> Nat]]
      <4> DEFINE next == [refresh[c] EXCEPT ![ch] = @ - 1]
      <4>1. next \in [Cameras -> Nat]
        BY <2>18 DEF RefreshRaises
      <4>2. refresh' = [refresh EXCEPT ![c] = next]
        BY <2>18 DEF RefreshRaises
      <4> HIDE DEF next
      <4> QED BY <4>1, <4>2
    <3> QED BY <3>1, <2>18 DEF RefreshRaises
  <2>15. ASSUME NEW c \in Conns, Disconnect(c) \/ HandlerRaises(c)  PROVE TypeOK'
    <3>0. 1 \in Cameras /\ 0 \in 0..(RefreshPeriod - 1)
      BY DEF Cameras
    <3>1. CASE phone[c] = None
      <4>1. /\ UNCHANGED <<deviceVars, codes, active, streamVars, phone, refresh, proved, requested>>
            /\ pc' = [pc EXCEPT ![c] = "closed"] /\ session' = [session EXCEPT ![c] = {}]
            /\ turn' = [turn EXCEPT ![c] = 1] /\ hb' = [hb EXCEPT ![c] = 0]
        BY <3>1, <2>15 DEF Disconnect, HandlerRaises, RunEnds
      <4> QED
        BY <4>1, <3>0
    <3>2. CASE phone[c] # None
      <4>1. phone[c] \in Phones
        BY <3>2
      <4>2. Forget(phone[c]) /\ pc' = [pc EXCEPT ![c] = "closed"]
            /\ session' = [session EXCEPT ![c] = {}]
            /\ turn' = [turn EXCEPT ![c] = 1] /\ hb' = [hb EXCEPT ![c] = 0]
            /\ UNCHANGED <<phone, refresh, proved, requested>>
        BY <3>2, <2>15 DEF Disconnect, HandlerRaises, RunEnds
      <4>3. streams' \in [Phones -> Managers \cup {None}] /\ doomed' \subseteq Managers
        BY <4>1, <4>2 DEF Forget, DropStreams
      <4> QED
        BY <3>0, <4>1, <4>2, <4>3 DEF Forget, Deauth, Revoke, DropLink
    <3> QED BY <3>1, <3>2
  <2>16. ASSUME NEW p \in Phones, NEW m \in Managers, GetDeviceStreams(p, m)
         PROVE  TypeOK'
    BY <2>16 DEF GetDeviceStreams
  <2>17. CASE UNCHANGED sigVars
    BY <2>17
  <2> HIDE DEF TypeOK, PCs
  <2> QED
    BY <2>1, <2>2, <2>3, <2>4, <2>5, <2>6, <2>7, <2>8, <2>9, <2>10, <2>11,
       <2>12, <2>13, <2>14, <2>15, <2>16, <2>17, <2>18, NextCases
<1> QED
  BY <1>1, <1>2, PTL DEF Spec

-----------------------------------------------------------------------------
(***************************************************************************)
(* The tables keyed by terminal number.  Whoever disturbs an entry disturbs *)
(* the four device sets and the code together, so the conjunction is        *)
(* inductive as it stands; LogoutIsFinal needs CodeHasDevice (a code only   *)
(* appears together with online) and AuthProvesCode (authed needs a code).  *)
(***************************************************************************)
TableInv ==
  /\ AuthProvesCode
  /\ CodeHasDevice
  /\ LogoutIsFinal
  /\ LocatedWasAuthed

LEMMA TableInvStep ==
  ASSUME TypeOK, TableInv, [Next]_sigVars
  PROVE  TableInv'
<1> USE SigAssumption
    DEF TypeOK, TableInv, AuthProvesCode, CodeHasDevice, LogoutIsFinal,
        LocatedWasAuthed
<1>1. ASSUME NEW c \in Conns, Open(c)  PROVE TableInv'
  BY <1>1 DEF Open
<1>2. ASSUME NEW c \in Conns, NEW p \in Phones, NEW code \in Codes,
             Register(c, p, code)
      PROVE  TableInv'
  BY <1>2 DEF Register, Dispatch, Deauth, EndSession
<1>3. ASSUME NEW c \in Conns, NEW p \in Phones, NEW code \in Codes,
             AuthOk(c, p, code)
      PROVE  TableInv'
  BY <1>3 DEF AuthOk, Dispatch, Activate, Validate
<1>4. ASSUME NEW c \in Conns, NEW p \in Phones, NEW code \in Codes,
             AuthFail(c, p, code)
      PROVE  TableInv'
  BY <1>4 DEF AuthFail
<1>5. ASSUME NEW c \in Conns, NEW p \in Phones, Heartbeat(c, p)
      PROVE  TableInv'
  BY <1>5 DEF Heartbeat
<1>6. ASSUME NEW c \in Conns, NEW p \in Phones, NEW b \in BOOLEAN,
             Location(c, p, b)
      PROVE  TableInv'
  BY <1>6 DEF Location, Stores
<1>7. ASSUME NEW c \in Conns, NEW p \in Phones, LocationBatch(c, p)
      PROVE  TableInv'
  BY <1>7 DEF LocationBatch
<1>8. ASSUME NEW c \in Conns, NEW p \in Phones, Logout(c, p)
      PROVE  TableInv'
  BY <1>8 DEF Logout, Deauth, Revoke
<1>9. ASSUME NEW c \in Conns,
             OtherMessage(c) \/ Resume(c) \/ BeatDone(c) \/ QueryParams(c)
             \/ RequestNext(c)
      PROVE  TableInv'
  BY <1>9 DEF OtherMessage, Resume, BeatDone, QueryParams, RequestNext
<1>10. ASSUME NEW c \in Conns, NEW ch \in Cameras, RefreshStep(c, ch) \/ RefreshRaises(c, ch)
       PROVE  TableInv'
  BY <1>10 DEF RefreshStep, RefreshRaises
<1>11. ASSUME NEW c \in Conns, Disconnect(c) \/ HandlerRaises(c)  PROVE TableInv'
  <2>1. CASE phone[c] = None
    BY <2>1, <1>11 DEF Disconnect, HandlerRaises, RunEnds
  <2>2. CASE phone[c] # None
    <3>1. phone[c] \in Phones
      BY <2>2
    <3>2. Forget(phone[c]) /\ UNCHANGED proved
      BY <2>2, <1>11 DEF Disconnect, HandlerRaises, RunEnds
    <3> QED
      BY <3>1, <3>2 DEF Forget, Deauth, Revoke
  <2> QED BY <2>1, <2>2
<1>12. ASSUME NEW p \in Phones, NEW m \in Managers, GetDeviceStreams(p, m)
       PROVE  TableInv'
  BY <1>12 DEF GetDeviceStreams
<1>13. CASE UNCHANGED sigVars
  BY <1>13
<1> QED
  BY <1>1, <1>2, <1>3, <1>4, <1>5, <1>6, <1>7, <1>8, <1>9, <1>10, <1>11,
     <1>12, <1>13, NextCases

LEMMA TablesCorrect == Spec => []TableInv
<1>1. Init => TableInv
  BY DEF Init, TableInv, AuthProvesCode, CodeHasDevice, LogoutIsFinal,
         LocatedWasAuthed
<1>2. TypeOK /\ TableInv /\ [Next]_sigVars => TableInv'
  BY TableInvStep
<1> QED
  BY <1>1, <1>2, TypeCorrect, PTL DEF Spec

(* A terminal counts as authenticated only while AuthCodeStore holds the    *)
(* code it presented (_on_register, _on_auth, _on_logout, run's finally).   *)
THEOREM AuthenticationNeedsTheCode == Spec => []AuthProvesCode
<1>1. TableInv => AuthProvesCode
  BY DEF TableInv
<1> QED
  BY <1>1, TablesCorrect, PTL

(* After 0x0003 neither the flag nor the code is left (_on_logout).         *)
THEOREM LogoutRevokes == Spec => []LogoutIsFinal
<1>1. TableInv => LogoutIsFinal
  BY DEF TableInv
<1> QED
  BY <1>1, TablesCorrect, PTL

(* The entry that _on_auth would create is always there already.            *)
THEOREM CodesHaveDevices == Spec => []CodeHasDevice
<1>1. TableInv => CodeHasDevice
  BY DEF TableInv
<1> QED
  BY <1>1, TablesCorrect, PTL

(* A stored position came from an authenticated terminal (_on_location).    *)
THEOREM PositionsWereAuthed == Spec => []LocatedWasAuthed
<1>1. TableInv => LocatedWasAuthed
  BY DEF TableInv
<1> QED
  BY <1>1, TablesCorrect, PTL

-----------------------------------------------------------------------------
(***************************************************************************)
(* device_streams.  GetDeviceStreams is the only step that adds a manager,  *)
(* a fresh one; Forget is the only step that dooms one, and detaches it.    *)
(***************************************************************************)
LEMMA DoomedStep ==
  ASSUME TypeOK, DoomedDetached, [Next]_sigVars
  PROVE  DoomedDetached'
<1> USE SigAssumption DEF TypeOK, DoomedDetached
<1>1. ASSUME NEW p \in Phones, NEW m \in Managers, GetDeviceStreams(p, m)
      PROVE  DoomedDetached'
  BY <1>1 DEF GetDeviceStreams
<1>2. ASSUME NEW c \in Conns, Disconnect(c) \/ HandlerRaises(c)  PROVE DoomedDetached'
  <2>1. CASE phone[c] = None
    BY <2>1, <1>2 DEF Disconnect, HandlerRaises, RunEnds
  <2>2. CASE phone[c] # None
    <3>1. phone[c] \in Phones /\ DropStreams(phone[c])
      BY <2>2, <1>2 DEF Disconnect, HandlerRaises, RunEnds, Forget
    <3> QED
      BY <3>1 DEF DropStreams
  <2> QED BY <2>1, <2>2
<1>3. ASSUME streams' = streams, doomed' = doomed  PROVE DoomedDetached'
  BY <1>3
<1> QED
  BY <1>1, <1>2, <1>3, NextCases
     DEF Open, Register, AuthOk, AuthFail, Heartbeat, Location, LocationBatch,
         Logout, OtherMessage, Resume, BeatDone, QueryParams, RequestNext,
         RefreshStep, RefreshRaises

(* A manager whose stop_all was scheduled is not handed out again, and two  *)
(* terminals never share one (get_device_streams, run's finally).           *)
THEOREM ManagersDetached == Spec => []DoomedDetached
<1>1. Init => DoomedDetached
  BY DEF Init, DoomedDetached
<1>2. TypeOK /\ DoomedDetached /\ [Next]_sigVars => DoomedDetached'
  BY DoomedStep
<1> QED
  BY <1>1, <1>2, TypeCorrect, PTL DEF Spec

-----------------------------------------------------------------------------
(***************************************************************************)
(* active_jt808.  On links that carry one number each, what active says of  *)
(* a terminal is undone by the Disconnect of that very link, because        *)
(* self.phone can only be that terminal by then.                            *)
(***************************************************************************)
Live(c) == pc[c] \notin {"unborn", "closed"}

LinkInv ==
  /\ \A p \in Phones : active[p] # None =>
       /\ Live(active[p])
       /\ p \in Carries[active[p]]
       /\ phone[active[p]] \in Carries[active[p]]
  /\ \A p \in authed : active[p] # None /\ p \in session[active[p]]

LEMMA LinkInvStep ==
  ASSUME SingleCarrier, TypeOK, LinkInv, [Next]_sigVars
  PROVE  LinkInv'
<1> USE SigAssumption DEF TypeOK, LinkInv, Live
<1>1. ASSUME NEW c \in Conns, Open(c)  PROVE LinkInv'
  BY <1>1 DEF Open
<1>2. ASSUME NEW c \in Conns, NEW p \in Phones, NEW code \in Codes,
             Register(c, p, code)
      PROVE  LinkInv'
  BY <1>2 DEF Register, Dispatch, Deauth, EndSession
<1>3. ASSUME NEW c \in Conns, NEW p \in Phones, NEW code \in Codes,
             AuthOk(c, p, code)
      PROVE  LinkInv'
  BY <1>3 DEF AuthOk, Dispatch, Activate
<1>4. ASSUME NEW c \in Conns, NEW p \in Phones, NEW code \in Codes,
             AuthFail(c, p, code)
      PROVE  LinkInv'
  BY <1>4 DEF AuthFail, Dispatch
<1>5. ASSUME NEW c \in Conns, NEW p \in Phones, Heartbeat(c, p)
      PROVE  LinkInv'
  <2>1. Dispatch(c, p, "beat") \/ Dispatch(c, p, "reply")
    BY <1>5 DEF Heartbeat
  <2> QED BY <1>5, <2>1 DEF Heartbeat, Dispatch
<1>6. ASSUME NEW c \in Conns, NEW p \in Phones, NEW b \in BOOLEAN,
             Location(c, p, b)
      PROVE  LinkInv'
  BY <1>6 DEF Location, Dispatch
<1>7. ASSUME NEW c \in Conns, NEW p \in Phones, LocationBatch(c, p)
      PROVE  LinkInv'
  BY <1>7 DEF LocationBatch, Dispatch
<1>8. ASSUME NEW c \in Conns, NEW p \in Phones, Logout(c, p)
      PROVE  LinkInv'
  BY <1>8 DEF Logout, Dispatch, Deauth, EndSession
<1>9. ASSUME NEW c \in Conns,
             OtherMessage(c) \/ Resume(c) \/ BeatDone(c) \/ QueryParams(c)
             \/ RequestNext(c)
      PROVE  LinkInv'
  <2>1. pc' = pc \/ \E next \in PCs \ {"unborn", "closed"} :
                       pc' = [pc EXCEPT ![c] = next]
    BY <1>9 DEF OtherMessage, Resume, BeatDone, QueryParams, RequestNext, PCs
  <2>2. UNCHANGED <<phone, authed, active, session>>
    BY <1>9 DEF OtherMessage, Resume, BeatDone, QueryParams, RequestNext
  <2> QED BY <2>1, <2>2
<1>10. ASSUME NEW c \in Conns, NEW ch \in Cameras, RefreshStep(c, ch) \/ RefreshRaises(c, ch)
       PROVE  LinkInv'
  BY <1>10 DEF RefreshStep, RefreshRaises
<1>11. ASSUME NEW c \in Conns, Disconnect(c) \/ HandlerRaises(c)  PROVE LinkInv'
  <2>1. pc' = [pc EXCEPT ![c] = "closed"] /\ phone' = phone
        /\ session' = [session EXCEPT ![c] = {}]
    BY <1>11 DEF Disconnect, HandlerRaises, RunEnds
  <2>2. CASE phone[c] = None
    <3>1. \A p \in Phones : active[p] # c
      BY <2>2
    <3>2. authed' = authed /\ active' = active
      BY <2>2, <1>11 DEF Disconnect, HandlerRaises, RunEnds
    <3> QED BY <2>1, <3>1, <3>2
  <2>3. CASE phone[c] # None
    <3>1. \A p \in Phones : active[p] = c => p = phone[c]
      BY <2>3 DEF SingleCarrier
    <3>2. authed' = authed \ {phone[c]}
          /\ active' = [active EXCEPT ![phone[c]] = None]
      BY <2>3, <1>11 DEF Disconnect, HandlerRaises, RunEnds, Forget, Deauth, DropLink
    <3>3. \A p \in Phones : p # phone[c] => active'[p] = active[p]
                                            /\ active[p] # c
      BY <3>1, <3>2
    <3>4. phone[c] \in Phones /\ active'[phone[c]] = None
      BY <2>3, <3>2
    <3> QED BY <2>1, <3>2, <3>3, <3>4
  <2> QED BY <2>2, <2>3
<1>12. ASSUME NEW p \in Phones, NEW m \in Managers, GetDeviceStreams(p, m)
       PROVE  LinkInv'
  BY <1>12 DEF GetDeviceStreams
<1>13. CASE UNCHANGED sigVars
  BY <1>13
<1> QED
  BY <1>1, <1>2, <1>3, <1>4, <1>5, <1>6, <1>7, <1>8, <1>9, <1>10, <1>11,
     <1>12, <1>13, NextCases

LEMMA LinksCorrect == SingleCarrier => (Spec => []LinkInv)
<1> SUFFICES ASSUME SingleCarrier
             PROVE  Spec => []LinkInv
  OBVIOUS
<1>1. Init => LinkInv
  BY DEF Init, LinkInv
<1>2. TypeOK /\ LinkInv /\ [Next]_sigVars => LinkInv'
  BY LinkInvStep
<1> QED
  BY <1>1, <1>2, TypeCorrect, PTL DEF Spec

(* The link over which the channels of an authenticated terminal are        *)
(* re-requested is the one that authenticated it (_on_auth, active_jt808).  *)
THEOREM AuthenticatedReachable == Spec => []AuthedHasLink
<1>1. CASE SingleCarrier
  <2>1. LinkInv => AuthedHasLink
    BY DEF LinkInv, AuthedHasLink
  <2> QED BY <1>1, <2>1, LinksCorrect, PTL
<1>2. CASE ~SingleCarrier
  <2>1. AuthedHasLink
    BY <1>2 DEF AuthedHasLink
  <2> QED BY <2>1, PTL
<1> QED BY <1>1, <1>2

(* active_jt808 never names a finished connection (run's finally).          *)
THEOREM ActiveLinksOpen == Spec => []ActiveIsOpen
<1>1. CASE SingleCarrier
  <2>1. LinkInv => ActiveIsOpen
    BY DEF LinkInv, Live, ActiveIsOpen
  <2> QED BY <1>1, <2>1, LinksCorrect, PTL
<1>2. CASE ~SingleCarrier
  <2>1. ActiveIsOpen
    BY <1>2 DEF ActiveIsOpen
  <2> QED BY <2>1, PTL
<1> QED BY <1>1, <1>2

-----------------------------------------------------------------------------
(***************************************************************************)
(* Signalling implements DeviceTable: known, authed, streams and doomed    *)
(* are the abstract variables themselves.  Only AuthOk needs an invariant: *)
(* the number it authenticates is known because it holds a code.           *)
(***************************************************************************)
LEMMA TableStep ==
  ASSUME TypeOK, TableInv, [Next]_sigVars
  PROVE  [Table!TableNext]_Table!tableVars
<1> DEFINE Keeps == UNCHANGED <<known, authed, streams, doomed>>
           Goes(p) == Table!TableStep(p)
<1> USE SigAssumption DEF Table!tableVars
<1>1. ASSUME Keeps  PROVE [Table!TableNext]_Table!tableVars
  BY <1>1
<1>2. ASSUME NEW p \in Phones, Goes(p)
      PROVE  [Table!TableNext]_Table!tableVars
  BY <1>2 DEF Table!TableNext
<1>3. ASSUME NEW c \in Conns, NEW p \in Phones, NEW code \in Codes,
             Register(c, p, code)
      PROVE  Goes(p)
  BY <1>3 DEF Register, Deauth, Table!TableStep, Table!Appear
<1>4. ASSUME NEW c \in Conns, NEW p \in Phones, NEW code \in Codes,
             AuthOk(c, p, code)
      PROVE  Goes(p)
  <2>1. p \in known
    BY <1>4 DEF AuthOk, Validate, TableInv, CodeHasDevice
  <2>2. known' = known
    BY <2>1, <1>4 DEF AuthOk
  <2> QED
    BY <2>1, <2>2, <1>4 DEF AuthOk, Table!TableStep, Table!Authenticate
<1>5. ASSUME NEW c \in Conns, NEW p \in Phones, Logout(c, p)  PROVE Goes(p)
  BY <1>5 DEF Logout, Deauth, Table!TableStep, Table!LogOut
<1>6. ASSUME NEW c \in Conns, Disconnect(c) \/ HandlerRaises(c)
      PROVE  Keeps \/ \E p \in Phones : Goes(p)
  <2>1. CASE phone[c] = None
    BY <2>1, <1>6 DEF Disconnect, HandlerRaises, RunEnds
  <2>2. CASE phone[c] # None
    <3>1. phone[c] \in Phones /\ Forget(phone[c])
      BY <2>2, <1>6 DEF Disconnect, HandlerRaises, RunEnds, TypeOK
    <3>2. Goes(phone[c])
      BY <3>1 DEF Forget, Deauth, DropStreams, Table!TableStep, Table!Vanish
    <3> QED BY <3>1, <3>2
  <2> QED BY <2>1, <2>2
<1>7. ASSUME NEW p \in Phones, NEW m \in Managers, GetDeviceStreams(p, m)
      PROVE  [Table!TableNext]_Table!tableVars
  BY <1>7 DEF GetDeviceStreams, Table!TableNext, Table!Allocate
<1>8. ASSUME NEW c \in Conns,
             \/ Open(c) \/ OtherMessage(c) \/ Resume(c) \/ BeatDone(c)
             \/ QueryParams(c) \/ RequestNext(c)
             \/ \E p \in Phones : Heartbeat(c, p) \/ LocationBatch(c, p)
             \/ \E p \in Phones, b \in BOOLEAN : Location(c, p, b)
             \/ \E p \in Phones, code \in Codes : AuthFail(c, p, code)
             \/ \E ch \in Cameras : RefreshStep(c, ch) \/ RefreshRaises(c, ch)
      PROVE  Keeps
  BY <1>8 DEF Open, OtherMessage, Resume, BeatDone, QueryParams, RequestNext,
              Heartbeat, LocationBatch, Location, AuthFail, RefreshStep,
              RefreshRaises
<1>9. CASE UNCHANGED sigVars
  BY <1>9, <1>1
<1> HIDE DEF Keeps, Goes
<1> QED
  BY <1>1, <1>2, <1>3, <1>4, <1>5, <1>6, <1>7, <1>8, <1>9, NextCases

(* The video and HTTP sides may take the signalling side for DeviceTable    *)
(* (devices and device_streams of main.py).                                 *)
THEOREM ImplementsTable == Spec => KeepsTable
<1>1. Init => Table!TableInit
  BY DEF Init, Table!TableInit
<1>2. TypeOK /\ TableInv /\ [Next]_sigVars
        => [Table!TableNext]_Table!tableVars
  BY TableStep
<1> QED
  BY <1>1, <1>2, TypeCorrect, TablesCorrect, PTL
     DEF Spec, KeepsTable, Table!TableSpec
=============================================================================
