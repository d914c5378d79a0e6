---------------------------- MODULE DeviceTable -----------------------------
(***************************************************************************)
(* What the signalling side promises the video and HTTP sides: the keys of *)
(* devices, which of them are authenticated, and device_streams.  This is  *)
(* all that JT1078Connection and http_handler read of it.                  *)
(***************************************************************************)
CONSTANTS
  Names,     (* keys of device_streams                                     *)
  Managers,  (* StreamManager objects that may be allocated                *)
  None

ASSUME TableAssumption == None \notin Managers

VARIABLES
  known, authed,    (* devices: its keys, and those with authed True       *)
  streams, doomed   (* device_streams; managers whose stop_all task has    *)
                    (*   been scheduled                                    *)

tableVars == <<known, authed, streams, doomed>>

TableInit ==
  /\ known = {} /\ authed = {}
  /\ streams = [n \in Names |-> None]
  /\ doomed = {}

(* A new entry.                                                             *)
Appear(n) ==
  /\ known'  = known \cup {n}
  /\ authed' = authed \ {n}
  /\ UNCHANGED <<streams, doomed>>

Authenticate(n) ==
  /\ n \in known
  /\ authed' = authed \cup {n}
  /\ UNCHANGED <<known, streams, doomed>>

LogOut(n) ==
  /\ authed' = authed \ {n}
  /\ UNCHANGED <<known, streams, doomed>>

(* The number is removed with its manager, which will be stopped.  Mutant:  *)
(* which will not.                                                          *)
VanishUnstopped(n) ==
  /\ known'   = known \ {n}
  /\ authed'  = authed \ {n}
  /\ streams' = [streams EXCEPT ![n] = None]
  /\ UNCHANGED doomed
Vanish(n) ==
  /\ known'   = known \ {n}
  /\ authed'  = authed \ {n}
  /\ doomed'  = doomed \cup ({streams[n]} \ {None})
  /\ streams' = [streams EXCEPT ![n] = None]

(* get_device_streams(n) allocates m.                                       *)
Allocate(n, m) ==
  /\ streams[n] = None
  /\ m \in Managers \ (doomed \cup {streams[q] : q \in Names})
  /\ streams' = [streams EXCEPT ![n] = m]
  /\ UNCHANGED <<known, authed, doomed>>

TableStep(n) == Appear(n) \/ Authenticate(n) \/ LogOut(n) \/ Vanish(n)

TableNext ==
  \E n \in Names : TableStep(n) \/ \E m \in Managers : Allocate(n, m)

TableSpec == TableInit /\ [][TableNext]_tableVars

(* What get_device_streams(n) returns, allocated now if need be.            *)
Serve(n, m) ==
  \/ streams[n] = m /\ m # None /\ UNCHANGED tableVars
  \/ Allocate(n, m)
=============================================================================
