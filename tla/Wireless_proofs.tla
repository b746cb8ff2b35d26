---------------------------- MODULE Wireless_proofs ----------------------------
(***************************************************************************)
(* What the wireless attempt owns, and what a confirmed exit means, for    *)
(* every set of interfaces, queue capacity and number of requests, exits   *)
(* and clients.                                                            *)
(***************************************************************************)
EXTENDS WirelessWorker, TLAPS

USE InterfaceAssumption, WorkerAssumption

(* The attempt holds the lease from its start to its last decision, and    *)
(* nobody else holds it as the wireless side.                              *)
LeaseOfAttempt == lease = "wifi" <=> act.pc \notin {"none", "done"}

(* What the task believes of its access point, by where it is.  A failed   *)
(* cleanup forgets it only in the decision.                                *)
PointOfPlace ==
    /\ act.pc \in {"none", "check", "prepare", "firewall", "helper", "backoff", "done"}
         => ap = NoAp
    /\ act.pc = "unguard" => ~ap.pending /\ ~ap.active
    /\ act.pc = "decide" /\ ~act.cleanup => ap = NoAp

(* Listener, peer, media and session exist only until the media is closed. *)
ClosedInTime ==
    act.pc \notin Operation \cup {"closing"} =>
        adm = NoAdmission /\ snap.by # "wifi" /\ ~conn.wifi

(* Exits: operations are numbered, a confirmation is of the one taken last.*)
ExitsNumbered ==
    /\ quit.op <= quit.last
    /\ quit.stopped \in {0, quit.op}
    /\ \A k \in 1..Len(queue) : queue[k].a = "stopAll" => queue[k].v <= quit.last

(* The newest exit was taken while its client waits: nothing is enabled    *)
(* any more, and once the attempt has been joined none exists.             *)
ExitTaken == quit.stopping /\ quit.last # 0 /\ quit.op = quit.last
Joining == worker.at = "join" /\ worker.why = "stopAll"

NothingEnabled ==
    /\ ExitTaken => ~allow.proj /\ ~allow.on
    /\ ExitTaken /\ ~Joining => act.pc = "none"
    /\ Joining => quit.stopped = 0

(* The worker holds the lease exactly while it disconnects the phones.     *)
LeaseOfExit == worker.at = "stopLease" <=> lease = "stopAll"

(* An attempt has an interface.                                            *)
InterfaceChosen == act.pc # "none" => act.iface \in Interfaces

AttemptInv == /\ AttemptTypeOK /\ InterfaceChosen
              /\ LeaseOfAttempt /\ PointOfPlace /\ ClosedInTime

IInv == /\ TypeOK /\ AttemptInv /\ ExitsNumbered /\ NothingEnabled /\ LeaseOfExit

-----------------------------------------------------------------------------
(* Lemmas about the state.                                                 *)

(* Updating a field of the attempt or of the access point.                 *)
LEMMA AttemptFields ==
    /\ \A a \in Activity, s \in AttemptState : [a EXCEPT !.pc = s] \in Activity
    /\ \A a \in Activity, k \in Kinds \cup {"Ok"} : [a EXCEPT !.res = k] \in Activity
    /\ \A a \in Activity, n \in 0..2 : [a EXCEPT !.n = n] \in Activity
    /\ \A a \in Activity, b \in BOOLEAN : /\ [a EXCEPT !.cancel = b] \in Activity
                                          /\ [a EXCEPT !.cleanup = b] \in Activity
    /\ \A p \in AccessPoint, b \in BOOLEAN : /\ [p EXCEPT !.firewall = b] \in AccessPoint
                                             /\ [p EXCEPT !.pending = b] \in AccessPoint
                                             /\ [p EXCEPT !.active = b] \in AccessPoint
<1>1. \A a \in Activity, s \in AttemptState : [a EXCEPT !.pc = s] \in Activity
  BY DEF Activity
<1>2. \A a \in Activity, k \in Kinds \cup {"Ok"} : [a EXCEPT !.res = k] \in Activity
  BY DEF Activity
<1>3. \A a \in Activity, n \in 0..2 : [a EXCEPT !.n = n] \in Activity
  BY DEF Activity
<1>4. \A a \in Activity, b \in BOOLEAN : /\ [a EXCEPT !.cancel = b] \in Activity
                                         /\ [a EXCEPT !.cleanup = b] \in Activity
  BY DEF Activity
<1>5. \A p \in AccessPoint, b \in BOOLEAN : /\ [p EXCEPT !.firewall = b] \in AccessPoint
                                            /\ [p EXCEPT !.pending = b] \in AccessPoint
                                            /\ [p EXCEPT !.active = b] \in AccessPoint
  BY DEF AccessPoint
<1> QED
  BY <1>1, <1>2, <1>3, <1>4, <1>5

(* Updating a field of the admission or of what is published.              *)
LEMMA OutcomeFields ==
    /\ \A a \in Admission, b \in BOOLEAN : /\ [a EXCEPT !.listener = b] \in Admission
                                           /\ [a EXCEPT !.rfcomm = b] \in Admission
                                           /\ [a EXCEPT !.auth = b] \in Admission
                                           /\ [a EXCEPT !.peer = b] \in Admission
                                           /\ [a EXCEPT !.media = b] \in Admission
                                           /\ [a EXCEPT !.established = b] \in Admission
    /\ \A s \in Session : /\ [s EXCEPT !.st = "failed"] \in Session
                          /\ [s EXCEPT !.st = "streaming"] \in Session
    /\ \A c \in Connectivity, p \in Phases : [c EXCEPT !.phase = p] \in Connectivity
    /\ \A c \in Connectivity, b \in BOOLEAN : /\ [c EXCEPT !.wifi = b] \in Connectivity
                                              /\ [c EXCEPT !.error = b] \in Connectivity
<1>1. \A a \in Admission, b \in BOOLEAN : /\ [a EXCEPT !.listener = b] \in Admission
                                          /\ [a EXCEPT !.rfcomm = b] \in Admission
                                          /\ [a EXCEPT !.auth = b] \in Admission
                                          /\ [a EXCEPT !.peer = b] \in Admission
                                          /\ [a EXCEPT !.media = b] \in Admission
                                          /\ [a EXCEPT !.established = b] \in Admission
  BY DEF Admission
<1>2. \A s \in Session : /\ [s EXCEPT !.st = "failed"] \in Session
                         /\ [s EXCEPT !.st = "streaming"] \in Session
  BY DEF Session
<1>3. \A c \in Connectivity, p \in Phases : [c EXCEPT !.phase = p] \in Connectivity
  BY DEF Connectivity
<1>4. \A c \in Connectivity, b \in BOOLEAN : /\ [c EXCEPT !.wifi = b] \in Connectivity
                                             /\ [c EXCEPT !.error = b] \in Connectivity
  BY DEF Connectivity
<1> QED
  BY <1>1, <1>2, <1>3, <1>4

(* The state of an attempt that does not exist.                            *)
LEMMA RestTyped ==
    /\ NoAttempt \in Activity /\ NoAp \in AccessPoint /\ NoAdmission \in Admission
    /\ NoSession \in Session /\ [by |-> "wifi", st |-> "connecting"] \in Session
    /\ [by |-> "usb", st |-> "connecting"] \in Session
<1>1. NoAttempt \in Activity
  BY DEF NoAttempt, Activity, AttemptState
<1>2. NoAp \in AccessPoint
  BY DEF NoAp, AccessPoint
<1>3. NoAdmission \in Admission
  BY DEF NoAdmission, Admission
<1> QED
  BY <1>1, <1>2, <1>3 DEF NoSession, Session

(* An access point without a part is none.                                 *)
LEMMA EmptyPoint ==
    ASSUME NEW p \in AccessPoint, ~p.firewall, ~p.pending, ~p.active
    PROVE  p = NoAp
BY DEF AccessPoint, NoAp

-----------------------------------------------------------------------------
(* The two ways in which an attempt ends.                                  *)

LEMMA EarlyReturn ==
    ASSUME AttemptInv, act.pc \in {"check", "prepare"}, NEW kind \in Kinds, ReturnEarly(kind),
           conn' = conn
    PROVE  AttemptInv'
<1> USE DEF AttemptInv, AttemptTypeOK
<1>1. [act EXCEPT !.pc = "decide"] \in Activity
  BY AttemptFields DEF AttemptState
<1>2. [act EXCEPT !.pc = "decide", !.res = kind] \in Activity
  BY <1>1, AttemptFields
<1>3. act' \in Activity
  BY <1>2, AttemptFields DEF ReturnEarly
<1>4. act'.pc = "decide"
  BY DEF ReturnEarly, Activity
<1>5. act'.iface = act.iface
  BY DEF ReturnEarly, Activity
<1> QED
  BY <1>3, <1>4, <1>5
  DEF ReturnEarly, InterfaceChosen, LeaseOfAttempt, PointOfPlace, ClosedInTime, Operation

LEMMA OperationEnds ==
    ASSUME AttemptInv, act.pc \in Operation, NEW kind \in Kinds \cup {"Ok"}, End(kind),
           guards' \subseteq Interfaces, nm' \subseteq Interfaces,
           marker' \in Interfaces \cup {NoInterface}
    PROVE  AttemptInv'
<1> USE DEF AttemptInv, AttemptTypeOK
<1>1. act' \in Activity
  <2>1. [act EXCEPT !.pc = "closing"] \in Activity
    BY AttemptFields DEF AttemptState
  <2>2. [act EXCEPT !.pc = "closing", !.res = kind] \in Activity
    BY <2>1, AttemptFields
  <2> QED
    BY <2>2, AttemptFields DEF End
<1>2. adm' \in Admission
  <2>1. [adm EXCEPT !.listener = FALSE] \in Admission
    BY OutcomeFields
  <2>2. [adm EXCEPT !.listener = FALSE, !.rfcomm = FALSE] \in Admission
    BY <2>1, OutcomeFields
  <2> QED
    BY <2>2, OutcomeFields DEF End
<1>3. snap' \in Session
  BY OutcomeFields DEF End
<1>4. conn' \in Connectivity
  BY OutcomeFields DEF End, Phase, Phases
<1>5. act'.pc = "closing" /\ act'.iface = act.iface
  BY DEF End, Activity
<1> QED
  BY <1>1, <1>2, <1>3, <1>4, <1>5
  DEF End, InterfaceChosen, LeaseOfAttempt, PointOfPlace, ClosedInTime, Operation

(* A step inside the attempt goes on to a next place.                      *)
LEMMA Goes ==
    ASSUME AttemptTypeOK, NEW s \in AttemptState, Go(s)
    PROVE  act' \in Activity /\ act'.pc = s /\ act'.iface = act.iface
           /\ act'.cleanup = act.cleanup
<1>1. act' \in Activity
  BY AttemptFields DEF Go, AttemptTypeOK
<1>2. act'.pc = s /\ act'.iface = act.iface /\ act'.cleanup = act.cleanup
  BY DEF Go, AttemptTypeOK, Activity
<1> QED
  BY <1>1, <1>2

(* A phase is published, nothing else.                                     *)
LEMMA PhaseTyped ==
    ASSUME AttemptTypeOK, NEW p \in Phases, Phase(p)
    PROVE  conn' \in Connectivity /\ conn'.wifi = conn.wifi /\ conn'.error = conn.error
<1>1. conn' \in Connectivity
  BY OutcomeFields DEF Phase, AttemptTypeOK
<1>2. conn'.wifi = conn.wifi /\ conn'.error = conn.error
  BY DEF Phase, AttemptTypeOK, Connectivity
<1> QED
  BY <1>1, <1>2

-----------------------------------------------------------------------------
(* The attempt's steps.                                                    *)

(* Failures, the deadline and cancellation, wherever they strike.          *)
LEMMA EndsKeep ==
    ASSUME AttemptInv,
           \/ CheckFails \/ PrepareFails \/ BootstrapRefused \/ OperationFails
           \/ SetupDeadline \/ OperationCancelled
    PROVE  AttemptInv'
<1> USE DEF At
<1>1. CASE CheckFails \/ PrepareFails
  <2>1. act.pc \in {"check", "prepare"} /\ conn' = conn /\ \E kind \in Kinds : ReturnEarly(kind)
    BY <1>1 DEF CheckFails, PrepareFails, Kinds
  <2> QED
    BY <2>1, EarlyReturn
<1>2. ASSUME Interrupted \/ Quiet, act.pc \in Operation
      PROVE  /\ guards' \subseteq Interfaces /\ nm' \subseteq Interfaces
             /\ marker' \in Interfaces \cup {NoInterface}
  <2>1. act.iface \in Interfaces
    BY <1>2 DEF AttemptInv, InterfaceChosen, Operation
  <2> QED
    BY <1>2, <2>1 DEF Interrupted, Quiet, AttemptInv, AttemptTypeOK
<1>3. CASE BootstrapRefused
  <2>1. act.pc \in Operation /\ End("Authorization") /\ Quiet
    BY <1>3 DEF BootstrapRefused, Operation
  <2> QED
    BY <1>2, <2>1, OperationEnds DEF Kinds
<1>4. CASE OperationFails
  <2>1. OperationKinds(act.pc) \subseteq Kinds \cup {"Ok"}
        /\ (OperationKinds(act.pc) # {} => act.pc \in Operation)
    BY DEF OperationKinds, Kinds, Operation
  <2>2. PICK kind \in OperationKinds(act.pc) : End(kind)
    BY <1>4 DEF OperationFails
  <2>3. Interrupted
    BY <1>4 DEF OperationFails
  <2> QED
    BY <1>2, <2>1, <2>2, <2>3, OperationEnds
<1>5. CASE SetupDeadline
  <2>1. act.pc \in Operation /\ End("SetupTimeout") /\ Interrupted
    BY <1>5 DEF SetupDeadline
  <2> QED
    BY <1>2, <2>1, OperationEnds DEF Kinds
<1>6. CASE OperationCancelled
  <2>1. act.pc \in Operation /\ End("Cancelled") /\ Interrupted
    BY <1>6 DEF OperationCancelled
  <2> QED
    BY <1>2, <2>1, OperationEnds DEF Kinds
<1> QED
  BY <1>1, <1>3, <1>4, <1>5, <1>6

(* Up to the access point.                                                 *)
LEMMA PreparationKeeps ==
    ASSUME AttemptInv,
           \/ CheckOk \/ PrepareOk \/ FirewallIntent \/ HelperOk \/ TemplateOk \/ ActivateOk
    PROVE  AttemptInv'
<1> USE DEF AttemptInv, At
<1> DEFINE here == act.pc \in {"check", "prepare"} \cup Operation
           there(s) == /\ act' \in Activity /\ act'.pc = s /\ act'.iface = act.iface
<1>1. act.iface \in Interfaces \/ act.pc = "none"
  BY DEF InterfaceChosen
<1>2. CASE CheckOk
  <2>1. there("prepare") /\ act.pc = "check"
    BY <1>2, Goes DEF CheckOk, AttemptState
  <2>2. conn' \in Connectivity /\ conn'.wifi = conn.wifi
    BY <1>2, PhaseTyped DEF CheckOk, Phases
  <2> QED
    BY <1>2, <2>1, <2>2 DEF CheckOk, AttemptTypeOK, InterfaceChosen, LeaseOfAttempt,
       PointOfPlace, ClosedInTime, Operation
<1>3. CASE PrepareOk
  <2>1. there("firewall") /\ act.pc = "prepare"
    BY <1>3, Goes DEF PrepareOk, AttemptState, Operation
  <2> QED
    BY <1>3, <2>1 DEF PrepareOk, AttemptTypeOK, InterfaceChosen, LeaseOfAttempt,
       PointOfPlace, ClosedInTime, Operation
<1>4. CASE FirewallIntent
  <2>1. there("helper") /\ act.pc = "firewall"
    BY <1>4, Goes DEF FirewallIntent, AttemptState, Operation
  <2> QED
    BY <1>1, <1>4, <2>1 DEF FirewallIntent, AttemptTypeOK, InterfaceChosen, LeaseOfAttempt,
       PointOfPlace, ClosedInTime, Operation
<1>5. CASE HelperOk
  <2>1. there("template") /\ act.pc = "helper"
    BY <1>5, Goes DEF HelperOk, AttemptState, Operation
  <2>2. ap' \in AccessPoint
    BY <1>5, AttemptFields DEF HelperOk, AttemptTypeOK
  <2> QED
    BY <1>1, <1>5, <2>1, <2>2 DEF HelperOk, AttemptTypeOK, InterfaceChosen, LeaseOfAttempt,
       PointOfPlace, ClosedInTime, Operation
<1>6. CASE TemplateOk
  <2>1. there("activating") /\ act.pc = "template"
    BY <1>6, Goes DEF TemplateOk, AttemptState, Operation
  <2>2. ap' \in AccessPoint
    BY <1>6, AttemptFields DEF TemplateOk, AttemptTypeOK
  <2> QED
    BY <1>6, <2>1, <2>2 DEF TemplateOk, AttemptTypeOK, InterfaceChosen, LeaseOfAttempt,
       PointOfPlace, ClosedInTime, Operation
<1>7. CASE ActivateOk
  <2>1. there("ready") /\ act.pc = "activating"
    BY <1>7, Goes DEF ActivateOk, AttemptState, Operation
  <2>2. ap' \in AccessPoint
    <3>1. [ap EXCEPT !.pending = FALSE] \in AccessPoint
      BY AttemptFields DEF AttemptTypeOK
    <3> QED
      BY <1>7, <3>1, AttemptFields DEF ActivateOk
  <2> QED
    BY <1>1, <1>7, <2>1, <2>2 DEF ActivateOk, AttemptTypeOK, InterfaceChosen, LeaseOfAttempt,
       PointOfPlace, ClosedInTime, Operation
<1> QED
  BY <1>2, <1>3, <1>4, <1>5, <1>6, <1>7

(* From the listener to the session.                                       *)
LEMMA AdmissionKeeps ==
    ASSUME AttemptInv,
           \/ ReadyOk \/ BootstrapConnected \/ Authorize \/ BootstrapCloses \/ TcpCandidate
           \/ Admit \/ PublishSession \/ VersionOk \/ Establish
    PROVE  AttemptInv'
<1> USE DEF AttemptInv, At
<1> DEFINE there == act' \in Activity /\ act'.pc \in Operation \ {"firewall", "helper"}
                    /\ act'.iface = act.iface
           before == Operation \ {"firewall", "helper", "template", "activating"}
<1>1. Quiet => /\ guards' \subseteq Interfaces /\ nm' \subseteq Interfaces
               /\ marker' \in Interfaces \cup {NoInterface}
  BY DEF Quiet, AttemptTypeOK
<1>2. ASSUME act.pc \in before, there, adm' \in Admission, snap' \in Session,
             conn' \in Connectivity, UNCHANGED <<ap, guards, marker, nm, lease, paired>>
      PROVE  AttemptInv'
  BY <1>2 DEF AttemptTypeOK, InterfaceChosen, LeaseOfAttempt, PointOfPlace, ClosedInTime,
     Operation
<1>3. act.pc \in before /\ UNCHANGED act => there
  BY DEF AttemptTypeOK, Operation
<1>4. \A s \in before : Go(s) => there
  BY Goes DEF AttemptState, Operation
<1>5. CASE ReadyOk \/ BootstrapConnected
  <2>1. adm' \in Admission
    BY <1>5, OutcomeFields DEF ReadyOk, BootstrapConnected, AttemptTypeOK
  <2>2. conn' \in Connectivity
    BY <1>5, PhaseTyped DEF ReadyOk, BootstrapConnected, Phases
  <2>3. act.pc \in before /\ there
    BY <1>4, <1>5 DEF ReadyOk, BootstrapConnected, Operation
  <2> QED
    BY <1>2, <1>5, <2>1, <2>2, <2>3 DEF ReadyOk, BootstrapConnected, AttemptTypeOK
<1>6. CASE Authorize
  <2>1. adm' \in Admission
    BY <1>6, OutcomeFields DEF Authorize, AttemptTypeOK
  <2>2. conn' \in Connectivity
    BY <1>6, PhaseTyped DEF Authorize, Phases
  <2> QED
    BY <1>2, <1>3, <1>6, <2>1, <2>2 DEF Authorize, AttemptTypeOK, Operation
<1>7. CASE BootstrapCloses
  <2>1. act.pc \in before /\ Quiet
    BY <1>7 DEF BootstrapCloses, Operation
  <2>2. CASE adm.auth
    <3>1. adm' = [adm EXCEPT !.rfcomm = FALSE] /\ UNCHANGED <<act, ap, lease, paired, snap, conn>>
      BY <1>7, <2>2 DEF BootstrapCloses
    <3>2. adm' \in Admission
      BY <3>1, OutcomeFields DEF AttemptTypeOK
    <3> QED
      BY <1>2, <1>3, <2>1, <3>1, <3>2 DEF AttemptTypeOK, Quiet
  <2>3. CASE ~adm.auth
    <3>1. PICK k \in {"TransportLoss", "BootstrapClosed"} : End(k)
      BY <1>7, <2>3 DEF BootstrapCloses
    <3> QED
      BY <1>1, <2>1, <3>1, OperationEnds DEF Kinds
  <2> QED
    BY <2>2, <2>3
<1>8. CASE TcpCandidate
  <2>1. act.pc \in before /\ Quiet
    BY <1>8 DEF TcpCandidate, Operation
  <2>2. CASE ~adm.peer
    <3>1. adm' = [adm EXCEPT !.peer = TRUE] /\ Phase("connecting")
          /\ UNCHANGED <<act, ap, lease, paired, snap>>
      BY <1>8, <2>2 DEF TcpCandidate
    <3>2. adm' \in Admission /\ conn' \in Connectivity
      BY <3>1, OutcomeFields, PhaseTyped DEF AttemptTypeOK, Phases
    <3> QED
      BY <1>2, <1>3, <2>1, <3>1, <3>2 DEF AttemptTypeOK, Quiet
  <2>3. CASE adm.peer
    BY <1>1, <1>8, <2>1, <2>3, OperationEnds DEF TcpCandidate, Kinds
  <2> QED
    BY <2>2, <2>3
<1>9. CASE Admit
  <2>1. conn' \in Connectivity
    BY <1>9, OutcomeFields DEF Admit, AttemptTypeOK
  <2>2. act.pc \in before /\ there
    BY <1>4, <1>9 DEF Admit, Operation
  <2> QED
    BY <1>2, <1>9, <2>1, <2>2 DEF Admit, AttemptTypeOK
<1>10. CASE PublishSession
  <2>1. act.pc \in before /\ Quiet
    BY <1>10 DEF PublishSession, Operation
  <2>2. CASE paired
    <3>1. /\ Go("version") /\ adm' = [adm EXCEPT !.listener = FALSE]
          /\ snap' = [by |-> "wifi", st |-> "connecting"]
          /\ UNCHANGED <<ap, lease, paired, conn>>
      BY <1>10, <2>2 DEF PublishSession
    <3>2. adm' \in Admission /\ snap' \in Session
      BY <3>1, OutcomeFields, RestTyped DEF AttemptTypeOK
    <3>3. there
      BY <1>4, <3>1 DEF Operation
    <3> QED
      BY <1>2, <2>1, <3>1, <3>2, <3>3 DEF AttemptTypeOK, Quiet
  <2>3. CASE ~paired
    BY <1>1, <1>10, <2>1, <2>3, OperationEnds DEF PublishSession, Kinds
  <2> QED
    BY <2>2, <2>3
<1>11. CASE VersionOk
  <2>1. adm' \in Admission
    BY <1>11, OutcomeFields DEF VersionOk, AttemptTypeOK
  <2>2. conn' \in Connectivity
    BY <1>11, PhaseTyped DEF VersionOk, Phases
  <2>3. act.pc \in before /\ there
    BY <1>4, <1>11 DEF VersionOk, Operation
  <2> QED
    BY <1>2, <1>11, <2>1, <2>2, <2>3 DEF VersionOk, AttemptTypeOK
<1>12. CASE Establish
  <2>1. adm' \in Admission /\ snap' \in Session
    BY <1>12, OutcomeFields DEF Establish, AttemptTypeOK
  <2>2. conn' \in Connectivity
    BY <1>12, PhaseTyped DEF Establish, Phases
  <2> QED
    BY <1>2, <1>3, <1>12, <2>1, <2>2 DEF Establish, AttemptTypeOK, Operation
<1> QED
  BY <1>5, <1>6, <1>7, <1>8, <1>9, <1>10, <1>11, <1>12

(* network.stop could not be confirmed.                                    *)
LEMMA UncertainTyped ==
    ASSUME AttemptTypeOK, Uncertain
    PROVE  /\ act' \in Activity /\ act'.pc = "decide" /\ act'.cleanup /\ act'.iface = act.iface
           /\ conn' \in Connectivity /\ conn'.wifi = conn.wifi
<1> USE DEF AttemptTypeOK
<1>1. act.res \in Kinds \cup {"Ok"}
  BY DEF Activity
<1>2. act' = [act EXCEPT !.pc = "decide", !.cleanup = TRUE,
                         !.res = IF act.res = "Ok" THEN "Cleanup" ELSE act.res]
  BY DEF Uncertain, Activity
<1>3. [act EXCEPT !.pc = "decide"] \in Activity
  BY AttemptFields DEF AttemptState
<1>4. [act EXCEPT !.pc = "decide", !.cleanup = TRUE] \in Activity
  BY <1>3, AttemptFields
<1>5. act' \in Activity
  <2>1. (IF act.res = "Ok" THEN "Cleanup" ELSE act.res) \in Kinds \cup {"Ok"}
    BY <1>1 DEF Kinds
  <2> QED
    BY <1>2, <1>4, <2>1, AttemptFields
<1>6. act'.pc = "decide" /\ act'.cleanup /\ act'.iface = act.iface
  BY <1>2 DEF Activity
<1>7. conn' \in Connectivity
  BY OutcomeFields DEF Uncertain
<1>8. conn'.wifi = conn.wifi
  BY DEF Uncertain, Connectivity
<1> QED
  BY <1>5, <1>6, <1>7, <1>8

(* Cleanup: media, activation, guard, and the decision.                    *)
LEMMA CleanupKeeps ==
    ASSUME AttemptInv, MediaClosed \/ Deactivate \/ RemoveGuard \/ Decide \/ Backoff
    PROVE  AttemptInv'
<1> USE DEF AttemptInv, At
<1>1. CASE MediaClosed
  <2>1. act' \in Activity /\ act'.pc = "deactivate" /\ act'.iface = act.iface
    BY <1>1, Goes DEF MediaClosed, AttemptState
  <2>2. conn' \in Connectivity
    BY <1>1, OutcomeFields DEF MediaClosed, AttemptTypeOK
  <2>3. ~conn'.wifi
    BY <1>1 DEF MediaClosed, AttemptTypeOK, Connectivity
  <2>4. snap'.by # "wifi"
    BY <1>1 DEF MediaClosed, NoSession
  <2> QED
    BY <1>1, <2>1, <2>2, <2>3, <2>4, RestTyped DEF MediaClosed, AttemptTypeOK, InterfaceChosen,
       LeaseOfAttempt, PointOfPlace, ClosedInTime, Operation
<1>2. CASE Deactivate
  <2>1. act.pc = "deactivate"
    BY <1>2 DEF Deactivate
  <2>2. nm' \subseteq Interfaces /\ ap' \in AccessPoint
    <3>1. nm' \subseteq Interfaces
      BY <1>2 DEF Deactivate, AttemptTypeOK
    <3>2. ap' = ap \/ ap' = [ap EXCEPT !.active = FALSE]
      BY <1>2 DEF Deactivate
    <3>3. ap' \in AccessPoint
      BY <3>2, AttemptFields DEF AttemptTypeOK
    <3> QED
      BY <3>1, <3>3
  <2>3. \/ Uncertain
        \/ Go("unguard") /\ conn' = conn /\ ~ap'.pending /\ ~ap'.active
    BY <1>2 DEF Deactivate, AttemptTypeOK, AccessPoint
  <2>4. act' \in Activity /\ act'.pc \in {"decide", "unguard"} /\ act'.iface = act.iface
        /\ conn' \in Connectivity /\ conn'.wifi = conn.wifi
        /\ (act'.pc = "decide" => act'.cleanup)
        /\ (act'.pc = "unguard" => ~ap'.pending /\ ~ap'.active)
    <3>1. CASE Uncertain
      BY <3>1, UncertainTyped
    <3>2. CASE Go("unguard") /\ conn' = conn /\ ~ap'.pending /\ ~ap'.active
      BY <3>2, Goes DEF AttemptState, AttemptTypeOK
    <3> QED
      BY <2>3, <3>1, <3>2
  <2> QED
    BY <1>2, <2>1, <2>2, <2>4 DEF Deactivate, AttemptTypeOK, InterfaceChosen, LeaseOfAttempt,
       PointOfPlace, ClosedInTime, Operation
<1>3. CASE RemoveGuard
  <2>1. act.pc = "unguard" /\ ~ap.pending /\ ~ap.active
    BY <1>3 DEF RemoveGuard, PointOfPlace
  <2>2. guards' \subseteq Interfaces /\ marker' \in Interfaces \cup {NoInterface}
    BY <1>3 DEF RemoveGuard, AttemptTypeOK
  <2>3. ap' = ap \/ ap' = [ap EXCEPT !.firewall = FALSE]
    BY <1>3 DEF RemoveGuard
  <2>4. ap' \in AccessPoint
    BY <2>3, AttemptFields DEF AttemptTypeOK
  <2>5. Uncertain \/ (Unguarded /\ ~ap'.firewall /\ ~ap'.pending /\ ~ap'.active)
    BY <1>3, <2>1 DEF RemoveGuard, AttemptTypeOK, AccessPoint
  <2>6. act' \in Activity /\ act'.pc = "decide" /\ act'.iface = act.iface
        /\ conn' \in Connectivity /\ conn'.wifi = conn.wifi
        /\ (act'.cleanup \/ ap' = NoAp)
    <3>1. CASE Uncertain
      BY <3>1, UncertainTyped
    <3>2. CASE Unguarded /\ ~ap'.firewall /\ ~ap'.pending /\ ~ap'.active
      <4>1. ap' = NoAp
        BY <2>4, <3>2, EmptyPoint
      <4>2. act' \in Activity /\ act'.pc = "decide" /\ act'.iface = act.iface
        BY <3>2, Goes DEF Unguarded, AttemptState
      <4>3. conn' \in Connectivity
        BY <3>2, OutcomeFields DEF Unguarded, AttemptTypeOK
      <4>4. conn'.wifi = conn.wifi
        BY <3>2 DEF Unguarded, AttemptTypeOK, Connectivity
      <4> QED
        BY <4>1, <4>2, <4>3, <4>4
    <3> QED
      BY <2>5, <3>1, <3>2
  <2> QED
    BY <1>3, <2>1, <2>2, <2>4, <2>6 DEF RemoveGuard, AttemptTypeOK, InterfaceChosen,
       LeaseOfAttempt, PointOfPlace, ClosedInTime, Operation
<1>4. CASE Decide
  <2> DEFINE retry == /\ act.res # "Ok"
                      /\ retry_allowed(act.res, act.cleanup, act.cancel, act.n)
  <2>1. /\ act' = (IF retry THEN [act EXCEPT !.pc = "backoff", !.n = act.n + 1]
                   ELSE [act EXCEPT !.pc = "done"])
        /\ lease' = (IF retry THEN lease ELSE "free")
        /\ act.pc = "decide" /\ ap' = NoAp
    BY <1>4 DEF Decide, AttemptTypeOK, Activity
  <2>2. retry => act.n + 1 \in 0..2
    BY DEF retry_allowed, AttemptTypeOK, Activity
  <2>3. \E p \in Phases : Phase(p)
    BY <1>4 DEF Decide, Phase, Phases
  <2> HIDE DEF retry
  <2>4. act' \in Activity
    <3>1. [act EXCEPT !.pc = "backoff"] \in Activity /\ [act EXCEPT !.pc = "done"] \in Activity
      BY AttemptFields DEF AttemptTypeOK, AttemptState
    <3>2. retry => [act EXCEPT !.pc = "backoff", !.n = act.n + 1] \in Activity
      BY <2>2, <3>1, AttemptFields
    <3> QED
      BY <2>1, <3>1, <3>2
  <2>5. act'.pc = IF retry THEN "backoff" ELSE "done"
    BY <2>1 DEF AttemptTypeOK, Activity
  <2>6. act'.iface = act.iface
    BY <2>1 DEF AttemptTypeOK, Activity
  <2>7. conn' \in Connectivity /\ conn'.wifi = conn.wifi
    BY <2>3, PhaseTyped
  <2> QED
    BY <1>4, <2>1, <2>4, <2>5, <2>6, <2>7, RestTyped DEF Decide, AttemptTypeOK, InterfaceChosen,
       LeaseOfAttempt, PointOfPlace, ClosedInTime, Operation
<1>5. CASE Backoff
  <2>1. \/ Go("done") /\ lease' = "free"
        \/ act' = [act EXCEPT !.pc = "check", !.res = "Ok"] /\ lease' = lease
    BY <1>5 DEF Backoff
  <2>2. act' \in Activity /\ act'.iface = act.iface
        /\ \/ act'.pc = "done" /\ lease' = "free"
           \/ act'.pc = "check" /\ lease' = lease
    <3>1. CASE Go("done") /\ lease' = "free"
      BY <3>1, Goes DEF AttemptState
    <3>2. CASE act' = [act EXCEPT !.pc = "check", !.res = "Ok"] /\ lease' = lease
      <4>1. [act EXCEPT !.pc = "check"] \in Activity
        BY AttemptFields DEF AttemptTypeOK, AttemptState
      <4>2. act' \in Activity
        BY <3>2, <4>1, AttemptFields
      <4>3. act'.pc = "check" /\ act'.iface = act.iface
        BY <3>2 DEF AttemptTypeOK, Activity
      <4> QED
        BY <3>2, <4>2, <4>3
    <3> QED
      BY <2>1, <3>1, <3>2
  <2> QED
    BY <1>5, <2>2 DEF Backoff, AttemptTypeOK, InterfaceChosen, LeaseOfAttempt, PointOfPlace,
       ClosedInTime, Operation
<1> QED
  BY <1>1, <1>2, <1>3, <1>4, <1>5

(* NetworkManager, the bond and the wired owner.                           *)
LEMMA ExternalKeeps ==
    ASSUME AttemptInv, External
    PROVE  AttemptInv' /\ (lease' = "stopAll" <=> lease = "stopAll")
<1> USE DEF AttemptInv, AttemptTypeOK, InterfaceChosen, LeaseOfAttempt, PointOfPlace, ClosedInTime
<1>1. CASE \E i \in Interfaces : NmReaps(i)
  BY <1>1 DEF NmReaps
<1>2. CASE PairingChanges
  BY <1>2 DEF PairingChanges
<1>3. CASE UsbAcquires \/ UsbReleases
  <2>1. snap' \in Session /\ snap'.by # "wifi"
    BY <1>3, RestTyped DEF UsbAcquires, UsbReleases, NoSession
  <2> QED
    BY <1>3, <2>1 DEF UsbAcquires, UsbReleases, Operation
<1> QED
  BY <1>1, <1>2, <1>3 DEF External

(* The task's own steps, together.                                         *)
LEMMA AttemptKeeps ==
    ASSUME AttemptInv, Progress \/ Cleanup
    PROVE  AttemptInv'
BY EndsKeep, PreparationKeeps, AdmissionKeeps, CleanupKeeps DEF Progress, Cleanup

(* They need an attempt, and touch the lease only to give it back.         *)
LEMMA AttemptActs ==
    ASSUME AttemptInv, Progress \/ Cleanup
    PROVE  /\ act.pc # "none"
           /\ lease' = lease \/ (lease = "wifi" /\ lease' = "free")
<1> USE DEF At
<1>1. ASSUME Progress
      PROVE  act.pc # "none" /\ lease' = lease
  <2>1. CASE CheckFails \/ CheckOk \/ PrepareFails \/ PrepareOk
    BY <2>1 DEF CheckFails, CheckOk, PrepareFails, PrepareOk, ReturnEarly
  <2>2. CASE FirewallIntent \/ HelperOk \/ TemplateOk \/ ActivateOk \/ ReadyOk \/ BootstrapConnected
    BY <2>2 DEF FirewallIntent, HelperOk, TemplateOk, ActivateOk, ReadyOk, BootstrapConnected
  <2>3. CASE BootstrapRefused \/ Authorize \/ BootstrapCloses \/ TcpCandidate \/ Admit
    BY <2>3 DEF BootstrapRefused, Authorize, BootstrapCloses, TcpCandidate, Admit, End
  <2>4. CASE PublishSession \/ VersionOk \/ Establish
    BY <2>4 DEF PublishSession, VersionOk, Establish, End
  <2>5. CASE OperationFails \/ SetupDeadline
    BY <2>5 DEF OperationFails, SetupDeadline, OperationKinds, End, Operation
  <2> QED
    BY <1>1, <2>1, <2>2, <2>3, <2>4, <2>5 DEF Progress
<1>2. ASSUME Cleanup
      PROVE  act.pc # "none" /\ (lease' = lease \/ (lease = "wifi" /\ lease' = "free"))
  <2>1. CASE OperationCancelled
    BY <2>1 DEF OperationCancelled, Operation, End
  <2>2. CASE MediaClosed \/ Deactivate \/ RemoveGuard
    BY <2>2 DEF MediaClosed, Deactivate, RemoveGuard
  <2>3. CASE Decide \/ Backoff
    BY <2>3 DEF Decide, Backoff, AttemptInv, LeaseOfAttempt
  <2> QED
    BY <1>2, <2>1, <2>2, <2>3 DEF Cleanup
<1> QED
  BY <1>1, <1>2

-----------------------------------------------------------------------------
(* The worker's steps, by what they do to the attempt.                     *)

World == <<ap, guards, marker, nm, adm, lease, snap>>

Cancels == /\ act' = [act EXCEPT !.cancel = TRUE]
           /\ UNCHANGED <<World, paired>>

Publishes == UNCHANGED <<act, World, paired>>

Forgets == /\ act.pc \in {"none", "done"} /\ act' = NoAttempt
           /\ paired' \in BOOLEAN /\ UNCHANGED World

MovesLease == /\ lease # "wifi" /\ lease' \in {"free", "stopAll"}
              /\ UNCHANGED <<act, ap, guards, marker, nm, adm, snap, paired>>

(* The connectivity snapshot keeps its type and its wifi flag.             *)
Reports == conn' \in Connectivity /\ conn'.wifi = conn.wifi

WorkerStep == \/ Client \/ Worker \/ Events
              \/ \E c \in Controllers, err \in BOOLEAN : ControllerAnswers(c, err)

(* Mere requests and answers.                                              *)
Asks == \/ Client \/ Skipped \/ ProjectionEnabled \/ SelectInterface \/ InventoryFails
        \/ \E c \in Controllers, err \in BOOLEAN : ControllerAnswers(c, err)

LEMMA AsksLeave ==
    ASSUME Asks
    PROVE  UNCHANGED attemptVars
<1>1. CASE Client
  BY <1>1 DEF Client, ClientHello, ClientLeaves, ClientCleanup, SendStopAll, Send
<1>2. CASE Skipped \/ ProjectionEnabled \/ SelectInterface \/ InventoryFails
  BY <1>2 DEF Skipped, ProjectionEnabled, SelectInterface, InventoryFails
<1>3. CASE \E c \in Controllers, err \in BOOLEAN : ControllerAnswers(c, err)
  BY <1>3 DEF ControllerAnswers
<1> QED
  BY <1>1, <1>2, <1>3 DEF Asks

LEMMA WorkerLeavesAttempt ==
    ASSUME TypeOK, LeaseOfExit, WorkerStep
    PROVE  \/ UNCHANGED attemptVars
           \/ ~quit.stopping /\ StartAttempt(iface)
           \/ (Cancels \/ Publishes \/ Forgets \/ MovesLease) /\ Reports
<1> USE DEF TypeOK
<1> DEFINE Touches == (Cancels \/ Publishes \/ Forgets \/ MovesLease) /\ Reports
<1>1. CASE Asks
  BY <1>1, AsksLeave
<1>2. conn' = conn => Reports
  BY DEF AttemptTypeOK, Reports
<1>3. \A p \in Phases : Phase(p) => Reports
  BY PhaseTyped DEF Reports
<1>4. \A why \in Reason : Join(why) /\ UNCHANGED rest => Cancels
  BY DEF Join, rest, Cancels, World
<1>5. CASE ClientClosed \/ DisconnectCommand \/ BluetoothLost \/ Shutdown
           \/ \E a \in {"disconnect", "forget"} : Disconnect(a)
  <2>1. Cancels /\ conn' = conn
    BY <1>4, <1>5 DEF ClientClosed, DisconnectCommand, BluetoothLost, Shutdown, Disconnect, Reason
  <2> QED
    BY <1>2, <2>1
<1>6. CASE StopAllTaken
  <2>1. Cancels /\ Phase("cleanup")
    BY <1>4, <1>6 DEF StopAllTaken, Reason
  <2> QED
    BY <1>3, <2>1 DEF Phases
<1>7. CASE Reap
  <2>1. Forgets /\ conn' = conn
    BY <1>7 DEF Reap, Forgets, World, rest, AttemptTypeOK
  <2> QED
    BY <1>2, <2>1
<1>8. CASE Joined
  <2>1. Forgets
    BY <1>8 DEF Joined, Forgets, World, AttemptTypeOK
  <2>2. conn.phase \in Phases
    BY DEF AttemptTypeOK, Connectivity
  <2>3. \E p \in Phases : conn' = [conn EXCEPT !.phase = p]
    BY <1>8, <2>2 DEF Joined, Phases
  <2>4. Reports
    BY <1>3, <2>3 DEF Phase
  <2> QED
    BY <2>1, <2>4
<1>9. CASE \E avail \in BOOLEAN : Inventory(avail)
  <2>1. Publishes
    BY <1>9 DEF Inventory, Publishes, World, rest
  <2>2. conn.phase \in Phases
    BY DEF AttemptTypeOK, Connectivity
  <2>3. \E p \in Phases : conn' = [conn EXCEPT !.phase = p]
    BY <1>9, <2>2 DEF Inventory, Phases
  <2>4. Reports
    BY <1>3, <2>3 DEF Phase
  <2> QED
    BY <2>1, <2>4
<1>10. CASE Enable
  <2>1. CASE UNCHANGED attemptVars
    BY <2>1
  <2>2. CASE Phase("idle") /\ UNCHANGED <<act, rest>>
    <3>1. Publishes
      BY <2>2 DEF Publishes, World, rest
    <3> QED
      BY <1>3, <2>2, <3>1 DEF Phases
  <2>3. CASE Join("enable") /\ UNCHANGED <<rest, conn>>
    <3>1. Cancels
      BY <1>4, <2>3 DEF Reason
    <3> QED
      BY <1>2, <2>3, <3>1
  <2> QED
    BY <1>10, <2>1, <2>2, <2>3 DEF Enable
<1>11. CASE Connect
  BY <1>11 DEF Connect
<1>12. [conn EXCEPT !.error = TRUE] \in Connectivity /\ [conn EXCEPT !.error = TRUE].wifi = conn.wifi
  <2>1. [conn EXCEPT !.error = TRUE] \in Connectivity
    BY OutcomeFields DEF AttemptTypeOK
  <2> QED
    BY <2>1 DEF AttemptTypeOK, Connectivity
<1>13. CASE StopFails
  <2>1. Publishes /\ conn' = [conn EXCEPT !.error = TRUE]
    BY <1>13 DEF StopFails, Publishes, World, rest
  <2> QED
    BY <1>12, <2>1 DEF Reports
<1>14. CASE StopAcquires
  <2>1. MovesLease /\ conn' = conn
    BY <1>14 DEF StopAcquires, MovesLease
  <2> QED
    BY <1>2, <2>1
<1>15. CASE \E ok \in BOOLEAN : StopDone(ok)
  <2>1. MovesLease
    BY <1>15 DEF StopDone, MovesLease, LeaseOfExit
  <2>2. Phase("disabled") \/ conn' = [conn EXCEPT !.error = TRUE]
    BY <1>15 DEF StopDone
  <2>3. Reports
    BY <1>3, <1>12, <2>2 DEF Phases, Reports
  <2> QED
    BY <2>1, <2>3
<1> QED
  BY <1>1, <1>5, <1>6, <1>7, <1>8, <1>9, <1>10, <1>11, <1>13, <1>14, <1>15
  DEF WorkerStep, Worker, Events, Asks

(* So they keep the attempt's part of the invariant.                       *)
LEMMA WorkerKeepsAttempt ==
    ASSUME IInv, WorkerStep
    PROVE  AttemptInv'
<1> USE DEF IInv, AttemptInv, AttemptTypeOK, InterfaceChosen, LeaseOfAttempt, PointOfPlace,
            ClosedInTime
<1>1. CASE UNCHANGED attemptVars
  BY <1>1 DEF attemptVars
<1>2. CASE StartAttempt(iface)
  <2>1. act' = [NoAttempt EXCEPT !.pc = "check", !.iface = iface] /\ iface \in Interfaces
    BY <1>2 DEF StartAttempt, TypeOK, WorkerTypeOK
  <2>2. act' \in Activity
    <3>1. [NoAttempt EXCEPT !.pc = "check"] \in Activity
      BY AttemptFields, RestTyped DEF AttemptState
    <3>2. \A a \in Activity : [a EXCEPT !.iface = iface] \in Activity
      BY <2>1 DEF Activity
    <3> QED
      BY <2>1, <3>1, <3>2
  <2>3. act'.pc = "check" /\ act'.iface = iface
    BY <2>1 DEF NoAttempt
  <2> QED
    BY <1>2, <2>1, <2>2, <2>3 DEF StartAttempt, At, Operation
<1>3. CASE Cancels /\ Reports
  <2>1. act' \in Activity
    BY <1>3, AttemptFields DEF Cancels
  <2>2. act'.pc = act.pc /\ act'.iface = act.iface /\ act'.cleanup = act.cleanup
    BY <1>3 DEF Cancels, Activity
  <2> QED
    BY <1>3, <2>1, <2>2 DEF Cancels, Reports, World
<1>4. CASE Publishes /\ Reports
  BY <1>4 DEF Publishes, Reports, World
<1>5. CASE Forgets /\ Reports
  <2>1. act' \in Activity /\ act'.pc = "none"
    BY <1>5, RestTyped DEF Forgets, NoAttempt
  <2> QED
    BY <1>5, <2>1 DEF Forgets, Reports, World, Operation
<1>6. CASE MovesLease /\ Reports
  BY <1>6 DEF MovesLease, Reports
<1> QED
  BY <1>1, <1>2, <1>3, <1>4, <1>5, <1>6, WorkerLeavesAttempt

-----------------------------------------------------------------------------
(* The worker's own state.                                                 *)

(* Updating a field of the client, of the exit or of the permissions.      *)
LEMMA WorkerFields ==
    /\ \A c \in ClientState, b \in BOOLEAN : /\ [c EXCEPT !.on = b] \in ClientState
                                             /\ [c EXCEPT !.leaving = b] \in ClientState
                                             /\ [c EXCEPT !.closed = b] \in ClientState
    /\ \A c \in ClientState, n \in 0..MaxClients : [c EXCEPT !.count = n] \in ClientState
    /\ \A q \in Exit, b \in BOOLEAN : [q EXCEPT !.stopping = b] \in Exit
    /\ \A q \in Exit, n \in 0..MaxQuits : /\ [q EXCEPT !.stopped = n] \in Exit
                                          /\ [q EXCEPT !.last = n] \in Exit
                                          /\ [q EXCEPT !.op = n] \in Exit
    /\ \A q \in Exit, f \in [Controllers -> Answer] : [q EXCEPT !.answer = f] \in Exit
    /\ \A a \in Allowance, b \in BOOLEAN : /\ [a EXCEPT !.proj = b] \in Allowance
                                           /\ [a EXCEPT !.on = b] \in Allowance
                                           /\ [a EXCEPT !.off = b] \in Allowance
                                           /\ [a EXCEPT !.avail = b] \in Allowance
<1>1. /\ \A c \in ClientState, b \in BOOLEAN : /\ [c EXCEPT !.on = b] \in ClientState
                                               /\ [c EXCEPT !.leaving = b] \in ClientState
                                               /\ [c EXCEPT !.closed = b] \in ClientState
      /\ \A c \in ClientState, n \in 0..MaxClients : [c EXCEPT !.count = n] \in ClientState
  BY DEF ClientState
<1>2. \A q \in Exit, b \in BOOLEAN : [q EXCEPT !.stopping = b] \in Exit
  BY DEF Exit
<1>3. \A q \in Exit, n \in 0..MaxQuits : /\ [q EXCEPT !.stopped = n] \in Exit
                                         /\ [q EXCEPT !.last = n] \in Exit
                                         /\ [q EXCEPT !.op = n] \in Exit
  BY DEF Exit
<1>4. \A q \in Exit, f \in [Controllers -> Answer] : [q EXCEPT !.answer = f] \in Exit
  BY DEF Exit
<1>5. \A a \in Allowance, b \in BOOLEAN : /\ [a EXCEPT !.proj = b] \in Allowance
                                          /\ [a EXCEPT !.on = b] \in Allowance
                                          /\ [a EXCEPT !.off = b] \in Allowance
                                          /\ [a EXCEPT !.avail = b] \in Allowance
  BY DEF Allowance
<1> QED
  BY <1>1, <1>2, <1>3, <1>4, <1>5

(* What is queued last or taken first.                                     *)
LEMMA QueueTyped ==
    ASSUME NEW q \in Seq(Requests)
    PROVE  /\ \A r \in Requests : /\ Append(q, r) \in Seq(Requests)
                                  /\ Len(Append(q, r)) = Len(q) + 1
                                  /\ \A k \in 1..Len(q) : Append(q, r)[k] = q[k]
                                  /\ Append(q, r)[Len(q) + 1] = r
           /\ q # <<>> => /\ Head(q) \in Requests /\ Head(q) = q[1]
                          /\ Tail(q) \in Seq(Requests) /\ Len(Tail(q)) = Len(q) - 1
                          /\ \A k \in 1..Len(Tail(q)) : Tail(q)[k] = q[k + 1]
OBVIOUS

LEMMA ExitRequests ==
    /\ Request \subseteq Requests
    /\ \A n \in 1..MaxQuits : StopAll(n) \in Requests /\ StopAll(n).a = "stopAll"
                              /\ StopAll(n).v = n
    /\ \A r \in Request : r.a # "stopAll"
    /\ \A r \in Requests : r.a = "stopAll" => r.v \in 1..MaxQuits
    /\ \A r \in Requests : r.a \in {"projectionEnabled", "enable"} => r.v \in BOOLEAN
    /\ \A r \in Requests : r.a = "interface" => r.v \in Interfaces
<1>1. \A r \in Request : r.a # "stopAll"
  BY DEF Request
<1>2. \A n \in 1..MaxQuits : StopAll(n).a = "stopAll" /\ StopAll(n).v = n
  BY DEF StopAll
<1>3. \A r \in Requests : r.a = "stopAll" => r.v \in 1..MaxQuits
  BY <1>1, <1>2 DEF Requests
<1>4. \A r \in Requests : r.a \in {"projectionEnabled", "enable"} => r.v \in BOOLEAN
  BY <1>2 DEF Requests, Request
<1>5. \A r \in Requests : r.a = "interface" => r.v \in Interfaces
  BY <1>2 DEF Requests, Request
<1> QED
  BY <1>1, <1>2, <1>3, <1>4, <1>5 DEF Requests

(* A request leaves the head of the queue.                                 *)
LEMMA Taken ==
    ASSUME WorkerTypeOK, queue # <<>>, queue' = Tail(queue)
    PROVE  /\ Head(queue) \in Requests /\ Head(queue) = queue[1]
           /\ queue' \in Seq(Requests) /\ Len(queue') = Len(queue) - 1
           /\ Len(queue') <= QueueCapacity
           /\ \A k \in 1..Len(queue') : queue'[k] = queue[k + 1]
BY QueueTyped DEF WorkerTypeOK

(* What the steps of the worker do to each of its variables.               *)
LEMMA QueueStep ==
    ASSUME WorkerTypeOK, WorkerStep
    PROVE  /\ queue' \in Seq(Requests) /\ Len(queue') <= QueueCapacity
           /\ \/ \A k \in 1..Len(queue') : \E j \in 1..Len(queue) : queue'[k] = queue[j]
              \/ \E r \in Request : /\ ~quit.stopping /\ queue' = Append(queue, r)
                                    /\ quit' = quit
              \/ SendStopAll /\ queue' = Append(queue, StopAll(quit.last + 1))
<1> USE DEF WorkerTypeOK
<1> DEFINE Kept == /\ queue' \in Seq(Requests) /\ Len(queue') <= QueueCapacity
                   /\ \A k \in 1..Len(queue') : \E j \in 1..Len(queue) : queue'[k] = queue[j]
<1>1. queue' = queue => Kept
  OBVIOUS
<1>2. queue' = <<>> => Kept
  OBVIOUS
<1>3. queue # <<>> /\ queue' = Tail(queue) => Kept
  <2> SUFFICES ASSUME queue # <<>>, queue' = Tail(queue) PROVE Kept
    OBVIOUS
  <2>1. queue' \in Seq(Requests) /\ Len(queue') = Len(queue) - 1 /\ Len(queue') <= QueueCapacity
    BY Taken
  <2>2. \A k \in 1..Len(queue') : k + 1 \in 1..Len(queue) /\ queue'[k] = queue[k + 1]
    BY <2>1, Taken
  <2> QED
    BY <2>1, <2>2
<1>4. CASE \E r \in Request : Send(r)
  <2>1. PICK r \in Request : Send(r)
    BY <1>4
  <2>2. queue' = Append(queue, r) /\ Len(queue) < QueueCapacity /\ ~quit.stopping /\ quit' = quit
    BY <2>1 DEF Send
  <2>3. Append(queue, r) \in Seq(Requests) /\ Len(Append(queue, r)) = Len(queue) + 1
    BY QueueTyped, ExitRequests
  <2> QED
    BY <2>2, <2>3
<1>5. CASE SendStopAll
  <2>1. quit.last + 1 \in 1..MaxQuits
    BY <1>5 DEF SendStopAll, Exit
  <2>2. Append(queue, StopAll(quit.last + 1)) \in Seq(Requests)
        /\ Len(Append(queue, StopAll(quit.last + 1))) = Len(queue) + 1
    BY <2>1, QueueTyped, ExitRequests
  <2>3. CASE Len(queue) < QueueCapacity
    BY <1>5, <2>2, <2>3 DEF SendStopAll
  <2>4. CASE ~(Len(queue) < QueueCapacity)
    <3>1. queue' = queue
      BY <1>5, <2>4 DEF SendStopAll
    <3> QED
      BY <1>1, <3>1
  <2> QED
    BY <2>3, <2>4
<1>6. CASE ClientHello \/ ClientLeaves \/ ClientCleanup
  <2>1. queue' = queue
    BY <1>6 DEF ClientHello, ClientLeaves, ClientCleanup
  <2> QED
    BY <1>1, <2>1
<1>7. CASE ClientClosed
  <2>1. queue' = <<>>
    BY <1>7 DEF ClientClosed
  <2> QED
    BY <1>2, <2>1
<1>8. CASE Reap \/ Joined \/ StopFails \/ StopAcquires \/ \E ok \in BOOLEAN : StopDone(ok)
  <2>1. queue' = queue
    BY <1>8 DEF Reap, workerVars, Joined, StopFails, StopAcquires, StopDone
  <2> QED
    BY <1>1, <2>1
<1>9. CASE Skipped \/ ProjectionEnabled \/ SelectInterface \/ Enable \/ Connect \/ StopAllTaken
           \/ \E a \in {"disconnect", "forget"} : Disconnect(a)
  <2>1. queue # <<>> /\ queue' = Tail(queue)
    BY <1>9 DEF Skipped, ProjectionEnabled, SelectInterface, Enable, Connect, StopAllTaken,
       Disconnect, Take
  <2> QED
    BY <1>3, <2>1
<1>10. CASE Events \/ \E c \in Controllers, err \in BOOLEAN : ControllerAnswers(c, err)
  <2>1. queue' = queue
    BY <1>10 DEF Events, DisconnectCommand, BluetoothLost, Shutdown, InventoryFails, Inventory,
       ControllerAnswers
  <2> QED
    BY <1>1, <2>1
<1> QED
  BY <1>4, <1>5, <1>6, <1>7, <1>8, <1>9, <1>10 DEF WorkerStep, Client, Worker

LEMMA ClientStep ==
    ASSUME WorkerTypeOK, WorkerStep
    PROVE  client' \in ClientState /\ iface' \in Interfaces /\ sent' \in 0..MaxRequests
<1> USE DEF WorkerTypeOK
<1>1. CASE Client
  <2>1. CASE ClientHello
    <3>0. [client EXCEPT !.on = TRUE] \in ClientState
      BY WorkerFields
    <3>1. client.count + 1 \in 0..MaxClients
      BY <2>1 DEF ClientHello, ClientState
    <3>2. client' = [client EXCEPT !.on = TRUE, !.count = client.count + 1]
      BY <2>1 DEF ClientHello, ClientState
    <3> QED
      BY <2>1, <3>0, <3>1, <3>2, WorkerFields DEF ClientHello
  <2>2. CASE ClientLeaves
    <3>1. [client EXCEPT !.on = FALSE] \in ClientState
      BY WorkerFields
    <3> QED
      BY <2>2, <3>1, WorkerFields DEF ClientLeaves
  <2>3. CASE ClientCleanup
    <3>1. [client EXCEPT !.leaving = FALSE] \in ClientState
      BY WorkerFields
    <3> QED
      BY <2>3, <3>1, WorkerFields DEF ClientCleanup
  <2>4. CASE SendStopAll
    BY <2>4 DEF SendStopAll
  <2>5. CASE \E r \in Request : Send(r)
    BY <2>5 DEF Send
  <2> QED
    BY <1>1, <2>1, <2>2, <2>3, <2>4, <2>5 DEF Client
<1>2. CASE ClientClosed
  BY <1>2, WorkerFields DEF ClientClosed
<1>3. CASE SelectInterface
  <2>1. iface' = Head(queue).v /\ Head(queue).a = "interface" /\ queue # <<>>
        /\ queue' = Tail(queue)
    BY <1>3 DEF SelectInterface, Take
  <2>2. iface' \in Interfaces
    BY <2>1, Taken, ExitRequests
  <2> QED
    BY <1>3, <2>2 DEF SelectInterface
<1>4. CASE Reap \/ Skipped \/ ProjectionEnabled \/ Enable \/ Connect \/ StopAllTaken \/ Joined
           \/ StopFails \/ StopAcquires
  BY <1>4 DEF Reap, Skipped, ProjectionEnabled, Enable, Connect, StopAllTaken, Joined, StopFails,
     StopAcquires, workerVars
<1>5. CASE (\E a \in {"disconnect", "forget"} : Disconnect(a)) \/ \E ok \in BOOLEAN : StopDone(ok)
  BY <1>5 DEF Disconnect, StopDone
<1>6. CASE Events \/ \E c \in Controllers, err \in BOOLEAN : ControllerAnswers(c, err)
  BY <1>6 DEF Events, DisconnectCommand, BluetoothLost, Shutdown, InventoryFails, Inventory,
     ControllerAnswers
<1> QED
  BY <1>1, <1>2, <1>3, <1>4, <1>5, <1>6 DEF WorkerStep, Worker

(* Exits are numbered as they are asked for, and confirmed as taken.       *)
LEMMA ExitStep ==
    ASSUME WorkerTypeOK, WorkerStep
    PROVE  /\ quit' \in Exit
           /\ \/ ClientHello /\ ~quit'.stopping /\ quit'.stopped = 0
                 /\ quit'.last = quit.last /\ quit'.op = quit.op
              \/ SendStopAll /\ quit'.stopped = quit.stopped
                 /\ quit'.last = quit.last + 1 /\ quit'.op = quit.op
              \/ StopAllTaken /\ quit'.stopping = quit.stopping /\ quit'.stopped = 0
                 /\ quit'.last = quit.last /\ quit'.op = Head(queue).v
              \/ /\ quit'.stopping = quit.stopping /\ quit'.last = quit.last
                 /\ quit'.op = quit.op /\ ~StopAllTaken
                 /\ quit'.stopped = quit.stopped
                    \/ (quit'.stopped = quit.op /\ worker.at = "stopLease")
<1> USE DEF WorkerTypeOK
<1>1. quit' = quit /\ ~StopAllTaken =>
        /\ quit'.stopping = quit.stopping /\ quit'.last = quit.last /\ quit'.op = quit.op
        /\ ~StopAllTaken /\ quit'.stopped = quit.stopped /\ quit' \in Exit
  OBVIOUS
<1>2. CASE ClientHello
  <2>1. [quit EXCEPT !.stopping = FALSE] \in Exit
    BY WorkerFields
  <2>2. 0 \in 0..MaxQuits
    OBVIOUS
  <2>3. quit' \in Exit
    BY <1>2, <2>1, <2>2, WorkerFields DEF ClientHello
  <2>4. ~quit'.stopping /\ quit'.stopped = 0 /\ quit'.last = quit.last /\ quit'.op = quit.op
    BY <1>2 DEF ClientHello, Exit
  <2> QED
    BY <1>2, <2>3, <2>4
<1>3. CASE SendStopAll
  <2>1. [quit EXCEPT !.stopping = TRUE] \in Exit
    BY WorkerFields
  <2>2. quit.last + 1 \in 0..MaxQuits
    BY <1>3 DEF SendStopAll, Exit
  <2>3. quit' = [quit EXCEPT !.stopping = TRUE, !.last = quit.last + 1]
    BY <1>3 DEF SendStopAll, Exit
  <2>4. quit' \in Exit
    BY <2>1, <2>2, <2>3, WorkerFields
  <2>5. quit'.stopped = quit.stopped /\ quit'.last = quit.last + 1 /\ quit'.op = quit.op
    BY <2>3 DEF Exit
  <2> QED
    BY <1>3, <2>4, <2>5
<1>4. CASE StopAllTaken
  <2>1. Head(queue).v \in 0..MaxQuits
    BY <1>4, Taken, ExitRequests DEF StopAllTaken, Take
  <2>2. 0 \in 0..MaxQuits
    OBVIOUS
  <2>3. [quit EXCEPT !.stopped = 0] \in Exit
    BY <2>2, WorkerFields
  <2>4. quit' \in Exit
    BY <1>4, <2>1, <2>3, WorkerFields DEF StopAllTaken
  <2>5. quit'.stopping = quit.stopping /\ quit'.stopped = 0 /\ quit'.last = quit.last
        /\ quit'.op = Head(queue).v
    BY <1>4 DEF StopAllTaken, Exit
  <2> QED
    BY <1>4, <2>4, <2>5
<1>5. CASE \E ok \in BOOLEAN : StopDone(ok)
  <2>1. worker.at = "stopLease" /\ (quit' = quit \/ quit' = [quit EXCEPT !.stopped = quit.op])
    BY <1>5 DEF StopDone
  <2>2. ~StopAllTaken
    BY <2>1 DEF StopAllTaken, Take, AtSelect
  <2>3. quit.op \in 0..MaxQuits
    BY DEF Exit
  <2>4. quit' \in Exit
    BY <2>1, <2>3, WorkerFields
  <2>5. /\ quit'.stopping = quit.stopping /\ quit'.last = quit.last /\ quit'.op = quit.op
        /\ quit'.stopped \in {quit.stopped, quit.op}
    BY <2>1 DEF Exit
  <2> QED
    BY <2>1, <2>2, <2>4, <2>5
<1>6. CASE \E c \in Controllers, err \in BOOLEAN : ControllerAnswers(c, err)
  <2>1. PICK c \in Controllers, err \in BOOLEAN : ControllerAnswers(c, err)
    BY <1>6
  <2>2. quit' = [quit EXCEPT !.answer = [quit.answer EXCEPT ![c] = [op |-> quit.op, err |-> err]]]
    BY <2>1 DEF ControllerAnswers, Exit
  <2>3. [op |-> quit.op, err |-> err] \in Answer
    BY <2>1 DEF Answer, Exit
  <2>4. quit.answer \in [Controllers -> Answer]
    BY DEF Exit
  <2>5. [quit.answer EXCEPT ![c] = [op |-> quit.op, err |-> err]] \in [Controllers -> Answer]
    BY <2>3, <2>4
  <2>6. quit' \in Exit
    BY <2>2, <2>5, WorkerFields
  <2>7. /\ quit'.stopping = quit.stopping /\ quit'.last = quit.last /\ quit'.op = quit.op
        /\ quit'.stopped = quit.stopped
    BY <2>2 DEF Exit
  <2>8. ~StopAllTaken
    <3>1. queue' = queue
      BY <2>1 DEF ControllerAnswers
    <3>2. StopAllTaken => queue # <<>> /\ queue' = Tail(queue)
      BY DEF StopAllTaken, Take
    <3>3. queue # <<>> => Len(Tail(queue)) # Len(queue)
      BY QueueTyped
    <3> QED
      BY <3>1, <3>2, <3>3
  <2> QED
    BY <2>6, <2>7, <2>8
<1>7. CASE ~StopAllTaken /\ (ClientLeaves \/ ClientCleanup \/ \E r \in Request : Send(r))
  <2>1. quit' = quit
    BY <1>7 DEF ClientLeaves, ClientCleanup, Send
  <2> QED
    BY <1>1, <1>7, <2>1
<1>8. CASE ~StopAllTaken /\ (ClientClosed \/ Reap \/ Skipped \/ ProjectionEnabled \/ SelectInterface
           \/ Enable \/ Connect \/ Joined \/ StopFails \/ StopAcquires
           \/ \E a \in {"disconnect", "forget"} : Disconnect(a))
  <2>1. quit' = quit
    BY <1>8 DEF ClientClosed, Reap, Skipped, ProjectionEnabled, SelectInterface, Enable, Connect,
       Joined, StopFails, StopAcquires, Disconnect, workerVars
  <2> QED
    BY <1>1, <1>8, <2>1
<1>9. CASE ~StopAllTaken /\ Events
  <2>1. quit' = quit
    BY <1>9 DEF Events, DisconnectCommand, BluetoothLost, Shutdown, InventoryFails, Inventory
  <2> QED
    BY <1>1, <1>9, <2>1
<1> QED
  BY <1>2, <1>3, <1>4, <1>5, <1>6, <1>7, <1>8, <1>9 DEF WorkerStep, Client, Worker

(* While an exit is pending, what is disabled stays disabled.              *)
LEMMA AllowanceStep ==
    ASSUME WorkerTypeOK, WorkerStep
    PROVE  /\ allow' \in Allowance
           /\ quit.stopping /\ ~allow.proj /\ ~allow.on => ~allow'.proj /\ ~allow'.on
           /\ StopAllTaken => ~allow'.proj /\ ~allow'.on
<1> USE DEF WorkerTypeOK
<1> DEFINE Good == /\ allow' \in Allowance
                   /\ quit.stopping /\ ~allow.proj /\ ~allow.on => ~allow'.proj /\ ~allow'.on
<1>1. allow' = allow => Good
  OBVIOUS
<1>2. allow' = [allow EXCEPT !.proj = FALSE] => Good
  <2>1. [allow EXCEPT !.proj = FALSE] \in Allowance
    BY WorkerFields
  <2> QED
    BY <2>1 DEF Allowance
<1>3. StopAllTaken => Good /\ ~allow'.proj /\ ~allow'.on
  <2>1. [allow EXCEPT !.proj = FALSE] \in Allowance
    BY WorkerFields
  <2>2. [allow EXCEPT !.proj = FALSE, !.on = FALSE] \in Allowance
    BY <2>1, WorkerFields
  <2>3. [allow EXCEPT !.proj = FALSE, !.on = FALSE, !.off = TRUE] \in Allowance
    BY <2>2, WorkerFields
  <2> QED
    BY <2>3 DEF StopAllTaken, Allowance
<1>4. CASE ClientCleanup \/ ClientClosed
  <2>1. allow' = [allow EXCEPT !.proj = FALSE]
    BY <1>4 DEF ClientCleanup, ClientClosed
  <2>2. ~StopAllTaken
    BY <1>4 DEF StopAllTaken, ClientCleanup, ClientClosed, Take, Join
  <2> QED
    BY <1>2, <2>1, <2>2
<1>5. CASE ClientHello \/ ClientLeaves \/ SendStopAll \/ \E r \in Request : Send(r)
  BY <1>1, <1>3, <1>5 DEF ClientHello, ClientLeaves, SendStopAll, Send
<1>6. CASE Reap \/ Skipped \/ SelectInterface \/ Connect \/ StopFails \/ StopAcquires
           \/ (\E a \in {"disconnect", "forget"} : Disconnect(a)) \/ \E ok \in BOOLEAN : StopDone(ok)
  BY <1>1, <1>3, <1>6 DEF Reap, Skipped, SelectInterface, Connect, StopFails, StopAcquires,
     Disconnect, StopDone, workerVars
<1>7. CASE DisconnectCommand \/ BluetoothLost \/ Shutdown
           \/ \E c \in Controllers, err \in BOOLEAN : ControllerAnswers(c, err)
  BY <1>1, <1>3, <1>7 DEF DisconnectCommand, BluetoothLost, Shutdown, ControllerAnswers
<1>8. CASE ProjectionEnabled
  <2>1. ~quit.stopping /\ Head(queue).v \in BOOLEAN
    BY <1>8, Taken, ExitRequests DEF ProjectionEnabled, Take
  <2>2. allow' = allow \/ allow' = [allow EXCEPT !.proj = Head(queue).v, !.off = FALSE,
                                                 !.on = Head(queue).v /\ allow.avail]
    BY <1>8 DEF ProjectionEnabled
  <2>3. [allow EXCEPT !.proj = Head(queue).v] \in Allowance
    BY <2>1, WorkerFields
  <2>4. [allow EXCEPT !.proj = Head(queue).v, !.off = FALSE] \in Allowance
    BY <2>3, WorkerFields
  <2>5. (Head(queue).v /\ allow.avail) \in BOOLEAN
    OBVIOUS
  <2>6. [allow EXCEPT !.proj = Head(queue).v, !.off = FALSE,
                      !.on = Head(queue).v /\ allow.avail] \in Allowance
    BY <2>4, <2>5, WorkerFields
  <2> QED
    BY <1>3, <2>1, <2>2, <2>6
<1>9. CASE Enable
  <2>1. ~quit.stopping
    BY <1>9 DEF Enable
  <2>2. \/ allow' = allow \/ allow' = [allow EXCEPT !.on = TRUE, !.off = FALSE]
        \/ allow' = [allow EXCEPT !.on = FALSE, !.off = TRUE]
    BY <1>9 DEF Enable
  <2>3. [allow EXCEPT !.on = TRUE] \in Allowance /\ [allow EXCEPT !.on = FALSE] \in Allowance
    BY WorkerFields
  <2>4. /\ [allow EXCEPT !.on = TRUE, !.off = FALSE] \in Allowance
        /\ [allow EXCEPT !.on = FALSE, !.off = TRUE] \in Allowance
    BY <2>3, WorkerFields
  <2> QED
    BY <1>3, <2>1, <2>2, <2>4
<1>10. CASE Joined
  <2>1. \/ allow' = allow \/ allow' = [allow EXCEPT !.on = FALSE, !.off = TRUE]
        \/ allow' = [allow EXCEPT !.on = FALSE]
    BY <1>10 DEF Joined
  <2>2. [allow EXCEPT !.on = FALSE] \in Allowance
    BY WorkerFields
  <2>3. [allow EXCEPT !.on = FALSE, !.off = TRUE] \in Allowance
    BY <2>2, WorkerFields
  <2> QED
    BY <1>3, <2>1, <2>2, <2>3 DEF Allowance
<1>11. CASE InventoryFails
  <2>1. allow' = [allow EXCEPT !.avail = FALSE, !.on = IF conn.wifi THEN allow.on ELSE FALSE]
    BY <1>11 DEF InventoryFails, Allowance
  <2>2. [allow EXCEPT !.avail = FALSE] \in Allowance /\ allow.on \in BOOLEAN
    BY WorkerFields DEF Allowance
  <2>3. (IF conn.wifi THEN allow.on ELSE FALSE) \in BOOLEAN
    BY <2>2
  <2>4. allow' \in Allowance
    BY <2>1, <2>2, <2>3, WorkerFields
  <2>5. ~allow.proj /\ ~allow.on => ~allow'.proj /\ ~allow'.on
    BY <2>1 DEF Allowance
  <2> QED
    BY <1>3, <2>4, <2>5
<1>12. CASE \E avail \in BOOLEAN : Inventory(avail)
  <2>1. PICK avail \in BOOLEAN : Inventory(avail)
    BY <1>12
  <2> DEFINE on == IF Busy THEN allow.on ELSE avail /\ ~allow.off /\ allow.proj
  <2>2. allow' = [allow EXCEPT !.avail = avail, !.on = on]
    BY <2>1 DEF Inventory
  <2>3. on \in BOOLEAN /\ (~allow.proj /\ ~allow.on => ~on)
    BY DEF Allowance
  <2> HIDE DEF on
  <2>4. [allow EXCEPT !.avail = avail] \in Allowance
    BY WorkerFields
  <2>5. allow' \in Allowance
    BY <2>2, <2>3, <2>4, WorkerFields
  <2>6. ~allow.proj /\ ~allow.on => ~allow'.proj /\ ~allow'.on
    BY <2>2, <2>3 DEF Allowance
  <2> QED
    BY <1>3, <2>5, <2>6
<1> QED
  BY <1>3, <1>4, <1>5, <1>6, <1>7, <1>8, <1>9, <1>10, <1>11, <1>12
  DEF WorkerStep, Client, Worker, Events

(* Where the worker goes: it waits for an attempt on account of an exit    *)
(* only from taking the request until the attempt is gone, and holds the   *)
(* lease exactly while it disconnects the phones.                          *)
LEMMA WorkerMoves ==
    ASSUME IInv, WorkerStep
    PROVE  /\ worker' \in WorkerState
           /\ Joining' => StopAllTaken \/ (Joining /\ worker' = worker)
           /\ Joining => Joining' \/ act' = NoAttempt
           /\ worker'.at = "stopLease" <=> lease' = "stopAll"
<1> USE DEF IInv, TypeOK, WorkerTypeOK, LeaseOfExit, Joining
<1>1. [at |-> "select", why |-> "none"] \in WorkerState
      /\ [at |-> "stopWait", why |-> "none"] \in WorkerState
      /\ [at |-> "stopLease", why |-> "none"] \in WorkerState
      /\ [at |-> "exited", why |-> "none"] \in WorkerState
      /\ \A why \in Reason : [at |-> "join", why |-> why] \in WorkerState
  BY DEF WorkerState
<1>2. CASE worker' = worker /\ lease' = lease
  BY <1>2
<1>3. ASSUME worker' = worker
      PROVE  lease' = lease \/ StartAttempt(iface)
  <2>1. ~StopAcquires /\ ~\E ok \in BOOLEAN : StopDone(ok)
    BY <1>3 DEF StopAcquires, StopDone
  <2>2. ASSUME Cancels \/ Publishes \/ Forgets PROVE lease' = lease
    BY <2>2 DEF Cancels, Publishes, Forgets, World
  <2>3. CASE Asks
    BY <2>3, AsksLeave DEF attemptVars
  <2>4. CASE ClientClosed \/ DisconnectCommand \/ BluetoothLost \/ Shutdown \/ StopAllTaken
             \/ Reap \/ Joined \/ StopFails
             \/ \E a \in {"disconnect", "forget"} : Disconnect(a)
    BY <2>4 DEF ClientClosed, DisconnectCommand, BluetoothLost, Shutdown, StopAllTaken, Reap,
       Joined, StopFails, Disconnect, rest
  <2>5. CASE Connect \/ Enable \/ \E avail \in BOOLEAN : Inventory(avail)
    BY <2>5 DEF Connect, Enable, Inventory, rest, attemptVars
  <2> QED
    BY <2>1, <2>3, <2>4, <2>5 DEF WorkerStep, Worker, Events, Asks
<1>4. CASE worker' = worker
  <2>1. StartAttempt(iface) => lease = "free" /\ lease' = "wifi"
    BY DEF StartAttempt
  <2> QED
    BY <1>3, <1>4, <2>1
<1>5. CASE \E why \in Reason : Join(why) /\ lease' = lease /\ AtSelect
                              /\ (why = "stopAll" => StopAllTaken)
  BY <1>1, <1>5 DEF Join, AtSelect
<1>6. CASE ClientClosed \/ DisconnectCommand \/ BluetoothLost \/ Shutdown \/ StopAllTaken
           \/ \E a \in {"disconnect", "forget"} : Disconnect(a)
  <2>1. AtSelect /\ lease' = lease
    BY <1>6 DEF ClientClosed, DisconnectCommand, BluetoothLost, Shutdown, StopAllTaken, Disconnect,
       Take, rest
  <2>2. \E why \in Reason : Join(why) /\ (why = "stopAll" => StopAllTaken)
    BY <1>6 DEF ClientClosed, DisconnectCommand, BluetoothLost, Shutdown, StopAllTaken, Disconnect,
       Reason
  <2> QED
    BY <1>5, <2>1, <2>2
<1>7. CASE Joined
  <2>1. worker.at = "join" /\ act' = NoAttempt /\ lease' = lease
    BY <1>7 DEF Joined
  <2>2. \E at \in {"stopWait", "exited", "select"} : worker' = [at |-> at, why |-> "none"]
    BY <1>7 DEF Joined
  <2> QED
    BY <1>1, <2>1, <2>2
<1>8. CASE StopFails
  BY <1>1, <1>8 DEF StopFails, rest
<1>9. CASE StopAcquires
  BY <1>1, <1>9 DEF StopAcquires
<1>10. CASE \E ok \in BOOLEAN : StopDone(ok)
  BY <1>1, <1>10 DEF StopDone
<1>11. CASE Client \/ (\E c \in Controllers, err \in BOOLEAN : ControllerAnswers(c, err))
            \/ InventoryFails \/ \E avail \in BOOLEAN : Inventory(avail)
  <2>1. worker' = worker
    BY <1>11 DEF Client, ClientHello, ClientLeaves, ClientCleanup, SendStopAll, Send,
       ControllerAnswers, InventoryFails, Inventory
  <2> QED
    BY <1>4, <2>1
<1>12. CASE Reap \/ Skipped \/ ProjectionEnabled \/ SelectInterface \/ Connect
  <2>1. worker' = worker
    BY <1>12 DEF Reap, Skipped, ProjectionEnabled, SelectInterface, Connect, workerVars
  <2> QED
    BY <1>4, <2>1
<1>13. CASE Enable
  <2>1. CASE worker' = worker
    BY <1>4, <2>1
  <2>2. CASE Join("enable") /\ UNCHANGED <<rest, conn>>
    <3>1. AtSelect /\ lease' = lease
      BY <1>13, <2>2 DEF Enable, Take, rest
    <3> QED
      BY <1>5, <2>2, <3>1 DEF Reason
  <2> QED
    BY <1>13, <2>1, <2>2 DEF Enable
<1> QED
  BY <1>6, <1>7, <1>8, <1>9, <1>10, <1>11, <1>12, <1>13 DEF WorkerStep, Worker, Events

-----------------------------------------------------------------------------
(* The invariant.                                                          *)

LEMMA ExitsStayNumbered ==
    ASSUME IInv, WorkerStep
    PROVE  ExitsNumbered'
<1> USE DEF IInv, TypeOK, WorkerTypeOK
<1>1. quit.last \in Nat /\ quit.op \in Nat /\ quit.stopped \in Nat /\ quit.op <= quit.last
  BY DEF Exit, ExitsNumbered
<1>2. \A k \in 1..Len(queue) : queue[k] \in Requests
                              /\ (queue[k].a = "stopAll" => queue[k].v \in Nat /\ queue[k].v <= quit.last)
  <2> SUFFICES ASSUME NEW k \in 1..Len(queue)
               PROVE  queue[k] \in Requests
                      /\ (queue[k].a = "stopAll" => queue[k].v \in Nat /\ queue[k].v <= quit.last)
    OBVIOUS
  <2>1. queue[k] \in Requests
    OBVIOUS
  <2> QED
    BY <2>1, ExitRequests DEF ExitsNumbered
<1>3. quit'.last \in {quit.last, quit.last + 1}
  BY ExitStep
<1>4. StopAllTaken => Head(queue).v <= quit.last
  <2> SUFFICES ASSUME StopAllTaken PROVE Head(queue).v <= quit.last
    OBVIOUS
  <2>1. queue # <<>> /\ Head(queue).a = "stopAll" /\ Head(queue) = queue[1] /\ Len(queue) >= 1
    BY Taken DEF StopAllTaken, Take
  <2> QED
    BY <1>2, <2>1
<1>5. quit'.op <= quit'.last /\ quit'.stopped \in {0, quit'.op}
  BY <1>1, <1>4, ExitStep DEF ExitsNumbered
<1>6. \A k \in 1..Len(queue') : queue'[k].a = "stopAll" => queue'[k].v <= quit'.last
  <2>1. CASE \A k \in 1..Len(queue') : \E j \in 1..Len(queue) : queue'[k] = queue[j]
    <3> SUFFICES ASSUME NEW k \in 1..Len(queue'), queue'[k].a = "stopAll"
                 PROVE  queue'[k].v <= quit'.last
      OBVIOUS
    <3>1. PICK j \in 1..Len(queue) : queue'[k] = queue[j]
      BY <2>1
    <3>2. queue[j].v \in Nat /\ queue[j].v <= quit.last
      BY <1>2, <3>1
    <3> QED
      BY <1>1, <1>3, <3>1, <3>2
  <2>2. ASSUME NEW r \in Requests, queue' = Append(queue, r),
               r.a = "stopAll" => r.v <= quit'.last
        PROVE  \A k \in 1..Len(queue') : queue'[k].a = "stopAll" => queue'[k].v <= quit'.last
    <3> SUFFICES ASSUME NEW k \in 1..Len(queue'), queue'[k].a = "stopAll"
                 PROVE  queue'[k].v <= quit'.last
      OBVIOUS
    <3>1. Len(queue') = Len(queue) + 1
      BY <2>2, QueueTyped
    <3>2. CASE k = Len(queue) + 1
      BY <2>2, <3>2, QueueTyped
    <3>3. CASE k \in 1..Len(queue)
      <4>1. queue'[k] = queue[k]
        BY <2>2, <3>3, QueueTyped
      <4>2. queue[k].v \in Nat /\ queue[k].v <= quit.last
        BY <1>2, <3>3, <4>1
      <4> QED
        BY <1>1, <1>3, <4>1, <4>2
    <3> QED
      BY <3>1, <3>2, <3>3
  <2>3. CASE \E r \in Request : queue' = Append(queue, r)
    BY <2>2, <2>3, ExitRequests
  <2>4. CASE SendStopAll /\ queue' = Append(queue, StopAll(quit.last + 1))
    <3>1. quit.last + 1 \in 1..MaxQuits
      BY <2>4 DEF SendStopAll, Exit
    <3>2. quit' = [quit EXCEPT !.stopping = TRUE, !.last = quit.last + 1]
      BY <2>4 DEF SendStopAll, Exit
    <3>3. quit'.last = quit.last + 1
      BY <3>2 DEF Exit
    <3>4. StopAll(quit.last + 1).v <= quit'.last
      BY <1>1, <3>1, <3>3, ExitRequests
    <3> QED
      BY <2>2, <2>4, <3>1, <3>4, ExitRequests
  <2> QED
    BY <2>1, <2>3, <2>4, QueueStep
<1> QED
  BY <1>5, <1>6 DEF ExitsNumbered

LEMMA NothingStaysEnabled ==
    ASSUME IInv, WorkerStep
    PROVE  NothingEnabled'
<1> USE DEF IInv, TypeOK, WorkerTypeOK
<1>1. quit.last \in Nat /\ quit.op \in Nat /\ quit.op <= quit.last
  BY DEF Exit, ExitsNumbered
<1>2. ExitTaken' => StopAllTaken \/ (ExitTaken /\ quit'.stopping = quit.stopping)
  <2> SUFFICES ASSUME ExitTaken', ~StopAllTaken
               PROVE  ExitTaken /\ quit'.stopping = quit.stopping
    OBVIOUS
  <2>1. quit'.stopping /\ quit'.last # 0 /\ quit'.op = quit'.last
    BY DEF ExitTaken
  <2>2. quit'.last = quit.last + 1 => quit'.op # quit.op
    BY <1>1, <2>1
  <2>3. quit'.stopping = quit.stopping /\ quit'.last = quit.last /\ quit'.op = quit.op
    BY <2>1, <2>2, ExitStep
  <2> QED
    BY <2>1, <2>3 DEF ExitTaken
<1>3. ExitTaken' => ~allow'.proj /\ ~allow'.on
  BY <1>2, AllowanceStep DEF NothingEnabled, ExitTaken
<1>4. Joining' => quit'.stopped = 0
  <2>1. CASE StopAllTaken
    BY <2>1, ExitStep DEF StopAllTaken, ClientHello, SendStopAll, Exit
  <2>2. CASE Joining /\ ~StopAllTaken
    BY <2>2, ExitStep DEF NothingEnabled, Joining
  <2> QED
    BY <2>1, <2>2, WorkerMoves
<1>5. ExitTaken' /\ ~Joining' => act'.pc = "none"
  <2> SUFFICES ASSUME ExitTaken', ~Joining' PROVE act'.pc = "none"
    OBVIOUS
  <2>1. ~StopAllTaken
    BY DEF StopAllTaken, Joining, Join
  <2>2. ExitTaken /\ quit.stopping
    BY <1>2, <2>1 DEF ExitTaken
  <2>3. CASE Joining
    BY <2>3, WorkerMoves DEF NoAttempt
  <2>4. CASE ~Joining
    <3>1. act.pc = "none"
      BY <2>2, <2>4 DEF NothingEnabled
    <3>2. Cancels => act'.pc = act.pc
      BY DEF Cancels, AttemptTypeOK, Activity
    <3>3. act' = act \/ Cancels \/ act' = NoAttempt
      BY <2>2, WorkerLeavesAttempt DEF Publishes, Forgets, MovesLease, attemptVars
    <3> QED
      BY <3>1, <3>2, <3>3 DEF NoAttempt
  <2> QED
    BY <2>3, <2>4
<1> QED
  BY <1>3, <1>4, <1>5 DEF NothingEnabled

LEMMA InitEstablishes == Init => IInv
<1> SUFFICES ASSUME Init PROVE IInv
  OBVIOUS
<1> USE DEF Init, AttemptInit
<1>1. AttemptTypeOK
  <2>1. conn \in Connectivity
    BY DEF Connectivity, Phases
  <2> QED
    BY <2>1, RestTyped DEF AttemptTypeOK
<1>2. WorkerTypeOK
  <2>1. worker \in WorkerState
    BY DEF WorkerState
  <2>2. client \in ClientState
    BY DEF ClientState
  <2>3. quit \in Exit
    BY DEF Exit, Answer
  <2>4. allow \in Allowance
    BY DEF Allowance
  <2> QED
    BY <2>1, <2>2, <2>3, <2>4 DEF WorkerTypeOK
<1>3. InterfaceChosen /\ LeaseOfAttempt /\ PointOfPlace /\ ClosedInTime
  BY DEF InterfaceChosen, LeaseOfAttempt, PointOfPlace, ClosedInTime, NoAttempt, NoSession
<1>4. ExitsNumbered /\ NothingEnabled /\ LeaseOfExit
  BY DEF ExitsNumbered, NothingEnabled, LeaseOfExit, ExitTaken, Joining, NoAttempt
<1> QED
  BY <1>1, <1>2, <1>3, <1>4 DEF IInv, TypeOK, AttemptInv

LEMMA StepKeeps == IInv /\ [Next]_vars => IInv'
<1> SUFFICES ASSUME IInv, [Next]_vars PROVE IInv'
  OBVIOUS
<1>1. CASE WorkerStep
  <2>1. WorkerTypeOK'
    BY <1>1, QueueStep, ClientStep, ExitStep, AllowanceStep, WorkerMoves
    DEF IInv, TypeOK, WorkerTypeOK
  <2>2. LeaseOfExit'
    BY <1>1, WorkerMoves DEF LeaseOfExit
  <2>3. AttemptInv' /\ ExitsNumbered' /\ NothingEnabled'
    BY <1>1, WorkerKeepsAttempt, ExitsStayNumbered, NothingStaysEnabled
  <2> QED
    BY <2>1, <2>2, <2>3 DEF IInv, TypeOK, AttemptInv
<1>2. CASE AttemptStep(Progress) \/ AttemptStep(Cleanup) \/ AttemptStep(External)
  <2>1. UNCHANGED workerVars /\ (Progress \/ Cleanup \/ External)
    BY <1>2 DEF AttemptStep
  <2>2. AttemptInv'
    BY <2>1, AttemptKeeps, ExternalKeeps DEF IInv
  <2>3. /\ lease' = "stopAll" <=> lease = "stopAll"
        /\ act.pc = "none" => act'.pc = "none"
    <3>1. CASE Progress \/ Cleanup
      BY <3>1, AttemptActs DEF IInv
    <3>2. CASE External
      <4>1. act' = act
        BY <3>2 DEF External, NmReaps, PairingChanges, UsbAcquires, UsbReleases
      <4> QED
        BY <3>2, <4>1, ExternalKeeps DEF IInv
    <3> QED
      BY <2>1, <3>1, <3>2
  <2> QED
    BY <2>1, <2>2, <2>3 DEF IInv, TypeOK, AttemptInv, WorkerTypeOK, workerVars, ExitsNumbered,
       NothingEnabled, ExitTaken, Joining, LeaseOfExit
<1>3. CASE UNCHANGED vars
  BY <1>3 DEF IInv, TypeOK, AttemptTypeOK, WorkerTypeOK, vars, attemptVars, workerVars, AttemptInv,
     InterfaceChosen, LeaseOfAttempt, PointOfPlace, ClosedInTime, ExitsNumbered, NothingEnabled,
     ExitTaken, Joining, LeaseOfExit
<1> QED
  BY <1>1, <1>2, <1>3 DEF Next, WorkerStep

(* The inductive invariant of the worker and its attempt.                  *)
THEOREM WirelessInvariance == Spec => []IInv
<1> QED
  BY InitEstablishes, StepKeeps, PTL DEF Spec

(* Every variable keeps its type, and the request queue its bound.         *)
THEOREM WirelessTypeCorrect == Spec => []TypeOK
<1>1. IInv => TypeOK
  BY DEF IInv
<1> QED
  BY <1>1, WirelessInvariance, PTL

(* Access point, listener, peer, media and the published session exist     *)
(* only while the wireless side holds the session lease.                   *)
THEOREM LeaseCoversResources == Spec => []ResourcesUnderLease
<1>1. IInv => ResourcesUnderLease
  <2> SUFFICES ASSUME IInv PROVE ResourcesUnderLease
    OBVIOUS
  <2> USE DEF IInv, AttemptInv
  <2>1. act.pc \in {"none", "done"} => ap = NoAp /\ adm = NoAdmission /\ snap.by # "wifi"
                                      /\ act.pc \notin Operation
    BY DEF PointOfPlace, ClosedInTime, Operation
  <2> QED
    BY <2>1 DEF ResourcesUnderLease, LeaseOfAttempt, NoAp, NoAdmission
<1> QED
  BY <1>1, WirelessInvariance, PTL

(* An attempt is retried only when everything it knows it acquired has     *)
(* been given back.                                                        *)
THEOREM RetryIsClean == Spec => []RetryAfterCleanup
<1>1. IInv => RetryAfterCleanup
  BY DEF IInv, AttemptInv, RetryAfterCleanup, At, retry_allowed, retryable, LeaseOfAttempt,
     PointOfPlace, ClosedInTime, Operation
<1> QED
  BY <1>1, WirelessInvariance, PTL

(* A confirmed exit means that nothing of the wireless side is left and    *)
(* that nothing may start again.                                           *)
THEOREM ConfirmedExit == Spec => []QuitConfirmed
<1>1. IInv => QuitConfirmed
  <2> SUFFICES ASSUME IInv, quit.stopping, quit.stopped = quit.last, quit.last # 0
               PROVE  /\ act.pc = "none" /\ lease # "wifi" /\ snap.by # "wifi"
                      /\ adm = NoAdmission /\ ~allow.proj /\ ~allow.on
    BY DEF QuitConfirmed
  <2>1. ExitTaken /\ ~Joining
    BY DEF IInv, ExitsNumbered, NothingEnabled, ExitTaken
  <2>2. act.pc = "none" /\ ~allow.proj /\ ~allow.on
    BY <2>1 DEF IInv, NothingEnabled
  <2> QED
    BY <2>2 DEF IInv, AttemptInv, LeaseOfAttempt, ClosedInTime, Operation
<1> QED
  BY <1>1, WirelessInvariance, PTL

-----------------------------------------------------------------------------
(* The ownership marker, on a host with one wireless interface.            *)

OneInterface == \A i, j \in Interfaces : i = j

(* The marker is on disk before the helper is called, and while there is a *)
(* guard that it may have installed.                                       *)
MarkerFirst == guards # {} \/ act.pc = "helper" => marker # NoInterface

LEMMA MarkerStays ==
    ASSUME OneInterface, IInv, MarkerFirst, [Next]_vars
    PROVE  MarkerFirst'
<1> USE DEF IInv, AttemptInv, At
<1>1. act \in Activity /\ guards \subseteq Interfaces
      /\ (act.pc # "none" => act.iface \in Interfaces)
  BY DEF AttemptTypeOK, InterfaceChosen
<1>2. ASSUME guards' \subseteq guards, marker' = marker, act'.pc = "helper" => act.pc = "helper"
      PROVE  MarkerFirst'
  BY <1>2 DEF MarkerFirst
<1>3. \A s \in AttemptState : Go(s) => act'.pc = s
  BY <1>1, Goes
<1>4. ASSUME NEW kind, End(kind) \/ ReturnEarly(kind)
      PROVE  act'.pc \in {"closing", "decide"}
  BY <1>1, <1>4 DEF End, ReturnEarly, Activity
<1>5. CASE WorkerStep
  <2>1. UNCHANGED <<guards, marker>>
    BY <1>5, WorkerLeavesAttempt DEF attemptVars, StartAttempt, Cancels, Publishes, Forgets,
       MovesLease, World
  <2>2. StartAttempt(iface) => act'.pc = "check"
    BY DEF StartAttempt, NoAttempt
  <2>3. Cancels => act'.pc = act.pc
    BY <1>1 DEF Cancels, Activity
  <2>4. act'.pc = "helper" => act.pc = "helper"
    BY <1>5, <2>2, <2>3, WorkerLeavesAttempt DEF attemptVars, Publishes, Forgets, MovesLease,
       NoAttempt
  <2> QED
    BY <1>2, <2>1, <2>4
<1>6. CASE External
  BY <1>2, <1>6 DEF External, NmReaps, PairingChanges, UsbAcquires, UsbReleases
<1>7. CASE FirewallIntent
  BY <1>1, <1>7 DEF FirewallIntent, MarkerFirst, InterfaceAssumption
<1>8. CASE HelperOk
  BY <1>8 DEF HelperOk, MarkerFirst
<1>9. CASE OperationFails \/ SetupDeadline \/ OperationCancelled
  <2>1. Interrupted /\ act'.pc = "closing"
    BY <1>1, <1>9 DEF OperationFails, SetupDeadline, OperationCancelled, End, Activity
  <2>2. marker' = marker /\ (act.pc # "helper" => guards' = guards)
    BY <2>1 DEF Interrupted
  <2> QED
    BY <2>1, <2>2 DEF MarkerFirst
<1>10. CASE CheckFails \/ PrepareFails
  <2>1. \E kind \in Kinds : ReturnEarly(kind)
    BY <1>10 DEF CheckFails, PrepareFails, Kinds
  <2> QED
    BY <1>2, <1>4, <2>1 DEF ReturnEarly
<1>11. CASE CheckOk \/ PrepareOk \/ TemplateOk \/ ActivateOk \/ ReadyOk \/ BootstrapConnected
            \/ Admit \/ VersionOk \/ MediaClosed
  <2>1. UNCHANGED <<guards, marker>>
    BY <1>11 DEF CheckOk, PrepareOk, TemplateOk, ActivateOk, ReadyOk, BootstrapConnected, Admit,
       VersionOk, MediaClosed
  <2>2. act'.pc # "helper"
    BY <1>3, <1>11 DEF CheckOk, PrepareOk, TemplateOk, ActivateOk, ReadyOk, BootstrapConnected,
       Admit, VersionOk, MediaClosed, AttemptState, Operation
  <2> QED
    BY <1>2, <2>1, <2>2
<1>12. CASE BootstrapRefused \/ Authorize \/ BootstrapCloses \/ TcpCandidate \/ PublishSession
            \/ Establish
  <2>1. UNCHANGED <<guards, marker>>
    BY <1>12 DEF BootstrapRefused, Authorize, BootstrapCloses, TcpCandidate, PublishSession,
       Establish, Quiet
  <2>2. act' = act \/ Go("version") \/ \E kind \in Kinds : End(kind)
    BY <1>12 DEF BootstrapRefused, Authorize, BootstrapCloses, TcpCandidate, PublishSession,
       Establish, Kinds
  <2>3. act' = act \/ act'.pc # "helper"
    BY <1>3, <1>4, <2>2 DEF AttemptState, Operation
  <2> QED
    BY <1>2, <2>1, <2>3
<1>13. CASE Deactivate \/ RemoveGuard
  <2>1. act'.pc # "helper" /\ act.iface \in Interfaces
    <3>1. Uncertain \/ Go("unguard") \/ Go("decide")
      BY <1>13 DEF Deactivate, RemoveGuard, Unguarded
    <3> QED
      BY <1>1, <1>3, <1>13, <3>1, UncertainTyped DEF Deactivate, RemoveGuard, AttemptState
  <2>2. guards \ {act.iface} = {}
    BY <1>1, <2>1 DEF OneInterface
  <2>3. (guards' = {} \/ marker' = marker) /\ guards' \subseteq guards
    BY <1>13, <2>2 DEF Deactivate, RemoveGuard
  <2> QED
    BY <1>2, <2>1, <2>3 DEF MarkerFirst
<1>14. CASE Decide \/ Backoff
  <2>1. UNCHANGED <<guards, marker>>
    BY <1>14 DEF Decide, Backoff
  <2>2. act'.pc \in {"backoff", "done", "check"}
    BY <1>1, <1>3, <1>14 DEF Decide, Backoff, Activity, AttemptState
  <2> QED
    BY <1>2, <2>1, <2>2
<1>15. CASE UNCHANGED vars
  BY <1>2, <1>15 DEF vars, attemptVars
<1> QED
  BY <1>5, <1>6, <1>7, <1>8, <1>9, <1>10, <1>11, <1>12, <1>13, <1>14, <1>15
  DEF Next, WorkerStep, AttemptStep, Progress, Cleanup

(* With one wireless interface, a guard that may be installed is always    *)
(* named by the marker on disk.                                            *)
THEOREM GuardIsRecorded ==
    ASSUME OneInterface
    PROVE  Spec => []GuardRecorded
<1>1. Init => MarkerFirst
  BY DEF Init, AttemptInit, MarkerFirst, NoAttempt
<1>2. IInv /\ MarkerFirst /\ [Next]_vars => MarkerFirst'
  BY MarkerStays
<1>3. IInv /\ MarkerFirst => GuardRecorded
  BY DEF IInv, AttemptInv, AttemptTypeOK, MarkerFirst, GuardRecorded, OneInterface
<1> QED
  BY <1>1, <1>2, <1>3, WirelessInvariance, PTL DEF Spec

===============================================================================
