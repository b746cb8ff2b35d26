------------------------- MODULE UsbRuntime_proofs --------------------------
(***************************************************************************)
(* Proofs about the wired owner, for every set of phones, every number of  *)
(* enumerations and switch writes, and every queue capacity.               *)
(***************************************************************************)
EXTENDS UsbRuntime, TLAPS

(* A session task that still has work to do on behalf of the runtime.  A   *)
(* failed one (closingErr) only cleans up, and may outlive its successor's *)
(* start.                                                                  *)
Working == {"opening", "versioning", "running", "closingOk"}

(* Whoever works is active under the USB lease: either it is uncancelled   *)
(* and named by the lifecycle, or cancelled and about to be joined.        *)
Tied ==
    \A i \in Ids : sess[i].pc \in Working =>
        /\ active = i
        /\ lease = "usb"
        /\ \/ sess[i].cancel /\ pc \in {"disabling", "unplugging", "closing"}
           \/ /\ ~sess[i].cancel
              /\ lc.dev = i
              /\ lc.st \in {"SessionStarting", "WaitingForTls"}

(* A failure report is about a task that has failed.                       *)
Reported ==
    \A k \in 1 .. Len(work) :
        work[k].kind = "Version" /\ ~work[k].ok
            => sess[work[k].dev].pc \in {"closingErr", "finished"}

(* The watcher stream: known enumerations, and none comes back.            *)
Ordered ==
    /\ \A k \in 1 .. Len(hotplug) : hotplug[k].id <= count
    /\ \A a, b \in 1 .. Len(hotplug) :
         a < b /\ ~hotplug[a].connected /\ hotplug[b].connected
            => hotplug[a].id # hotplug[b].id

(* An enumeration that may still be offered without being in attempted has *)
(* never been tried.                                                       *)
Once ==
    \A i \in Ids :
        (probe[i] # "none" \/ sess[i].pc # "none") /\ i \notin attempted
            => /\ i \notin toList
               /\ \A k \in 1 .. Len(hotplug) :
                    hotplug[k].connected => hotplug[k].id # i

(* Nothing has been tried beyond the enumerations there have been.         *)
Known == \A i \in Ids : i > count => probe[i] = "none" /\ sess[i].pc = "none"

(* What the place of the loop says of the list and the active session.     *)
Place ==
    /\ pc # "listing" => toList = {}
    /\ pc \in {"start", "draining", "stopped"} => active = 0

(* Nothing is tried before the initial list has been read.                 *)
Fresh == pc = "start" =>
            \A i \in Ids : probe[i] = "none" /\ sess[i].pc = "none"

(* The id a session task reads, and the one it has read.                   *)
OwnId ==
    \A i \in Ids :
        /\ sess[i].pc = "opening" /\ ~sess[i].cancel => snap.id = i
        /\ sess[i].pc \in {"versioning", "running"} => sess[i].sid = i

(* The inductive invariant.                                                *)
IInv == /\ TypeOK /\ Tied /\ Reported /\ Ordered /\ Once /\ Known /\ Place
        /\ Fresh /\ OwnId

USE UsbAssumption

-----------------------------------------------------------------------------
(* Types of what the helpers return.                                       *)

(* Every published snapshot is one.                                        *)
LEMMA SnapshotTypes ==
    /\ NoSnapshot \in Snapshot
    /\ \A i \in Ids : connecting(i) \in Snapshot
    /\ \A s \in Snapshot : failed(s) \in Snapshot
<1>1. NoSnapshot \in Snapshot
  BY DEF NoSnapshot, Snapshot, IdOrNo
<1>2. ASSUME NEW i \in Ids PROVE connecting(i) \in Snapshot
  BY DEF connecting, Snapshot, Ids, IdOrNo
<1>3. ASSUME NEW s \in Snapshot PROVE failed(s) \in Snapshot
  BY DEF failed, Snapshot
<1> QED
  BY <1>1, <1>2, <1>3

(* Every successor of the lifecycle is one of its states.                  *)
LEMMA LifecycleTypes ==
    /\ Disconnected \in Lifecycle
    /\ \A s \in LifecycleState, i \in IdOrNo : InState(s, i) \in Lifecycle
    /\ \A l \in Lifecycle, i \in Ids : removed(l, i) \in Lifecycle
    /\ \A l \in Lifecycle : expire_accessory_wait(l) \in Lifecycle
<1>1. Disconnected \in Lifecycle
  BY DEF Disconnected, Lifecycle, LifecycleState, IdOrNo
<1>2. ASSUME NEW s \in LifecycleState, NEW i \in IdOrNo
      PROVE  InState(s, i) \in Lifecycle
  BY DEF InState, Lifecycle
<1>3. ASSUME NEW l \in Lifecycle, NEW i \in Ids
      PROVE  removed(l, i) \in Lifecycle
  <2>1. [l EXCEPT !.removed = TRUE] \in Lifecycle
    BY DEF Lifecycle
  <2> QED
    BY <1>1, <2>1 DEF removed
<1>4. ASSUME NEW l \in Lifecycle
      PROVE  expire_accessory_wait(l) \in Lifecycle
  <2>1. l.dev \in IdOrNo /\ "Failed" \in LifecycleState
    BY DEF Lifecycle, LifecycleState
  <2> QED
    BY <1>1, <1>2, <2>1 DEF expire_accessory_wait
<1> QED
  BY <1>1, <1>2, <1>3, <1>4

(* Telling a session to stop, and joining the probes, keep their types.    *)
LEMMA TaskTypes ==
    ASSUME TypeOK
    PROVE  /\ \A i \in IdOrNo : Cancel(i) \in [Ids -> Session]
           /\ JoinAll \in [Ids -> ProbeState]
<1>1. ASSUME NEW i \in IdOrNo PROVE Cancel(i) \in [Ids -> Session]
  <2>1. CASE i = 0
    BY <2>1 DEF Cancel, TypeOK
  <2>2. CASE i # 0
    <3>1. i \in Ids
      BY <2>2 DEF Ids, IdOrNo
    <3>2. sess[i] \in Session
      BY <3>1 DEF TypeOK
    <3>3. [sess[i] EXCEPT !.cancel = TRUE] \in Session
      BY <3>2 DEF Session
    <3> QED
      BY <2>2, <3>1, <3>3 DEF Cancel, TypeOK
  <2> QED
    BY <2>1, <2>2
<1>2. JoinAll \in [Ids -> ProbeState]
  BY DEF JoinAll, ProbeState
<1> QED
  BY <1>1, <1>2

(* connected() keeps the types of all it writes.                           *)
LEMMA ConnectedTypes ==
    ASSUME TypeOK, NEW i \in Ids, Connected(i)
    PROVE  /\ lease' \in {"free", "usb", "wifi"}
           /\ lc' \in Lifecycle
           /\ attempted' \subseteq Ids
           /\ snap' \in Snapshot
           /\ active' \in IdOrNo
           /\ sess' \in [Ids -> Session]
           /\ probe' \in [Ids -> ProbeState]
           /\ handle' \in IdOrNo
<1>1. CASE StartAccessory(i) /\ lease' = "usb"
  <2>1. [pc |-> "opening", cancel |-> FALSE, sid |-> 0] \in Session
    BY DEF Session, SessState, IdOrNo
  <2>2. lc' \in Lifecycle
    BY <1>1, LifecycleTypes DEF StartAccessory, LifecycleState, Ids, IdOrNo
  <2> QED
    BY <1>1, <2>1, <2>2, SnapshotTypes DEF StartAccessory, TypeOK, Ids, IdOrNo
<1>2. CASE StartProbe(i) /\ lease' = "usb"
  <2>2. lc' \in Lifecycle
    BY <1>2, LifecycleTypes DEF StartProbe, LifecycleState, Ids, IdOrNo
  <2> QED
    BY <1>2, <2>2, SnapshotTypes
    DEF StartProbe, TypeOK, Ids, IdOrNo, ProbeState
<1>3. CASE Refuse(i) /\ lease' = "usb"
  BY <1>3 DEF Refuse, TypeOK
<1>4. CASE UNCHANGED <<lease, lc, attempted, snap, active, sess, probe,
                       handle>>
  BY <1>4 DEF TypeOK
<1> QED
  BY <1>1, <1>2, <1>3, <1>4 DEF Connected

(* So do the work results, handled or dropped.                             *)
LEMMA WorkTypes ==
    ASSUME TypeOK, NEW m \in WorkResult,
           handle_work_result(m) \/ drop_result(m)
    PROVE  /\ lc' \in Lifecycle
           /\ probe' \in [Ids -> ProbeState]
           /\ snap' \in Snapshot
<1>1. /\ m.dev \in Ids /\ m.dev \in IdOrNo
      /\ {"Failed", "WaitingForTls", "WaitingForAccessory"}
            \subseteq LifecycleState
      /\ {"acked", "reportErr"} \subseteq ProbeState
  BY DEF WorkResult, Ids, IdOrNo, LifecycleState, ProbeState
<1>2. CASE drop_result(m)
  BY <1>1, <1>2 DEF drop_result, TypeOK
<1>3. CASE handle_work_result(m)
  <2>1. CASE m.kind = "BeforeStart"
    <3>1. snap' = snap
      BY <1>3, <2>1 DEF handle_work_result
    <3>2. lc' \in {lc, InState("WaitingForAccessory", m.dev)}
      BY <1>3, <2>1 DEF handle_work_result
    <3>3. \/ probe' = probe
          \/ probe' = [probe EXCEPT ![m.dev] = "acked"]
          \/ probe' = [probe EXCEPT ![m.dev] = "reportErr"]
      BY <1>3, <2>1 DEF handle_work_result
    <3> QED
      <4>1. probe' \in [Ids -> ProbeState]
        BY <1>1, <3>3 DEF TypeOK
      <4>2. lc' \in Lifecycle
        BY <1>1, <3>2, LifecycleTypes DEF TypeOK
      <4> QED
        BY <3>1, <4>1, <4>2 DEF TypeOK
  <2>2. CASE m.kind = "Aoap"
    BY <1>1, <1>3, <2>2, LifecycleTypes, SnapshotTypes
    DEF handle_work_result, TypeOK
  <2>3. CASE m.kind = "Version"
    <3>1. probe' = probe /\ snap' \in {snap, failed(snap)}
      BY <1>3, <2>3 DEF handle_work_result
    <3>2. lc' \in {lc, InState("Failed", m.dev),
                   InState("WaitingForTls", m.dev)}
      BY <1>3, <2>3 DEF handle_work_result
    <3> QED
      BY <1>1, <3>1, <3>2, LifecycleTypes, SnapshotTypes DEF TypeOK
  <2> QED
    BY <2>1, <2>2, <2>3 DEF WorkResult
<1> QED
  BY <1>2, <1>3

(* The queue: a report is appended only with room, and the head leaves.    *)
LEMMA QueueTypes ==
    ASSUME TypeOK, NEW m \in WorkResult
    PROVE  /\ Room => /\ Append(work, m) \in Seq(WorkResult)
                      /\ Len(Append(work, m)) <= WorkCapacity
           /\ TrySend(m) => /\ work' \in Seq(WorkResult)
                            /\ Len(work') <= WorkCapacity
           /\ work # <<>> => /\ Head(work) \in WorkResult
                             /\ Tail(work) \in Seq(WorkResult)
                             /\ Len(Tail(work)) <= WorkCapacity
<1>1. Room => /\ Append(work, m) \in Seq(WorkResult)
              /\ Len(Append(work, m)) <= WorkCapacity
  BY DEF TypeOK, Room
<1>2. TrySend(m) => /\ work' \in Seq(WorkResult)
                    /\ Len(work') <= WorkCapacity
  BY <1>1 DEF TrySend, TypeOK
<1>3. work # <<>> => /\ Head(work) \in WorkResult
                     /\ Tail(work) \in Seq(WorkResult)
                     /\ Len(Tail(work)) <= WorkCapacity
  BY DEF TypeOK
<1> QED
  BY <1>1, <1>2, <1>3

-----------------------------------------------------------------------------
(* Type correctness.                                                       *)

(* Every step keeps TypeOK.                                                *)
LEMMA TypeStep ==
    ASSUME TypeOK, [Next]_vars
    PROVE  TypeOK'
<1> USE DEF TypeOK, bus, switch, workers
<1>1. CASE Environment
  <2>1. ASSUME NEW p \in Phones, NEW acc \in BOOLEAN, Plug(p, acc)
        PROVE  TypeOK'
    <3>1. count + 1 \in Ids
      BY <2>1 DEF Plug, Ids, IdOrNo
    <3>2. hotplug' \in Seq(HotplugEvent)
      <4>1. [connected |-> TRUE, id |-> count + 1] \in HotplugEvent
        BY <3>1 DEF HotplugEvent
      <4>2. CASE hotplug' = Append(hotplug, [connected |-> TRUE,
                                             id |-> count + 1])
        BY <4>1, <4>2
      <4>3. CASE hotplug' = hotplug
        BY <4>3
      <4> QED
        BY <2>1, <4>2, <4>3 DEF Plug
    <3>3. dev' \in Seq(Device) /\ Len(dev') = count'
      BY <2>1 DEF Plug, Device, IdOrNo
    <3>4. count' \in IdOrNo /\ present' \subseteq 1 .. count'
          /\ toList' \subseteq 1 .. count'
      BY <2>1, <3>1 DEF Plug, Ids, IdOrNo
    <3> QED
      BY <2>1, <3>2, <3>3, <3>4 DEF Plug
  <2>2. ASSUME NEW i \in Ids, Unplug(i) PROVE TypeOK'
    BY <2>2 DEF Unplug, HotplugEvent
  <2>3. ASSUME NEW v \in BOOLEAN, SetEnabled(v) PROVE TypeOK'
    BY <2>3 DEF SetEnabled
  <2>4. CASE RequestShutdown
    BY <2>4 DEF RequestShutdown
  <2>5. CASE WifiAcquire
    BY <2>5 DEF WifiAcquire
  <2>6. CASE WifiPublish
    BY <2>6 DEF WifiPublish, Snapshot, IdOrNo
  <2>7. CASE WifiRelease
    BY <2>7, SnapshotTypes DEF WifiRelease
  <2> QED
    BY <1>1, <2>1, <2>2, <2>3, <2>4, <2>5, <2>6, <2>7 DEF Environment
<1>2. CASE DeadlinePasses
  BY <1>2 DEF DeadlinePasses, Lifecycle
<1>3. CASE Loop
  <2>1. CASE ListDevices
    BY <2>1 DEF ListDevices, LoopState
  <2>2. ASSUME NEW i \in Ids, OfferListed(i) PROVE TypeOK'
    BY <2>2, ConnectedTypes DEF OfferListed
  <2>3. CASE EnterLoop
    BY <2>3 DEF EnterLoop, LoopState
  <2>4. CASE EnabledChanged
    BY <2>4, TaskTypes DEF EnabledChanged, LoopState
  <2>5. CASE DisableJoined
    BY <2>5, TaskTypes DEF DisableJoined, LoopState, IdOrNo
  <2>6. CASE Drain
    <3>1. CASE work # <<>>
      <4>1. /\ Head(work) \in WorkResult
            /\ Tail(work) \in Seq(WorkResult)
            /\ Len(Tail(work)) <= WorkCapacity
        BY <3>1
      <4> QED
        BY <2>6, <3>1, <4>1, WorkTypes DEF Drain
    <3>2. CASE work = <<>>
      BY <2>6, <3>2 DEF Drain, TakeOwner, LoopState
    <3> QED
      BY <3>1, <3>2
  <2>7. CASE SessionReaped
    BY <2>7 DEF SessionReaped, LoopState, IdOrNo
  <2>8. CASE IdleRelease
    BY <2>8 DEF IdleRelease, TakeOwner
  <2>9. CASE HotplugConnected
    <3>1. /\ Head(hotplug) \in HotplugEvent
          /\ hotplug' \in Seq(HotplugEvent)
      BY <2>9 DEF HotplugConnected
    <3>2. Head(hotplug).id \in Ids
      BY <3>1 DEF HotplugEvent
    <3> QED
      BY <2>9, <3>1, <3>2, ConnectedTypes DEF HotplugConnected
  <2>10. CASE HotplugRemoved
    <3> DEFINE i == Head(hotplug).id
    <3>0. /\ Head(hotplug) \in HotplugEvent
          /\ hotplug' \in Seq(HotplugEvent)
      BY <2>10 DEF HotplugRemoved
    <3>1. i \in Ids /\ hotplug' \in Seq(HotplugEvent)
      BY <3>0 DEF HotplugEvent
    <3>2. lc' \in Lifecycle /\ attempted' \subseteq Ids
      BY <2>10, <3>1, LifecycleTypes DEF HotplugRemoved
    <3>3. probe' \in [Ids -> ProbeState] /\ handle' \in IdOrNo
      BY <2>10, <3>1 DEF HotplugRemoved, ProbeState, IdOrNo
    <3>4. i \in IdOrNo
      BY <3>1 DEF Ids, IdOrNo
    <3>5. /\ sess' \in [Ids -> Session] /\ active' \in IdOrNo
          /\ pc' \in LoopState /\ snap' \in Snapshot
          /\ lease' \in {"free", "usb", "wifi"}
      BY <2>10, <3>4, TaskTypes, SnapshotTypes
      DEF HotplugRemoved, TakeOwner, LoopState
    <3> HIDE DEF i
    <3> QED
      BY <2>10, <3>1, <3>2, <3>3, <3>5 DEF HotplugRemoved
  <2>11. CASE UnplugJoined
    BY <2>11, SnapshotTypes DEF UnplugJoined, TakeOwner, LoopState, IdOrNo
  <2>12. CASE RecvWork
    <3>1. /\ Head(work) \in WorkResult
          /\ Tail(work) \in Seq(WorkResult)
          /\ Len(Tail(work)) <= WorkCapacity
      BY <2>12 DEF RecvWork
    <3> QED
      BY <2>12, <3>1, WorkTypes DEF RecvWork
  <2>13. ASSUME NEW i \in Ids, JoinProbe(i) PROVE TypeOK'
    BY <2>13 DEF JoinProbe, ProbeState
  <2>14. CASE Deadline
    BY <2>14, LifecycleTypes, SnapshotTypes DEF Deadline
  <2>15. CASE ShutdownSeen
    BY <2>15, TaskTypes DEF ShutdownSeen, LoopState
  <2>16. CASE ShutdownJoined
    BY <2>16, SnapshotTypes DEF ShutdownJoined, TakeOwner, LoopState, IdOrNo
  <2> QED
    BY <1>3, <2>1, <2>2, <2>3, <2>4, <2>5, <2>6, <2>7, <2>8, <2>9, <2>10,
       <2>11, <2>12, <2>13, <2>14, <2>15, <2>16 DEF Loop
<1>4. ASSUME NEW i \in Ids, Probe(i) PROVE TypeOK'
  <2>1. CASE ProbeBeforeStart(i)
    <3>1. Message("BeforeStart", i, TRUE) \in WorkResult
      BY DEF Message, WorkResult
    <3> QED
      BY <2>1, <3>1, QueueTypes DEF ProbeBeforeStart, ProbeStep, ProbeState
  <2>2. CASE ProbeStart(i)
    BY <2>2 DEF ProbeStart, ProbeStep, ProbeState
  <2>3. CASE ProbeOk(i)
    BY <2>3 DEF ProbeOk, ProbeStep, ProbeState
  <2>4. CASE ProbeError(i)
    BY <2>4 DEF ProbeError, ProbeStep, ProbeState
  <2>5. CASE ProbeReport(i)
    <3>1. Message("Aoap", i, probe[i] = "reportOk") \in WorkResult
      BY DEF Message, WorkResult
    <3> QED
      BY <2>5, <3>1, QueueTypes DEF ProbeReport, ProbeStep, ProbeState
  <2> QED
    BY <1>4, <2>1, <2>2, <2>3, <2>4, <2>5 DEF Probe
<1>5. ASSUME NEW i \in Ids, SessionTask(i) PROVE TypeOK'
  <2> DEFINE Report(ok) == Message("Version", i, ok)
  <2>0. Report(TRUE) \in WorkResult /\ Report(FALSE) \in WorkResult
    BY DEF Message, WorkResult
  <2>a. sess[i] \in Session /\ snap.id \in IdOrNo
    BY <1>5 DEF Snapshot
  <2>b. ASSUME NEW s \in SessState
        PROVE  [sess EXCEPT ![i].pc = s] \in [Ids -> Session]
    <3>1. [sess[i] EXCEPT !.pc = s] \in Session
      BY <2>a DEF Session
    <3> QED
      BY <3>1
  <2> HIDE DEF Report
  <2>1. CASE SessionOpened(i)
    <3>1. [sess[i] EXCEPT !.pc = "versioning", !.sid = snap.id] \in Session
      BY <2>a DEF Session, SessState
    <3>2. sess' \in [Ids -> Session]
      BY <2>1, <3>1 DEF SessionOpened
    <3> QED
      BY <2>1, <3>2 DEF SessionOpened
  <2>2. CASE SessionOpenFailed(i)
    BY <2>2, <2>0, <2>b, QueueTypes
    DEF SessionOpenFailed, SessStep, SessState, Report
  <2>3. CASE SessionVersion(i)
    BY <2>3, <2>0, <2>b, QueueTypes
    DEF SessionVersion, SessStep, SessState, Report
  <2>4. CASE SessionStreams(i)
    BY <2>4 DEF SessionStreams, Snapshot
  <2>5. CASE SessionFailed(i)
    BY <2>5, <2>0, <2>b, QueueTypes
    DEF SessionFailed, SessStep, SessState, Report
  <2>6. CASE SessionEnded(i)
    BY <2>6, <2>b DEF SessionEnded, SessStep, SessState
  <2>7. CASE SessionCancelled(i)
    BY <2>7, <2>b DEF SessionCancelled, SessStep, SessState
  <2>8. CASE SessionClosed(i)
    <3>1. [snap EXCEPT !.video = FALSE] \in Snapshot
      BY DEF Snapshot
    <3> QED
      BY <2>8, <2>b, <3>1, SnapshotTypes
      DEF SessionClosed, SessStep, SessState
  <2> QED
    BY <1>5, <2>1, <2>2, <2>3, <2>4, <2>5, <2>6, <2>7, <2>8 DEF SessionTask
<1>6. CASE UNCHANGED vars
  BY <1>6 DEF vars
<1> QED
  BY <1>1, <1>2, <1>3, <1>4, <1>5, <1>6 DEF Next

(* The initial state is well typed.                                        *)
LEMMA InitTypes ==
    ASSUME Init
    PROVE  TypeOK
<1>1. [pc |-> "none", cancel |-> FALSE, sid |-> 0] \in Session
  BY DEF Session, SessState, IdOrNo
<1>2. sess \in [Ids -> Session] /\ probe \in [Ids -> ProbeState]
  BY <1>1 DEF Init, ProbeState
<1>3. dev \in Seq(Device) /\ hotplug \in Seq(HotplugEvent)
      /\ work \in Seq(WorkResult) /\ Len(work) = 0 /\ Len(dev) = 0
  BY DEF Init
<1>4. /\ count \in IdOrNo /\ active \in IdOrNo /\ handle \in IdOrNo
      /\ toggles \in 0 .. MaxToggles
      /\ Len(dev) = count /\ Len(work) <= WorkCapacity
  BY <1>3 DEF Init, IdOrNo
<1>5. enabled \in BOOLEAN /\ changed \in BOOLEAN /\ shutdown \in BOOLEAN
  BY DEF Init
<1>6. lc \in Lifecycle /\ snap \in Snapshot
  BY SnapshotTypes, LifecycleTypes DEF Init
<1>7. /\ present \subseteq 1 .. count /\ toList \subseteq 1 .. count
      /\ attempted \subseteq Ids /\ pc \in LoopState
      /\ lease \in {"free", "usb", "wifi"}
  BY DEF Init, LoopState
<1> QED
  BY <1>2, <1>3, <1>4, <1>5, <1>6, <1>7 DEF TypeOK

(* Every variable of the wired owner keeps its type, and the work queue    *)
(* its capacity, in every behaviour.                                       *)
THEOREM TypeCorrect == Spec => []TypeOK
<1>1. Init => TypeOK
  BY InitTypes
<1>2. TypeOK /\ [Next]_vars => TypeOK'
  BY TypeStep
<1> QED
  BY <1>1, <1>2, PTL DEF Spec

-----------------------------------------------------------------------------
(* What a step that leaves alone the variables of a part does to it.       *)

(* A part of the invariant holds on while its variables do not change.     *)
LEMMA Frame ==
    ASSUME IInv
    PROVE  /\ UNCHANGED <<sess, active, lease, lc, pc>> => Tied'
           /\ UNCHANGED <<work, sess>> => Reported'
           /\ UNCHANGED <<hotplug, count>> => Ordered'
           /\ UNCHANGED <<probe, sess, attempted, toList, hotplug>> => Once'
           /\ UNCHANGED <<count, probe, sess>> => Known'
           /\ UNCHANGED <<pc, toList, active>> => Place'
           /\ UNCHANGED <<pc, probe, sess>> => Fresh'
           /\ UNCHANGED <<sess, snap>> => OwnId'
<1>1. UNCHANGED <<sess, active, lease, lc, pc>> => Tied'
  BY DEF IInv, Tied
<1>2. UNCHANGED <<work, sess>> => Reported'
  BY DEF IInv, Reported
<1>3. UNCHANGED <<hotplug, count>> => Ordered'
  BY DEF IInv, Ordered
<1>4. UNCHANGED <<probe, sess, attempted, toList, hotplug>> => Once'
  BY DEF IInv, Once
<1>5. UNCHANGED <<count, probe, sess>> => Known'
  BY DEF IInv, Known
<1>6. UNCHANGED <<pc, toList, active>> => Place'
  BY DEF IInv, Place
<1>7. UNCHANGED <<pc, probe, sess>> => Fresh'
  BY DEF IInv, Fresh
<1>8. UNCHANGED <<sess, snap>> => OwnId'
  BY DEF IInv, OwnId
<1> QED
  BY <1>1, <1>2, <1>3, <1>4, <1>5, <1>6, <1>7, <1>8

(* With no working session task there is nothing for the ties to say.      *)
LEMMA Idle ==
    ASSUME \A i \in Ids : sess'[i].pc \notin Working
    PROVE  Tied' /\ OwnId'
BY DEF Tied, OwnId, Working

(* A step that starts no task, ends no attempt and touches only the        *)
(* progress of tasks that exist keeps what is said of attempts.            *)
LEMMA NoNewTask ==
    ASSUME IInv,
           \A i \in Ids : /\ probe'[i] = "none" <=> probe[i] = "none"
                          /\ sess'[i].pc = "none" <=> sess[i].pc = "none"
    PROVE  /\ UNCHANGED <<attempted, toList, hotplug>> => Once'
           /\ UNCHANGED count => Known'
           /\ pc' # "start" \/ pc' = pc => Fresh'
BY DEF IInv, Once, Known, Fresh

(* Stopping a task changes its cancel flag and nothing else.               *)
LEMMA CancelEffect ==
    ASSUME TypeOK, NEW i \in Ids
    PROVE  /\ Cancel(active)[i].pc = sess[i].pc
           /\ Cancel(active)[i].sid = sess[i].sid
           /\ active = i => Cancel(active)[i].cancel
           /\ active # i => Cancel(active)[i] = sess[i]
<1>0. 0 \notin Ids
  BY DEF Ids
<1>1. sess \in [Ids -> Session] /\ sess[i] \in Session
  BY DEF TypeOK
<1>2. CASE active = 0
  BY <1>0, <1>2 DEF Cancel
<1>3. CASE active # 0
  <2>1. Cancel(active) = [sess EXCEPT ![active].cancel = TRUE]
    BY <1>3 DEF Cancel
  <2>2. [sess[i] EXCEPT !.cancel = TRUE].pc = sess[i].pc
        /\ [sess[i] EXCEPT !.cancel = TRUE].sid = sess[i].sid
        /\ [sess[i] EXCEPT !.cancel = TRUE].cancel = TRUE
    BY <1>1 DEF Session
  <2> QED
    BY <1>1, <2>1, <2>2
<1> QED
  BY <1>2, <1>3

(* Outside the three places where the loop joins a cancelled session, a    *)
(* working one is uncancelled and the lifecycle names it.                  *)
LEMMA Named ==
    ASSUME IInv, pc \notin {"disabling", "unplugging", "closing"},
           NEW i \in Ids, sess[i].pc \in Working
    PROVE  /\ active = i /\ lease = "usb" /\ ~sess[i].cancel
           /\ lc.dev = i
           /\ lc.st \in {"SessionStarting", "WaitingForTls"}
BY DEF IInv, Tied

(* Without an active session that could still work, none works.            *)
LEMMA Quiet ==
    ASSUME IInv, Stopped(active)
    PROVE  \A i \in Ids : sess[i].pc \notin Working
<1>1. 0 \notin Ids
  BY DEF Ids
<1> QED
  BY <1>1 DEF IInv, Tied, Stopped, Working

(* Reading the watcher stream leaves a suffix of it.                       *)
LEMMA StreamRead ==
    ASSUME IInv, hotplug # <<>>, hotplug' = Tail(hotplug), UNCHANGED count
    PROVE  /\ Ordered'
           /\ Head(hotplug) = hotplug[1] /\ hotplug[1] \in HotplugEvent
           /\ hotplug[1].id \in Ids /\ hotplug[1].id <= count
           /\ 1 \in 1 .. Len(hotplug)
           /\ \A k \in 1 .. Len(hotplug') :
                /\ hotplug'[k] = hotplug[k + 1]
                /\ k + 1 \in 1 .. Len(hotplug)
                /\ k + 1 > 1
<1>1. hotplug \in Seq(HotplugEvent)
  BY DEF IInv, TypeOK
<1>2. /\ Head(hotplug) = hotplug[1] /\ hotplug[1] \in HotplugEvent
      /\ 1 \in 1 .. Len(hotplug)
  BY <1>1
<1>3. \A k \in 1 .. Len(hotplug') : /\ hotplug'[k] = hotplug[k + 1]
                                    /\ k + 1 \in 1 .. Len(hotplug)
                                    /\ k + 1 > 1
  BY <1>1
<1>4. hotplug[1].id \in Ids /\ hotplug[1].id <= count
  BY <1>2 DEF HotplugEvent, IInv, Ordered
<1>5. Ordered'
  <2>1. \A k \in 1 .. Len(hotplug') : hotplug'[k].id <= count'
    BY <1>3 DEF IInv, Ordered
  <2>2. \A a, b \in 1 .. Len(hotplug') :
          a < b /\ ~hotplug'[a].connected /\ hotplug'[b].connected
            => hotplug'[a].id # hotplug'[b].id
    <3>1. \A a, b \in 1 .. Len(hotplug') : a < b => a + 1 < b + 1
      OBVIOUS
    <3> QED
      BY <1>3, <3>1 DEF IInv, Ordered
  <2> QED
    BY <2>1, <2>2 DEF Ordered
<1> QED
  BY <1>2, <1>3, <1>4, <1>5

(* Reading the work queue leaves reports that were there.                  *)
LEMMA QueueRead ==
    ASSUME IInv, work # <<>>, work' = Tail(work), UNCHANGED sess
    PROVE  /\ Reported'
           /\ Head(work) \in WorkResult
           /\ Head(work).kind = "Version" /\ ~Head(work).ok
                => sess[Head(work).dev].pc \in {"closingErr", "finished"}
<1>1. work \in Seq(WorkResult)
  BY DEF IInv, TypeOK
<1>2. Head(work) = work[1] /\ work[1] \in WorkResult /\ 1 \in 1 .. Len(work)
  BY <1>1
<1>3. \A k \in 1 .. Len(work') : /\ work'[k] = work[k + 1]
                                 /\ k + 1 \in 1 .. Len(work)
  BY <1>1
<1>4. Reported'
  BY <1>3 DEF IInv, Reported
<1> QED
  BY <1>2, <1>4 DEF IInv, Reported

(* Reports are about enumerations.                                         *)
LEMMA Reporters ==
    ASSUME IInv
    PROVE  \A k \in 1 .. Len(work) : work[k].dev \in Ids
<1>1. \A k \in 1 .. Len(work) : work[k] \in WorkResult
  BY DEF IInv, TypeOK
<1> QED
  BY <1>1 DEF WorkResult

(* A new report must be true; the earlier ones stay so while no task that  *)
(* has failed is started again.                                            *)
LEMMA QueueWrite ==
    ASSUME IInv, NEW m \in WorkResult,
           work' = Append(work, m) \/ work' = work,
           \A i \in Ids : sess[i].pc \in {"closingErr", "finished"}
                => sess'[i].pc \in {"closingErr", "finished"},
           m.kind = "Version" /\ ~m.ok
                => sess'[m.dev].pc \in {"closingErr", "finished"}
    PROVE  Reported'
<1>1. work \in Seq(WorkResult)
  BY DEF IInv, TypeOK
<1>2. \A k \in 1 .. Len(work) : work[k].dev \in Ids
  BY Reporters
<1>3. CASE work' = work
  BY <1>2, <1>3 DEF IInv, Reported
<1>4. CASE work' = Append(work, m)
  <2>1. \A k \in 1 .. Len(work') :
          \/ k \in 1 .. Len(work) /\ work'[k] = work[k]
          \/ work'[k] = m
    BY <1>1, <1>4
  <2> QED
    BY <1>2, <2>1 DEF IInv, Reported
<1> QED
  BY <1>3, <1>4

-----------------------------------------------------------------------------
(* The attempts connected() starts.                                        *)

(* connected(), offered an enumeration that was never tried unless it is   *)
(* in attempted, keeps every part of the invariant that it can disturb.    *)
LEMMA ConnectedKeeps ==
    ASSUME IInv, NEW i \in Ids, Connected(i),
           pc \in {"listing", "select"}, UNCHANGED <<pc, work, count>>,
           i <= count,
           i \notin attempted => probe[i] = "none" /\ sess[i].pc = "none",
           toList' \subseteq toList,
           \A k \in 1 .. Len(hotplug') : \E j \in 1 .. Len(hotplug) :
                hotplug'[k] = hotplug[j]
    PROVE  /\ Tied' /\ Reported' /\ Once' /\ Known' /\ Fresh' /\ OwnId'
           /\ \A j \in Ids :
                /\ probe'[j] = "probing" => probe[j] \in {"none", "probing"}
                /\ sess'[j].pc = "opening"
                     => sess[j].pc \in {"none", "opening"}
<1> DEFINE Probes == \A j \in Ids :
                /\ probe'[j] = "probing" => probe[j] \in {"none", "probing"}
                /\ sess'[j].pc = "opening"
                     => sess[j].pc \in {"none", "opening"}
<1>1. probe \in [Ids -> ProbeState] /\ sess \in [Ids -> Session]
  BY DEF IInv, TypeOK
<1>2. CASE StartAccessory(i) /\ lease' = "usb"
  <2>1. sess[i].pc = "none"
    BY <1>2 DEF StartAccessory
  <2>2. \A j \in Ids : sess[j].pc \notin Working
    BY <1>2, Named DEF StartAccessory, accessory_available
  <2>3. /\ sess'[i].pc = "opening" /\ ~sess'[i].cancel
        /\ \A j \in Ids : j # i => sess'[j] = sess[j]
    BY <1>1, <1>2 DEF StartAccessory
  <2>4. /\ active' = i /\ lc'.dev = i /\ lc'.st = "SessionStarting"
        /\ snap'.id = i /\ UNCHANGED probe
        /\ attempted' = attempted \cup {i}
    BY <1>2 DEF StartAccessory, InState, connecting
  <2>5. Tied' /\ OwnId'
    BY <1>2, <2>2, <2>3, <2>4 DEF Tied, OwnId, Working
  <2>6. Reported'
    BY <2>1, <2>3, Reporters DEF IInv, Reported
  <2>7. Once'
    BY <2>3, <2>4 DEF IInv, Once
  <2>8. Known' /\ Fresh'
    BY <2>3, <2>4 DEF IInv, Known, Fresh, Ids, TypeOK, IdOrNo
  <2>9. Probes
    BY <2>1, <2>3, <2>4
  <2> QED
    BY <2>5, <2>6, <2>7, <2>8, <2>9
<1>3. CASE StartProbe(i) /\ lease' = "usb"
  <2>1. probe[i] = "none"
    BY <1>3 DEF StartProbe
  <2>2. \A j \in Ids : sess[j].pc \notin Working
    BY <1>3, Named DEF StartProbe, candidate_available
  <2>3. /\ probe'[i] = "probing" /\ UNCHANGED sess
        /\ \A j \in Ids : j # i => probe'[j] = probe[j]
        /\ attempted' = attempted \cup {i}
    BY <1>1, <1>3 DEF StartProbe
  <2>5. Tied' /\ OwnId'
    BY <2>2, <2>3, Idle
  <2>6. Reported'
    BY <2>3, Frame
  <2>7. Once'
    BY <2>3 DEF IInv, Once
  <2>8. Known' /\ Fresh'
    BY <2>3 DEF IInv, Known, Fresh, Ids, TypeOK, IdOrNo
  <2>9. Probes
    BY <2>1, <2>3
  <2> QED
    BY <2>5, <2>6, <2>7, <2>8, <2>9
<1>4. CASE /\ UNCHANGED <<lc, attempted, snap, active, sess, probe, handle>>
           /\ lease' = lease \/ lease' = "usb"
  <2>1. Tied'
    BY <1>4 DEF IInv, Tied
  <2>2. Once'
    BY <1>4 DEF IInv, Once
  <2>3. Reported' /\ Known' /\ Fresh' /\ OwnId'
    BY <1>4, Frame
  <2> QED
    BY <1>4, <2>1, <2>2, <2>3
<1> QED
  BY <1>2, <1>3, <1>4 DEF Connected, Refuse

(* Work results never touch the ties of a working session: only its own    *)
(* failure report fails the lifecycle that names it.                       *)
LEMMA WorkKeeps ==
    ASSUME IInv, NEW m \in WorkResult,
           handle_work_result(m) \/ drop_result(m),
           pc \in {"select", "draining"},
           UNCHANGED <<sess, active>>,
           m.kind = "Version" /\ ~m.ok
                => sess[m.dev].pc \in {"closingErr", "finished"}
    PROVE  /\ pc' = pc /\ lease' = lease => Tied'
           /\ OwnId'
           /\ \A i \in Ids : /\ probe'[i] = "none" <=> probe[i] = "none"
                             /\ probe'[i] = "probing" => probe[i] = "probing"
           /\ lc.st \in {"SessionStarting", "WaitingForTls"}
                /\ lc'.st = "Failed"
                => m.kind = "Version" /\ ~m.ok /\ m.dev = lc.dev
                   /\ lc'.dev = lc.dev
<1>1. m.dev \in Ids /\ m.kind \in {"BeforeStart", "Aoap", "Version"}
  BY DEF WorkResult
<1>2. probe \in [Ids -> ProbeState] /\ snap \in Snapshot
  BY DEF IInv, TypeOK
<1>3. \/ probe' = probe
      \/ probe[m.dev] = "awaitAck"
           /\ \/ probe' = [probe EXCEPT ![m.dev] = "acked"]
              \/ probe' = [probe EXCEPT ![m.dev] = "reportErr"]
  BY <1>1 DEF handle_work_result, drop_result
<1>4. \A i \in Ids : /\ probe'[i] = "none" <=> probe[i] = "none"
                     /\ probe'[i] = "probing" => probe[i] = "probing"
  BY <1>1, <1>2, <1>3
<1>5. snap' \in {snap, failed(snap)}
  BY <1>1 DEF handle_work_result, drop_result
<1>6. OwnId'
  <2>1. failed(snap).id = snap.id
    BY <1>2 DEF failed, Snapshot
  <2> QED
    BY <1>5, <2>1 DEF IInv, OwnId
<1>7. ASSUME lc.st \in {"SessionStarting", "WaitingForTls"}
      PROVE  \/ lc' = lc
             \/ /\ lc' = InState("Failed", m.dev) /\ m.dev = lc.dev
                /\ m.kind = "Version" /\ ~m.ok
             \/ lc' = InState("WaitingForTls", m.dev) /\ m.dev = lc.dev
  <2>1. CASE drop_result(m)
    BY <2>1 DEF drop_result
  <2>2. CASE handle_work_result(m) /\ m.kind = "BeforeStart"
    BY <1>7, <2>2 DEF handle_work_result, accessory_switch_allowed
  <2>3. CASE handle_work_result(m) /\ m.kind = "Aoap"
    BY <1>7, <2>3 DEF handle_work_result, probe_can_fail
  <2>4. CASE handle_work_result(m) /\ m.kind = "Version"
    BY <2>4 DEF handle_work_result, session_can_fail, version_allowed
  <2> QED
    BY <1>1, <2>1, <2>2, <2>3, <2>4
<1>8. /\ InState("Failed", m.dev).dev = m.dev
      /\ InState("WaitingForTls", m.dev).dev = m.dev
      /\ InState("WaitingForTls", m.dev).st = "WaitingForTls"
  BY DEF InState
<1>9. ASSUME pc' = pc /\ lease' = lease PROVE Tied'
  <2>1. ASSUME NEW i \in Ids, sess[i].pc \in Working
        PROVE  /\ active = i /\ lease = "usb" /\ ~sess[i].cancel
               /\ lc'.dev = i
               /\ lc'.st \in {"SessionStarting", "WaitingForTls"}
    <3>1. /\ active = i /\ lease = "usb" /\ ~sess[i].cancel
          /\ lc.dev = i
          /\ lc.st \in {"SessionStarting", "WaitingForTls"}
      BY <2>1, Named
    <3>2. sess[i].pc \notin {"closingErr", "finished"}
      BY <2>1 DEF Working
    <3> QED
      BY <1>7, <1>8, <3>1, <3>2
  <2> QED
    BY <1>9, <2>1 DEF Tied
<1> QED
  BY <1>4, <1>6, <1>7, <1>8, <1>9

-----------------------------------------------------------------------------
(* The inductive step, one part of the system at a time.                   *)

(* What a step must establish besides TypeOK'.                             *)
Rest == /\ Tied /\ Reported /\ Ordered /\ Once /\ Known /\ Place /\ Fresh
        /\ OwnId

(* Plugging, unplugging, the switches and the wireless worker.             *)
LEMMA EnvironmentKeeps ==
    ASSUME IInv, Environment
    PROVE  Rest'
<1> USE DEF bus, switch, workers
<1>1. ASSUME NEW p \in Phones, NEW acc \in BOOLEAN, Plug(p, acc)
      PROVE  Rest'
  <2>1. hotplug \in Seq(HotplugEvent) /\ count \in Nat
    BY DEF IInv, TypeOK, IdOrNo
  <2>2. \A k \in 1 .. Len(hotplug') :
          \/ k \in 1 .. Len(hotplug) /\ hotplug'[k] = hotplug[k]
          \/ k = Len(hotplug) + 1 /\ hotplug'[k].id = count + 1
    BY <1>1, <2>1 DEF Plug
  <2>3. count' = count + 1
    BY <1>1 DEF Plug
  <2>4. Ordered'
    <3>1. \A k \in 1 .. Len(hotplug') : hotplug'[k].id <= count'
      <4>1. \A k \in 1 .. Len(hotplug) : hotplug[k] \in HotplugEvent
        BY <2>1
      <4>2. \A k \in 1 .. Len(hotplug) : hotplug[k].id \in Nat
        BY <4>1 DEF HotplugEvent, Ids
      <4>3. \A k \in 1 .. Len(hotplug) : hotplug[k].id <= count
        BY DEF IInv, Ordered
      <4> QED
        BY <2>1, <2>2, <2>3, <4>2, <4>3
    <3>2. ASSUME NEW a \in 1 .. Len(hotplug'), NEW b \in 1 .. Len(hotplug'),
                 a < b, ~hotplug'[a].connected, hotplug'[b].connected
          PROVE  hotplug'[a].id # hotplug'[b].id
      <4>0. a \in 1 .. Len(hotplug) /\ hotplug'[a] = hotplug[a]
        BY <1>1, <2>1, <2>2, <3>2 DEF Plug
      <4>1. CASE b \in 1 .. Len(hotplug) /\ hotplug'[b] = hotplug[b]
        BY <3>2, <4>0, <4>1 DEF IInv, Ordered
      <4>2. CASE hotplug'[b].id = count + 1
        <5>1. hotplug[a].id <= count
          BY <4>0 DEF IInv, Ordered
        <5> QED
          BY <2>1, <4>0, <4>2, <5>1
      <4> QED
        BY <2>2, <4>1, <4>2
    <3> QED
      BY <3>1, <3>2 DEF Ordered
  <2>5. UNCHANGED <<probe, sess, attempted, toList, active, lease, lc, pc,
                    work, snap>>
    BY <1>1 DEF Plug
  <2>6. Once'
    <3>1. \A i \in Ids : i = count + 1 =>
            probe[i] = "none" /\ sess[i].pc = "none"
      BY <2>1 DEF IInv, Known
    <3> QED
      BY <2>2, <2>5, <3>1 DEF IInv, Once
  <2>7. Known'
    BY <2>1, <2>3, <2>5 DEF IInv, Known, Ids
  <2> QED
    BY <2>4, <2>5, <2>6, <2>7, Frame DEF Rest
<1>2. ASSUME NEW j \in Ids, Unplug(j) PROVE Rest'
  <2>1. hotplug \in Seq(HotplugEvent) /\ j <= count
    BY <1>2 DEF IInv, TypeOK, Unplug, IdOrNo
  <2>2. \A k \in 1 .. Len(hotplug') :
          \/ k \in 1 .. Len(hotplug) /\ hotplug'[k] = hotplug[k]
          \/ /\ k = Len(hotplug) + 1 /\ hotplug'[k].id = j
             /\ ~hotplug'[k].connected
    BY <1>2, <2>1 DEF Unplug
  <2>3. UNCHANGED <<probe, sess, attempted, toList, active, lease, lc, pc,
                    work, snap, count>>
    BY <1>2 DEF Unplug
  <2>4. Ordered'
    BY <2>1, <2>2, <2>3 DEF IInv, Ordered
  <2>5. Once'
    BY <2>2, <2>3 DEF IInv, Once
  <2> QED
    BY <2>3, <2>4, <2>5, Frame DEF Rest
<1>3. ASSUME NEW v \in BOOLEAN, SetEnabled(v) PROVE Rest'
  BY <1>3, Frame DEF Rest, SetEnabled
<1>4. CASE RequestShutdown
  BY <1>4, Frame DEF Rest, RequestShutdown
<1>5. CASE lease # "usb" /\ UNCHANGED <<bus, hotplug, pc, toList, active,
                                        attempted, workers>>
  <2>1. \A i \in Ids : sess[i].pc \notin Working
    BY <1>5 DEF IInv, Tied
  <2> QED
    BY <1>5, <2>1, Idle, Frame DEF Rest
<1> QED
  BY <1>1, <1>2, <1>3, <1>4, <1>5
  DEF Environment, WifiAcquire, WifiPublish, WifiRelease

(* The AOAP tasks.                                                         *)
LEMMA ProbeKeeps ==
    ASSUME IInv, NEW i \in Ids, Probe(i)
    PROVE  /\ Rest'
           /\ \A j \in Ids : probe'[j] = "probing" => probe[j] = "probing"
<1> USE DEF bus, switch, workers
<1>0. probe \in [Ids -> ProbeState]
  BY DEF IInv, TypeOK
<1>1. ASSUME NEW from, NEW to, ProbeStep(i, from, to)
      PROVE  /\ UNCHANGED <<bus, hotplug, pc, toList, lease, lc, active,
                            attempted, sess, snap>>
             /\ probe[i] \in from
             /\ probe' = [probe EXCEPT ![i] = to]
  BY <1>1 DEF ProbeStep
<1>2. /\ UNCHANGED <<bus, hotplug, pc, toList, lease, lc, active, attempted,
                     sess, snap>>
      /\ probe[i] # "none"
      /\ \E to \in ProbeState \ {"none", "probing"} :
            probe' = [probe EXCEPT ![i] = to]
  <2> HIDE DEF bus, switch, workers
  <2>1. CASE ProbeBeforeStart(i)
    BY <1>1, <2>1 DEF ProbeBeforeStart, ProbeState
  <2>2. CASE ProbeStart(i)
    BY <1>1, <2>2 DEF ProbeStart, ProbeState
  <2>3. CASE ProbeOk(i)
    BY <1>1, <2>3 DEF ProbeOk, ProbeState
  <2>4. CASE ProbeError(i)
    BY <1>1, <2>4 DEF ProbeError, ProbeState
  <2>5. CASE ProbeReport(i)
    BY <1>1, <2>5 DEF ProbeReport, ProbeState
  <2> QED
    BY <2>1, <2>2, <2>3, <2>4, <2>5 DEF Probe
<1>3. \A j \in Ids : /\ probe'[j] = "none" <=> probe[j] = "none"
                     /\ probe'[j] = "probing" => probe[j] = "probing"
  BY <1>0, <1>2
<1>4. Reported'
  <2>1. PICK m \in WorkResult : /\ work' = Append(work, m) \/ work' = work
                                /\ m.kind # "Version"
    <3>1. /\ Message("BeforeStart", i, TRUE) \in WorkResult
          /\ Message("Aoap", i, probe[i] = "reportOk") \in WorkResult
          /\ Message("BeforeStart", i, TRUE).kind # "Version"
          /\ Message("Aoap", i, probe[i] = "reportOk").kind # "Version"
      BY DEF Message, WorkResult
    <3> QED
      BY <3>1 DEF Probe, ProbeBeforeStart, ProbeStart, ProbeOk, ProbeError,
                  ProbeReport
  <2> QED
    BY <1>2, <2>1, QueueWrite
<1> QED
  BY <1>2, <1>3, <1>4, Frame, NoNewTask DEF Rest

(* The session tasks.                                                      *)
LEMMA SessionKeeps ==
    ASSUME IInv, NEW i \in Ids, SessionTask(i)
    PROVE  /\ Rest'
           /\ \A j \in Ids : sess'[j].pc = "opening" => sess[j].pc = "opening"
<1> USE DEF bus, switch, workers
<1> DEFINE Started == {"opening", "versioning", "running"}
           Over    == {"closingErr", "finished"}
<1>0. sess \in [Ids -> Session] /\ sess[i] \in Session
  BY DEF IInv, TypeOK
<1>a. ASSUME NEW from, NEW to, SessStep(i, from, to)
      PROVE  /\ UNCHANGED <<count, hotplug, pc, toList, lease, lc, active,
                            attempted, probe>>
             /\ \A j \in Ids : j # i => sess'[j] = sess[j]
             /\ sess'[i].cancel = sess[i].cancel
             /\ sess[i].pc \in from
             /\ sess'[i].pc = to /\ sess'[i].sid = sess[i].sid
  BY <1>0, <1>a DEF SessStep, Session
<1>1. /\ UNCHANGED <<count, hotplug, pc, toList, lease, lc, active,
                     attempted, probe>>
      /\ \A j \in Ids : j # i => sess'[j] = sess[j]
      /\ sess'[i].cancel = sess[i].cancel
  <2>1. CASE SessionOpened(i)
    BY <1>0, <2>1 DEF SessionOpened, Session
  <2>2. CASE SessionStreams(i)
    BY <2>2 DEF SessionStreams
  <2>3. CASE \E from, to : SessStep(i, from, to)
    BY <1>a, <2>3
  <2> QED
    BY <2>1, <2>2, <2>3
    DEF SessionTask, SessionOpenFailed, SessionVersion, SessionFailed,
        SessionEnded, SessionCancelled, SessionClosed
<1>2. \/ /\ sess[i].pc = "opening" /\ ~sess[i].cancel
         /\ sess'[i].pc = "versioning" /\ sess'[i].sid = snap.id
         /\ UNCHANGED <<work, snap>>
      \/ /\ sess'[i].pc = sess[i].pc /\ sess'[i].sid = sess[i].sid
         /\ UNCHANGED work /\ snap'.id = snap.id
      \/ /\ sess[i].pc = "versioning" /\ sess'[i].pc = "running"
         /\ sess'[i].sid = sess[i].sid /\ UNCHANGED snap
         /\ TrySend(Message("Version", i, TRUE))
      \/ /\ sess[i].pc \in Started /\ sess'[i].pc \in Over
         /\ TrySend(Message("Version", i, FALSE)) /\ UNCHANGED snap
      \/ /\ sess[i].pc \in Started
         /\ sess'[i].pc \in {"closingOk", "finished"}
         /\ UNCHANGED <<work, snap>>
      \/ /\ sess[i].pc = "closingOk" /\ sess'[i].pc = "finished"
         /\ UNCHANGED work
      \/ /\ sess[i].pc = "closingErr" /\ sess'[i].pc = "finished"
         /\ UNCHANGED work /\ snap'.id = snap.id
  <2>0. snap \in Snapshot
    BY DEF IInv, TypeOK
  <2>1. CASE SessionOpened(i)
    BY <1>0, <2>1 DEF SessionOpened, Session
  <2>2. CASE SessionOpenFailed(i)
    BY <1>a, <2>2 DEF SessionOpenFailed
  <2>3. CASE SessionVersion(i)
    <3>1. SessStep(i, {"versioning"}, "running")
      BY <2>3 DEF SessionVersion
    <3>2. /\ sess[i].pc = "versioning" /\ sess'[i].pc = "running"
          /\ sess'[i].sid = sess[i].sid
      BY <1>a, <3>1
    <3>3. UNCHANGED snap /\ TrySend(Message("Version", i, TRUE))
      BY <2>3 DEF SessionVersion
    <3> QED
      BY <3>2, <3>3
  <2>4. CASE SessionStreams(i)
    BY <2>0, <2>4 DEF SessionStreams, Snapshot
  <2>5. CASE SessionFailed(i)
    BY <1>a, <2>5 DEF SessionFailed
  <2>6. CASE SessionEnded(i)
    BY <1>a, <2>6 DEF SessionEnded
  <2>7. CASE SessionCancelled(i)
    BY <1>a, <2>7 DEF SessionCancelled
  <2>8. CASE SessionClosed(i)
    <3>1. [snap EXCEPT !.video = FALSE].id = snap.id
      BY <2>0 DEF Snapshot
    <3>2. SessStep(i, {"closingOk", "closingErr"}, "finished")
      BY <2>8 DEF SessionClosed
    <3>3. sess[i].pc \in {"closingOk", "closingErr"}
          /\ sess'[i].pc = "finished"
      BY <1>a, <3>2
    <3>4. UNCHANGED work /\ (sess[i].pc = "closingErr" => snap'.id = snap.id)
      BY <2>8, <3>1 DEF SessionClosed
    <3> QED
      BY <3>3, <3>4
  <2> QED
    BY <2>1, <2>2, <2>3, <2>4, <2>5, <2>6, <2>7, <2>8 DEF SessionTask
<1>3. /\ sess'[i].pc \in Working => sess[i].pc \in Working
      /\ sess'[i].pc = "none" <=> sess[i].pc = "none"
      /\ sess'[i].pc = "opening" => sess[i].pc = "opening"
      /\ sess[i].pc \in Over => sess'[i].pc \in Over
  BY <1>2 DEF Working
<1>4. Tied'
  BY <1>1, <1>3 DEF IInv, Tied
<1>5. Reported'
  <2>1. CASE UNCHANGED work
    BY <1>1, <1>3, <2>1, Reporters DEF IInv, Reported
  <2>2. CASE TrySend(Message("Version", i, TRUE))
    <3>1. /\ Message("Version", i, TRUE) \in WorkResult
          /\ Message("Version", i, TRUE).ok
      BY DEF Message, WorkResult
    <3> QED
      BY <1>1, <1>3, <2>2, <3>1, QueueWrite DEF TrySend
  <2>3. CASE /\ TrySend(Message("Version", i, FALSE))
             /\ sess'[i].pc \in Over
    <3>1. /\ Message("Version", i, FALSE) \in WorkResult
          /\ Message("Version", i, FALSE).dev = i
      BY DEF Message, WorkResult
    <3> QED
      BY <1>1, <1>3, <2>3, <3>1, QueueWrite DEF TrySend
  <2> QED
    BY <1>2, <2>1, <2>2, <2>3
<1>6. OwnId'
  <2>1. ASSUME NEW j \in Ids, sess'[j].pc = "opening", ~sess'[j].cancel
        PROVE  snap'.id = j
    <3>1. sess[j].pc = "opening" /\ ~sess[j].cancel
      BY <1>1, <1>3, <2>1
    <3>2. snap.id = j
      BY <3>1 DEF IInv, OwnId
    <3>3. CASE sess[i].pc = "closingOk"
      BY <3>1, <3>3 DEF IInv, Tied, Working
    <3>4. CASE sess[i].pc # "closingOk"
      BY <1>2, <3>2, <3>4
    <3> QED
      BY <3>3, <3>4
  <2>2. ASSUME NEW j \in Ids, sess'[j].pc \in {"versioning", "running"}
        PROVE  sess'[j].sid = j
    BY <1>1, <1>2, <2>2 DEF IInv, OwnId
  <2> QED
    BY <2>1, <2>2 DEF OwnId
<1>7. Once' /\ Known' /\ Fresh'
  BY <1>1, <1>3, NoNewTask
<1> QED
  BY <1>1, <1>3, <1>4, <1>5, <1>6, <1>7, Frame DEF Rest

(* The loop of run().                                                      *)
LEMMA LoopKeeps ==
    ASSUME IInv, Loop
    PROVE  /\ Rest'
           /\ \A j \in Ids :
                /\ probe'[j] = "probing" => probe[j] \in {"none", "probing"}
                /\ sess'[j].pc = "opening"
                     => sess[j].pc \in {"none", "opening"}
<1> DEFINE Goal == /\ Rest'
                   /\ \A j \in Ids :
                        /\ probe'[j] = "probing"
                             => probe[j] \in {"none", "probing"}
                        /\ sess'[j].pc = "opening"
                             => sess[j].pc \in {"none", "opening"}
<1> USE DEF bus, switch, workers
<1>0. /\ TypeOK /\ active \in IdOrNo /\ 0 \notin Ids
      /\ active # 0 => active \in Ids
      /\ probe \in [Ids -> ProbeState] /\ sess \in [Ids -> Session]
  BY DEF IInv, TypeOK, Ids, IdOrNo
<1>a. ASSUME JoinAll = probe' PROVE
        \A j \in Ids : /\ probe'[j] = "none" <=> probe[j] = "none"
                       /\ probe'[j] # "probing"
  BY <1>a DEF JoinAll
<1>1. CASE ListDevices
  <2>1. /\ pc = "start" /\ pc' = "listing"
        /\ UNCHANGED <<count, hotplug, lease, lc, active, attempted, probe,
                       sess, work, snap>>
    BY <1>1 DEF ListDevices
  <2>2. \A i \in Ids : probe[i] = "none" /\ sess[i].pc = "none"
    BY <2>1 DEF IInv, Fresh
  <2>3. Tied' /\ OwnId'
    BY <2>1, <2>2, Idle DEF Working
  <2>4. Once' /\ Place' /\ Fresh'
    BY <2>1, <2>2 DEF Once, Place, Fresh
  <2> QED
    BY <2>1, <2>3, <2>4, Frame DEF Rest
<1>2. ASSUME NEW i \in Ids, OfferListed(i) PROVE Goal
  <2>1. /\ pc = "listing" /\ i \in toList /\ toList' = toList \ {i}
        /\ Connected(i)
        /\ UNCHANGED <<count, hotplug, pc, work>>
    BY <1>2 DEF OfferListed
  <2>2. i <= count
    BY <2>1 DEF IInv, TypeOK, IdOrNo
  <2>3. i \notin attempted => probe[i] = "none" /\ sess[i].pc = "none"
    BY <2>1 DEF IInv, Once
  <2>4. \A k \in 1 .. Len(hotplug') : \E j \in 1 .. Len(hotplug) :
            hotplug'[k] = hotplug[j]
    BY <2>1
  <2>5. /\ Tied' /\ Reported' /\ Once' /\ Known' /\ Fresh' /\ OwnId'
        /\ \A j \in Ids :
             /\ probe'[j] = "probing" => probe[j] \in {"none", "probing"}
             /\ sess'[j].pc = "opening" => sess[j].pc \in {"none", "opening"}
    BY <2>1, <2>2, <2>3, <2>4, ConnectedKeeps
  <2>6. Place'
    BY <2>1 DEF Place
  <2> QED
    BY <2>1, <2>5, <2>6, Frame DEF Rest
<1>3. CASE EnterLoop
  <2>1. /\ pc = "listing" /\ pc' = "select" /\ toList = {}
        /\ UNCHANGED <<count, hotplug, toList, lease, lc, active, attempted,
                       probe, sess, work, snap>>
    BY <1>3 DEF EnterLoop
  <2>2. Tied' /\ Place' /\ Fresh'
    BY <2>1 DEF IInv, Tied, Place, Fresh
  <2> QED
    BY <2>1, <2>2, Frame DEF Rest
<1>4. ASSUME /\ pc \in {"select", "start"} /\ sess' = Cancel(active)
             /\ pc = "select" => pc' \in {"disabling", "unplugging", "closing"}
             /\ pc = "start" => pc' = "stopped"
             /\ UNCHANGED <<count, toList, lease, active, work, snap>>
             /\ \A j \in Ids : /\ probe'[j] = "none" <=> probe[j] = "none"
                               /\ probe'[j] = "probing" => probe[j] = "probing"
      PROVE  /\ UNCHANGED <<attempted, hotplug>> => Goal
             /\ Tied' /\ Reported' /\ Known' /\ Place' /\ Fresh'
             /\ OwnId'
             /\ \A j \in Ids : sess'[j].pc = sess[j].pc
  <2>1. \A j \in Ids : /\ sess'[j].pc = sess[j].pc
                       /\ sess'[j].sid = sess[j].sid
                       /\ active = j => sess'[j].cancel
                       /\ active # j => sess'[j] = sess[j]
    BY <1>0, <1>4, CancelEffect
  <2>2. Tied'
    <3>1. CASE pc = "start"
      BY <1>0, <1>4, <2>1, <3>1 DEF IInv, Tied, Place
    <3>2. CASE pc = "select"
      BY <1>4, <2>1, <3>2 DEF IInv, Tied
    <3> QED
      BY <1>4, <3>1, <3>2
  <2>3. OwnId'
    BY <1>4, <2>1 DEF IInv, OwnId
  <2>4. Reported'
    BY <1>4, <2>1, Reporters DEF IInv, Reported
  <2>5. Place'
    BY <1>4 DEF IInv, Place
  <2>6. Known' /\ Fresh'
    BY <1>4, <2>1, NoNewTask
  <2>7. UNCHANGED hotplug => Ordered'
    BY <1>4, Frame
  <2>8. UNCHANGED <<attempted, hotplug>> => Once'
    BY <1>4, <2>1, NoNewTask
  <2> QED
    BY <1>4, <2>1, <2>2, <2>3, <2>4, <2>5, <2>6, <2>7, <2>8 DEF Rest
<1>5. CASE EnabledChanged
  <2>1. CASE enabled
    BY <1>5, <2>1, Frame DEF EnabledChanged, Rest
  <2>2. CASE ~enabled
    BY <1>4, <1>5, <2>2 DEF EnabledChanged, AtSelect
  <2> QED
    BY <2>1, <2>2
<1>6. ASSUME /\ \A j \in Ids : sess[j].pc \notin Working
             /\ toList = {} /\ UNCHANGED <<count, hotplug, toList, attempted,
                                           sess>>
             /\ pc' = "draining" \/ pc' = "stopped" => active' = 0
             /\ pc' \notin {"start", "listing"}
             /\ \A j \in Ids : /\ probe'[j] = "none" <=> probe[j] = "none"
                               /\ probe'[j] = "probing" => probe[j] = "probing"
             /\ Reported'
      PROVE  Goal
  <2>1. Tied' /\ OwnId'
    BY <1>6, Idle
  <2>2. Place'
    BY <1>6 DEF Place
  <2>3. Once' /\ Known' /\ Fresh'
    BY <1>6, NoNewTask
  <2> QED
    BY <1>6, <2>1, <2>2, <2>3, Frame DEF Rest
<1>b. pc # "listing" => toList = {}
  BY DEF IInv, Place
<1>7. CASE DisableJoined
  <2>1. \A j \in Ids : sess[j].pc \notin Working
    BY <1>7, Quiet DEF DisableJoined
  <2> QED
    BY <1>6, <1>7, <1>a, <1>b, <2>1, Frame DEF DisableJoined
<1>8. CASE Drain
  <2>1. \A j \in Ids : sess[j].pc \notin Working
    BY <1>8, Quiet DEF Drain, Stopped, IInv, Place
  <2>2. CASE work = <<>>
    BY <1>6, <1>8, <1>b, <2>1, <2>2, Frame DEF Drain
  <2>3. CASE work # <<>>
    <3>1. /\ Reported' /\ Head(work) \in WorkResult
          /\ Head(work).kind = "Version" /\ ~Head(work).ok
               => sess[Head(work).dev].pc \in {"closingErr", "finished"}
      BY <1>8, <2>3, QueueRead DEF Drain
    <3>2. \A j \in Ids : /\ probe'[j] = "none" <=> probe[j] = "none"
                         /\ probe'[j] = "probing" => probe[j] = "probing"
      BY <1>8, <2>3, <3>1, WorkKeeps DEF Drain
    <3>3. active = 0
      BY <1>8 DEF Drain, IInv, Place
    <3> QED
      BY <1>6, <1>8, <1>b, <2>1, <2>3, <3>1, <3>2, <3>3 DEF Drain
  <2> QED
    BY <2>2, <2>3
<1>9. CASE SessionReaped
  <2>1. \A j \in Ids : sess[j].pc \notin Working
    BY <1>9, Quiet DEF SessionReaped, Stopped
  <2> QED
    BY <1>6, <1>9, <1>b, <2>1, Frame DEF SessionReaped, Branch, AtSelect
<1>10. CASE IdleRelease
  <2>1. \A j \in Ids : sess[j].pc \notin Working
    BY <1>10, Quiet DEF IdleRelease, Stopped
  <2> QED
    BY <1>6, <1>10, <1>b, <2>1, Frame DEF IdleRelease, Branch, AtSelect
<1>11. CASE HotplugConnected
  <2>1. /\ pc = "select" /\ hotplug # <<>> /\ hotplug[1].connected
        /\ hotplug' = Tail(hotplug) /\ Head(hotplug) = hotplug[1]
        /\ Connected(Head(hotplug).id)
        /\ UNCHANGED <<count, pc, toList, work>>
    BY <1>11, StreamRead DEF HotplugConnected, Branch, AtSelect
  <2> DEFINE i == Head(hotplug).id
  <2>2. /\ Ordered' /\ i \in Ids /\ i <= count
        /\ 1 \in 1 .. Len(hotplug)
        /\ \A k \in 1 .. Len(hotplug') : \E j \in 1 .. Len(hotplug) :
              hotplug'[k] = hotplug[j]
    BY <2>1, StreamRead
  <2>3. i \notin attempted => probe[i] = "none" /\ sess[i].pc = "none"
    BY <2>1, <2>2 DEF IInv, Once
  <2>4. Connected(i)
    BY <2>1
  <2> HIDE DEF i
  <2>5. /\ Tied' /\ Reported' /\ Once' /\ Known' /\ Fresh' /\ OwnId'
        /\ \A j \in Ids :
             /\ probe'[j] = "probing" => probe[j] \in {"none", "probing"}
             /\ sess'[j].pc = "opening" => sess[j].pc \in {"none", "opening"}
    BY <2>1, <2>2, <2>3, <2>4, ConnectedKeeps
  <2>6. Place'
    BY <2>1 DEF IInv, Place
  <2> QED
    BY <2>2, <2>5, <2>6 DEF Rest
<1>12. CASE HotplugRemoved
  <2> DEFINE i == Head(hotplug).id
  <2>1. /\ pc = "select" /\ hotplug # <<>> /\ ~hotplug[1].connected
        /\ hotplug' = Tail(hotplug) /\ i = hotplug[1].id
        /\ attempted' = attempted \ {i} /\ lc' = removed(lc, i)
        /\ UNCHANGED <<count, toList, work>>
    BY <1>12, StreamRead DEF HotplugRemoved, Branch, AtSelect
  <2>2. /\ Ordered' /\ i \in Ids
        /\ \A k \in 1 .. Len(hotplug') : /\ hotplug'[k] = hotplug[k + 1]
                                         /\ k + 1 \in 1 .. Len(hotplug)
                                         /\ k + 1 > 1
        /\ 1 \in 1 .. Len(hotplug)
    BY <2>1, StreamRead
  <2>3. \A j \in Ids : /\ probe'[j] = "none" <=> probe[j] = "none"
                       /\ probe'[j] = "probing" => probe[j] = "probing"
    <3>1. \/ probe' = probe
          \/ /\ probe[i] \notin Gone
             /\ probe' = [probe EXCEPT ![i] = "done"]
      <4>1. CASE Ends(i)
        <5>1. probe' = IF handle # i \/ probe[i] \in Gone THEN probe
                       ELSE [probe EXCEPT ![i] = "done"]
          BY <1>12, <4>1 DEF HotplugRemoved
        <5> QED
          BY <5>1
      <4>2. CASE ~Ends(i)
        BY <1>12, <4>2 DEF HotplugRemoved
      <4> QED
        BY <4>1, <4>2
    <3> QED
      BY <1>0, <2>2, <3>1 DEF Gone
  <2>4. ASSUME \A j \in Ids : sess'[j].pc = sess[j].pc PROVE Once'
    <3>1. \A k \in 1 .. Len(hotplug') :
            hotplug'[k].connected => hotplug'[k].id # i
      BY <2>1, <2>2 DEF IInv, Ordered
    <3> QED
      BY <1>b, <2>1, <2>2, <2>3, <2>4, <3>1 DEF IInv, Once
  <2>5. CASE Ends(i) /\ active = i
    <3>1. pc' = "unplugging" /\ sess' = Cancel(active)
          /\ UNCHANGED <<active, snap, lease>>
      BY <1>12, <2>5 DEF HotplugRemoved
    <3> HIDE DEF i
    <3> QED
      BY <1>4, <2>1, <2>2, <2>3, <2>4, <3>1 DEF Rest
  <2>6. CASE ~Ends(i)
    <3>1. UNCHANGED <<probe, sess, active, pc, snap, lease>>
      BY <1>12, <2>6 DEF HotplugRemoved
    <3>2. ASSUME NEW j \in Ids, sess[j].pc \in Working PROVE lc' = lc
      <4>1. lease = "usb" /\ lc.dev = j
            /\ lc.st \in {"SessionStarting", "WaitingForTls"}
        BY <2>1, <3>2, Named
      <4> QED
        BY <2>1, <2>6, <4>1 DEF Ends, owner, owns_device, removed
    <3>3. Tied'
      BY <3>1, <3>2 DEF IInv, Tied
    <3> HIDE DEF i
    <3> QED
      BY <2>1, <2>2, <2>4, <3>1, <3>3, Frame DEF Rest
  <2>7. CASE Ends(i) /\ active # i
    <3>1. UNCHANGED <<pc, sess, active>>
      BY <1>12, <2>7 DEF HotplugRemoved
    <3>2. \A j \in Ids : sess[j].pc \notin Working
      BY <2>1, <2>7, Named DEF Ends, owns_device
    <3>3. Tied' /\ OwnId'
      BY <3>1, <3>2, Idle
    <3> HIDE DEF i
    <3> QED
      BY <2>1, <2>2, <2>3, <2>4, <3>1, <3>3, Frame, NoNewTask DEF Rest
  <2> QED
    BY <2>5, <2>6, <2>7
<1>13. CASE UnplugJoined
  <2>1. \A j \in Ids : sess[j].pc \notin Working
    BY <1>13, Quiet DEF UnplugJoined
  <2> QED
    BY <1>6, <1>13, <1>b, <2>1, Frame DEF UnplugJoined
<1>14. CASE RecvWork
  <2>1. /\ work # <<>> /\ work' = Tail(work) /\ pc = "select"
        /\ handle_work_result(Head(work)) \/ drop_result(Head(work))
        /\ UNCHANGED <<count, hotplug, pc, toList, lease, active, attempted,
                       sess>>
    BY <1>14 DEF RecvWork, Branch, AtSelect
  <2>2. /\ Reported' /\ Head(work) \in WorkResult
        /\ Head(work).kind = "Version" /\ ~Head(work).ok
             => sess[Head(work).dev].pc \in {"closingErr", "finished"}
    BY <2>1, QueueRead
  <2>3. /\ Tied' /\ OwnId'
        /\ \A j \in Ids : /\ probe'[j] = "none" <=> probe[j] = "none"
                          /\ probe'[j] = "probing" => probe[j] = "probing"
    BY <2>1, <2>2, WorkKeeps
  <2> QED
    BY <2>1, <2>2, <2>3, Frame, NoNewTask DEF Rest
<1>15. ASSUME NEW i \in Ids, JoinProbe(i) PROVE Goal
  <2>1. \A j \in Ids : /\ probe'[j] = "none" <=> probe[j] = "none"
                       /\ probe'[j] = "probing" => probe[j] = "probing"
    BY <1>0, <1>15 DEF JoinProbe
  <2> QED
    BY <1>15, <2>1, Frame, NoNewTask DEF JoinProbe, Rest
<1>16. CASE Deadline
  <2>1. \A j \in Ids : sess[j].pc \notin Working
    BY <1>16, Named DEF Deadline, Branch, AtSelect
  <2> QED
    BY <1>6, <1>16, <1>b, <2>1, Frame DEF Deadline, Branch, AtSelect
<1>17. CASE ShutdownSeen
  BY <1>4, <1>17, <1>a DEF ShutdownSeen
<1>18. CASE ShutdownJoined
  <2>1. \A j \in Ids : sess[j].pc \notin Working
    BY <1>18, Quiet DEF ShutdownJoined
  <2> QED
    BY <1>6, <1>18, <1>b, <2>1, Frame DEF ShutdownJoined
<1> QED
  BY <1>1, <1>2, <1>3, <1>5, <1>7, <1>8, <1>9, <1>10, <1>11, <1>12, <1>13,
     <1>14, <1>15, <1>16, <1>17, <1>18 DEF Loop

-----------------------------------------------------------------------------
(* The theorems.                                                           *)

(* Every step of the wired owner keeps the inductive invariant, and never  *)
(* probes or opens an enumeration again.                                   *)
LEMMA InvariantStep ==
    ASSUME IInv, [Next]_vars
    PROVE  /\ IInv'
           /\ \A i \in Ids :
                /\ probe'[i] = "probing" => probe[i] \in {"none", "probing"}
                /\ sess'[i].pc = "opening"
                     => sess[i].pc \in {"none", "opening"}
<1> USE DEF bus, switch, workers
<1>0. TypeOK'
  BY TypeStep DEF IInv
<1>1. CASE Environment
  <2>1. UNCHANGED <<probe, sess>>
    BY <1>1 DEF Environment, Plug, Unplug, SetEnabled, RequestShutdown,
                WifiAcquire, WifiPublish, WifiRelease
  <2> QED
    BY <1>0, <1>1, <2>1, EnvironmentKeeps DEF IInv, Rest
<1>2. CASE DeadlinePasses
  <2>1. lc'.dev = lc.dev /\ lc'.st = lc.st
    BY <1>2 DEF DeadlinePasses, IInv, TypeOK, Lifecycle
  <2>2. Tied'
    BY <1>2, <2>1 DEF DeadlinePasses, IInv, Tied
  <2> QED
    BY <1>0, <1>2, <2>2, Frame DEF DeadlinePasses, IInv
<1>3. CASE Loop
  BY <1>0, <1>3, LoopKeeps DEF IInv, Rest
<1>4. ASSUME NEW i \in Ids, Probe(i) PROVE IInv' /\ UNCHANGED sess
  <2>1. UNCHANGED sess
    BY <1>4 DEF Probe, ProbeBeforeStart, ProbeStart, ProbeOk, ProbeError,
                ProbeReport, ProbeStep
  <2> QED
    BY <1>0, <1>4, <2>1, ProbeKeeps DEF IInv, Rest
<1>5. ASSUME NEW i \in Ids, SessionTask(i) PROVE IInv' /\ UNCHANGED probe
  <2>1. UNCHANGED probe
    BY <1>5 DEF SessionTask, SessionOpened, SessionOpenFailed, SessionVersion,
                SessionStreams, SessionFailed, SessionEnded, SessionCancelled,
                SessionClosed, SessStep
  <2> QED
    BY <1>0, <1>5, <2>1, SessionKeeps DEF IInv, Rest
<1>6. CASE UNCHANGED vars
  BY <1>0, <1>6, Frame DEF vars, IInv
<1>7. CASE UNCHANGED vars \/ DeadlinePasses \/ Environment
  <2>1. UNCHANGED <<probe, sess>>
    BY <1>7 DEF vars, DeadlinePasses, Environment, Plug, Unplug, SetEnabled,
                RequestShutdown, WifiAcquire, WifiPublish, WifiRelease
  <2> QED
    BY <1>1, <1>2, <1>6, <1>7, <2>1
<1> QED
  BY <1>3, <1>4, <1>5, <1>7, LoopKeeps, ProbeKeeps, SessionKeeps DEF Next

(* The inductive invariant holds initially and in every reachable state.   *)
THEOREM Invariance == Spec => []IInv
<1>1. ASSUME Init PROVE IInv
  <2>1. TypeOK
    BY <1>1, InitTypes
  <2>2. /\ \A i \in Ids : sess[i].pc = "none" /\ probe[i] = "none"
        /\ Len(hotplug) = 0 /\ Len(work) = 0
        /\ pc = "start" /\ toList = {} /\ active = 0
    BY <1>1 DEF Init
  <2>3. Tied /\ OwnId /\ Known /\ Fresh /\ Place
    BY <2>2 DEF Tied, OwnId, Known, Fresh, Place, Working
  <2>4. Reported /\ Ordered /\ Once
    BY <2>2 DEF Reported, Ordered, Once
  <2> QED
    BY <2>1, <2>3, <2>4 DEF IInv
<1>2. IInv /\ [Next]_vars => IInv'
  BY InvariantStep
<1> QED
  BY <1>1, <1>2, PTL DEF Spec

(* No live session is orphaned, and two never coexist: a session task that *)
(* was not told to stop is active_session, under the lease, and named by   *)
(* the lifecycle.                                                          *)
THEOREM SessionOwnership == Spec => []LiveSessionOwned
<1>1. IInv => LiveSessionOwned
  BY DEF IInv, Tied, LiveSessionOwned, Live, Working
<1> QED
  BY <1>1, Invariance, PTL

(* The session id a task reads from the shared snapshot is its own.        *)
THEOREM SessionIdentity == Spec => []SessionIdOwn
<1>1. IInv => SessionIdOwn
  BY DEF IInv, OwnId, SessionIdOwn
<1> QED
  BY <1>1, Invariance, PTL

(* No enumeration is probed or opened twice.                               *)
THEOREM SingleAttempt == Spec => NoSecondAttempt
<1>1. IInv /\ [Next]_vars =>
        [\A i \in Ids :
          /\ probe'[i] = "probing" => probe[i] \in {"none", "probing"}
          /\ sess'[i].pc = "opening" => sess[i].pc \in {"none", "opening"}
        ]_vars
  BY InvariantStep
<1> QED
  BY <1>1, Invariance, PTL DEF Spec, NoSecondAttempt

(* A stale report never downgrades a session: while one is set up or runs  *)
(* the lifecycle fails only after that session's own task has.             *)
THEOREM OwnFailure == Spec => FailsOnlyByOwnSession
<1> DEFINE A == lc.st \in {"SessionStarting", "WaitingForTls"}
                /\ lc'.st = "Failed"
                  => /\ lc'.dev = lc.dev
                     /\ sess[lc.dev].pc \in {"closingErr", "finished"}
<1>1. ASSUME IInv, [Next]_vars PROVE [A]_vars
  <2> USE DEF bus, switch, workers
  <2> SUFFICES ASSUME lc.st \in {"SessionStarting", "WaitingForTls"},
                      lc'.st = "Failed"
               PROVE  /\ lc'.dev = lc.dev
                      /\ sess[lc.dev].pc \in {"closingErr", "finished"}
    OBVIOUS
  <2>1. CASE Drain \/ RecvWork
    <3>1. /\ work # <<>> /\ work' = Tail(work)
          /\ pc \in {"select", "draining"}
          /\ handle_work_result(Head(work)) \/ drop_result(Head(work))
          /\ UNCHANGED <<sess, active>>
      BY <2>1 DEF Drain, RecvWork, Branch, AtSelect
    <3>2. /\ Head(work) \in WorkResult
          /\ Head(work).kind = "Version" /\ ~Head(work).ok
               => sess[Head(work).dev].pc \in {"closingErr", "finished"}
      BY <1>1, <3>1, QueueRead
    <3> QED
      BY <1>1, <3>1, <3>2, WorkKeeps
  <2>2. ASSUME NEW i, Connected(i) PROVE FALSE
    BY <2>2 DEF Connected, StartAccessory, StartProbe, Refuse, InState
  <2>3. CASE HotplugRemoved
    <3>1. lc' = removed(lc, Head(hotplug).id)
      BY <2>3 DEF HotplugRemoved
    <3> QED
      BY <3>1 DEF removed, Disconnected
  <2>4. CASE Deadline \/ DeadlinePasses
    BY <2>4 DEF Deadline, DeadlinePasses
  <2>5. lc' # lc
    OBVIOUS
  <2>6. ASSUME NEW i \in Ids, Probe(i) \/ SessionTask(i) PROVE FALSE
    BY <2>5, <2>6
    DEF Probe, ProbeBeforeStart, ProbeStart, ProbeOk, ProbeError,
        ProbeReport, ProbeStep, SessionTask, SessionOpened,
        SessionOpenFailed, SessionVersion, SessionStreams, SessionFailed,
        SessionEnded, SessionCancelled, SessionClosed, SessStep
  <2>7. CASE Environment
    BY <2>5, <2>7 DEF Environment, Plug, Unplug, SetEnabled, RequestShutdown,
                      WifiAcquire, WifiPublish, WifiRelease
  <2>8. CASE \/ ListDevices \/ EnterLoop \/ EnabledChanged \/ DisableJoined
             \/ SessionReaped \/ IdleRelease \/ UnplugJoined
             \/ ShutdownSeen \/ ShutdownJoined
             \/ \E i \in Ids : JoinProbe(i)
             \/ UNCHANGED vars
    BY <2>5, <2>8
    DEF ListDevices, EnterLoop, EnabledChanged, DisableJoined, SessionReaped,
        IdleRelease, UnplugJoined, ShutdownSeen, ShutdownJoined, JoinProbe,
        vars
  <2> QED
    BY <1>1, <2>1, <2>2, <2>3, <2>4, <2>6, <2>7, <2>8
    DEF Next, Loop, OfferListed, HotplugConnected
<1>2. IInv /\ [Next]_vars => [A]_vars
  BY <1>1
<1> QED
  BY <1>2, Invariance, PTL DEF Spec, FailsOnlyByOwnSession

-----------------------------------------------------------------------------
(* One phone.  With two phones, or one that leaves and comes back before   *)
(* the list is read, another enumeration is tried while a failed session   *)
(* still cleans up, and its removal releases the lease.  One phone whose   *)
(* arrivals are separated by removals cannot do that: the removal of the   *)
(* failed enumeration is read before the next arrival and waits for the    *)
(* cleanup.                                                                *)

OnePhone == ~StartupBounce /\ \E p : Phones = {p}

Unfinished(i) == sess[i].pc \notin {"none", "finished"}

Arrives(k, i) == hotplug[k].connected /\ hotplug[k].id = i
Leaves(k, i) == ~hotplug[k].connected /\ hotplug[k].id = i
Events == 1 .. Len(hotplug)

(* Every other arrival in the stream comes after the removal of i.         *)
LeavesFirst(i) ==
    \A c \in Events, j \in Ids :
        Arrives(c, j) /\ j # i => \E b \in Events : b < c /\ Leaves(b, i)

(* i is there, or its removal is still to be read.                         *)
Announced(i) == i \in present \/ \E b \in Events : Leaves(b, i)

(* A session that is not over is the active one, under the lease, and the  *)
(* lifecycle names it unless its removal is being handled.                 *)
Accounted ==
    \A i \in Ids : Unfinished(i) =>
        /\ active = i /\ lease = "usb"
        /\ pc # "unplugging" =>
              /\ lc.dev = i /\ lc.st \in {"SessionStarting", "WaitingForTls", "Failed"}
              /\ LeavesFirst(i) /\ Announced(i)

(* So it is with what is still to be offered.                              *)
Separated ==
    /\ \A a \in Events, i \in Ids : Arrives(a, i) =>
          /\ Announced(i)
          /\ \A c \in Events, j \in Ids :
                a < c /\ Arrives(c, j) /\ j # i => \E b \in Events : b < c /\ Leaves(b, i)
    /\ \A i \in toList : /\ LeavesFirst(i) /\ Announced(i)
                         /\ toList = {i} /\ \A j \in Ids : ~Unfinished(j)
    /\ pc = "start" => /\ count <= 1 /\ present = 1 .. count
                       /\ \A k \in Events : hotplug[k].id = 1 /\ hotplug[k].connected
    /\ \A i, j \in present : i = j

Single == Accounted /\ Separated

LEMMA SeparatedFrame ==
    ASSUME Separated, UNCHANGED <<count, present, hotplug, toList>>,
           pc' = "start" => pc = "start",
           toList # {} => \A j \in Ids : Unfinished(j)' => Unfinished(j)
    PROVE  Separated'
BY DEF Separated, LeavesFirst, Announced, Arrives, Leaves, Events

(* A step in which no session starts, and one that is not over keeps what  *)
(* accounts for it.                                                        *)
LEMMA SingleFrame ==
    ASSUME Single, UNCHANGED <<count, present, hotplug, toList>>,
           pc' = "start" => pc = "start",
           \A j \in Ids : Unfinished(j)' =>
               /\ Unfinished(j) /\ active' = active /\ lease' = lease
               /\ pc' # "unplugging" =>
                     /\ pc # "unplugging" /\ lc'.dev = lc.dev
                     /\ lc'.st \in {"SessionStarting", "WaitingForTls", "Failed"}
    PROVE  Single'
<1>1. Separated' BY SeparatedFrame DEF Single
<1>2. Accounted'
  <2> SUFFICES ASSUME NEW i \in Ids, Unfinished(i)'
               PROVE  /\ active' = i /\ lease' = "usb"
                      /\ pc' # "unplugging" =>
                            /\ lc'.dev = i
                            /\ lc'.st \in {"SessionStarting", "WaitingForTls", "Failed"}
                            /\ LeavesFirst(i)' /\ Announced(i)'
    BY DEF Accounted
  <2>1. Unfinished(i) /\ active' = active /\ lease' = lease OBVIOUS
  <2>2. active = i /\ lease = "usb" BY <2>1 DEF Single, Accounted
  <2>3. ASSUME pc' # "unplugging"
        PROVE  /\ lc'.dev = i
               /\ lc'.st \in {"SessionStarting", "WaitingForTls", "Failed"}
               /\ LeavesFirst(i)' /\ Announced(i)'
    <3>1. /\ pc # "unplugging" /\ lc'.dev = lc.dev
          /\ lc'.st \in {"SessionStarting", "WaitingForTls", "Failed"}
      BY <2>3
    <3>2. lc.dev = i /\ LeavesFirst(i) /\ Announced(i)
      BY <2>1, <3>1 DEF Single, Accounted
    <3> QED BY <3>1, <3>2 DEF LeavesFirst, Announced, Arrives, Leaves, Events
  <2> QED BY <2>1, <2>2, <2>3
<1> QED BY <1>1, <1>2 DEF Single

(* While a session is not over no other enumeration is taken, and none     *)
(* is before a place where it has to be.                                   *)
LEMMA NoneUnfinished ==
    ASSUME TypeOK, Single, Place, Fresh
    PROVE  /\ active = 0 => \A j \in Ids : ~Unfinished(j)
           /\ Stopped(active) => \A j \in Ids : ~Unfinished(j)
           /\ pc \in {"start", "draining", "stopped"} => \A j \in Ids : ~Unfinished(j)
           /\ lease # "usb" => \A j \in Ids : ~Unfinished(j)
           /\ lc.st \in {"Disconnected", "Probing", "WaitingForAccessory"} /\ pc # "unplugging"
                => \A j \in Ids : ~Unfinished(j)
<1>1. \A j \in Ids : Unfinished(j) => active = j /\ lease = "usb" BY DEF Single, Accounted
<1>2. \A j \in Ids : j # 0 BY DEF Ids
<1>3. Stopped(active) => \A j \in Ids : ~Unfinished(j)
  BY <1>1, <1>2 DEF Stopped, Unfinished
<1>4. lc.st \in {"Disconnected", "Probing", "WaitingForAccessory"} /\ pc # "unplugging"
        => \A j \in Ids : ~Unfinished(j)
  BY DEF Single, Accounted
<1> QED BY <1>1, <1>2, <1>3, <1>4 DEF Place

LEMMA SingleSessions ==
    ASSUME TypeOK, Single, NEW i \in Ids, SessionTask(i)
    PROVE  Single'
<1>1. UNCHANGED <<bus, hotplug, toList, pc, active, lease, lc>>
  BY DEF SessionTask, SessionOpened, SessionOpenFailed, SessionVersion, SessionStreams,
         SessionFailed, SessionEnded, SessionCancelled, SessionClosed, SessStep, workers, bus
<1>2. sess \in [Ids -> Session] BY DEF TypeOK
<1>3. ASSUME NEW j \in Ids, Unfinished(j)' PROVE Unfinished(j)
  <2>1. sess[i].pc \notin {"none", "finished"} \/ UNCHANGED sess
    BY DEF SessionTask, SessionOpened, SessionOpenFailed, SessionVersion, SessionStreams,
           SessionFailed, SessionEnded, SessionCancelled, SessionClosed, SessStep, workers
  <2>2. j # i => sess'[j] = sess[j]
    BY <1>2 DEF SessionTask, SessionOpened, SessionOpenFailed, SessionVersion, SessionStreams,
           SessionFailed, SessionEnded, SessionCancelled, SessionClosed, SessStep, workers
  <2> QED BY <1>3, <2>1, <2>2 DEF Unfinished
<1> QED BY <1>1, <1>3, SingleFrame DEF bus, Single, Accounted

(* What the loop does with the reports of probes and sessions.             *)
LEMMA SingleResult ==
    ASSUME TypeOK, Single, NEW m \in WorkResult, handle_work_result(m) \/ drop_result(m),
           pc # "unplugging",
           NEW j \in Ids, Unfinished(j)
    PROVE  lc'.dev = lc.dev /\ lc'.st \in {"SessionStarting", "WaitingForTls", "Failed"}
<1>1. lc.dev = j /\ lc.st \in {"SessionStarting", "WaitingForTls", "Failed"}
  BY DEF Single, Accounted
<1>2. ~accessory_switch_allowed(lc, m.dev) /\ ~probe_can_fail(lc, m.dev)
  BY <1>1 DEF accessory_switch_allowed, probe_can_fail
<1>3. CASE drop_result(m) BY <1>1, <1>3 DEF drop_result
<1>4. CASE handle_work_result(m) /\ m.kind = "BeforeStart"
  BY <1>1, <1>2, <1>4 DEF handle_work_result
<1>5. CASE handle_work_result(m) /\ m.kind = "Aoap"
  BY <1>1, <1>2, <1>5 DEF handle_work_result
<1>6. CASE handle_work_result(m) /\ m.kind = "Version"
  <2>1. session_can_fail(lc, m.dev) => m.dev = lc.dev BY DEF session_can_fail
  <2>2. version_allowed(lc, m.dev) => m.dev = lc.dev BY DEF version_allowed
  <2> QED BY <1>1, <1>6, <2>1, <2>2 DEF handle_work_result, InState
<1>7. m.kind \in {"BeforeStart", "Aoap", "Version"} BY DEF WorkResult
<1> QED BY <1>3, <1>4, <1>5, <1>6, <1>7

(* An event is added to the stream.                                        *)
LEMMA LongerStream ==
    ASSUME TypeOK, NEW ev \in HotplugEvent, hotplug' = Append(hotplug, ev)
    PROVE  /\ \A k \in Events : k \in Events' /\ hotplug'[k] = hotplug[k]
           /\ Len(hotplug) + 1 \in Events' /\ hotplug'[Len(hotplug) + 1] = ev
           /\ \A k \in Events' : k \in Events \/ k = Len(hotplug) + 1
           /\ \A k \in Events : k < Len(hotplug) + 1
<1>1. hotplug \in Seq(HotplugEvent) BY DEF TypeOK
<1>2. Len(hotplug) \in Nat BY <1>1
<1>3. Len(hotplug') = Len(hotplug) + 1 BY <1>1
<1> QED BY <1>1, <1>2, <1>3 DEF Events

LEMMA LongerOrder ==
    ASSUME TypeOK, NEW ev \in HotplugEvent, hotplug' = Append(hotplug, ev),
           NEW i \in Ids, LeavesFirst(i),
           ev.connected /\ ev.id # i => \E b \in Events : Leaves(b, i)
    PROVE  LeavesFirst(i)'
<1> SUFFICES ASSUME NEW c \in Events', NEW j \in Ids, Arrives(c, j)', j # i
             PROVE  \E b \in Events' : b < c /\ Leaves(b, i)'
  BY DEF LeavesFirst
<1>1. CASE c \in Events
  <2>1. Arrives(c, j) BY <1>1, LongerStream DEF Arrives
  <2>2. PICK b \in Events : b < c /\ Leaves(b, i) BY <1>1, <2>1 DEF LeavesFirst
  <2> QED BY <2>2, LongerStream DEF Leaves
<1>2. CASE c = Len(hotplug) + 1
  <2>1. ev.connected /\ ev.id # i BY <1>2, LongerStream DEF Arrives
  <2>2. PICK b \in Events : Leaves(b, i) BY <2>1
  <2> QED BY <1>2, <2>2, LongerStream DEF Leaves
<1> QED BY <1>1, <1>2, LongerStream

LEMMA SingleArrival ==
    ASSUME TypeOK, Single, NEW n \in Ids, n = count + 1, count' = n,
           present = {}, present' = {n},
           UNCHANGED <<sess, pc, active, lc, lease, toList>>,
           \/ hotplug' = Append(hotplug, [connected |-> TRUE, id |-> n])
           \/ pc = "start" /\ hotplug = <<>> /\ UNCHANGED hotplug
    PROVE  Single'
<1> DEFINE ev == [connected |-> TRUE, id |-> n]
<1>1. ev \in HotplugEvent /\ ev.connected /\ ev.id = n BY DEF HotplugEvent
<1> HIDE DEF ev
<1>2. ASSUME NEW i \in Ids, LeavesFirst(i), Announced(i)
      PROVE  LeavesFirst(i)' /\ Announced(i)'
  <2>1. PICK b \in Events : Leaves(b, i) BY <1>2 DEF Announced
  <2>2. CASE hotplug' = Append(hotplug, ev)
    <3>1. LeavesFirst(i)' BY <1>1, <1>2, <2>1, <2>2, LongerOrder
    <3>2. Announced(i)' BY <1>1, <2>1, <2>2, LongerStream DEF Announced, Leaves
    <3> QED BY <3>1, <3>2
  <2>3. CASE hotplug = <<>> BY <2>1, <2>3 DEF Events
  <2> QED BY <2>2, <2>3 DEF ev
<1>3. Accounted' BY <1>2 DEF Single, Accounted, Unfinished
<1>4. ASSUME NEW i \in toList'
      PROVE  /\ LeavesFirst(i)' /\ Announced(i)'
             /\ toList' = {i} /\ \A j \in Ids : ~Unfinished(j)'
  <2>1. i \in Ids BY <1>4 DEF TypeOK, Ids, IdOrNo
  <2> QED BY <1>2, <1>4, <2>1 DEF Single, Separated, Unfinished
<1>5. ASSUME pc' = "start"
      PROVE  /\ count' <= 1 /\ present' = 1 .. count'
             /\ \A k \in Events' : hotplug'[k].id = 1 /\ hotplug'[k].connected
  <2>1. count = 0
    <3>1. present = 1 .. count /\ count \in Nat BY <1>5 DEF Single, Separated, TypeOK, IdOrNo
    <3>2. count # 0 => 1 \in 1 .. count BY <3>1
    <3> QED BY <3>1, <3>2
  <2>2. n = 1 /\ present' = 1 .. count' BY <2>1
  <2>3. \A k \in Events : hotplug[k].id = 1 /\ hotplug[k].connected
    BY <1>5 DEF Single, Separated
  <2>4. ASSUME hotplug' = Append(hotplug, ev), NEW k \in Events'
        PROVE  hotplug'[k].id = 1 /\ hotplug'[k].connected
    BY <1>1, <2>2, <2>3, <2>4, LongerStream, ZenonT(60)
  <2>5. ASSUME UNCHANGED hotplug, NEW k \in Events'
        PROVE  hotplug'[k].id = 1 /\ hotplug'[k].connected
    BY <2>3, <2>5 DEF Events
  <2>6. count' <= 1 BY <2>1
  <2> QED BY <2>2, <2>4, <2>5, <2>6 DEF ev
<1>6. ASSUME NEW a \in Events', NEW i \in Ids, Arrives(a, i)'
      PROVE  /\ Announced(i)'
             /\ \A c \in Events', j \in Ids :
                  a < c /\ Arrives(c, j)' /\ j # i => \E b \in Events' : b < c /\ Leaves(b, i)'
  <2>1. CASE hotplug = <<>> /\ UNCHANGED hotplug
    BY <1>6, <2>1 DEF Events
  <2>2. CASE hotplug' = Append(hotplug, ev) /\ a = Len(hotplug) + 1
    <3>1. i = n BY <1>1, <1>6, <2>2, LongerStream DEF Arrives
    <3>2. \A c \in Events' : ~(a < c)
      <4>1. Len(hotplug) \in Nat BY DEF TypeOK
      <4>2. Events \subseteq Nat BY DEF Events
      <4> QED BY <1>1, <2>2, <4>1, <4>2, LongerStream
    <3> QED BY <3>1, <3>2 DEF Announced
  <2>3. CASE hotplug' = Append(hotplug, ev) /\ a \in Events
    <3>1. Arrives(a, i) BY <1>1, <1>6, <2>3, LongerStream DEF Arrives
    <3>2. Announced(i) BY <2>3, <3>1 DEF Single, Separated
    <3>3. PICK d \in Events : Leaves(d, i) BY <3>2 DEF Announced
    <3>4. Announced(i)' BY <1>1, <2>3, <3>3, LongerStream DEF Announced, Leaves
    <3>5. ASSUME NEW c \in Events', NEW j \in Ids, a < c, Arrives(c, j)', j # i
          PROVE  \E b \in Events' : b < c /\ Leaves(b, i)'
      <4>1. CASE c \in Events
        <5>1. Arrives(c, j) BY <1>1, <2>3, <3>5, <4>1, LongerStream DEF Arrives
        <5>2. PICK b \in Events : b < c /\ Leaves(b, i)
          BY <2>3, <3>1, <3>5, <4>1, <5>1 DEF Single, Separated
        <5> QED BY <1>1, <2>3, <5>2, LongerStream DEF Leaves
      <4>2. CASE c = Len(hotplug) + 1
        BY <1>1, <2>3, <3>3, <4>2, LongerStream DEF Leaves
      <4> QED BY <1>1, <2>3, <4>1, <4>2, LongerStream
    <3> QED BY <3>4, <3>5
  <2> QED BY <1>1, <2>1, <2>2, <2>3, LongerStream DEF ev
<1>7. \A i, j \in present' : i = j OBVIOUS
<1>8. Separated' BY <1>4, <1>5, <1>6, <1>7 DEF Separated
<1> QED BY <1>3, <1>8 DEF Single

LEMMA SingleRemoval ==
    ASSUME TypeOK, Single, NEW n \in Ids, n \in present, pc # "start",
           present' = present \ {n},
           hotplug' = Append(hotplug, [connected |-> FALSE, id |-> n]),
           UNCHANGED <<sess, pc, active, lc, lease, toList, count>>
    PROVE  Single'
<1> DEFINE ev == [connected |-> FALSE, id |-> n]
<1>1. ev \in HotplugEvent /\ ~ev.connected /\ ev.id = n BY DEF HotplugEvent
<1>2. hotplug' = Append(hotplug, ev) OBVIOUS
<1> HIDE DEF ev
<1>3. ASSUME NEW i \in Ids, Announced(i) PROVE Announced(i)'
  <2>1. CASE i = n BY <1>1, <1>2, <2>1, LongerStream DEF Announced, Leaves
  <2>2. CASE i # n BY <1>1, <1>2, <1>3, <2>2, LongerStream DEF Announced, Leaves
  <2> QED BY <2>1, <2>2
<1>4. ASSUME NEW i \in Ids, LeavesFirst(i) PROVE LeavesFirst(i)'
  BY <1>1, <1>2, <1>4, LongerOrder
<1>5. Accounted' BY <1>3, <1>4 DEF Single, Accounted, Unfinished
<1>6. ASSUME NEW i \in toList'
      PROVE  /\ LeavesFirst(i)' /\ Announced(i)'
             /\ toList' = {i} /\ \A j \in Ids : ~Unfinished(j)'
  <2>1. i \in Ids BY <1>6 DEF TypeOK, Ids, IdOrNo
  <2> QED BY <1>3, <1>4, <1>6, <2>1 DEF Single, Separated, Unfinished
<1>7. ASSUME NEW a \in Events', NEW i \in Ids, Arrives(a, i)'
      PROVE  /\ Announced(i)'
             /\ \A c \in Events', j \in Ids :
                  a < c /\ Arrives(c, j)' /\ j # i => \E b \in Events' : b < c /\ Leaves(b, i)'
  <2>1. a \in Events /\ Arrives(a, i) BY <1>1, <1>2, <1>7, LongerStream DEF Arrives
  <2>2. Announced(i) BY <2>1 DEF Single, Separated
  <2>3. ASSUME NEW c \in Events', NEW j \in Ids, a < c, Arrives(c, j)', j # i
        PROVE  \E b \in Events' : b < c /\ Leaves(b, i)'
    <3>1. c \in Events /\ Arrives(c, j) BY <1>1, <1>2, <2>3, LongerStream DEF Arrives
    <3>2. PICK b \in Events : b < c /\ Leaves(b, i)
      BY <2>1, <2>3, <3>1 DEF Single, Separated
    <3> QED BY <1>1, <1>2, <3>2, LongerStream DEF Leaves
  <2> QED BY <1>3, <2>2, <2>3
<1>8. \A i, j \in present' : i = j BY DEF Single, Separated
<1>9. Separated' BY <1>6, <1>7, <1>8 DEF Separated
<1> QED BY <1>5, <1>9 DEF Single

LEMMA SingleEnvironment ==
    ASSUME TypeOK, Single, Place, Fresh, OnePhone, Environment
    PROVE  Single'
<1>1. UNCHANGED <<sess, pc, active, lc, toList>>
  BY DEF Environment, Plug, Unplug, SetEnabled, RequestShutdown, WifiAcquire, WifiPublish,
         WifiRelease, workers
<1>2. ASSUME UNCHANGED <<bus, hotplug>>, lease' = lease \/ lease # "usb" PROVE Single'
  <2>1. \A j \in Ids : Unfinished(j)' => Unfinished(j) BY <1>1 DEF Unfinished
  <2>2. \A j \in Ids : Unfinished(j) =>
            /\ lease' = lease
            /\ pc # "unplugging" =>
                  lc.st \in {"SessionStarting", "WaitingForTls", "Failed"}
    BY <1>2 DEF Single, Accounted
  <2> QED BY <1>1, <1>2, <2>1, <2>2, SingleFrame DEF bus
<1>3. CASE \/ \E v \in BOOLEAN : SetEnabled(v)
           \/ RequestShutdown \/ WifiAcquire \/ WifiPublish \/ WifiRelease
  BY <1>2, <1>3 DEF SetEnabled, RequestShutdown, WifiAcquire, WifiPublish, WifiRelease
<1>4. ASSUME NEW p \in Phones, NEW acc \in BOOLEAN, Plug(p, acc) PROVE Single'
  <2>1. present = {}
    <3>1. dev \in Seq(Device) /\ present \subseteq 1 .. Len(dev) BY DEF TypeOK
    <3>2. \A i \in present : dev[i] \in Device BY <3>1
    <3>3. \A i \in present : dev[i].phone \in Phones BY <3>2 DEF Device
    <3> QED BY <1>4, <3>3 DEF Plug, OnePhone
  <2>2. /\ count + 1 \in Ids /\ count' = count + 1 /\ present' = {count + 1}
        /\ UNCHANGED lease
        /\ \/ hotplug' = Append(hotplug, [connected |-> TRUE, id |-> count + 1])
           \/ pc = "start" /\ hotplug = <<>> /\ UNCHANGED hotplug
    BY <1>4, <2>1 DEF Plug, TypeOK, IdOrNo, Ids
  <2> QED BY <1>1, <2>1, <2>2, SingleArrival
<1>5. ASSUME NEW i \in Ids, Unplug(i) PROVE Single'
  BY <1>1, <1>5, SingleRemoval DEF Unplug, OnePhone
<1> QED BY <1>3, <1>4, <1>5 DEF Environment

(* An event is read from the stream.                                       *)
LEMMA ShorterStream ==
    ASSUME TypeOK, hotplug # <<>>, hotplug' = Tail(hotplug)
    PROVE  /\ 1 \in Events /\ Head(hotplug) = hotplug[1]
           /\ hotplug[1] \in HotplugEvent
           /\ \A k \in Events' : k + 1 \in Events /\ hotplug'[k] = hotplug[k + 1]
           /\ \A k \in Events : k # 1 => k - 1 \in Events' /\ hotplug'[k - 1] = hotplug[k]
<1>1. hotplug \in Seq(HotplugEvent) BY DEF TypeOK
<1>2. Len(hotplug) \in Nat /\ Len(hotplug) # 0 BY <1>1
<1>3. Len(hotplug') = Len(hotplug) - 1 BY <1>1
<1>4. 1 \in Events /\ Head(hotplug) = hotplug[1] /\ hotplug[1] \in HotplugEvent
  BY <1>1, <1>2 DEF Events
<1>5. \A k \in 1 .. Len(hotplug) - 1 : Tail(hotplug)[k] = hotplug[k + 1] BY <1>1
<1>6. \A k \in Events' : k \in 1 .. Len(hotplug) - 1 /\ k + 1 \in Events
  BY <1>2, <1>3 DEF Events
<1>7. \A k \in Events : k # 1 => /\ k - 1 \in 1 .. Len(hotplug) - 1
                                 /\ k - 1 \in Events' /\ (k - 1) + 1 = k
  BY <1>2, <1>3 DEF Events
<1> QED BY <1>4, <1>5, <1>6, <1>7

(* What is behind the head stays in order: the removal of i that was found *)
(* before an arrival is there still, or is the head.                       *)
LEMMA ShorterOrder ==
    ASSUME TypeOK, hotplug # <<>>, hotplug' = Tail(hotplug),
           NEW i \in Ids, ~Leaves(1, i),
           NEW c \in Events', \E b \in Events : b < c + 1 /\ Leaves(b, i)
    PROVE  \E b \in Events' : b < c /\ Leaves(b, i)'
<1>1. PICK b \in Events : b < c + 1 /\ Leaves(b, i) OBVIOUS
<1>2. b # 1 /\ b \in Nat /\ c \in Nat BY <1>1 DEF Events
<1>3. b - 1 \in Events' /\ hotplug'[b - 1] = hotplug[b] BY <1>1, <1>2, ShorterStream
<1>4. b - 1 < c BY <1>1, <1>2
<1> QED BY <1>1, <1>3, <1>4 DEF Leaves

LEMMA ShorterAnnounced ==
    ASSUME TypeOK, hotplug # <<>>, hotplug' = Tail(hotplug), present' = present,
           NEW i \in Ids, ~Leaves(1, i), Announced(i)
    PROVE  Announced(i)'
<1>1. CASE i \in present BY <1>1 DEF Announced
<1>2. CASE \E b \in Events : Leaves(b, i)
  <2>1. PICK b \in Events : Leaves(b, i) BY <1>2
  <2>2. b # 1 BY <2>1
  <2>3. b - 1 \in Events' /\ hotplug'[b - 1] = hotplug[b] BY <2>2, ShorterStream
  <2> QED BY <2>1, <2>3 DEF Announced, Leaves
<1> QED BY <1>1, <1>2 DEF Announced

LEMMA ShorterFirst ==
    ASSUME TypeOK, hotplug # <<>>, hotplug' = Tail(hotplug),
           NEW i \in Ids, ~Leaves(1, i), LeavesFirst(i)
    PROVE  LeavesFirst(i)'
<1> SUFFICES ASSUME NEW c \in Events', NEW j \in Ids, Arrives(c, j)', j # i
             PROVE  \E b \in Events' : b < c /\ Leaves(b, i)'
  BY DEF LeavesFirst
<1>1. c + 1 \in Events /\ Arrives(c + 1, j) BY ShorterStream DEF Arrives
<1>2. \E b \in Events : b < c + 1 /\ Leaves(b, i) BY <1>1 DEF LeavesFirst
<1> QED BY <1>2, ShorterOrder

(* A removal that is read comes after its arrival.                         *)
LEMMA SeparatedShorter ==
    ASSUME TypeOK, Separated, Ordered, hotplug # <<>>, hotplug' = Tail(hotplug),
           toList = {}, pc # "start", pc' # "start", UNCHANGED <<bus, toList>>
    PROVE  Separated'
<1>1. ASSUME NEW a \in Events', NEW i \in Ids, Arrives(a, i)'
      PROVE  /\ Announced(i)'
             /\ \A c \in Events', j \in Ids :
                  a < c /\ Arrives(c, j)' /\ j # i => \E b \in Events' : b < c /\ Leaves(b, i)'
  <2>1. a + 1 \in Events /\ Arrives(a + 1, i) BY <1>1, ShorterStream DEF Arrives
  <2>2. ~Leaves(1, i)
    <3>1. 1 \in Events /\ 1 < a + 1 BY <2>1, ShorterStream DEF Events
    <3> QED BY <2>1, <3>1 DEF Ordered, Leaves, Arrives, Events
  <2>3. Announced(i)' BY <2>1, <2>2, ShorterAnnounced DEF Separated, bus
  <2>4. ASSUME NEW c \in Events', NEW j \in Ids, a < c, Arrives(c, j)', j # i
        PROVE  \E b \in Events' : b < c /\ Leaves(b, i)'
    <3>1. c + 1 \in Events /\ Arrives(c + 1, j) BY <2>4, ShorterStream DEF Arrives
    <3>2. a + 1 < c + 1 BY <2>4 DEF Events
    <3>3. \E b \in Events : b < c + 1 /\ Leaves(b, i)
      BY <2>1, <2>4, <3>1, <3>2 DEF Separated
    <3> QED BY <2>2, <3>3, ShorterOrder
  <2> QED BY <2>3, <2>4
<1>2. \A i, j \in present' : i = j BY DEF Separated, bus
<1> QED BY <1>1, <1>2 DEF Separated

(* connected() when no session is under way, and when one is.              *)
LEMMA ConnectedAccounts ==
    ASSUME TypeOK, NEW i \in Ids, Connected(i), \A j \in Ids : ~Unfinished(j),
           LeavesFirst(i)', Announced(i)'
    PROVE  Accounted'
<1>1. sess \in [Ids -> Session] BY DEF TypeOK
<1>2. CASE UNCHANGED sess BY <1>2 DEF Accounted, Unfinished
<1>3. CASE StartAccessory(i) /\ lease' = "usb"
  <2>1. \A j \in Ids : Unfinished(j)' => j = i BY <1>1, <1>3 DEF StartAccessory, Unfinished
  <2>2. active' = i /\ lc'.dev = i /\ lc'.st = "SessionStarting"
    BY <1>3 DEF StartAccessory, InState
  <2> QED BY <1>3, <2>1, <2>2 DEF Accounted
<1> QED BY <1>2, <1>3 DEF Connected, StartProbe, Refuse

LEMMA ConnectedAgain ==
    ASSUME TypeOK, Single, pc = "select", NEW i \in Ids, Connected(i), NEW u \in Ids,
           Unfinished(u), LeavesFirst(u), hotplug # <<>>, Arrives(1, i)
    PROVE  UNCHANGED <<lc, active, sess, lease>>
<1>1. 1 \in Events /\ \A b \in Events : ~(b < 1) BY DEF Events, TypeOK
<1>2. i = u BY <1>1 DEF LeavesFirst
<1>3. /\ lease = "usb" /\ lc.dev = u
      /\ lc.st \in {"SessionStarting", "WaitingForTls", "Failed"}
  BY DEF Single, Accounted
<1>4. ~accessory_available(lc, i) BY <1>3 DEF accessory_available
<1>5. ~candidate_available(lc, i) BY <1>2, <1>3 DEF candidate_available
<1> QED BY <1>3, <1>4, <1>5 DEF Connected, StartAccessory, StartProbe, Refuse

LEMMA SingleHotplug ==
    ASSUME TypeOK, Single, Ordered, Place, Fresh, HotplugConnected \/ HotplugRemoved
    PROVE  Single'
<1>1. /\ pc = "select" /\ hotplug # <<>> /\ hotplug' = Tail(hotplug)
      /\ pc' \in {"select", "unplugging"} /\ UNCHANGED <<bus, toList>>
  BY DEF HotplugConnected, HotplugRemoved, Branch, AtSelect, bus
<1>2. /\ toList = {} /\ 1 \in Events /\ Head(hotplug) = hotplug[1]
      /\ hotplug[1].id \in Ids /\ \A b \in Events : ~(b < 1)
  BY <1>1, ShorterStream DEF Place, HotplugEvent, Events
<1>3. PICK i \in Ids : i = hotplug[1].id BY <1>2
<1>4. Separated' BY <1>1, <1>2, SeparatedShorter DEF Single
<1>5. ASSUME NEW u \in Ids, Unfinished(u)
      PROVE  /\ active = u /\ lease = "usb" /\ lc.dev = u
             /\ lc.st \in {"SessionStarting", "WaitingForTls", "Failed"}
             /\ LeavesFirst(u) /\ Announced(u)
  BY <1>1, <1>5 DEF Single, Accounted
<1>6. ASSUME NEW u \in Ids, Unfinished(u), ~Leaves(1, u)
      PROVE  LeavesFirst(u)' /\ Announced(u)'
  BY <1>1, <1>5, <1>6, ShorterFirst, ShorterAnnounced DEF bus
<1>7. CASE HotplugConnected
  <2>1. Connected(i) /\ Arrives(1, i) /\ ~Leaves(1, i) /\ pc' = pc
    BY <1>2, <1>7, <1>3 DEF HotplugConnected, Arrives, Leaves
  <2>2. CASE \A j \in Ids : ~Unfinished(j)
    <3>1. Announced(i)' BY <1>1, <1>2, <2>1, ShorterAnnounced DEF Single, Separated, bus
    <3>2. LeavesFirst(i)'
      <4> SUFFICES ASSUME NEW c \in Events', NEW j \in Ids, Arrives(c, j)', j # i
                   PROVE  \E b \in Events' : b < c /\ Leaves(b, i)'
        BY DEF LeavesFirst
      <4>1. c + 1 \in Events /\ Arrives(c + 1, j) BY <1>1, ShorterStream DEF Arrives
      <4>2. 1 < c + 1 BY DEF Events
      <4>3. \E b \in Events : b < c + 1 /\ Leaves(b, i)
        BY <1>2, <2>1, <4>1, <4>2 DEF Single, Separated
      <4> QED BY <1>1, <1>2, <2>1, <4>3, ShorterOrder
    <3>3. Accounted' BY <1>2, <2>1, <2>2, <3>1, <3>2, ConnectedAccounts
    <3> QED BY <1>4, <3>3 DEF Single
  <2>3. ASSUME NEW u \in Ids, Unfinished(u) PROVE Accounted'
    <3>1. UNCHANGED <<lc, active, sess, lease>>
      BY <1>1, <1>2, <1>5, <2>1, <2>3, ConnectedAgain
    <3>2. \A j \in Ids : ~Leaves(1, j) BY <2>1 DEF Arrives, Leaves
    <3>3. \A j \in Ids : Unfinished(j)' => Unfinished(j) BY <3>1 DEF Unfinished
    <3> QED BY <1>5, <1>6, <3>1, <3>2, <3>3 DEF Accounted
  <2> QED BY <1>4, <2>2, <2>3 DEF Single
<1>8. CASE HotplugRemoved
  <2>1. /\ Leaves(1, i) /\ lc' = removed(lc, i)
        /\ IF ~Ends(i) THEN UNCHANGED <<sess, active, pc, lease>>
           ELSE IF active = i
                THEN pc' = "unplugging" /\ sess' = Cancel(i) /\ UNCHANGED <<active, lease>>
                ELSE UNCHANGED <<pc, sess, active>>
    BY <1>2, <1>8, <1>3 DEF HotplugRemoved, Leaves
  <2>2. sess \in [Ids -> Session] BY DEF TypeOK
  <2>3. ASSUME NEW j \in Ids, Unfinished(j)' PROVE Unfinished(j)
    <3>1. sess'[j].pc = sess[j].pc
      BY <1>2, <2>1, <2>2 DEF Cancel, Ids, Session
    <3> QED BY <2>3, <3>1 DEF Unfinished
  <2>4. ASSUME NEW u \in Ids, Unfinished(u), u # i
        PROVE  UNCHANGED <<sess, active, pc, lease, lc>> /\ ~Leaves(1, u)
    <3>1. ~owns_device(lc, i) BY <1>5, <2>4 DEF owns_device
    <3>2. lc' = lc /\ ~Ends(i) BY <2>1, <3>1 DEF removed, Ends
    <3> QED BY <2>1, <2>4, <3>2 DEF Leaves
  <2>5. ASSUME Unfinished(i)
        PROVE  pc' = "unplugging" /\ UNCHANGED <<active, lease>>
    <3>1. Ends(i) BY <1>2, <1>5, <2>5 DEF Ends, owner, owns_device
    <3> QED BY <1>2, <1>5, <2>1, <2>5, <3>1
  <2>6. Accounted'
    <3> SUFFICES ASSUME NEW u \in Ids, Unfinished(u)'
                 PROVE  /\ active' = u /\ lease' = "usb"
                        /\ pc' # "unplugging" =>
                              /\ lc'.dev = u
                              /\ lc'.st \in {"SessionStarting", "WaitingForTls", "Failed"}
                              /\ LeavesFirst(u)' /\ Announced(u)'
      BY DEF Accounted
    <3>1. Unfinished(u) BY <2>3
    <3>2. CASE u = i BY <1>5, <2>5, <3>1, <3>2
    <3>3. CASE u # i BY <1>5, <1>6, <2>4, <3>1, <3>3
    <3> QED BY <3>2, <3>3
  <2> QED BY <1>4, <2>6 DEF Single
<1> QED BY <1>7, <1>8

LEMMA SingleListing ==
    ASSUME TypeOK, Single, Place, Fresh, OnePhone,
           ListDevices \/ EnterLoop \/ \E i \in Ids : OfferListed(i)
    PROVE  Single'
<1>1. pc \in {"start", "listing"} /\ UNCHANGED <<bus, hotplug>> /\ pc' # "start"
  BY DEF ListDevices, EnterLoop, OfferListed, bus
<1>2. ASSUME NEW i \in Ids
      PROVE  /\ LeavesFirst(i) => LeavesFirst(i)'
             /\ Announced(i) => Announced(i)'
  BY <1>1 DEF LeavesFirst, Announced, Arrives, Leaves, Events, bus
<1>3. ASSUME NEW i \in Ids, OfferListed(i) PROVE Single'
  <2>1. /\ i \in toList /\ toList = {i} /\ toList' = {} /\ Connected(i)
        /\ LeavesFirst(i) /\ Announced(i) /\ \A j \in Ids : ~Unfinished(j)
    BY <1>3 DEF OfferListed, Single, Separated
  <2>2. Accounted' BY <1>2, <2>1, ConnectedAccounts
  <2>3. Separated'
    BY <1>1, <2>1 DEF Single, Separated, LeavesFirst, Announced, Arrives, Leaves, Events, bus
  <2> QED BY <2>2, <2>3 DEF Single
<1>4. CASE EnterLoop
  <2>1. UNCHANGED <<count, present, hotplug, toList, sess, active, lease, lc>> /\ pc = "listing"
    BY <1>4 DEF EnterLoop, bus, workers
  <2>2. \A j \in Ids : Unfinished(j)' => Unfinished(j) BY <2>1 DEF Unfinished
  <2> QED BY <1>1, <2>1, <2>2, SingleFrame DEF Single, Accounted
<1>5. CASE ListDevices
  <2>1. /\ pc = "start" /\ toList' \in {present, {}} /\ pc' = "listing" /\ UNCHANGED sess
    BY <1>5 DEF ListDevices, workers
  <2>2. \A j \in Ids : ~Unfinished(j)' BY <2>1 DEF Fresh, Unfinished
  <2>3. ASSUME NEW i \in toList'
        PROVE  LeavesFirst(i)' /\ Announced(i)' /\ toList' = {i}
    <3>1. i \in present /\ i = 1 /\ i \in Ids
      <4>1. present = 1 .. count /\ count <= 1 /\ count \in IdOrNo
        BY <2>1 DEF Single, Separated, TypeOK
      <4> QED BY <2>1, <2>3, <4>1 DEF IdOrNo, Ids
    <3>2. toList' = {i} BY <2>1, <2>3, <3>1 DEF Single, Separated
    <3>3. LeavesFirst(i) BY <2>1, <3>1 DEF Single, Separated, LeavesFirst, Arrives
    <3>4. Announced(i) BY <3>1 DEF Announced
    <3> QED BY <1>2, <3>1, <3>2, <3>3, <3>4
  <2>4. Separated'
    BY <1>1, <2>1, <2>2, <2>3
    DEF Single, Separated, LeavesFirst, Announced, Arrives, Leaves, Events, bus
  <2> QED BY <2>2, <2>4 DEF Single, Accounted
<1> QED BY <1>3, <1>4, <1>5

LEMMA SingleLoop ==
    ASSUME TypeOK, Single, Ordered, Place, Fresh, OnePhone, Loop
    PROVE  Single'
<1> USE DEF bus, workers
<1>1. ASSUME UNCHANGED <<bus, hotplug, toList, sess>>, pc' # "start",
             \A j \in Ids : ~Unfinished(j)
      PROVE  Single'
  BY <1>1, SingleFrame DEF Unfinished
<1>2. ASSUME UNCHANGED <<bus, hotplug, toList, active, lease>>, lc' = lc,
             pc' # "start", pc # "unplugging",
             sess' = sess \/ sess' = Cancel(active)
      PROVE  Single'
  <2>1. sess \in [Ids -> Session] /\ active \in IdOrNo BY DEF TypeOK
  <2>2. \A j \in Ids : sess'[j].pc = sess[j].pc
    BY <1>2, <2>1 DEF Cancel, IdOrNo, Ids, Session
  <2>3. \A j \in Ids : Unfinished(j)' => Unfinished(j) BY <2>2 DEF Unfinished
  <2> QED BY <1>2, <2>3, SingleFrame DEF Single, Accounted
<1>3. CASE ListDevices \/ EnterLoop \/ \E i \in Ids : OfferListed(i)
  BY <1>3, SingleListing
<1>4. CASE EnabledChanged BY <1>2, <1>4 DEF EnabledChanged, AtSelect
<1>5. CASE ShutdownSeen
  <2>1. UNCHANGED <<bus, hotplug, toList, active, lease, lc>> /\ sess' = Cancel(active)
        /\ pc' # "start" /\ pc # "unplugging"
    BY <1>5 DEF ShutdownSeen
  <2> QED BY <1>2, <2>1
<1>6. CASE DisableJoined BY <1>1, <1>6, NoneUnfinished DEF DisableJoined
<1>7. CASE UnplugJoined BY <1>1, <1>7, NoneUnfinished DEF UnplugJoined
<1>8. CASE ShutdownJoined BY <1>1, <1>8, NoneUnfinished DEF ShutdownJoined
<1>9. CASE Drain BY <1>1, <1>9, NoneUnfinished DEF Drain
<1>10. CASE SessionReaped
  <2>1. Stopped(active) BY <1>10 DEF SessionReaped, Stopped
  <2> QED BY <1>1, <1>10, <2>1, NoneUnfinished DEF SessionReaped
<1>11. CASE IdleRelease BY <1>1, <1>11, NoneUnfinished DEF IdleRelease, Branch, AtSelect
<1>12. CASE HotplugConnected \/ HotplugRemoved BY <1>12, SingleHotplug
<1>13. CASE RecvWork
  <2>1. /\ UNCHANGED <<bus, hotplug, toList, active, lease, sess, pc>> /\ pc = "select"
        /\ work # <<>>
        /\ handle_work_result(Head(work)) \/ drop_result(Head(work))
    BY <1>13 DEF RecvWork, Branch, AtSelect
  <2>2. Head(work) \in WorkResult
    <3>1. work \in Seq(WorkResult) BY DEF TypeOK
    <3> QED BY <2>1, <3>1
  <2>3. ASSUME NEW j \in Ids, Unfinished(j)'
        PROVE  /\ Unfinished(j) /\ lc'.dev = lc.dev
               /\ lc'.st \in {"SessionStarting", "WaitingForTls", "Failed"}
    <3>1. Unfinished(j) BY <2>1, <2>3 DEF Unfinished
    <3> QED BY <2>1, <2>2, <3>1, SingleResult
  <2> QED BY <2>1, <2>3, SingleFrame
<1>14. ASSUME NEW i \in Ids, JoinProbe(i) PROVE Single'
  BY <1>2, <1>14 DEF JoinProbe, Branch, AtSelect
<1>15. CASE Deadline BY <1>1, <1>15, NoneUnfinished DEF Deadline, Branch, AtSelect
<1> QED BY <1>3, <1>4, <1>5, <1>6, <1>7, <1>8, <1>9, <1>10, <1>11, <1>12, <1>13, <1>14, <1>15
    DEF Loop

(* The session lease is released only after owned cleanup: without it no   *)
(* session task is opening, streaming or closing its media, for one phone, *)
(* whatever the order of failures, removals and writes of the switch       *)
(* (usb_runtime.rs).                                                       *)
THEOREM OnePhoneRelease ==
    ASSUME OnePhone
    PROVE  Spec => []ReleasedAfterCleanup
<1>1. ASSUME Init PROVE Single
  <2>1. /\ \A i \in Ids : ~Unfinished(i)
        /\ toList = {} /\ count = 0 /\ present = {} /\ Events = {}
    BY <1>1 DEF Init, Unfinished, Events
  <2>2. present = 1 .. count BY <2>1
  <2> QED BY <2>1, <2>2 DEF Single, Accounted, Separated
<1>2. ASSUME IInv, Single, [Next]_vars PROVE Single'
  <2> USE DEF IInv
  <2>1. CASE Environment BY <1>2, <2>1, SingleEnvironment
  <2>2. CASE DeadlinePasses
    <3>1. lc'.dev = lc.dev /\ lc'.st = lc.st BY <2>2 DEF DeadlinePasses, TypeOK, Lifecycle
    <3>2. UNCHANGED <<count, present, hotplug, toList, sess, pc, active, lease>>
      BY <2>2 DEF DeadlinePasses, bus, workers
    <3> QED BY <1>2, <3>1, <3>2, SingleFrame DEF Single, Accounted, Unfinished
  <2>3. CASE Loop BY <1>2, <2>3, SingleLoop
  <2>4. ASSUME NEW i \in Ids, Probe(i) PROVE Single'
    <3>1. UNCHANGED <<count, present, hotplug, toList, sess, pc, active, lease, lc>>
      BY <2>4 DEF Probe, ProbeBeforeStart, ProbeStart, ProbeOk, ProbeError, ProbeReport,
                  ProbeStep, bus
    <3> QED BY <1>2, <3>1, SingleFrame DEF Single, Accounted, Unfinished
  <2>5. ASSUME NEW i \in Ids, SessionTask(i) PROVE Single' BY <1>2, <2>5, SingleSessions
  <2>6. CASE UNCHANGED vars
    BY <1>2, <2>6, SingleFrame DEF vars, Single, Accounted, Unfinished
  <2> QED BY <1>2, <2>1, <2>2, <2>3, <2>4, <2>5, <2>6 DEF Next
<1>3. Single => ReleasedAfterCleanup
  BY DEF Single, Accounted, Unfinished, ReleasedAfterCleanup, owner
<1> QED BY <1>1, <1>2, <1>3, Invariance, PTL DEF Spec
=============================================================================
