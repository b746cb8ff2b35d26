----------------------------- MODULE UsbRuntime -----------------------------
(***************************************************************************)
(* The wired Android Auto owner of argo-projectiond: the pure lifecycle of *)
(* usb.rs (UsbConnectionStateMachine) driven by the select loop of         *)
(* usb_runtime.rs, its AOAP probe tasks, its session tasks, the bounded    *)
(* work queue between them, and the session lease and runtime snapshot it  *)
(* shares with the wireless worker.                                        *)
(*                                                                         *)
(* An enumeration is one appearance of a phone on the bus; its DeviceId is *)
(* never reused, so enumerations are numbered.  Time is abstracted: the    *)
(* fifteen second accessory wait becomes overdue at an arbitrary moment,   *)
(* and a task that has a timeout may fail at any step.                     *)
(***************************************************************************)
EXTENDS Naturals, Sequences, FiniteSets

CONSTANTS Phones,        \* the phones that may be plugged in
          MaxEnum,       \* bound on the enumerations of one behaviour
          MaxToggles,    \* bound on the writes of projection_enabled
          StartupBounce, \* may a phone leave before the initial list is read?
          Wireless,      \* does the wireless worker compete for the lease?
          WorkCapacity,  \* mpsc::channel(8) in the code
          Serial         \* Serial[p]: the serial p reports, or NoSerial

CONSTANT NoSerial

ASSUME UsbAssumption ==
    /\ MaxEnum \in Nat
    /\ MaxToggles \in Nat
    /\ StartupBounce \in BOOLEAN
    /\ Wireless \in BOOLEAN
    /\ WorkCapacity \in Nat \ {0}

VARIABLES
    dev,         \* dev[i]: phone and mode of enumeration i
    count,       \* enumerations so far
    present,     \* enumerations physically on the bus
    hotplug,     \* nusb watcher stream, not yet read by the loop
    pc,          \* where the loop of run() is
    toList,      \* initial devices still to be offered
    enabled,     \* projection_enabled
    changed,     \* the loop's receiver has not seen the last write of it
    toggles,     \* writes of projection_enabled so far
    shutdown,    \* the daemon stops, or the hotplug stream has ended
    lease,       \* holder of session_lease
    lc,          \* UsbConnectionStateMachine.state
    active,      \* enumeration of active_session, 0 for None
    attempted,   \* enumerations tried since they appeared
    probe,       \* probe[i]: progress of the AOAP task of enumeration i
    handle,      \* enumeration whose AbortHandle is kept, 0 for None
    sess,        \* sess[i]: progress of the session task of enumeration i
    work,        \* the WorkResult queue
    snap         \* ProjectionRuntimeSnapshot as published

bus     == <<dev, count, present>>
switch  == <<enabled, changed, toggles, shutdown>>
workers == <<probe, sess, work>>
vars    == <<dev, count, present, hotplug, pc, toList, enabled, changed,
             toggles, shutdown, lease, lc, active, attempted, probe, handle,
             sess, work, snap>>

-----------------------------------------------------------------------------
(* Types.                                                                  *)

Ids    == 1 .. MaxEnum
IdOrNo == 0 .. MaxEnum

Device == [phone : Phones, acc : BOOLEAN]

LifecycleState == {"Disconnected", "Probing", "WaitingForAccessory",
                   "SessionStarting", "WaitingForTls", "Failed"}

Lifecycle == [st : LifecycleState, dev : IdOrNo, removed : BOOLEAN,
              late : BOOLEAN]

ProbeState == {"none", "probing", "awaitAck", "acked", "starting",
               "reportOk", "reportErr", "done", "joined"}

(* The task is out of the JoinSet: not spawned yet, or joined.             *)
Gone == {"none", "joined"}

SessState == {"none", "opening", "versioning", "running", "closingOk",
              "closingErr", "finished"}

Session == [pc : SessState, cancel : BOOLEAN, sid : IdOrNo]

WorkResult == [kind : {"BeforeStart", "Aoap", "Version"}, dev : Ids,
               ok : BOOLEAN]

Snapshot == [by : {"none", "usb", "wifi"}, id : IdOrNo,
             st : {"none", "connecting", "streaming", "failed"},
             video : BOOLEAN]

LoopState == {"start", "listing", "select", "disabling", "draining",
              "unplugging", "closing", "stopped"}

HotplugEvent == [connected : BOOLEAN, id : Ids]

(* Every variable keeps its type, and the queue of probe and session       *)
(* reports never exceeds its capacity.                                     *)
TypeOK ==
    /\ count \in IdOrNo
    /\ dev \in Seq(Device) /\ Len(dev) = count
    /\ present \subseteq 1 .. count
    /\ hotplug \in Seq(HotplugEvent)
    /\ pc \in LoopState
    /\ toList \subseteq 1 .. count
    /\ enabled \in BOOLEAN /\ changed \in BOOLEAN /\ shutdown \in BOOLEAN
    /\ toggles \in 0 .. MaxToggles
    /\ lease \in {"free", "usb", "wifi"}
    /\ lc \in Lifecycle
    /\ active \in IdOrNo
    /\ attempted \subseteq Ids
    /\ probe \in [Ids -> ProbeState]
    /\ handle \in IdOrNo
    /\ sess \in [Ids -> Session]
    /\ work \in Seq(WorkResult)
    /\ Len(work) <= WorkCapacity
    /\ snap \in Snapshot

-----------------------------------------------------------------------------
(* The pure lifecycle (usb.rs).  Each operator gives the successor state,  *)
(* which is the state itself when the method returns false.  Discovered,   *)
(* Switching and AccessoryPresent are overwritten before the method (or    *)
(* its only caller) returns, so they are never observed.                   *)

Disconnected == [st |-> "Disconnected", dev |-> 0, removed |-> FALSE,
                 late |-> FALSE]

InState(s, i) == [st |-> s, dev |-> i, removed |-> FALSE, late |-> FALSE]

(* Mutant: a candidate is taken while another attempt is in progress.      *)
candidate_available_busy(l, i) == l.st # "Disconnected" => l.dev # i

candidate_available(l, i) ==
    \/ l.st = "Disconnected"
    \/ l.st = "Failed" /\ l.dev # i
    \/ l.st = "WaitingForAccessory" /\ l.removed /\ l.dev # i

accessory_switch_allowed(l, i) == l.st = "Probing" /\ l.dev = i

(* Mutant: a probe error fails whatever the lifecycle is doing.            *)
probe_can_fail_any(l, i) == l.st # "Disconnected"

probe_can_fail(l, i) ==
    l.st \in {"Probing", "WaitingForAccessory"} /\ l.dev = i

serials_can_correlate(p, q) ==
    \/ Serial[p] = NoSerial
    \/ Serial[q] = NoSerial
    \/ Serial[p] = Serial[q]

accessory_available(l, i) ==
    \/ l.st = "Disconnected"
    \/ /\ l.st = "WaitingForAccessory"
       /\ ~l.late
       /\ serials_can_correlate(dev[l.dev].phone, dev[i].phone)

version_allowed(l, i) == l.st = "SessionStarting" /\ l.dev = i

session_can_fail(l, i) ==
    l.st \in {"SessionStarting", "WaitingForTls"} /\ l.dev = i

owns_device(l, i) == l.st # "Disconnected" /\ l.dev = i

removed(l, i) ==
    CASE ~owns_device(l, i) -> l
      [] owns_device(l, i) /\ l.st = "WaitingForAccessory" -> [l EXCEPT !.removed = TRUE]
      [] OTHER -> Disconnected

expire_accessory_wait(l) ==
    IF l.removed THEN Disconnected ELSE InState("Failed", l.dev)

-----------------------------------------------------------------------------
(* Publishing (daemon_state.rs, publish_connecting, publish_failure).  The *)
(* epoch in a session id makes it as unique as the enumeration.            *)

NoSnapshot == [by |-> "none", id |-> 0, st |-> "none", video |-> FALSE]

connecting(i) == [by |-> "usb", id |-> i, st |-> "connecting",
                  video |-> FALSE]

failed(s) == IF s.st = "none" THEN s
             ELSE [s EXCEPT !.st = "failed", !.video = FALSE]

owner == lease = "usb"

TakeOwner == lease' = IF lease = "usb" THEN "free" ELSE lease

(* try_send and send().await on the bounded channel, whose receiver is     *)
(* closed first thing when the loop ends.                                  *)
QueueOpen == pc \notin {"closing", "stopped"}
Room      == QueueOpen /\ Len(work) < WorkCapacity

Message(k, i, ok) == [kind |-> k, dev |-> i, ok |-> ok]

TrySend(m) == work' = IF Room THEN Append(work, m) ELSE work

-----------------------------------------------------------------------------
Init ==
    /\ dev = <<>> /\ count = 0 /\ present = {}
    /\ hotplug = <<>>
    /\ pc = "start" /\ toList = {}
    /\ enabled \in BOOLEAN /\ changed = FALSE /\ toggles = 0
    /\ shutdown = FALSE
    /\ lease = "free"
    /\ lc = Disconnected
    /\ active = 0 /\ attempted = {}
    /\ probe = [i \in Ids |-> "none"] /\ handle = 0
    /\ sess = [i \in Ids |-> [pc |-> "none", cancel |-> FALSE, sid |-> 0]]
    /\ work = <<>>
    /\ snap = NoSnapshot

-----------------------------------------------------------------------------
(* The environment: phones come and go, the host writes                    *)
(* projection_enabled and shutdown, the wireless worker uses the lease.    *)

(* The watcher starts before the list is read: an earlier phone is listed  *)
(* and has no event.                                                       *)
Plug(p, acc) ==
    /\ count < MaxEnum
    /\ \A i \in present : dev[i].phone # p
    /\ count' = count + 1
    /\ dev' = Append(dev, [phone |-> p, acc |-> acc])
    /\ present' = present \cup {count + 1}
    /\ \/ hotplug' = Append(hotplug, [connected |-> TRUE, id |-> count + 1])
       \/ pc = "start" /\ hotplug = <<>> /\ UNCHANGED hotplug
    /\ UNCHANGED <<pc, toList, switch, lease, lc, active, attempted, handle,
                   workers, snap>>

Unplug(i) ==
    /\ i \in present
    /\ pc = "start" => StartupBounce
    /\ present' = present \ {i}
    /\ hotplug' = Append(hotplug, [connected |-> FALSE, id |-> i])
    /\ UNCHANGED <<dev, count, pc, toList, switch, lease, lc, active,
                   attempted, handle, workers, snap>>

SetEnabled(v) ==
    /\ toggles < MaxToggles
    /\ enabled' = v /\ changed' = TRUE /\ toggles' = toggles + 1
    /\ UNCHANGED <<bus, hotplug, pc, toList, shutdown, lease, lc, active,
                   attempted, handle, workers, snap>>

RequestShutdown ==
    /\ ~shutdown
    /\ shutdown' = TRUE
    /\ UNCHANGED <<bus, hotplug, pc, toList, enabled, changed, toggles,
                   lease, lc, active, attempted, handle, workers, snap>>

WifiAcquire ==
    /\ Wireless
    /\ lease = "free"
    /\ lease' = "wifi"
    /\ UNCHANGED <<bus, hotplug, pc, toList, switch, lc, active, attempted,
                   handle, workers, snap>>

WifiPublish ==
    /\ lease = "wifi"
    /\ snap' = [by |-> "wifi", id |-> 0, st |-> "connecting",
                video |-> FALSE]
    /\ UNCHANGED <<bus, hotplug, pc, toList, switch, lease, lc, active,
                   attempted, handle, workers>>

WifiRelease ==
    /\ lease = "wifi"
    /\ snap' = NoSnapshot
    /\ lease' = "free"
    /\ UNCHANGED <<bus, hotplug, pc, toList, switch, lc, active, attempted,
                   handle, workers>>

DeadlinePasses ==
    /\ lc.st = "WaitingForAccessory" /\ ~lc.late
    /\ lc' = [lc EXCEPT !.late = TRUE]
    /\ UNCHANGED <<bus, hotplug, pc, toList, switch, lease, active,
                   attempted, handle, workers, snap>>

-----------------------------------------------------------------------------
(* connected(): acquire the lease if the event calls for it, then start an *)
(* attempt when the lifecycle takes the device.                            *)

MayAcquire == lease = "free" /\ enabled

StartAccessory(i) ==
    /\ dev[i].acc
    /\ i \notin attempted
    /\ accessory_available(lc, i)
    /\ lc' = InState("SessionStarting", i)
    /\ attempted' = attempted \cup {i}
    /\ snap' = connecting(i)
    /\ active' = i
    /\ sess' = [sess EXCEPT ![i] =
                   [pc |-> "opening", cancel |-> FALSE, sid |-> 0]]
    /\ UNCHANGED <<probe, handle>>

(* Mutant: the attempted set is not consulted.                             *)
StartProbeAgain(i) ==
    /\ ~dev[i].acc
    /\ candidate_available(lc, i)
    /\ lc' = InState("Probing", i)
    /\ attempted' = attempted \cup {i}
    /\ snap' = connecting(i)
    /\ probe' = [probe EXCEPT ![i] = "probing"]
    /\ handle' = i
    /\ UNCHANGED <<active, sess>>

StartProbe(i) ==
    /\ ~dev[i].acc
    /\ i \notin attempted
    /\ candidate_available(lc, i)
    /\ lc' = InState("Probing", i)
    /\ attempted' = attempted \cup {i}
    /\ snap' = connecting(i)
    /\ probe' = [probe EXCEPT ![i] = "probing"]
    /\ handle' = i
    /\ UNCHANGED <<active, sess>>

Refuse(i) ==
    /\ \/ i \in attempted
       \/ dev[i].acc /\ ~accessory_available(lc, i)
       \/ ~dev[i].acc /\ ~candidate_available(lc, i)
    /\ UNCHANGED <<lc, attempted, snap, active, sess, probe, handle>>

Connected(i) ==
    \/ /\ owner \/ MayAcquire
       /\ lease' = "usb"
       /\ StartAccessory(i) \/ StartProbe(i) \/ Refuse(i)
    \/ /\ ~owner /\ ~MayAcquire
       /\ UNCHANGED <<lease, lc, attempted, snap, active, sess, probe,
                      handle>>

(* The initial device list; a device may be in it and in the stream too.   *)
(* A list that cannot be read is empty.                                    *)
ListDevices ==
    /\ pc = "start" /\ ~shutdown
    /\ pc' = "listing"
    /\ toList' = present \/ toList' = {}
    /\ UNCHANGED <<bus, hotplug, switch, lease, lc, active, attempted,
                   handle, workers, snap>>

OfferListed(i) ==
    /\ pc = "listing" /\ i \in toList
    /\ toList' = toList \ {i}
    /\ Connected(i)
    /\ UNCHANGED <<bus, hotplug, pc, switch, work>>

(* enabled is subscribed to only now: earlier writes count as seen.        *)
EnterLoop ==
    /\ pc = "listing" /\ toList = {}
    /\ pc' = "select"
    /\ changed' = FALSE
    /\ UNCHANGED <<bus, hotplug, toList, enabled, toggles, shutdown, lease,
                   lc, active, attempted, handle, workers, snap>>

-----------------------------------------------------------------------------
(* The branches of the biased select.  A pending shutdown or switch change *)
(* is taken before any other branch.                                       *)

AtSelect == pc = "select" /\ ~shutdown
Branch   == AtSelect /\ ~changed

Cancel(i) == IF i = 0 THEN sess
             ELSE [sess EXCEPT ![i].cancel = TRUE]

(* abort_all (or shutdown) and join_next until the set is empty.           *)
JoinAll == [i \in Ids |-> IF probe[i] = "none" THEN "none" ELSE "joined"]

Stopped(i) == i # 0 => sess[i].pc = "finished"

(* Mutant: turning projection off only stops new attempts.                 *)
EnabledChangedOnly ==
    /\ AtSelect /\ changed
    /\ changed' = FALSE
    /\ UNCHANGED <<bus, hotplug, pc, toList, enabled, toggles, shutdown,
                   lease, lc, active, attempted, handle, workers, snap>>

EnabledChanged ==
    /\ AtSelect /\ changed
    /\ changed' = FALSE
    /\ \/ /\ enabled
          /\ UNCHANGED <<pc, sess>>
       \/ /\ ~enabled
          /\ pc' = "disabling"
          /\ sess' = Cancel(active)
    /\ UNCHANGED <<bus, hotplug, toList, enabled, toggles, shutdown, lease,
                   lc, active, attempted, probe, handle, work, snap>>

DisableJoined ==
    /\ pc = "disabling" /\ Stopped(active)
    /\ active' = 0 /\ handle' = 0
    /\ probe' = JoinAll
    /\ pc' = "draining"
    /\ UNCHANGED <<bus, hotplug, toList, switch, lease, lc, attempted, sess,
                   work, snap>>

(* handle_work_result, without the queue.                                  *)
handle_work_result(m) ==
    CASE m.kind = "BeforeStart" ->
           /\ lc' = IF accessory_switch_allowed(lc, m.dev)
                    THEN InState("WaitingForAccessory", m.dev) ELSE lc
           /\ probe' = IF probe[m.dev] # "awaitAck" THEN probe
                       ELSE [probe EXCEPT ![m.dev] =
                               IF accessory_switch_allowed(lc, m.dev)
                               THEN "acked" ELSE "reportErr"]
           /\ snap' = snap
      [] m.kind = "Aoap" ->
           /\ probe' = probe
           /\ LET fails == /\ ~m.ok
                           /\ lc.st # "WaitingForAccessory"
                           /\ probe_can_fail(lc, m.dev)
              IN  /\ lc' = IF fails THEN InState("Failed", m.dev) ELSE lc
                  /\ snap' = IF fails THEN failed(snap) ELSE snap
      [] m.kind = "Version" ->
           /\ probe' = probe
           /\ LET fails == ~m.ok /\ session_can_fail(lc, m.dev)
              IN  /\ lc' = CASE fails -> InState("Failed", m.dev)
                             [] m.ok /\ version_allowed(lc, m.dev) ->
                                  InState("WaitingForTls", m.dev)
                             [] OTHER -> lc
                  /\ snap' = IF fails THEN failed(snap) ELSE snap

(* Without an owner a result is dropped; a dropped BeforeStart drops its   *)
(* oneshot, which the probe reads as a refusal.                            *)
drop_result(m) ==
    /\ probe' = IF m.kind = "BeforeStart" /\ probe[m.dev] = "awaitAck"
                THEN [probe EXCEPT ![m.dev] = "reportErr"] ELSE probe
    /\ UNCHANGED <<lc, snap>>

Drain ==
    /\ pc = "draining"
    /\ \/ /\ work # <<>>
          /\ work' = Tail(work)
          /\ handle_work_result(Head(work))
          /\ UNCHANGED <<pc, lease>>
       \/ /\ work = <<>>
          /\ pc' = "select"
          /\ TakeOwner
          /\ UNCHANGED <<work, lc, snap, probe>>
    /\ UNCHANGED <<bus, hotplug, toList, switch, active, attempted, handle,
                   sess>>

SessionReaped ==
    /\ Branch /\ active # 0 /\ sess[active].pc = "finished"
    /\ active' = 0
    /\ pc' = "draining"
    /\ UNCHANGED <<bus, hotplug, toList, switch, lease, lc, attempted, probe,
                   handle, sess, work, snap>>

(* Mutant: a session task that still runs does not hold the lease.         *)
IdleReleaseBusy ==
    /\ Branch /\ owner /\ work = <<>>
    /\ \A i \in Ids : probe[i] \in Gone
    /\ lc.st # "WaitingForAccessory"
    /\ TakeOwner
    /\ UNCHANGED <<bus, hotplug, pc, toList, switch, lc, active, attempted,
                   handle, workers, snap>>

IdleRelease ==
    /\ Branch /\ owner /\ active = 0 /\ work = <<>>
    /\ \A i \in Ids : probe[i] \in Gone
    /\ lc.st # "WaitingForAccessory"
    /\ TakeOwner
    /\ UNCHANGED <<bus, hotplug, pc, toList, switch, lc, active, attempted,
                   handle, workers, snap>>

HotplugConnected ==
    /\ Branch /\ hotplug # <<>> /\ Head(hotplug).connected
    /\ hotplug' = Tail(hotplug)
    /\ Connected(Head(hotplug).id)
    /\ UNCHANGED <<bus, pc, toList, switch, work>>

(* Disconnected(id): only a device the lifecycle owns, outside the         *)
(* accessory wait, ends the attempt.                                       *)
Ends(i) == owner /\ owns_device(lc, i) /\ lc.st # "WaitingForAccessory"

HotplugRemoved ==
    /\ Branch /\ hotplug # <<>> /\ ~Head(hotplug).connected
    /\ hotplug' = Tail(hotplug)
    /\ LET i == Head(hotplug).id
       IN  /\ attempted' = attempted \ {i}
           /\ lc' = removed(lc, i)
           /\ IF ~Ends(i)
              THEN UNCHANGED <<probe, handle, sess, active, pc, snap, lease>>
              ELSE /\ probe' = IF handle # i \/ probe[i] \in Gone THEN probe
                               ELSE [probe EXCEPT ![i] = "done"]
                   /\ handle' = IF handle = i THEN 0 ELSE handle
                   /\ IF active = i
                      THEN /\ pc' = "unplugging" /\ sess' = Cancel(i)
                           /\ UNCHANGED <<active, snap, lease>>
                      ELSE /\ snap' = NoSnapshot
                           /\ TakeOwner
                           /\ UNCHANGED <<pc, sess, active>>
    /\ UNCHANGED <<bus, toList, switch, work>>

(* Mutant: the cancelled session task is not awaited.                      *)
UnplugUnjoined ==
    /\ pc = "unplugging"
    /\ active' = 0
    /\ snap' = NoSnapshot
    /\ TakeOwner
    /\ pc' = "select"
    /\ UNCHANGED <<bus, hotplug, toList, switch, lc, attempted, probe,
                   handle, sess, work>>

UnplugJoined ==
    /\ pc = "unplugging" /\ Stopped(active)
    /\ active' = 0
    /\ snap' = NoSnapshot
    /\ TakeOwner
    /\ pc' = "select"
    /\ UNCHANGED <<bus, hotplug, toList, switch, lc, attempted, probe,
                   handle, sess, work>>

RecvWork ==
    /\ Branch /\ work # <<>>
    /\ work' = Tail(work)
    /\ IF owner THEN handle_work_result(Head(work))
                ELSE drop_result(Head(work))
    /\ UNCHANGED <<bus, hotplug, pc, toList, switch, lease, active,
                   attempted, handle, sess>>

JoinProbe(i) ==
    /\ Branch /\ probe[i] = "done"
    /\ probe' = [probe EXCEPT ![i] = "joined"]
    /\ UNCHANGED <<bus, hotplug, pc, toList, switch, lease, lc, active,
                   attempted, handle, sess, work, snap>>

(* Mutant: the accessory wait expires only for the lease holder.           *)
DeadlineOwned ==
    /\ Branch /\ owner /\ lc.st = "WaitingForAccessory" /\ lc.late
    /\ lc' = expire_accessory_wait(lc)
    /\ snap' = IF lc.removed THEN NoSnapshot ELSE failed(snap)
    /\ UNCHANGED <<bus, hotplug, pc, toList, switch, lease, active,
                   attempted, handle, workers>>

Deadline ==
    /\ Branch /\ lc.st = "WaitingForAccessory" /\ lc.late
    /\ lc' = expire_accessory_wait(lc)
    /\ snap' = IF lc.removed THEN NoSnapshot ELSE failed(snap)
    /\ UNCHANGED <<bus, hotplug, pc, toList, switch, lease, active,
                   attempted, handle, workers>>

(* Shutdown: close the queue, abort and join the probes, stop the session. *)
ShutdownSeen ==
    /\ pc \in {"start", "select"} /\ shutdown
    /\ pc' = IF pc = "start" THEN "stopped" ELSE "closing"
    /\ probe' = JoinAll
    /\ sess' = Cancel(active)
    /\ UNCHANGED <<bus, hotplug, toList, switch, lease, lc, active,
                   attempted, handle, work, snap>>

ShutdownJoined ==
    /\ pc = "closing" /\ Stopped(active)
    /\ active' = 0
    /\ snap' = IF owner THEN NoSnapshot ELSE snap
    /\ TakeOwner
    /\ pc' = "stopped"
    /\ UNCHANGED <<bus, hotplug, toList, switch, lc, attempted, probe,
                   handle, sess, work>>

-----------------------------------------------------------------------------
(* The AOAP task: request_accessory_mode under a twenty second timeout,    *)
(* then one report.                                                        *)

ProbeStep(i, from, to) ==
    /\ probe[i] \in from
    /\ probe' = [probe EXCEPT ![i] = to]
    /\ UNCHANGED <<bus, hotplug, pc, toList, switch, lease, lc, active,
                   attempted, handle, sess, snap>>

ProbeBeforeStart(i) ==
    /\ ProbeStep(i, {"probing"}, "awaitAck")
    /\ Room
    /\ work' = Append(work, Message("BeforeStart", i, TRUE))

ProbeStart(i) == ProbeStep(i, {"acked"}, "starting") /\ UNCHANGED work

ProbeOk(i) == ProbeStep(i, {"starting"}, "reportOk") /\ UNCHANGED work

ProbeError(i) ==
    /\ ProbeStep(i, {"probing", "awaitAck", "acked", "starting"},
                 "reportErr")
    /\ UNCHANGED work

ProbeReport(i) ==
    /\ ProbeStep(i, {"reportOk", "reportErr"}, "done")
    /\ Room
    /\ work' = Append(work, Message("Aoap", i, probe[i] = "reportOk"))

-----------------------------------------------------------------------------
(* The session task of start_session.                                      *)

SessStep(i, from, to) ==
    /\ sess[i].pc \in from
    /\ sess' = [sess EXCEPT ![i].pc = to]
    /\ UNCHANGED <<bus, hotplug, pc, toList, switch, lease, lc, active,
                   attempted, probe, handle>>

(* The session id is read from the shared snapshot once the port is open.  *)
SessionOpened(i) ==
    /\ sess[i].pc = "opening" /\ ~sess[i].cancel
    /\ sess' = [sess EXCEPT ![i].pc = "versioning", ![i].sid = snap.id]
    /\ UNCHANGED <<bus, hotplug, pc, toList, switch, lease, lc, active,
                   attempted, probe, handle, work, snap>>

(* Mutant: a port that cannot be opened is not reported.                   *)
SessionOpenFailedQuietly(i) ==
    /\ ~sess[i].cancel
    /\ SessStep(i, {"opening"}, "finished")
    /\ UNCHANGED <<work, snap>>

SessionOpenFailed(i) ==
    /\ ~sess[i].cancel
    /\ SessStep(i, {"opening"}, "finished")
    /\ TrySend(Message("Version", i, FALSE))
    /\ UNCHANGED snap

SessionVersion(i) ==
    /\ ~sess[i].cancel
    /\ SessStep(i, {"versioning"}, "running")
    /\ TrySend(Message("Version", i, TRUE))
    /\ UNCHANGED snap

(* aa_session::run publishes only while the snapshot carries its own id.   *)
SessionStreams(i) ==
    /\ sess[i].pc = "running" /\ ~sess[i].cancel
    /\ snap.id = sess[i].sid /\ snap.st = "connecting"
    /\ snap' = [snap EXCEPT !.st = "streaming", !.video = TRUE]
    /\ UNCHANGED <<bus, hotplug, pc, toList, switch, lease, lc, active,
                   attempted, handle, workers>>

SessionFailed(i) ==
    /\ ~sess[i].cancel
    /\ SessStep(i, {"versioning", "running"}, "closingErr")
    /\ TrySend(Message("Version", i, FALSE))
    /\ UNCHANGED snap

SessionEnded(i) ==
    /\ ~sess[i].cancel
    /\ SessStep(i, {"running"}, "closingOk")
    /\ UNCHANGED <<work, snap>>

SessionCancelled(i) ==
    /\ sess[i].cancel
    /\ \/ SessStep(i, {"opening"}, "finished")
       \/ SessStep(i, {"versioning", "running"}, "closingOk")
    /\ UNCHANGED <<work, snap>>

(* media.close(), transport.close(), then the unguarded snapshot update.   *)
SessionClosed(i) ==
    /\ SessStep(i, {"closingOk", "closingErr"}, "finished")
    /\ snap' = IF sess[i].pc = "closingOk" THEN NoSnapshot
               ELSE [snap EXCEPT !.video = FALSE]
    /\ UNCHANGED work

-----------------------------------------------------------------------------
Environment ==
    \/ \E p \in Phones, acc \in BOOLEAN : Plug(p, acc)
    \/ \E i \in Ids : Unplug(i)
    \/ \E v \in BOOLEAN : SetEnabled(v)
    \/ RequestShutdown
    \/ WifiAcquire
    \/ WifiPublish
    \/ WifiRelease

Loop ==
    \/ ListDevices
    \/ \E i \in Ids : OfferListed(i)
    \/ EnterLoop
    \/ EnabledChanged
    \/ DisableJoined
    \/ Drain
    \/ SessionReaped
    \/ IdleRelease
    \/ HotplugConnected
    \/ HotplugRemoved
    \/ UnplugJoined
    \/ RecvWork
    \/ \E i \in Ids : JoinProbe(i)
    \/ Deadline
    \/ ShutdownSeen
    \/ ShutdownJoined

Probe(i) ==
    \/ ProbeBeforeStart(i)
    \/ ProbeStart(i)
    \/ ProbeOk(i)
    \/ ProbeError(i)
    \/ ProbeReport(i)

SessionTask(i) ==
    \/ SessionOpened(i)
    \/ SessionOpenFailed(i)
    \/ SessionVersion(i)
    \/ SessionStreams(i)
    \/ SessionFailed(i)
    \/ SessionEnded(i)
    \/ SessionCancelled(i)
    \/ SessionClosed(i)

Next ==
    \/ Environment
    \/ DeadlinePasses
    \/ Loop
    \/ \E i \in Ids : Probe(i)
    \/ \E i \in Ids : SessionTask(i)

Spec == Init /\ [][Next]_vars

(***************************************************************************)
(* Fairness.  The loop and the tasks are scheduled by the tokio runtime;   *)
(* the accessory wait is a timer.  A probe cannot hang (twenty second      *)
(* timeout), opening and version negotiation cannot hang (ten seconds),    *)
(* and a task that was cancelled or is closing runs to its end.  A session *)
(* that streams may do so for ever, so SessionFailed and SessionEnded are  *)
(* not fair.                                                               *)
(***************************************************************************)
Setup(i) == \/ SessionOpened(i) \/ SessionOpenFailed(i)
            \/ SessionVersion(i) \/ SessionStreams(i)
            \/ sess[i].pc = "versioning" /\ SessionFailed(i)

Fairness ==
    /\ WF_vars(Loop)
    /\ WF_vars(SessionReaped)
    /\ WF_vars(DeadlinePasses)
    /\ WF_vars(Deadline)
    /\ \A i \in Ids :
         /\ WF_vars(Probe(i))
         /\ WF_vars(Setup(i))
         /\ WF_vars(SessionCancelled(i) \/ SessionClosed(i))

FairSpec == Spec /\ Fairness

-----------------------------------------------------------------------------
(* Properties.                                                             *)

Live(i) == sess[i].pc \in {"opening", "versioning", "running"}
           /\ ~sess[i].cancel

(* A session task that has not been told to stop is the one active_session *)
(* refers to, the lifecycle names its enumeration, and USB holds the lease:*)
(* whatever order hotplug events, failures, switch writes and cleanup      *)
(* ticks arrive in, no live session is orphaned, and two never coexist.    *)
LiveSessionOwned ==
    \A i \in Ids : Live(i) =>
        /\ active = i
        /\ lease = "usb"
        /\ lc.dev = i
        /\ lc.st \in {"SessionStarting", "WaitingForTls"}

(* The session id that a session task reads from the shared snapshot after *)
(* opening its port is the one connected() published for that enumeration, *)
(* never another attempt's and never the empty default.                    *)
SessionIdOwn ==
    \A i \in Ids : sess[i].pc \in {"versioning", "running"}
                    => sess[i].sid = i

(* The session lease is released only after owned cleanup: without it no   *)
(* session task is still opening, streaming or closing its media.          *)
ReleasedAfterCleanup ==
    ~owner => \A i \in Ids : sess[i].pc \in {"none", "finished"}

(* A failed device cannot be retried until it disappears and reappears: an *)
(* enumeration is probed or opened at most once, although the initial list *)
(* and the hotplug stream may both report it.                              *)
NoSecondAttempt ==
    [][\A i \in Ids :
         /\ probe'[i] = "probing" => probe[i] \in {"none", "probing"}
         /\ sess'[i].pc = "opening" => sess[i].pc \in {"none", "opening"}
      ]_vars

(* "Never downgrade the new accessory session": while a session is being   *)
(* set up or runs, the lifecycle only fails after that session's own task  *)
(* has failed, whatever stale probe or session reports are queued.         *)
FailsOnlyByOwnSession ==
    [][lc.st \in {"SessionStarting", "WaitingForTls"} /\ lc'.st = "Failed"
        => /\ lc'.dev = lc.dev
           /\ sess[lc.dev].pc \in {"closingErr", "finished"}]_vars

(* Turning projection off while the loop listens gives the lease back.     *)
DisableReleases ==
    (~enabled /\ changed /\ pc \notin {"start", "listing"})
        ~> (enabled \/ ~owner)

(* The accessory wait is bounded even if the lease was given up meanwhile. *)
AccessoryWaitEnds ==
    (lc.st = "WaitingForAccessory")
        ~> (lc.st # "WaitingForAccessory" \/ pc = "stopped")

(* While projection stays on, the "connecting" of an attempt that runs is  *)
(* never left standing: it ends in a stream, a failure or an empty         *)
(* snapshot.  A probe that a disable has aborted reports nothing, so what  *)
(* it published may stay after projection is turned on again.              *)
ConnectingResolves ==
    \A i \in Ids :
        (/\ snap.st = "connecting" /\ snap.id = i
         /\ probe[i] \notin {"none", "joined"} \/ Live(i))
            ~> (~enabled \/ changed \/ ~(snap.st = "connecting" /\ snap.id = i))
=============================================================================
