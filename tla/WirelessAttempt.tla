-------------------------- MODULE WirelessAttempt --------------------------
(***************************************************************************)
(* One wireless Android Auto activity of argo-projectiond: the task that   *)
(* process_request spawns for Connect (reconnect, attempt_connection and   *)
(* admit_tcp in wireless.rs) together with what it owns: the session       *)
(* lease, the projection access point and its input guard (network.rs),    *)
(* the listener, the admitted TCP peer and the native media.               *)
(*                                                                         *)
(* The task steps are atomic between two awaits.  NetworkManager, BlueZ,   *)
(* the root firewall helper and the phone are external: each call may fail *)
(* and an interrupted call may or may not have had its effect.             *)
(***************************************************************************)
EXTENDS Naturals, Sequences, FiniteSets

CONSTANTS Interfaces,   \* wireless interfaces that can carry the AP
          NoInterface   \* no ownership marker on disk

ASSUME InterfaceAssumption == NoInterface \notin Interfaces

VARIABLES
    act,      \* activity: the attempt task
    ap,       \* AccessPoint as the task believes it to be
    guards,   \* interfaces on which the root input guard is installed
    marker,   \* firewall-owned.json: the interface it names
    nm,       \* interfaces with an owned active connection in NetworkManager
    adm,      \* bootstrap and TCP admission of the current attempt
    lease,    \* holder of session_lease
    paired,   \* the selected phone is bonded
    snap,     \* publisher and state of the runtime snapshot's session
    conn      \* the part of the connectivity snapshot the task writes

attemptVars == <<act, ap, guards, marker, nm, adm, lease, paired, snap, conn>>

-----------------------------------------------------------------------------
Kinds == {"TransportLoss", "NetworkLoss", "SetupTimeout", "Cancelled",
          "Authorization", "Protocol", "Configuration", "Cleanup",
          "BootstrapClosed"}

(* Where the task is: the pairing check, network.prepare, the firewall     *)
(* intent and helper, the credential template, the NM activation call, AP  *)
(* readiness, the wait for RFCOMM, the admission, the second pairing       *)
(* check, version negotiation, aa_session::run, media.close, network.stop  *)
(* (two calls), the retry decision, the backoff.                           *)
Operation == {"firewall", "helper", "template", "activating", "ready",
              "bootstrap", "admission", "admitted", "version", "session"}

AttemptState == {"none", "check", "prepare", "closing", "deactivate",
                 "unguard", "decide", "backoff", "done"} \cup Operation

NoAttempt == [pc |-> "none", n |-> 0, cancel |-> FALSE,
              iface |-> NoInterface, res |-> "Ok", cleanup |-> FALSE]

NoAp == [firewall |-> FALSE, pending |-> FALSE, active |-> FALSE]

NoAdmission == [listener |-> FALSE, rfcomm |-> FALSE, auth |-> FALSE,
                peer |-> FALSE, media |-> FALSE, established |-> FALSE]

NoSession == [by |-> "none", st |-> "none"]

Activity == [pc : AttemptState, n : 0 .. 2, cancel : BOOLEAN,
             iface : Interfaces \cup {NoInterface}, res : Kinds \cup {"Ok"},
             cleanup : BOOLEAN]

AccessPoint == [firewall : BOOLEAN, pending : BOOLEAN, active : BOOLEAN]

Admission == [listener : BOOLEAN, rfcomm : BOOLEAN, auth : BOOLEAN,
              peer : BOOLEAN, media : BOOLEAN, established : BOOLEAN]

Session == [by : {"none", "wifi", "usb"},
            st : {"none", "connecting", "streaming", "failed"}]

Phases == {"disabled", "idle", "preparing", "bootstrap", "connecting",
           "projecting", "streaming", "backoff", "cleanup", "disconnected",
           "failed", "unavailable"}

Connectivity == [phase : Phases, wifi : BOOLEAN, error : BOOLEAN]

AttemptTypeOK ==
    /\ act \in Activity /\ ap \in AccessPoint /\ adm \in Admission
    /\ guards \subseteq Interfaces /\ nm \subseteq Interfaces
    /\ marker \in Interfaces \cup {NoInterface}
    /\ lease \in {"free", "wifi", "usb", "stopAll"}
    /\ paired \in BOOLEAN /\ snap \in Session /\ conn \in Connectivity

AttemptInit ==
    /\ act = NoAttempt /\ ap = NoAp
    /\ guards = {} /\ marker = NoInterface /\ nm = {}
    /\ adm = NoAdmission
    /\ lease = "free" /\ paired = TRUE
    /\ snap = NoSession
    /\ conn = [phase |-> "disabled", wifi |-> FALSE, error |-> FALSE]

-----------------------------------------------------------------------------
(* failure.rs and retry_allowed.                                           *)

(* Mutant: uncertain cleanup does not prevent a retry.                     *)
retryable_dirty(kind, cleanup) ==
    kind \in {"TransportLoss", "NetworkLoss", "SetupTimeout"}

retryable(kind, cleanup) ==
    ~cleanup /\ kind \in {"TransportLoss", "NetworkLoss", "SetupTimeout"}

retry_allowed(kind, cleanup, stopped, n) ==
    ~stopped /\ n < 2 /\ retryable(kind, cleanup)

At(s) == act.pc = s

Go(s) == act' = [act EXCEPT !.pc = s]

Phase(p) == conn' = [conn EXCEPT !.phase = p]

(* An attempt that returns before it owns an AccessPoint.                  *)
ReturnEarly(kind) ==
    /\ act' = [act EXCEPT !.pc = "decide", !.res = kind, !.cleanup = FALSE]
    /\ UNCHANGED <<ap, guards, marker, nm, adm, lease, paired, snap>>

(* The operation ends: the failure is published, then media.close starts.  *)
(* Dropping the operation's future closes listener, RFCOMM and TCP peer.   *)
End(kind) ==
    /\ act' = [act EXCEPT !.pc = "closing", !.res = kind, !.cleanup = FALSE]
    /\ adm' = [adm EXCEPT !.listener = FALSE, !.rfcomm = FALSE,
                          !.peer = FALSE]
    /\ snap' = IF kind # "Ok" /\ snap.st # "none"
               THEN [snap EXCEPT !.st = "failed"] ELSE snap
    /\ Phase("cleanup")
    /\ UNCHANGED <<ap, lease, paired>>

Quiet == UNCHANGED <<guards, marker, nm>>

-----------------------------------------------------------------------------
(* process_request "connect", once its guards have passed.                 *)
StartAttempt(i) ==
    /\ At("none")
    /\ lease = "free"
    /\ lease' = "wifi"
    /\ act' = [NoAttempt EXCEPT !.pc = "check", !.iface = i]
    /\ UNCHANGED <<ap, guards, marker, nm, adm, paired, snap, conn>>

(* attempt_connection: cancellation, bond, Network::open.                  *)
CheckFails ==
    /\ At("check")
    /\ \/ act.cancel /\ ReturnEarly("Cancelled")
       \/ ~act.cancel /\ ~paired /\ ReturnEarly("Authorization")
       \/ ~act.cancel /\ ReturnEarly("Configuration")
    /\ UNCHANGED conn

CheckOk ==
    /\ At("check") /\ ~act.cancel /\ paired
    /\ Go("prepare")
    /\ Phase("preparing")
    /\ UNCHANGED <<ap, guards, marker, nm, adm, lease, paired, snap>>

(* network.prepare is read-only; it refuses an interface that is in use.   *)
PrepareFails ==
    /\ At("prepare")
    /\ IF act.cancel THEN ReturnEarly("Cancelled")
       ELSE \E k \in {"SetupTimeout", "Configuration"} : ReturnEarly(k)
    /\ UNCHANGED conn

PrepareOk ==
    /\ At("prepare") /\ ~act.cancel /\ act.iface \notin nm
    /\ Go("firewall")
    /\ UNCHANGED <<ap, guards, marker, nm, adm, lease, paired, snap, conn>>

(* Mutant: the helper is called without an ownership record.               *)
FirewallUnrecorded ==
    /\ At("firewall") /\ ~act.cancel
    /\ Go("helper")
    /\ UNCHANGED <<ap, guards, marker, nm, adm, lease, paired, snap, conn>>

(* firewall("start") writes the marker before it calls the helper.         *)
FirewallIntent ==
    /\ At("firewall") /\ ~act.cancel
    /\ Go("helper")
    /\ marker' = act.iface
    /\ UNCHANGED <<ap, guards, nm, adm, lease, paired, snap, conn>>

HelperOk ==
    /\ At("helper") /\ ~act.cancel
    /\ Go("template")
    /\ guards' = guards \cup {act.iface}
    /\ ap' = [ap EXCEPT !.firewall = TRUE]
    /\ UNCHANGED <<marker, nm, adm, lease, paired, snap, conn>>

TemplateOk ==
    /\ At("template") /\ ~act.cancel
    /\ Go("activating")
    /\ ap' = [ap EXCEPT !.pending = TRUE]
    /\ UNCHANGED <<guards, marker, nm, adm, lease, paired, snap, conn>>

ActivateOk ==
    /\ At("activating") /\ ~act.cancel
    /\ Go("ready")
    /\ nm' = nm \cup {act.iface}
    /\ ap' = [ap EXCEPT !.pending = FALSE, !.active = TRUE]
    /\ UNCHANGED <<guards, marker, adm, lease, paired, snap, conn>>

(* AP and DHCP ready: listener, pairing check, RFCOMM profile.             *)
ReadyOk ==
    /\ At("ready") /\ ~act.cancel /\ paired
    /\ Go("bootstrap")
    /\ adm' = [adm EXCEPT !.listener = TRUE]
    /\ Phase("bootstrap")
    /\ UNCHANGED <<ap, guards, marker, nm, lease, paired, snap>>

BootstrapConnected ==
    /\ At("bootstrap") /\ ~act.cancel /\ paired
    /\ Go("admission")
    /\ adm' = [adm EXCEPT !.rfcomm = TRUE]
    /\ Phase("bootstrap")
    /\ UNCHANGED <<ap, guards, marker, nm, lease, paired, snap>>

(* TCP before RFCOMM, or a third foreign RFCOMM request, ends the attempt. *)
BootstrapRefused ==
    /\ At("bootstrap") /\ ~act.cancel
    /\ End("Authorization")
    /\ Quiet

(* wireless_bootstrap::run: credentials delivered and Start accepted.      *)
Authorize ==
    /\ At("admission") /\ ~act.cancel /\ adm.rfcomm /\ ~adm.auth
    /\ adm' = [adm EXCEPT !.auth = TRUE]
    /\ Phase("connecting")
    /\ UNCHANGED <<act, ap, guards, marker, nm, lease, paired, snap>>

(* A closed or idle RFCOMM link is benign once startup was accepted.  The  *)
(* bootstrap future is polled by the admission and by the session loop.    *)
BootstrapCloses ==
    /\ act.pc \in {"admission", "session"}
    /\ ~act.cancel /\ adm.rfcomm
    /\ IF adm.auth
       THEN /\ adm' = [adm EXCEPT !.rfcomm = FALSE]
            /\ UNCHANGED <<act, ap, lease, paired, snap, conn>>
       ELSE \E k \in {"TransportLoss", "BootstrapClosed"} : End(k)
    /\ Quiet

TcpCandidate ==
    /\ At("admission") /\ ~act.cancel
    /\ IF adm.peer
       THEN End("Authorization")
       ELSE /\ adm' = [adm EXCEPT !.peer = TRUE]
            /\ Phase("connecting")
            /\ UNCHANGED <<act, ap, lease, paired, snap>>
    /\ Quiet

(* admit_tcp returns once both the peer and the authorization are there.   *)
Admit ==
    /\ At("admission") /\ ~act.cancel /\ adm.auth /\ adm.peer
    /\ Go("admitted")
    /\ conn' = [conn EXCEPT !.wifi = TRUE]
    /\ UNCHANGED <<ap, guards, marker, nm, adm, lease, paired, snap>>

(* The pairing is checked again; only then is the listener closed and the  *)
(* session published.                                                      *)
PublishSession ==
    /\ At("admitted") /\ ~act.cancel
    /\ IF paired
       THEN /\ Go("version")
            /\ adm' = [adm EXCEPT !.listener = FALSE]
            /\ snap' = [by |-> "wifi", st |-> "connecting"]
            /\ UNCHANGED <<ap, lease, paired, conn>>
       ELSE End("Authorization")
    /\ Quiet

VersionOk ==
    /\ At("version") /\ ~act.cancel
    /\ Go("session")
    /\ adm' = [adm EXCEPT !.media = TRUE]
    /\ Phase("projecting")
    /\ UNCHANGED <<ap, guards, marker, nm, lease, paired, snap>>

(* The validated video AV START.                                           *)
Establish ==
    /\ At("session") /\ ~act.cancel /\ ~adm.established
    /\ adm' = [adm EXCEPT !.established = TRUE]
    /\ snap' = [snap EXCEPT !.st = "streaming"]
    /\ Phase("streaming")
    /\ UNCHANGED <<act, ap, guards, marker, nm, lease, paired>>

(* The kinds the steps of the operation can fail with.                     *)
OperationKinds(s) ==
    CASE s \in {"firewall", "helper", "admitted"} -> {"Configuration"}
      [] s \in {"template", "activating"} -> {"Configuration", "Protocol"}
      [] s = "ready"     -> {"SetupTimeout", "NetworkLoss", "Configuration",
                             "Protocol", "Authorization"}
      [] s = "bootstrap" -> {"SetupTimeout", "TransportLoss", "NetworkLoss",
                             "Authorization", "Configuration", "Protocol"}
      [] s = "admission" -> {"SetupTimeout", "TransportLoss", "Protocol",
                             "Authorization", "Configuration"}
      [] s = "version"   -> {"SetupTimeout", "TransportLoss", "NetworkLoss",
                             "Protocol", "Configuration"}
      [] s = "session"   -> {"TransportLoss", "NetworkLoss", "Protocol",
                             "Authorization", "Configuration", "Ok"}
      [] OTHER           -> {}

(* What an interrupted or failed call may leave behind: the helper runs as *)
(* root and may have installed the guard, and NetworkManager may have      *)
(* activated the profile, although the task does not know it.              *)
Interrupted ==
    /\ guards' \in {guards} \cup IF At("helper")
                                 THEN {guards \cup {act.iface}} ELSE {}
    /\ nm' \in {nm} \cup IF At("activating")
                         THEN {nm \cup {act.iface}} ELSE {}
    /\ UNCHANGED marker

OperationFails ==
    /\ ~act.cancel
    /\ \E k \in OperationKinds(act.pc) : End(k)
    /\ Interrupted

(* readiness.setup_deadline: 180 s for the whole operation, disarmed for   *)
(* good by establishment.  The helper's own 45 s timeout comes first.      *)
SetupDeadline ==
    /\ act.pc \in Operation \ {"firewall", "helper"}
    /\ ~act.cancel /\ ~adm.established
    /\ End("SetupTimeout")
    /\ Interrupted

(* Mutant: a running session does not watch its cancellation.              *)
SetupCancelled ==
    /\ act.pc \in Operation \ {"session"}
    /\ act.cancel
    /\ End("Cancelled")
    /\ Interrupted

(* run_until_end polls the cancellation first.                             *)
OperationCancelled ==
    /\ act.pc \in Operation
    /\ act.cancel
    /\ End("Cancelled")
    /\ Interrupted

-----------------------------------------------------------------------------
(* Cleanup: media.close, empty snapshot, network.stop.                     *)

MediaClosed ==
    /\ At("closing")
    /\ Go("deactivate")
    /\ adm' = NoAdmission
    /\ snap' = NoSession
    /\ conn' = [conn EXCEPT !.wifi = FALSE]
    /\ UNCHANGED <<ap, guards, marker, nm, lease, paired>>

(* network.stop failed: the error is kept and blocks a retry.              *)
Uncertain ==
    /\ act' = [act EXCEPT !.pc = "decide", !.cleanup = TRUE,
                          !.res = IF @ = "Ok" THEN "Cleanup" ELSE @]
    /\ conn' = [conn EXCEPT !.error = TRUE]

Deactivate ==
    /\ At("deactivate")
    /\ \/ /\ ap.pending
          /\ Uncertain
          /\ UNCHANGED <<ap, nm>>
       \/ /\ ~ap.pending /\ ap.active
          /\ nm' = nm \ {act.iface}
          /\ ap' = [ap EXCEPT !.active = FALSE]
          /\ Go("unguard")
          /\ UNCHANGED conn
       \/ /\ ~ap.pending /\ ap.active
          /\ Uncertain
          /\ nm' \in {nm, nm \ {act.iface}}
          /\ UNCHANGED ap
       \/ /\ ~ap.pending /\ ~ap.active
          /\ Go("unguard")
          /\ UNCHANGED <<ap, nm, conn>>
    /\ UNCHANGED <<guards, marker, adm, lease, paired, snap>>

(* remove_guard: helper stop, then the marker.                             *)
Unguarded == /\ Go("decide")
             /\ conn' = [conn EXCEPT !.error = FALSE]

RemoveGuard ==
    /\ At("unguard")
    /\ \/ /\ ~ap.firewall
          /\ Unguarded
          /\ UNCHANGED <<ap, guards, marker>>
       \/ /\ ap.firewall
          /\ Unguarded
          /\ guards' = guards \ {act.iface}
          /\ marker' = NoInterface
          /\ ap' = [ap EXCEPT !.firewall = FALSE]
       \/ /\ ap.firewall
          /\ Uncertain
          /\ guards' \in {guards, guards \ {act.iface}}
          /\ UNCHANGED <<ap, marker>>
    /\ UNCHANGED <<nm, adm, lease, paired, snap>>

(* Mutant: the lease is dropped before the backoff.                        *)
DecideReleases ==
    /\ At("decide")
    /\ LET retry == /\ act.res # "Ok"
                    /\ retry_allowed(act.res, act.cleanup, act.cancel, act.n)
       IN  /\ act' = IF retry
                     THEN [act EXCEPT !.pc = "backoff", !.n = @ + 1]
                     ELSE [act EXCEPT !.pc = "done"]
           /\ Phase(IF retry THEN "backoff" ELSE "failed")
    /\ lease' = "free"
    /\ ap' = NoAp
    /\ UNCHANGED <<guards, marker, nm, adm, paired, snap>>

(* reconnect: at most three attempts.  Returning from attempt_connection   *)
(* drops its D-Bus connection, which ends a bound activation (NmReaps).    *)
Decide ==
    /\ At("decide")
    /\ LET retry == /\ act.res # "Ok"
                    /\ retry_allowed(act.res, act.cleanup, act.cancel, act.n)
       IN  /\ act' = IF retry
                     THEN [act EXCEPT !.pc = "backoff", !.n = @ + 1]
                     ELSE [act EXCEPT !.pc = "done"]
           /\ lease' = IF retry THEN lease ELSE "free"
           /\ Phase(CASE retry -> "backoff"
                      [] ~retry /\ ~act.cleanup
                           /\ act.res \in {"Ok", "Cancelled"} ->
                             "disconnected"
                      [] OTHER -> "failed")
    /\ ap' = NoAp
    /\ UNCHANGED <<guards, marker, nm, adm, paired, snap>>

Backoff ==
    /\ At("backoff")
    /\ IF act.cancel
       THEN /\ Go("done") /\ lease' = "free"
       ELSE /\ act' = [act EXCEPT !.pc = "check", !.res = "Ok"]
            /\ UNCHANGED lease
    /\ UNCHANGED <<ap, guards, marker, nm, adm, paired, snap, conn>>

-----------------------------------------------------------------------------
(* External: bonds come and go, NetworkManager ends activations whose      *)
(* D-Bus owner is gone, the wired owner takes the lease and publishes.     *)

Owns(i) == act.iface = i
           /\ act.pc \in Operation \cup {"closing", "deactivate", "unguard"}

NmReaps(i) ==
    /\ i \in nm /\ ~Owns(i)
    /\ nm' = nm \ {i}
    /\ UNCHANGED <<act, ap, guards, marker, adm, lease, paired, snap, conn>>

PairingChanges ==
    /\ paired' = ~paired
    /\ UNCHANGED <<act, ap, guards, marker, nm, adm, lease, snap, conn>>

UsbAcquires ==
    /\ lease = "free"
    /\ lease' = "usb"
    /\ snap' = [by |-> "usb", st |-> "connecting"]
    /\ UNCHANGED <<act, ap, guards, marker, nm, adm, paired, conn>>

UsbReleases ==
    /\ lease = "usb"
    /\ lease' = "free"
    /\ snap' = NoSession
    /\ UNCHANGED <<act, ap, guards, marker, nm, adm, paired, conn>>

-----------------------------------------------------------------------------
Progress == \/ CheckFails \/ CheckOk \/ PrepareFails \/ PrepareOk
            \/ FirewallIntent \/ HelperOk \/ TemplateOk \/ ActivateOk
            \/ ReadyOk \/ BootstrapConnected
            \/ BootstrapRefused \/ Authorize \/ BootstrapCloses
            \/ TcpCandidate \/ Admit \/ PublishSession \/ VersionOk
            \/ Establish \/ OperationFails \/ SetupDeadline

Cleanup == \/ OperationCancelled \/ MediaClosed \/ Deactivate \/ RemoveGuard
           \/ Decide \/ Backoff

External == \/ \E i \in Interfaces : NmReaps(i)
            \/ PairingChanges \/ UsbAcquires \/ UsbReleases

-----------------------------------------------------------------------------
(* Properties of the attempt.                                              *)

(* Only the lease holder owns resources: while the task has an access      *)
(* point, a guard it knows of, a listener, a peer, media or a published    *)
(* session, the wireless side holds the session lease.                     *)
ResourcesUnderLease ==
    (\/ ap.active \/ ap.pending \/ ap.firewall \/ adm.listener
     \/ adm.peer \/ adm.media \/ snap.by = "wifi"
     \/ act.pc \in Operation) => lease = "wifi"

(* "Owned cleanup finished": an attempt is followed by a retry only when   *)
(* everything it knows it acquired has been released, whatever it failed   *)
(* with, so an uncertain activation, deactivation or guard removal is      *)
(* never followed by another attempt.                                      *)
RetryAfterCleanup ==
    At("decide") /\ retry_allowed(act.res, act.cleanup, act.cancel, act.n)
        => /\ lease = "wifi"
           /\ ap = NoAp
           /\ adm = NoAdmission
           /\ snap.by # "wifi" /\ ~conn.wifi

(* A root guard that may be installed is always named by the marker, so a  *)
(* killed daemon's replacement cannot assume cleanup.                      *)
GuardRecorded == \A i \in guards : marker = i
=============================================================================
