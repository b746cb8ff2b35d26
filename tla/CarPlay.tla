------------------------------ MODULE CarPlay ------------------------------
(***************************************************************************)
(* The CarPlay daemon: the supervisor and main of bin/argo-carplayd.rs,    *)
(* the settings service (management.rs) and the USB configuration lease    *)
(* (usb_lease.rs) around the wired session of CarPlaySession.              *)
(*                                                                         *)
(* The supervisor reads the settings through a watch channel: it works on  *)
(* a copy and is told that there is a newer value.  A request works on a   *)
(* copy too, under a lock that the supervisor does not take.  The lease    *)
(* helper is external: it may end by itself and it may not confirm that    *)
(* the configuration was restored.  Display and audio settings, phases     *)
(* and the Link diagnostics are left out.                                  *)
(***************************************************************************)
EXTENDS CarPlaySession

CONSTANTS
    UsbLease,      \* was the daemon started with --usb-lease?
    MaxRequests,   \* bound on requests that change the settings
    MaxFaults      \* bound on helpers and services that end by themselves

ASSUME DaemonAssumption ==
    UsbLease \in BOOLEAN /\ MaxRequests \in Nat /\ MaxFaults \in Nat

VARIABLES
    st,         \* the value of the watch channel (State)
    unseen,     \* the supervisor has not looked at it yet
    request,    \* Manager::request under way: the kind and its copy of st
    sup,        \* the supervisor: where it is, its copy of st, its result
    lease,      \* the lease helper
    server,     \* the settings service runs
    main,       \* main: where it is and its result
    stop,       \* the stop watch
    clean,      \* the managed clean marker was written
    requests, faults

managerVars == <<st, unseen, request, requests>>
daemonVars == <<sup, lease, server, main, stop, clean, faults>>
vars == <<sessionVars, managerVars, daemonVars>>

State == [enabled : BOOLEAN, auto : BOOLEAN, running : BOOLEAN,
          gen : 0..MaxRequests, authorize : BOOLEAN]

Kinds == {"enable", "disable", "auto", "manual", "connect", "disconnect"}
NoRequest == [kind |-> "none"]
SupervisorState ==
    [pc : {"probe", "top", "release", "idle", "pkcheck", "unauthorized", "start",
           "session", "await", "judge", "pause", "backoff", "end", "ended"},
     cur : State, ok : BOOLEAN]
MainState == [at : {"run", "await", "leave", "exited"}, ok : BOOLEAN]

TypeOK ==
    /\ SessionTypeOK
    /\ st \in State /\ unseen \in BOOLEAN
    /\ request = NoRequest \/ request \in [kind : Kinds, base : State]
    /\ sup \in SupervisorState
    /\ lease \in {"none", "live", "dead", "unconfirmed"}
    /\ server \in BOOLEAN /\ stop \in BOOLEAN /\ clean \in BOOLEAN
    /\ main \in MainState
    /\ requests \in 0..MaxRequests /\ faults \in 0..MaxFaults

(* Manager::load: an enabled, automatic configuration runs at once.        *)
Loaded(enabled, auto) ==
    [enabled |-> enabled, auto |-> auto, running |-> enabled /\ auto,
     gen |-> 0, authorize |-> FALSE]

Init ==
    /\ SessionInit
    /\ \E enabled, auto \in BOOLEAN : st = Loaded(enabled, auto)
    /\ unseen = FALSE /\ request = NoRequest
    /\ sup = [pc |-> "probe", cur |-> st, ok |-> TRUE]
    /\ lease = "none" /\ server = TRUE
    /\ main = [at |-> "run", ok |-> TRUE] /\ stop = FALSE /\ clean = FALSE
    /\ requests = 0 /\ faults = 0

-----------------------------------------------------------------------------
(* Manager::request.  One request at a time holds the mutation lock.       *)

BeginRequest(kind) ==
    /\ server /\ request = NoRequest /\ requests < MaxRequests
    /\ request' = [kind |-> kind, base |-> st]
    /\ requests' = requests + 1
    /\ UNCHANGED <<sessionVars, st, unseen, daemonVars>>

Enabling(s, on) ==
    IF s.enabled = on THEN s
    ELSE [s EXCEPT !.enabled = on, !.running = on, !.gen = @ + 1]

Requested(kind, s) ==
    CASE kind = "enable"     -> Enabling(s, TRUE)
      [] kind = "disable"    -> Enabling(s, FALSE)
      [] kind = "auto"       -> [s EXCEPT !.auto = TRUE]
      [] kind = "manual"     -> [s EXCEPT !.auto = FALSE]
      [] kind = "connect"    -> [s EXCEPT !.running = TRUE, !.authorize = TRUE, !.gen = @ + 1]
      [] kind = "disconnect" -> [s EXCEPT !.running = FALSE, !.gen = @ + 1]

(* send_replace stores the copy whatever happened to the value meanwhile.  *)
FinishRequest ==
    /\ request # NoRequest
    /\ request.kind = "connect" => request.base.enabled
    /\ st' = Requested(request.kind, request.base) /\ unseen' = TRUE
    /\ request' = NoRequest
    /\ UNCHANGED <<sessionVars, requests, daemonVars>>

(* persist failed, or Connect while CarPlay is not enabled.                *)
RefuseRequest ==
    /\ request # NoRequest
    /\ \/ request.kind \in {"enable", "disable", "auto", "manual"}
       \/ request.kind = "connect" /\ ~request.base.enabled
    /\ request' = NoRequest
    /\ UNCHANGED <<sessionVars, st, unseen, requests, daemonVars>>

-----------------------------------------------------------------------------
(* The supervisor.                                                         *)

Sup(pc) == sup.pc = pc
To(pc) == sup' = [sup EXCEPT !.pc = pc]
Fails == sup' = [sup EXCEPT !.pc = "end", !.ok = FALSE]
Handle == lease \in {"live", "dead"}
others == <<server, main, stop, clean, faults>>
Watch == UNCHANGED <<st, request, requests>>

(* changed() marks the value seen.                                         *)
Woken == unseen /\ unseen' = FALSE

Probed ==
    /\ Sup("probe") /\ To(IF stop THEN "end" ELSE "top")
    /\ UNCHANGED <<sessionVars, managerVars, lease, others>>

Top ==
    /\ Sup("top") /\ Watch /\ UNCHANGED <<sessionVars, lease, others>>
    /\ \/ stop /\ To("end") /\ UNCHANGED unseen
       \/ /\ ~stop /\ unseen' = FALSE
          /\ sup' = [sup EXCEPT !.cur = st, !.pc =
                       CASE ~st.running \/ ~st.enabled -> IF Handle THEN "release" ELSE "idle"
                         [] /\ st.running /\ st.enabled
                            /\ UsbLease /\ ~Handle /\ ~st.authorize -> "pkcheck"
                         [] OTHER -> "start"]

(* UsbLease::release closes the pipe and waits two seconds; a helper that  *)
(* does not confirm is given up, and with it the supervisor.               *)
Release ==
    /\ Sup("release")
    /\ \/ lease' = "none" /\ To("idle")
       \/ lease' = "unconfirmed" /\ Fails
    /\ UNCHANGED <<sessionVars, managerVars, others>>

IdleWait ==
    /\ Sup("idle") /\ Watch /\ UNCHANGED <<sessionVars, lease, others>>
    /\ \/ Woken /\ To("top")
       \/ stop /\ To("end") /\ UNCHANGED unseen
       \/ ~server /\ Fails /\ UNCHANGED unseen

(* UsbLease::authorized and the wait for a permission.                     *)
Pkcheck ==
    /\ Sup("pkcheck")
    /\ To("start") \/ To("unauthorized") \/ Fails
    /\ UNCHANGED <<sessionVars, managerVars, lease, others>>

Unauthorized ==
    /\ Sup("unauthorized") /\ Watch /\ UNCHANGED <<sessionVars, lease, others>>
    /\ \/ Woken /\ To("top")
       \/ To("top") /\ UNCHANGED unseen
       \/ stop /\ To("end") /\ UNCHANGED unseen

(* Mutant: the session starts before the helper does.                      *)
StartUnleased ==
    /\ Sup("start")
    /\ To("session") /\ ses' = [NoSession EXCEPT !.at = "claim"] /\ UNCHANGED lease
    /\ UNCHANGED <<res, innerVars, inputs, frames, managerVars, others>>

(* Mutant: a session that starts takes the newest settings to be seen.     *)
StartSeen ==
    /\ Sup("start")
    /\ \/ /\ To("session") /\ ses' = [NoSession EXCEPT !.at = "claim"]
          /\ lease' = IF UsbLease /\ ~Handle THEN "live" ELSE lease
       \/ UsbLease /\ ~Handle /\ Fails /\ UNCHANGED <<ses, lease>>
    /\ unseen' = FALSE
    /\ Watch /\ UNCHANGED <<res, innerVars, inputs, frames, others>>

(* UsbLease::start and the session.                                        *)
Start ==
    /\ Sup("start")
    /\ \/ /\ To("session") /\ ses' = [NoSession EXCEPT !.at = "claim"]
          /\ lease' = IF UsbLease /\ ~Handle THEN "live" ELSE lease
       \/ UsbLease /\ ~Handle /\ Fails /\ UNCHANGED <<ses, lease>>
    /\ UNCHANGED <<res, innerVars, inputs, frames, managerVars, others>>

Stops == ses' = [ses EXCEPT !.stop = TRUE]
Stays == UNCHANGED <<res, innerVars, inputs, frames>>

(* The session is over: its future is consumed.                            *)
SessionDone ==
    /\ Sup("session") \/ Sup("await")
    /\ ses.at = "done" /\ To("judge")
    /\ UNCHANGED <<sessionVars, managerVars, lease, others>>

Superseded == ~st.running \/ st.gen # sup.cur.gen

SessionWait ==
    /\ Sup("session") /\ Watch /\ UNCHANGED <<lease, others>>
    /\ \/ stop /\ Stops /\ To("await") /\ Stays /\ UNCHANGED unseen
       \/ /\ Woken /\ Stays
          /\ \/ Superseded /\ Stops /\ To("await")
             \/ ~Superseded /\ UNCHANGED <<ses, sup>>
       \/ (lease = "dead" \/ ~server) /\ Dropped /\ Fails /\ UNCHANGED unseen

(* The generation is read first; the switch is changed after that.         *)
Judge ==
    /\ Sup("judge")
    /\ To(CASE stop -> "end"
            [] ~stop /\ st.gen # sup.cur.gen -> "top"
            [] ~stop /\ st.gen = sup.cur.gen /\ (ses.out = "user" \/ ~sup.cur.auto) -> "pause"
            [] OTHER -> "backoff")
    /\ ses' = NoSession
    /\ Stays /\ UNCHANGED <<managerVars, lease, others>>

Pause ==
    /\ Sup("pause") /\ To("top")
    /\ st' = [st EXCEPT !.running = FALSE] /\ unseen' = TRUE
    /\ UNCHANGED <<sessionVars, request, requests, lease, others>>

Backoff ==
    /\ Sup("backoff") /\ Watch /\ UNCHANGED <<sessionVars, lease, others>>
    /\ \/ Woken /\ To("top")
       \/ To("top") /\ UNCHANGED unseen
       \/ stop /\ To("end") /\ UNCHANGED unseen

(* The settings service is aborted, then the lease released.               *)
End ==
    /\ Sup("end")
    /\ server' = FALSE /\ request' = NoRequest
    /\ \/ ~Handle /\ To("ended") /\ UNCHANGED lease
       \/ Handle /\ lease' = "none" /\ To("ended")
       \/ /\ Handle /\ lease' = "unconfirmed"
          /\ sup' = [sup EXCEPT !.pc = "ended", !.ok = FALSE]
    /\ UNCHANGED <<sessionVars, st, unseen, requests, main, stop, clean, faults>>

Supervisor ==
    \/ Probed \/ Top \/ Release \/ IdleWait \/ Pkcheck \/ Unauthorized \/ Start \/ SessionDone
    \/ SessionWait \/ Judge \/ Pause \/ Backoff \/ End

-----------------------------------------------------------------------------
(* main, the helper and the listener of the settings service.              *)

mainOthers == <<sessionVars, managerVars, sup, lease, server, faults>>

(* A signal, or the supervisor ended: the select may see the signal first. *)
(* A supervisor that has finished by then is not asked for its result.     *)
Signalled ==
    /\ main.at = "run"
    /\ \/ main' = [at |-> IF Sup("ended") THEN "leave" ELSE "await", ok |-> TRUE]
       \/ Sup("ended") /\ main' = [at |-> "leave", ok |-> FALSE]
    /\ stop' = TRUE
    /\ UNCHANGED <<mainOthers, clean>>

(* The result of the supervisor, or seven seconds.                         *)
AwaitPoll ==
    /\ main.at = "await"
    /\ \/ Sup("ended") /\ main' = [main EXCEPT !.at = IF sup.ok THEN "leave" ELSE "exited"]
       \/ ~Sup("ended") /\ main' = [main EXCEPT !.at = "exited"]
    /\ UNCHANGED <<mainOthers, stop, clean>>

MarkClean ==
    /\ main.at = "leave"
    /\ main' = [main EXCEPT !.at = "exited"] /\ clean' = main.ok
    /\ UNCHANGED <<mainOthers, stop>>

Fault ==
    /\ faults < MaxFaults /\ faults' = faults + 1
    /\ \/ lease = "live" /\ lease' = "dead" /\ UNCHANGED server
       \/ server /\ server' = FALSE /\ UNCHANGED lease
    /\ UNCHANGED <<sessionVars, managerVars, sup, main, stop, clean>>

Main == Signalled \/ AwaitPoll \/ MarkClean

Session == SessionStep /\ UNCHANGED <<managerVars, daemonVars>>

Next ==
    /\ main.at # "exited"
    /\ \/ \E kind \in Kinds : BeginRequest(kind)
       \/ FinishRequest \/ RefuseRequest
       \/ Supervisor \/ Main \/ Fault \/ Session

Spec == Init /\ [][Next]_vars

Alive == main.at # "exited"

Proceed == SessionProceeds /\ UNCHANGED <<managerVars, daemonVars>>
Forwarding == Forward /\ UNCHANGED <<managerVars, daemonVars>>
Sending == SendEvent /\ UNCHANGED <<managerVars, daemonVars>>

(* The tasks of the daemon are run; a signal need not come.                *)
FairSpec ==
    /\ Spec
    /\ WF_vars(Alive /\ FinishRequest) /\ WF_vars(Alive /\ Supervisor)
    /\ WF_vars(Alive /\ AwaitPoll) /\ WF_vars(Alive /\ MarkClean)
    /\ WF_vars(Alive /\ Sup("ended") /\ Signalled)
    /\ WF_vars(Alive /\ Proceed) /\ WF_vars(Alive /\ Forwarding) /\ WF_vars(Alive /\ Sending)

-----------------------------------------------------------------------------
(* The lease covers the session: the USB configuration lease is taken      *)
(* before a session claims anything and given back only after it has given *)
(* up the lock, the mux and the bridge (argo-carplayd.rs: the lease        *)
(* outlives the session future on every way out of the loop).              *)
LeaseCoversSession ==
    UsbLease /\ (ses.at \notin {"none", "done"} \/ res.lock \/ res.mux = "live") => Handle

(* "Explicit disconnect pauses retries": whatever the supervisor was doing *)
(* when the switch went off, in the end there is no session and the lease  *)
(* is given back, unless it is switched on again or the daemon exits.      *)
DisconnectEnds ==
    (~st.running /\ Alive) ~> (\/ ses.at = "none" /\ ~Handle
                               \/ st.running \/ ~Alive)

(* Hiding the projection lets go: when it is hidden, the phone does not    *)
(* hold a contact pressed for ever, or the session ends.                   *)
HiddenReleases ==
    (Live /\ ~pre.visible /\ contacts # {})
        ~> (contacts = {} \/ pre.visible \/ ~Live \/ ~Alive)
=============================================================================
