--------------------------- MODULE WirelessWorker ---------------------------
(***************************************************************************)
(* The connectivity worker of argo-projectiond (wireless.rs run and        *)
(* process_request) around the attempt task of WirelessAttempt: the one    *)
(* control client of ipc_server.rs, its bounded request queue              *)
(* (connectivity/mod.rs), client closure, explicit application exit        *)
(* (stopAll) and Bluetooth loss.                                           *)
(*                                                                         *)
(* Requests of the discovery, pairing, adapter, music, call and microphone *)
(* features are not modelled; the two controllers that stopAll asks to     *)
(* stop are external.                                                      *)
(***************************************************************************)
EXTENDS WirelessAttempt

CONSTANTS QueueCapacity,  \* mpsc::channel(16) in the code
          MaxRequests,    \* bound on the requests of one behaviour
          MaxQuits,       \* bound on stopAll requests
          MaxClients      \* bound on client connections

ASSUME WorkerAssumption ==
    /\ QueueCapacity \in Nat \ {0}
    /\ MaxRequests \in Nat
    /\ MaxQuits \in Nat
    /\ MaxClients \in Nat

VARIABLES
    worker,     \* where the worker's loop is
    queue,      \* Control.requests
    client,     \* the control client and its departure
    quit,       \* stopping, stopped, last operation, controller answers
    allow,      \* projection_enabled, enabled, wireless_disabled, available
    iface,      \* the interface selected for the next connection
    sent        \* requests so far

workerVars == <<worker, queue, client, quit, allow, iface, sent>>
vars == <<attemptVars, workerVars>>

-----------------------------------------------------------------------------
Controllers == {"music", "calls"}

Request == [a : {"projectionEnabled", "enable"}, v : BOOLEAN]
           \cup [a : {"interface"}, v : Interfaces]
           \cup [a : {"connect", "disconnect", "forget"}, v : {0}]

StopAll(op) == [a |-> "stopAll", v |-> op]

(* The worker awaits a.stop() before it goes on with what is named here.   *)
Reason == {"closed", "enable", "disconnect", "forget", "command", "stopAll",
           "bluetooth", "shutdown"}

WorkerState == [at : {"select", "join", "stopWait", "stopLease", "exited"},
                why : Reason \cup {"none"}]

Answer == [op : 0 .. MaxQuits, err : BOOLEAN]

Requests == Request \cup {StopAll(op) : op \in 1 .. MaxQuits}

ClientState == [on : BOOLEAN, leaving : BOOLEAN, closed : BOOLEAN,
                count : 0 .. MaxClients]

Exit == [stopping : BOOLEAN, stopped : 0 .. MaxQuits, last : 0 .. MaxQuits,
         op : 0 .. MaxQuits, answer : [Controllers -> Answer]]

Allowance == [proj : BOOLEAN, on : BOOLEAN, off : BOOLEAN, avail : BOOLEAN]

WorkerTypeOK ==
    /\ worker \in WorkerState
    /\ queue \in Seq(Requests) /\ Len(queue) <= QueueCapacity
    /\ client \in ClientState /\ quit \in Exit /\ allow \in Allowance
    /\ iface \in Interfaces
    /\ sent \in 0 .. MaxRequests

(* Every component of the worker and of its attempt keeps its type, and    *)
(* the request queue never exceeds its capacity.                           *)
TypeOK == AttemptTypeOK /\ WorkerTypeOK

Init ==
    /\ AttemptInit
    /\ worker = [at |-> "select", why |-> "none"]
    /\ queue = <<>>
    /\ client = [on |-> FALSE, leaving |-> FALSE, closed |-> FALSE,
                 count |-> 0]
    /\ quit = [stopping |-> FALSE, stopped |-> 0, last |-> 0, op |-> 0,
               answer |-> [c \in Controllers |-> [op |-> 0, err |-> FALSE]]]
    /\ allow \in [proj : BOOLEAN, on : {FALSE}, off : {FALSE},
                  avail : {FALSE}]
    /\ iface \in Interfaces
    /\ sent = 0

-----------------------------------------------------------------------------
(* The control client (handle_client).  On departure the client lease is   *)
(* dropped before ClientCleanup runs, so a successor may come in between.  *)

ClientHello ==
    /\ ~client.on /\ client.count < MaxClients
    /\ client' = [client EXCEPT !.on = TRUE, !.count = @ + 1]
    /\ quit' = [quit EXCEPT !.stopping = FALSE, !.stopped = 0]
    /\ UNCHANGED <<attemptVars, worker, queue, allow, iface, sent>>

ClientLeaves ==
    /\ client.on /\ ~client.leaving
    /\ client' = [client EXCEPT !.on = FALSE, !.leaving = TRUE]
    /\ UNCHANGED <<attemptVars, worker, queue, quit, allow, iface, sent>>

ClientCleanup ==
    /\ client.leaving
    /\ client' = [client EXCEPT !.leaving = FALSE, !.closed = TRUE]
    /\ allow' = [allow EXCEPT !.proj = FALSE]
    /\ UNCHANGED <<attemptVars, worker, queue, quit, iface, sent>>

(* Control::request.                                                       *)
Send(r) ==
    /\ client.on /\ ~quit.stopping
    /\ sent < MaxRequests
    /\ Len(queue) < QueueCapacity
    /\ queue' = Append(queue, r)
    /\ sent' = sent + 1
    /\ UNCHANGED <<attemptVars, worker, client, quit, allow, iface>>

SendStopAll ==
    /\ client.on /\ quit.last < MaxQuits
    /\ quit' = [quit EXCEPT !.stopping = TRUE, !.last = @ + 1]
    /\ queue' = IF Len(queue) < QueueCapacity
                THEN Append(queue, StopAll(quit.last + 1)) ELSE queue
    /\ UNCHANGED <<attemptVars, worker, client, allow, iface, sent>>

-----------------------------------------------------------------------------
(* The worker.                                                             *)

AtSelect == worker.at = "select"

(* activity.take() and a.stop(): the task is told to stop, and joined.     *)
Join(why) ==
    /\ worker' = [at |-> "join", why |-> why]
    /\ act' = [act EXCEPT !.cancel = TRUE]

rest == <<ap, guards, marker, nm, adm, lease, paired, snap>>

(* Mutant: closure disables projection but leaves the attempt running.     *)
ClientClosedOnly ==
    /\ AtSelect /\ client.closed
    /\ client' = [client EXCEPT !.closed = FALSE]
    /\ allow' = [allow EXCEPT !.proj = FALSE]
    /\ queue' = <<>>
    /\ UNCHANGED <<attemptVars, worker, quit, iface, sent>>

ClientClosed ==
    /\ AtSelect /\ client.closed
    /\ client' = [client EXCEPT !.closed = FALSE]
    /\ allow' = [allow EXCEPT !.proj = FALSE]
    /\ queue' = <<>>
    /\ Join("closed")
    /\ UNCHANGED <<rest, conn, quit, iface, sent>>

(* A projection command of the host, for the wireless session on show.     *)
DisconnectCommand ==
    /\ AtSelect /\ client.on /\ snap.by = "wifi"
    /\ Join("command")
    /\ UNCHANGED <<rest, conn, queue, client, quit, allow, iface, sent>>

(* The two second tick: Bluetooth is gone, or a finished task is reaped.   *)
BluetoothLost ==
    /\ AtSelect
    /\ Join("bluetooth")
    /\ UNCHANGED <<rest, conn, queue, client, quit, allow, iface, sent>>

Shutdown ==
    /\ AtSelect
    /\ Join("shutdown")
    /\ UNCHANGED <<rest, conn, queue, client, quit, allow, iface, sent>>

Reap ==
    /\ AtSelect /\ act.pc = "done"
    /\ act' = NoAttempt
    /\ UNCHANGED <<rest, conn, workerVars>>

(* update_networks: availability never overrides an explicit Disable.      *)
Busy == conn.wifi \/ conn.phase \in {"preparing", "bootstrap", "connecting",
                                     "streaming", "backoff", "cleanup"}

Inventory(avail) ==
    LET on == IF Busy THEN allow.on
              ELSE avail /\ ~allow.off /\ allow.proj
    IN  /\ AtSelect
        /\ allow' = [allow EXCEPT !.avail = avail, !.on = on]
        /\ conn' = [conn EXCEPT !.phase =
                       IF ~Busy /\ @ = "disabled" /\ on THEN "idle" ELSE @]
        /\ UNCHANGED <<act, rest, worker, queue, client, quit, iface, sent>>

(* The inventory fails: nothing is available.                              *)
InventoryFails ==
    /\ AtSelect
    /\ allow' = [allow EXCEPT !.avail = FALSE,
                              !.on = IF conn.wifi THEN @ ELSE FALSE]
    /\ UNCHANGED <<attemptVars, worker, queue, client, quit, iface, sent>>

Take(a) ==
    /\ AtSelect /\ ~client.closed
    /\ queue # <<>> /\ Head(queue).a = a
    /\ queue' = Tail(queue)

Skipped ==
    /\ AtSelect /\ ~client.closed /\ quit.stopping
    /\ queue # <<>> /\ Head(queue).a # "stopAll"
    /\ queue' = Tail(queue)
    /\ UNCHANGED <<attemptVars, worker, client, quit, allow, iface, sent>>

ProjectionEnabled ==
    /\ Take("projectionEnabled") /\ ~quit.stopping
    /\ LET v == Head(queue).v
       IN  allow' = IF ~v /\ snap.st # "none" THEN allow
                    ELSE [allow EXCEPT !.proj = v, !.off = FALSE,
                                       !.on = v /\ allow.avail]
    /\ UNCHANGED <<attemptVars, worker, client, quit, iface, sent>>

SelectInterface ==
    /\ Take("interface") /\ ~quit.stopping
    /\ iface' = Head(queue).v
    /\ UNCHANGED <<attemptVars, worker, client, quit, allow, sent>>

Enable ==
    /\ Take("enable") /\ ~quit.stopping
    /\ LET v == Head(queue).v
       IN  \/ /\ v /\ ~allow.avail
              /\ UNCHANGED <<attemptVars, worker, allow>>
           \/ /\ v /\ allow.avail
              /\ allow' = [allow EXCEPT !.on = TRUE, !.off = FALSE]
              /\ Phase("idle")
              /\ UNCHANGED <<act, rest, worker>>
           \/ /\ ~v
              /\ allow' = [allow EXCEPT !.on = FALSE, !.off = TRUE]
              /\ Join("enable")
              /\ UNCHANGED <<rest, conn>>
    /\ UNCHANGED <<client, quit, iface, sent>>

Disconnect(a) ==
    /\ Take(a) /\ ~quit.stopping
    /\ Join(a)
    /\ UNCHANGED <<rest, conn, client, quit, allow, iface, sent>>

ConnectAllowed == /\ allow.proj
                  /\ act.pc = "none"
                  /\ allow.on
                  /\ paired
                  /\ lease = "free"

Connect ==
    /\ Take("connect") /\ ~quit.stopping
    /\ IF ConnectAllowed THEN StartAttempt(iface)
                         ELSE UNCHANGED attemptVars
    /\ UNCHANGED <<worker, client, quit, allow, iface, sent>>

(* Mutant: exit leaves projection enabled.                                 *)
StopAllStillEnabled ==
    /\ Take("stopAll")
    /\ allow' = [allow EXCEPT !.on = FALSE, !.off = TRUE]
    /\ quit' = [quit EXCEPT !.stopped = 0, !.op = Head(queue).v]
    /\ Join("stopAll")
    /\ Phase("cleanup")
    /\ UNCHANGED <<rest, client, iface, sent>>

StopAllTaken ==
    /\ Take("stopAll")
    /\ allow' = [allow EXCEPT !.proj = FALSE, !.on = FALSE, !.off = TRUE]
    /\ quit' = [quit EXCEPT !.stopped = 0, !.op = Head(queue).v]
    /\ Join("stopAll")
    /\ Phase("cleanup")
    /\ UNCHANGED <<rest, client, iface, sent>>

(* The task has ended: what follows the await.  Removing the bond or the   *)
(* stored credentials may fail, which leaves the phase as it is.           *)
Joined ==
    /\ worker.at = "join" /\ act.pc \in {"none", "done"}
    /\ act' = NoAttempt
    /\ worker' = CASE worker.why = "stopAll" ->
                        [at |-> "stopWait", why |-> "none"]
                   [] worker.why \in {"bluetooth", "shutdown"} ->
                        [at |-> "exited", why |-> "none"]
                   [] OTHER -> [at |-> "select", why |-> "none"]
    /\ allow' = CASE worker.why = "closed" ->
                       [allow EXCEPT !.on = FALSE, !.off = TRUE]
                  [] worker.why = "bluetooth" -> [allow EXCEPT !.on = FALSE]
                  [] OTHER -> allow
    /\ \E fails \in IF worker.why = "forget" THEN BOOLEAN ELSE {FALSE} :
         /\ conn' = [conn EXCEPT !.phase =
              CASE worker.why \in {"closed", "enable"} -> "disabled"
                [] worker.why = "bluetooth" -> "unavailable"
                [] worker.why \in {"stopAll", "shutdown"} \/ fails -> @
                [] OTHER -> "disconnected"]
         /\ paired' \in IF fails THEN {paired, FALSE}
                        ELSE {paired /\ worker.why # "forget"}
    /\ UNCHANGED <<ap, guards, marker, nm, adm, lease, snap, queue, client,
                   quit, iface, sent>>

(* A controller has stopped, or could not.                                 *)
ControllerAnswers(c, err) ==
    /\ worker.at \in {"stopWait", "select"} /\ quit.answer[c].op < quit.op
    /\ quit' = [quit EXCEPT !.answer[c] = [op |-> quit.op, err |-> err]]
    /\ UNCHANGED <<attemptVars, worker, queue, client, allow, iface, sent>>

Answered(c) == quit.answer[c].op = quit.op
AnswerError == \E c \in Controllers : Answered(c) /\ quit.answer[c].err

(* Mutant: an error that a controller reports is not looked at.            *)
StopFailsLate ==
    /\ worker.at = "stopWait" /\ conn.error
    /\ worker' = [at |-> "select", why |-> "none"]
    /\ UNCHANGED <<attemptVars, queue, client, quit, allow, iface, sent>>

StopFails ==
    /\ worker.at = "stopWait"
    /\ AnswerError \/ conn.error
    /\ conn' = [conn EXCEPT !.error = TRUE]
    /\ worker' = [at |-> "select", why |-> "none"]
    /\ UNCHANGED <<act, rest, queue, client, quit, allow, iface, sent>>

(* All answered: wait for the lease, which USB gives up after its media.   *)
StopAcquires ==
    /\ worker.at = "stopWait"
    /\ \A c \in Controllers : Answered(c)
    /\ ~AnswerError /\ ~conn.error
    /\ lease = "free"
    /\ lease' = "stopAll"
    /\ worker' = [at |-> "stopLease", why |-> "none"]
    /\ UNCHANGED <<act, ap, guards, marker, nm, adm, paired, snap, conn,
                   queue, client, quit, allow, iface, sent>>

(* The phones are disconnected and the permit is dropped.                  *)
StopDone(ok) ==
    /\ worker.at = "stopLease"
    /\ lease' = "free"
    /\ worker' = [at |-> "select", why |-> "none"]
    /\ IF ok THEN /\ quit' = [quit EXCEPT !.stopped = quit.op]
                  /\ Phase("disabled")
             ELSE /\ conn' = [conn EXCEPT !.error = TRUE]
                  /\ UNCHANGED quit
    /\ UNCHANGED <<act, ap, guards, marker, nm, adm, paired, snap, queue,
                   client, allow, iface, sent>>

-----------------------------------------------------------------------------
Client == \/ ClientHello \/ ClientLeaves \/ ClientCleanup \/ SendStopAll
          \/ \E r \in Request : Send(r)

Worker == \/ ClientClosed \/ Reap \/ Skipped \/ ProjectionEnabled
          \/ SelectInterface \/ Enable \/ Connect \/ StopAllTaken
          \/ \E a \in {"disconnect", "forget"} : Disconnect(a)
          \/ Joined \/ StopFails \/ StopAcquires
          \/ \E ok \in BOOLEAN : StopDone(ok)

Events == \/ DisconnectCommand \/ BluetoothLost \/ Shutdown
          \/ InventoryFails
          \/ \E avail \in BOOLEAN : Inventory(avail)

AttemptStep(A) == A /\ UNCHANGED workerVars

Next ==
    \/ Client
    \/ Worker
    \/ Events
    \/ \E c \in Controllers, err \in BOOLEAN : ControllerAnswers(c, err)
    \/ AttemptStep(Progress)
    \/ AttemptStep(Cleanup)
    \/ AttemptStep(External)

Spec == Init /\ [][Next]_vars

(***************************************************************************)
(* Fairness.  The worker and the attempt task are scheduled by tokio and   *)
(* every await of the cleanup path is bounded (media.close is awaited, the *)
(* helper and the deactivation have timeouts), cancellation is polled      *)
(* first, both controllers answer every stop, ClientCleanup is a           *)
(* destructor, and USB gives the lease up when projection is disabled.     *)
(* Setup steps are fair only up to the first await that a cancellation     *)
(* interrupts.                                                             *)
(***************************************************************************)
Fairness ==
    /\ WF_vars(Worker)
    /\ SF_vars(StopAcquires)
    /\ WF_vars(ClientCleanup)
    /\ WF_vars(AttemptStep(Cleanup))
    /\ WF_vars(AttemptStep(act.cancel /\ Progress))
    /\ \A c \in Controllers :
         WF_vars(\E err \in BOOLEAN : ControllerAnswers(c, err))
    /\ WF_vars(AttemptStep(~allow.proj /\ UsbReleases))

FairSpec == Spec /\ Fairness

-----------------------------------------------------------------------------
(* Properties.                                                             *)

(* "A matching completion snapshot permits application exit": when the     *)
(* client that asked for stopAll sees its own operation confirmed, no      *)
(* attempt, listener, media or wireless session is left, the lease is not  *)
(* held for Wi-Fi, and nothing may start again.                            *)
QuitConfirmed ==
    quit.stopping /\ quit.stopped = quit.last /\ quit.last # 0 =>
        /\ act.pc = "none"
        /\ lease # "wifi"
        /\ snap.by # "wifi"
        /\ adm = NoAdmission
        /\ ~allow.proj
        /\ ~allow.on

(* Disconnect, Disable, Forget, client closure and shutdown end the        *)
(* attempt: the lease is given back after the task's cleanup.              *)
CancelReleases == (act.pc # "none" /\ act.cancel) ~> (lease # "wifi")

(* A departed client's projection is stopped, with a full queue and even   *)
(* when a successor has connected before its cleanup ran.                  *)
CloseReleases == client.leaving ~> (lease # "wifi")

(* Every stopAll the worker takes is answered: confirmed, or refused with  *)
(* a cleanup error, unless the client has gone or the worker exits.        *)
QuitAnswered ==
    \A op \in 1 .. MaxQuits :
        (quit.op = op /\ worker.at # "select")
            ~> (\/ quit.stopped = op \/ conn.error \/ ~client.on
                \/ client.count > 1)
=============================================================================
