--------------------------------- MODULE Calls ---------------------------------
(***************************************************************************)
(* The calls controller (connectivity/calls.rs) with the phonebook         *)
(* (connectivity/phonebook.rs), the client's cancellation generation, Quit *)
(* and the exit decision of main.rs, composed with Microphone: call audio  *)
(* is the third owner of the capture lease.                                *)
(*                                                                         *)
(* The controller is one task.  A refresh awaits the telephony service,    *)
(* the processes of the call audio and the claim; it is cut off by a       *)
(* timeout at any of them.  refresh, route and claim are those places.     *)
(***************************************************************************)
EXTENDS Microphone, Sequences, FiniteSets

CONSTANTS
    Phones,         \* paired phones
    NoPhone,
    Uses,           \* the kinds of request the application makes
    MaxRequests,    \* requests of the application
    QueueCap,       \* capacity of the controller's queue, 16 in the code
    Attempts,       \* profile requests per Connect, route attempts per call: 3 in the code
    MaxEvents       \* changes of phones, telephony service and bonds

Kinds == {"connect", "disconnect", "audio", "dial", "command", "import", "clear"}

ASSUME CallsAssumption ==
    /\ NoPhone \notin Phones /\ MaxRequests \in Nat /\ MaxEvents \in Nat
    /\ QueueCap \in Nat \ {0} /\ Attempts \in Nat \ {0} /\ Uses \subseteq Kinds

VARIABLES
    ctl,        \* Controller and the place of its loop
    dup,        \* Duplex: the owned call audio routes
    book,       \* Book and its import task
    tel,        \* PipeWire telephony service and the phones behind it
    muted,      \* shared microphone mute
    client,     \* request queue, cancellation generation, requests made
    quit,       \* stopAll in the worker
    exit        \* the daemon's end

callVars == <<ctl, dup, book, tel, muted, client, quit, exit>>
vars == <<micVars, callVars>>

Target == Phones \cup {NoPhone}
Request == [kind : Kinds, phone : Target, gen : 0..MaxRequests + 1, fresh : BOOLEAN]
Nothing == [kind |-> "clear", phone |-> NoPhone, gen |-> 0, fresh |-> FALSE]

(* The callsDisconnect that carries the operation id of Quit.              *)
QuitRequest == [kind |-> "disconnect", phone |-> NoPhone, gen |-> 0, fresh |-> FALSE]

ControllerState ==
    [at : {"loop", "refresh", "route", "claim", "finish", "stopped"},
     by : {"tick", "request"}, req : Request, err : BOOLEAN,
     wanted : BOOLEAN, attempts : 0..Attempts, tries : 0..Attempts,
     device : Target, gateway : Target, known : BOOLEAN, listed : SUBSET Phones,
     phase : {"idle", "connecting", "connected", "disconnected", "unavailable"}]

BookState == [job : {"none", "fetch", "fetched", "done"}, of : Target, got : BOOLEAN,
              bad : BOOLEAN, entries : Target, blocked : BOOLEAN]

Telephony == [up : BOOLEAN, ag : SUBSET Phones, allowed : SUBSET Phones, signal : BOOLEAN,
              call : [Phones -> {"none", "incoming", "active"}], events : 0..MaxEvents]

ClientState == [reqs : Seq(Request), gen : 0..MaxRequests + 1, seen : 0..MaxRequests + 1,
                made : 0..MaxRequests]

TypeOK ==
    /\ MicTypeOK
    /\ ctl \in ControllerState
    /\ dup \in {"none", "open", "muted"}
    /\ book \in BookState
    /\ tel \in Telephony
    /\ muted \in BOOLEAN
    /\ client \in ClientState /\ Len(client.reqs) <= QueueCap
    /\ quit \in {"none", "test", "calls", "answered", "stopped", "failed"}
    /\ exit \in [at : {"none", "down", "clean", "uncertain"}, error : BOOLEAN]

Init ==
    /\ MicInit
    /\ ctl = [at |-> "loop", by |-> "tick", req |-> Nothing, err |-> FALSE,
              wanted |-> FALSE, attempts |-> 0, tries |-> 0, device |-> NoPhone,
              gateway |-> NoPhone, known |-> FALSE, listed |-> {}, phase |-> "idle"]
    /\ dup = "none"
    /\ book = [job |-> "none", of |-> NoPhone, got |-> FALSE, bad |-> FALSE,
               entries |-> NoPhone, blocked |-> FALSE]
    /\ \E a \in SUBSET Phones, g \in SUBSET Phones, s \in {"none", "active"} :
           tel = [up |-> TRUE, ag |-> g, allowed |-> a, signal |-> FALSE, events |-> 0,
                  call |-> [p \in Phones |-> IF p \in g THEN s ELSE "none"]]
    /\ muted = FALSE
    /\ client = [reqs |-> <<>>, gen |-> 0, seen |-> 0, made |-> 0]
    /\ quit = "none" /\ exit = [at |-> "none", error |-> FALSE]

Stopping == quit # "none"

-----------------------------------------------------------------------------
(* The application: Control::request, clientClosed.                        *)

(* callsDisconnect revokes what was requested before it; a request is      *)
(* stamped with the generation of the moment.  A full queue refuses.       *)
Submit(kind, p) ==
    /\ exit.at = "none" /\ ~Stopping /\ test.at # "claim"
    /\ client.made < MaxRequests /\ Len(client.reqs) < QueueCap
    /\ kind = "command" => p \in ctl.listed
    /\ LET g == IF kind = "disconnect" THEN client.gen + 1 ELSE client.gen
       IN client' = [client EXCEPT !.reqs = Append(@, [kind |-> kind, phone |-> p,
                                                       gen |-> g, fresh |-> TRUE]),
                                   !.gen = g, !.made = @ + 1]
    /\ UNCHANGED <<ctl, dup, book, tel, muted, quit, exit, micVars>>

(* The application goes away: the input test and the calls are ended.     *)
ClientCloses ==
    /\ exit.at = "none" /\ quit \in {"none", "stopped", "failed"} /\ test.at # "claim"
    /\ client.made < MaxRequests
    /\ client' = [client EXCEPT !.gen = @ + 1, !.made = @ + 1,
                                !.reqs = IF Len(@) < QueueCap
                                         THEN Append(@, [QuitRequest EXCEPT !.fresh = TRUE]) ELSE @]
    /\ test' = stop_test
    /\ UNCHANGED <<ctl, dup, book, tel, muted, quit, exit,
                   lease, child, aa, credit, owed, carplays, faults>>

SetMuted ==
    /\ exit.at = "none" /\ ~Stopping /\ client.made < MaxRequests
    /\ muted' = ~muted
    /\ client' = [client EXCEPT !.made = @ + 1]
    /\ UNCHANGED <<ctl, dup, book, tel, quit, exit, micVars>>

-----------------------------------------------------------------------------
(* Book: clear, start, poll and the import task.                           *)

(* Mutant: the contacts outlive the import they came from.                 *)
ClearedJob(bad) == [book EXCEPT !.job = "none", !.of = NoPhone, !.got = FALSE,
                                !.bad = FALSE, !.blocked = @ \/ bad]

Cleared(bad) == [job |-> "none", of |-> NoPhone, got |-> FALSE, bad |-> FALSE,
                 entries |-> NoPhone, blocked |-> book.blocked \/ bad]

(* clear() cancels and joins the import; its OBEX cleanup may be uncertain *)
ClearBook ==
    \E bad \in CASE book.job = "none" -> {FALSE}
                 [] book.job = "done" -> {book.bad}
                 [] OTHER -> BOOLEAN :
        book' = Cleared(bad)

(* A timeout cuts clear() while it joins: the handle is kept.              *)
CancelledBook == [book EXCEPT !.entries = NoPhone,
                              !.got = @ /\ book.job # "fetch"]

Polled ==
    IF book.job # "done" THEN book
    ELSE [Cleared(book.bad) EXCEPT !.entries = IF ~book.bad /\ book.got THEN book.of ELSE NoPhone]

Importing == [Cleared(FALSE) EXCEPT !.job = "fetch", !.of = ctl.device, !.got = TRUE]

(* fetch: session, select, pull, parse; an error leaves nothing.           *)
ImportFetches ==
    /\ book.job = "fetch"
    /\ \E g \in {book.got, FALSE} : book' = [book EXCEPT !.job = "fetched", !.got = g]
    /\ UNCHANGED <<ctl, dup, tel, muted, client, quit, exit, micVars>>

(* RemoveSession and closing the bus, each with two seconds.               *)
ImportCleans ==
    /\ book.job = "fetched"
    /\ \/ book' = [book EXCEPT !.job = "done"] /\ UNCHANGED faults
       \/ Fault /\ book' = [book EXCEPT !.job = "done", !.bad = TRUE]
    /\ UNCHANGED <<ctl, dup, tel, muted, client, quit, exit,
                   lease, child, aa, credit, owed, test, carplays>>

-----------------------------------------------------------------------------
(* Controller::silence: close the processes, then drop the Duplex.         *)

SilenceDone ==
    /\ dup' = "none"
    /\ IF dup = "none" THEN UNCHANGED <<lease, child>> ELSE CloseReaped("bluetoothCall")
    /\ UNCHANGED faults

SilenceFails ==
    /\ dup # "none" /\ Fault
    /\ UNCHANGED <<dup, lease, child>>

(* What silence and the lease operations leave alone.                      *)
otherMic == <<aa, credit, owed, test, carplays>>

authorized == ctl.device \in tel.allowed

(* The epoch is part of every call id: queued targets become stale.        *)
Stale(reqs) == [i \in DOMAIN reqs |-> [reqs[i] EXCEPT !.fresh = @ /\ reqs[i].kind # "command"]]
NewEpoch == [client EXCEPT !.reqs = Stale(@)]

AtLoop == ctl.at = "loop" /\ exit.at = "none"
Quiet == AtLoop /\ ~tel.signal /\ client.seen = client.gen

Signal ==
    /\ AtLoop /\ tel.signal
    /\ tel' = [tel EXCEPT !.signal = FALSE]
    /\ ctl' = [ctl EXCEPT !.listed = {}]
    /\ client' = NewEpoch
    /\ UNCHANGED <<dup, book, muted, quit, exit, micVars>>

Cancelled ==
    /\ AtLoop /\ ~tel.signal /\ client.seen # client.gen
    /\ client' = [client EXCEPT !.seen = client.gen]
    /\ ctl' = [ctl EXCEPT !.wanted = FALSE]
    /\ ClearBook
    /\ SilenceDone \/ SilenceFails
    /\ UNCHANGED <<tel, muted, quit, exit, otherMic>>

(* The one second tick: phonebook, then refresh().                         *)
Tick ==
    /\ Quiet /\ client.reqs = <<>>
    /\ IF authorized THEN book' = Polled ELSE ClearBook
    /\ ctl' = [ctl EXCEPT !.at = "refresh"]
    /\ UNCHANGED <<dup, tel, muted, client, quit, exit, micVars>>

-----------------------------------------------------------------------------
(* Controller::refresh.                                                    *)

Finish(c, err) == [c EXCEPT !.at = "finish", !.err = err]

(* check_owner failed, or closing the audio of the former service did.     *)
ServiceLost(c) ==
    LET n == IF c.attempts < Attempts THEN c.attempts + 1 ELSE Attempts
    IN Finish([c EXCEPT !.gateway = NoPhone, !.listed = {},
                        !.attempts = IF c.wanted THEN n ELSE @,
                        !.wanted = @ /\ n < Attempts], TRUE)

RefreshService ==
    /\ ctl.at = "refresh" /\ ~tel.up
    /\ ctl' = ServiceLost(ctl)
    /\ ClearBook
    /\ UNCHANGED <<dup, tel, muted, client, quit, exit, micVars>>

RefreshOwner ==
    /\ ctl.at = "refresh" /\ tel.up /\ ~ctl.known
    /\ client' = NewEpoch
    /\ LET c == [ctl EXCEPT !.known = TRUE, !.gateway = NoPhone, !.listed = {}]
       IN \/ SilenceDone /\ ctl' = c /\ UNCHANGED book
          \/ SilenceFails /\ ctl' = ServiceLost(c) /\ ClearBook
    /\ UNCHANGED <<tel, muted, quit, exit, otherMic>>

InRefresh == ctl.at = "refresh" /\ tel.up /\ ctl.known

RefreshObjectsFail ==
    /\ InRefresh /\ Fault
    /\ ctl' = Finish([ctl EXCEPT !.gateway = NoPhone, !.listed = {}], TRUE)
    /\ client' = NewEpoch
    /\ ClearBook
    /\ UNCHANGED <<dup, tel, muted, quit, exit, lease, child, otherMic>>

RefreshUnwanted ==
    /\ InRefresh
    /\ \/ ~ctl.wanted /\ ctl' = Finish(ctl, FALSE)
       \/ ctl.wanted /\ ~authorized /\ ctl' = Finish([ctl EXCEPT !.wanted = FALSE], TRUE)
    /\ UNCHANGED <<dup, book, tel, muted, client, quit, exit, micVars>>

(* No gateway of the phone: at most three profile requests, with backoff.  *)
RefreshNoGateway ==
    /\ InRefresh /\ ctl.wanted /\ authorized /\ ctl.device \notin tel.ag
    /\ ClearBook
    /\ LET c == [ctl EXCEPT !.listed = {}, !.gateway = NoPhone, !.phase = "connecting"]
       IN \/ SilenceFails /\ ctl' = Finish(ctl, TRUE)
          \/ /\ SilenceDone
             /\ \/ c.attempts >= Attempts /\ ctl' = Finish([c EXCEPT !.wanted = FALSE], TRUE)
                \/ c.attempts < Attempts /\ ctl' = Finish(c, FALSE)
                \/ /\ c.attempts < Attempts
                   /\ \E w \in BOOLEAN, err \in BOOLEAN :
                          /\ ~w => err
                          /\ ctl' = Finish([c EXCEPT !.attempts = @ + 1, !.wanted = w], err)
    /\ UNCHANGED <<tel, muted, client, quit, exit, otherMic>>

RefreshGateway ==
    /\ InRefresh /\ ctl.wanted /\ authorized /\ ctl.device \in tel.ag
    /\ ctl.gateway # ctl.device
    /\ \/ SilenceFails /\ ctl' = Finish(ctl, TRUE) /\ UNCHANGED client
       \/ /\ SilenceDone /\ client' = NewEpoch
          /\ ctl' = [ctl EXCEPT !.gateway = ctl.device, !.tries = 0]
    /\ UNCHANGED <<book, tel, muted, quit, exit, otherMic>>

(* Mutant: the end of the call is left to the routes' own watch.           *)
RefreshCallsOnly ==
    /\ InRefresh /\ ctl.wanted /\ authorized /\ ctl.device \in tel.ag
    /\ ctl.gateway = ctl.device
    /\ LET now == {ctl.device} \cap {p \in Phones : tel.call[p] # "none"}
           c == [ctl EXCEPT !.phase = "connected", !.listed = now]
       IN ctl' = IF tel.call[ctl.device] = "active" THEN [c EXCEPT !.at = "route"]
                 ELSE Finish(c, FALSE)
    /\ UNCHANGED <<dup, book, tel, muted, client, quit, exit, micVars>>

(* The calls of the gateway are listed; without an active one the audio is *)
(* closed, with one it is looked after in route.                           *)
RefreshCalls ==
    /\ InRefresh /\ ctl.wanted /\ authorized /\ ctl.device \in tel.ag
    /\ ctl.gateway = ctl.device
    /\ LET now == {ctl.device} \cap {p \in Phones : tel.call[p] # "none"}
           c == [ctl EXCEPT !.phase = "connected", !.listed = now,
                            !.tries = IF ctl.listed = {} /\ now # {} THEN 0 ELSE @]
       IN \/ /\ tel.call[ctl.device] = "active"
             /\ ctl' = [c EXCEPT !.at = "route"] /\ UNCHANGED <<dup, lease, child, faults>>
          \/ /\ tel.call[ctl.device] # "active"
             /\ \/ SilenceDone /\ ctl' = Finish(c, FALSE)
                \/ SilenceFails /\ ctl' = Finish(c, TRUE)
    /\ UNCHANGED <<book, tel, muted, client, quit, exit, otherMic>>

(* Mutant: a change of mute does not count as a change of the routes.      *)
RoutesMatchAlways == TRUE

(* The owned routes are those of the current mute state.                   *)
RoutesMatch == (dup = "muted") = muted

(* Mute or the host output changed: the routes are rebuilt.                *)
RouteChanged ==
    /\ ctl.at = "route" /\ dup # "none"
    /\ \/ ~RoutesMatch /\ UNCHANGED tel
       \/ tel.events < MaxEvents /\ tel' = [tel EXCEPT !.events = @ + 1]
    /\ \/ SilenceDone /\ ctl' = [ctl EXCEPT !.tries = 0]
       \/ SilenceFails /\ ctl' = Finish(ctl, TRUE)
    /\ UNCHANGED <<book, muted, client, quit, exit, otherMic>>

(* A process or an SCO node is gone.                                       *)
RouteGone ==
    /\ ctl.at = "route" /\ dup # "none" /\ RoutesMatch
    /\ child["bluetoothCall"] = "ended" \/ ctl.device \notin tel.ag
    /\ SilenceDone \/ SilenceFails
    /\ ctl' = Finish(ctl, TRUE)
    /\ UNCHANGED <<book, tel, muted, client, quit, exit, otherMic>>

(* The links are ready or awaited, or another client took the route.       *)
RouteWatched ==
    /\ ctl.at = "route" /\ dup # "none" /\ RoutesMatch
    /\ child["bluetoothCall"] = "running"
    /\ \/ ctl' = Finish(ctl, FALSE) /\ UNCHANGED faults
       \/ Fault /\ ctl' = Finish(ctl, TRUE)
    /\ UNCHANGED <<dup, book, tel, muted, client, quit, exit, lease, child, otherMic>>

RouteClaims ==
    /\ ctl.at = "route" /\ dup = "none"
    /\ \/ ctl.tries >= Attempts /\ ctl' = Finish(ctl, FALSE) /\ UNCHANGED lease
       \/ /\ ctl.tries < Attempts /\ CanClaim
          /\ lease' = Acquired("bluetoothCall")
          /\ ctl' = [ctl EXCEPT !.at = "claim", !.tries = @ + 1]
       \/ /\ ctl.tries < Attempts /\ ~CanClaim
          /\ ctl' = Finish([ctl EXCEPT !.tries = @ + 1], TRUE) /\ UNCHANGED lease
    /\ UNCHANGED <<dup, book, tel, muted, client, quit, exit, child, faults, otherMic>>

(* claim returns, SCO is activated and the loopback processes start.       *)
RouteOpens ==
    /\ ctl.at = "claim"
    /\ \/ /\ lease' = Claimed("bluetoothCall")
          /\ child' = [child EXCEPT !["bluetoothCall"] = "running"]
          /\ dup' = IF muted THEN "muted" ELSE "open"
          /\ ctl' = Finish(ctl, FALSE) /\ UNCHANGED faults
       \/ /\ lease' = Unclaimed
          /\ ctl' = Finish(ctl, TRUE) /\ UNCHANGED <<dup, child, faults>>
    /\ UNCHANGED <<book, tel, muted, client, quit, exit, otherMic>>

(* Activation, a missing node or spawn fails; a second process that cannot *)
(* start while the first cannot be reaped leaves it behind.                *)
RouteFails ==
    /\ ctl.at = "claim" /\ Fault
    /\ \/ lease' = Released /\ UNCHANGED child
       \/ /\ lease' = Poisoned
          /\ child' = [child EXCEPT !["bluetoothCall"] = "running"]
    /\ ctl' = Finish(ctl, TRUE)
    /\ UNCHANGED <<dup, book, tel, muted, client, quit, exit, otherMic>>

(* Four or eight seconds have passed at an await of refresh().             *)
RefreshTimesOut ==
    /\ ctl.at \in {"refresh", "route", "claim"} /\ Fault
    /\ lease' = IF ctl.at = "claim" THEN Released ELSE lease
    /\ book' \in {book, CancelledBook}
    /\ ctl' = Finish(ctl, TRUE)
    /\ UNCHANGED <<dup, tel, muted, client, quit, exit, child, otherMic>>

-----------------------------------------------------------------------------
(* The end of a tick and of a request.                                     *)

Phase(c) == IF c.wanted /\ c.gateway # NoPhone THEN "connected"
            ELSE IF c.wanted THEN "connecting" ELSE "unavailable"

(* The place is left; what was handled is forgotten.                       *)
Back(c) == [c EXCEPT !.at = "loop", !.by = "tick", !.req = Nothing, !.err = FALSE]

TickFailed(c) ==
    [Back(c) EXCEPT !.phase = Phase(c),
              !.listed = IF Phase(c) = "connected" THEN @ ELSE {}]

FinishTick ==
    /\ ctl.at = "finish" /\ ctl.by = "tick"
    /\ \/ /\ ~ctl.err /\ ctl' = Back(ctl)
          /\ UNCHANGED <<dup, lease, child, faults>>
       \/ /\ ctl.err
          /\ \/ SilenceDone /\ ctl' = TickFailed(ctl)
             \/ SilenceFails /\ ctl' = TickFailed([ctl EXCEPT !.wanted = FALSE])
    /\ UNCHANGED <<book, tel, muted, client, quit, exit, otherMic>>

Revoked(r) == r.kind # "disconnect" /\ r.gen # client.gen

(* A request that was revoked while it ran is undone; Quit reads its own.  *)
FinishRequest ==
    /\ ctl.at = "finish" /\ ctl.by = "request"
    /\ IF Revoked(ctl.req)
       THEN /\ ctl' = [Back(ctl) EXCEPT !.wanted = FALSE]
            /\ ClearBook
            /\ SilenceDone \/ SilenceFails
       ELSE /\ ctl' = Back(ctl)
            /\ UNCHANGED <<book, dup, lease, child, faults>>
    /\ quit' = IF quit = "calls" /\ ctl.req = QuitRequest
               THEN IF ctl.err THEN "failed" ELSE "answered" ELSE quit
    /\ UNCHANGED <<tel, muted, client, exit, otherMic>>

-----------------------------------------------------------------------------
(* Controller::request.                                                    *)

Next1(kinds) == /\ Quiet /\ client.reqs # <<>>
                /\ Head(client.reqs).kind \in kinds
Popped == [client EXCEPT !.reqs = Tail(@)]
Skipped(r) == r.kind # "disconnect" /\ (r.gen # client.gen \/ Stopping)
Taken == [ctl EXCEPT !.by = "request", !.req = Head(client.reqs)]

SkipRequest ==
    /\ Next1(Kinds) /\ Skipped(Head(client.reqs))
    /\ client' = Popped
    /\ UNCHANGED <<ctl, dup, book, tel, muted, quit, exit, micVars>>

Accept(kinds) == Next1(kinds) /\ ~Skipped(Head(client.reqs))

Connect ==
    /\ Accept({"connect"})
    /\ ClearBook
    /\ LET p == Head(client.reqs).phone
           c == [Taken EXCEPT !.device = p]
       IN \/ SilenceFails /\ ctl' = Finish(Taken, TRUE) /\ client' = Popped
          \/ /\ SilenceDone
             /\ \/ p \notin tel.allowed /\ ctl' = Finish(c, TRUE) /\ client' = Popped
                \/ /\ p \in tel.allowed
                   /\ ctl' = [c EXCEPT !.at = "refresh", !.err = FALSE, !.wanted = TRUE,
                                       !.attempts = 0, !.tries = 0, !.gateway = NoPhone]
                   /\ client' = [Popped EXCEPT !.reqs = Stale(@)]
    /\ UNCHANGED <<tel, muted, quit, exit, otherMic>>

(* Mutant: the audio is left to the cancellation, which has run already.   *)
DisconnectOnly ==
    /\ Accept({"disconnect"})
    /\ client' = Popped
    /\ ClearBook
    /\ ctl' = Finish([Taken EXCEPT !.wanted = FALSE, !.device = NoPhone, !.listed = {},
                                   !.gateway = NoPhone, !.phase = "disconnected"], FALSE)
    /\ UNCHANGED <<dup, tel, muted, quit, exit, micVars>>

(* The profile of the phone is disconnected; BlueZ, the look for the       *)
(* gateway or the eight seconds may fail instead.                          *)
Disconnect ==
    /\ Accept({"disconnect"})
    /\ client' = Popped
    /\ ClearBook
    /\ LET c == [Taken EXCEPT !.wanted = FALSE]
       IN \/ SilenceFails /\ ctl' = Finish(c, TRUE)
          \/ /\ SilenceDone
             /\ \/ ctl' = Finish([c EXCEPT !.device = NoPhone, !.listed = {},
                                           !.gateway = NoPhone, !.phase = "disconnected"], FALSE)
                \/ ctl.device # NoPhone /\ ctl' = Finish(c, TRUE)
    /\ UNCHANGED <<tel, muted, quit, exit, otherMic>>

RetryAudio ==
    /\ Accept({"audio"})
    /\ client' = Popped
    /\ ctl' = [Taken EXCEPT !.at = "refresh", !.err = FALSE, !.tries = 0]
    /\ UNCHANGED <<dup, book, tel, muted, quit, exit, micVars>>

Import ==
    /\ Accept({"import"})
    /\ client' = Popped
    /\ \/ /\ authorized /\ ctl.wanted /\ ctl.phase = "connected" /\ ~book.blocked
          /\ \E bad \in BOOLEAN :
                 /\ bad => book.job # "none"
                 /\ book.job = "done" => bad = book.bad
                 /\ book' = IF bad THEN Cleared(TRUE) ELSE Importing
                 /\ ctl' = Finish(Taken, bad)
       \/ /\ ~(authorized /\ ctl.wanted /\ ctl.phase = "connected" /\ ~book.blocked)
          /\ ctl' = Finish(Taken, TRUE) /\ UNCHANGED book
    /\ UNCHANGED <<dup, tel, muted, quit, exit, micVars>>

ClearRequest ==
    /\ Accept({"clear"})
    /\ client' = Popped
    /\ ClearBook
    /\ ctl' = Finish(Taken, FALSE)
    /\ UNCHANGED <<dup, tel, muted, quit, exit, micVars>>

(* The service changed owner since the last look: check_owner forgets the  *)
(* gateway and the calls, which refuses the command.                       *)
CommandOwnerChanged ==
    /\ Accept({"dial", "command"}) /\ tel.up /\ ~ctl.known
    /\ ctl' = Finish([Taken EXCEPT !.known = TRUE, !.gateway = NoPhone, !.listed = {}], TRUE)
    /\ client' = [Popped EXCEPT !.reqs = Stale(@)]
    /\ SilenceDone \/ SilenceFails
    /\ UNCHANGED <<book, tel, muted, quit, exit, otherMic>>

(* Dial goes to the gateway, Answer and Hangup to a listed call that the   *)
(* service still has.                                                      *)
CommandSent ==
    /\ Accept({"dial", "command"}) /\ tel.up /\ ctl.known /\ authorized
    /\ LET r == Head(client.reqs)
       IN /\ r.kind = "dial" => ctl.gateway # NoPhone
          /\ r.kind = "command" => r.fresh /\ r.phone \in ctl.listed
                                   /\ tel.call[r.phone] # "none"
    /\ client' = Popped
    /\ \E err \in BOOLEAN : ctl' = Finish(Taken, err)
    /\ UNCHANGED <<dup, book, tel, muted, quit, exit, micVars>>

CommandRefused ==
    /\ Accept({"dial", "command"}) /\ (tel.up => ctl.known)
    /\ LET r == Head(client.reqs)
       IN \/ ~tel.up \/ ~authorized
          \/ r.kind = "dial" /\ ctl.gateway = NoPhone
          \/ r.kind = "command" /\ ~(r.fresh /\ r.phone \in ctl.listed /\ tel.call[r.phone] # "none")
    /\ client' = Popped
    /\ ctl' = Finish(Taken, TRUE)
    /\ UNCHANGED <<dup, book, tel, muted, quit, exit, micVars>>

-----------------------------------------------------------------------------
(* stopAll in the worker, shutdown and the decision of main.               *)

micButTest == <<lease, child, aa, credit, owed, carplays, faults>>

QuitRequested ==
    /\ exit.at = "none" /\ quit = "none" /\ test.at # "claim"
    /\ quit' = "test"
    /\ test' = stop_test
    /\ client' = [client EXCEPT !.gen = @ + 1]
    /\ UNCHANGED <<ctl, dup, book, tel, muted, exit, micButTest>>

QuitFails == quit' = "failed" /\ exit' = [exit EXCEPT !.error = TRUE]

(* stop_test_and_wait: testing is over; an uncertain owner or four seconds *)
(* are an error.  Then the controller is asked to disconnect.              *)
QuitTestStopped ==
    /\ quit = "test" /\ exit.at = "none"
    /\ \/ /\ ~test.testing /\ lease.shown # "uncertain"
          /\ Len(client.reqs) < QueueCap
          /\ quit' = "calls"
          /\ client' = [client EXCEPT !.reqs = Append(@, QuitRequest)]
          /\ UNCHANGED exit
       \/ (test.testing \/ lease.shown = "uncertain") /\ QuitFails /\ UNCHANGED client
    /\ UNCHANGED <<ctl, dup, book, tel, muted, micVars>>

(* The session lease is free once the media of the session is closed.      *)
QuitDone ==
    /\ quit = "answered" /\ exit.at = "none" /\ aa = "off"
    /\ quit' = "stopped"
    /\ UNCHANGED <<ctl, dup, book, tel, muted, client, exit, micVars>>

Shutdown ==
    /\ exit.at = "none"
    /\ quit \notin {"test", "calls", "answered"} /\ test.at # "claim"
    /\ exit' = [exit EXCEPT !.at = "down"]
    /\ test' = stop_test
    /\ UNCHANGED <<ctl, dup, book, tel, muted, client, quit, micButTest>>

(* The controller leaves its loop: phonebook and audio are closed, an      *)
(* uncertain end is recorded, and the Duplex is dropped with it.           *)
ControllerStops ==
    /\ ctl.at = "loop" /\ exit.at = "down"
    /\ ctl' = [ctl EXCEPT !.at = "stopped", !.wanted = FALSE]
    /\ ClearBook
    /\ dup' = "none"
    /\ \/ SilenceDone /\ exit' = [exit EXCEPT !.error = @ \/ book'.blocked]
       \/ /\ dup # "none" /\ CloseFailed("bluetoothCall")
          /\ exit' = [exit EXCEPT !.error = TRUE]
    /\ UNCHANGED <<tel, muted, client, quit, otherMic>>

(* main joins the workers and decides whether the end was clean.           *)
Exit ==
    /\ exit.at = "down" /\ ctl.at = "stopped" /\ aa = "off"
    /\ exit' = [exit EXCEPT !.at = IF exit.error \/ lease.shown # "none"
                                   THEN "uncertain" ELSE "clean"]
    /\ UNCHANGED <<ctl, dup, book, tel, muted, client, quit, micVars>>

-----------------------------------------------------------------------------
(* Phones, bonds and the telephony service.                                *)

Event == tel.events < MaxEvents

(* A gateway or a call appears or goes (with a signal), a call is answered,*)
(* a bond or the adapter selection changes, the service restarts.          *)
PhoneChanges ==
    /\ Event
    /\ LET counted == [tel EXCEPT !.events = @ + 1] IN
       \E p \in Phones :
          tel' \in {[counted EXCEPT !.ag = @ \cup {p}, !.signal = TRUE],
                    [counted EXCEPT !.ag = @ \ {p}, !.call[p] = "none", !.signal = TRUE],
                    [counted EXCEPT !.call[p] = IF p \in tel.ag THEN "incoming" ELSE @,
                                    !.signal = TRUE],
                    [counted EXCEPT !.call[p] = IF p \in tel.ag THEN "active" ELSE @],
                    [counted EXCEPT !.call[p] = "none", !.signal = TRUE],
                    [counted EXCEPT !.allowed = @ \cup {p}],
                    [counted EXCEPT !.allowed = @ \ {p}]}
    /\ UNCHANGED <<ctl, dup, book, muted, client, quit, exit, micVars>>

ServiceChanges ==
    /\ Event
    /\ tel' = [tel EXCEPT !.events = @ + 1, !.up = ~@, !.ag = {},
                          !.call = [p \in Phones |-> "none"]]
    /\ ctl' = [ctl EXCEPT !.known = FALSE]
    /\ UNCHANGED <<dup, book, muted, client, quit, exit, micVars>>

-----------------------------------------------------------------------------
Refresh ==
    \/ RefreshService \/ RefreshOwner \/ RefreshObjectsFail \/ RefreshUnwanted
    \/ RefreshNoGateway \/ RefreshGateway \/ RefreshCalls \/ RouteChanged \/ RouteGone
    \/ RouteWatched \/ RouteClaims \/ RouteOpens \/ RouteFails \/ RefreshTimesOut

Handle ==
    \/ SkipRequest \/ Connect \/ Disconnect \/ RetryAudio \/ Import \/ ClearRequest
    \/ CommandOwnerChanged \/ CommandSent \/ CommandRefused

ControllerStep ==
    \/ Signal \/ Cancelled \/ Tick \/ Handle \/ Refresh \/ FinishTick \/ FinishRequest
    \/ ControllerStops

MicrophoneStep ==
    /\ \/ exit.at = "none" /\ quit = "none" /\ AaBegin
       \/ exit.at = "none" /\ quit = "none" /\ TestStart
       \/ AaMicStep \/ TestClaimed \/ TestTask \/ MicEnvironment
    /\ UNCHANGED callVars

(* Nothing is left to happen once the process has exited.                  *)
Next ==
  /\ exit.at \in {"none", "down"}
  /\ \/ \E k \in Uses, p \in Phones : Submit(k, p)
     \/ ClientCloses \/ SetMuted
     \/ ImportFetches \/ ImportCleans
     \/ ControllerStep \/ MicrophoneStep
     \/ QuitRequested \/ QuitTestStopped \/ QuitDone \/ Shutdown \/ Exit
     \/ PhoneChanges \/ ServiceChanges

(* The controller is a task with a one second tick; claims, closes and the *)
(* import have timeouts.                                                   *)
Spec == Init /\ [][Next]_vars /\ WF_vars(ControllerStep)

-----------------------------------------------------------------------------
(* A clean end is reported only if no capture process of this daemon is    *)
(* left and no OBEX session may be: the decision of main after all joins.  *)
CleanExitConfirmed ==
    exit.at = "clean" => ~book.blocked /\ \A o \in Voices : child[o] # "running"

(* Contacts that are shown were imported from the phone that is selected   *)
(* for calls, across cancelled, late and timed out imports.                *)
ContactsOfDevice == book.entries # NoPhone => book.entries = ctl.device

(* After Quit has been confirmed no call audio runs and none is started.   *)
QuitEndsCallAudio ==
    quit = "stopped" => dup = "none" /\ ctl.at # "claim"

(* While the phone stays connected for calls, call audio is closed once    *)
(* the call is over, whatever happens to phone, service and requests       *)
(* meanwhile (a failed close is retried until the controller gives up).    *)
InCall == ctl.device \in Phones /\ tel.call[ctl.device] = "active"
CallAudioEnds == []<>(dup = "none" \/ InCall \/ ~ctl.wanted)

(* A mute during a call takes the microphone off the air.                  *)
MuteApplies == []<>(dup # "open" \/ ~muted \/ ~ctl.wanted)
===============================================================================
