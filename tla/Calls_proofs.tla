----------------------------- MODULE Calls_proofs -----------------------------
(***************************************************************************)
(* Proofs about calls, microphone and the daemon's exit, for any number of *)
(* phones, requests, retries, streams, tests and failing calls.            *)
(***************************************************************************)
EXTENDS Calls, Microphone_proofs

(* The controller owns the lease from its claim to the end of its routes.  *)
CallHolds ==
    /\ ctl.at = "claim" => HeldFor("bluetoothCall") /\ lease.shown = "none" /\ dup = "none"
    /\ dup # "none" => HeldFor("bluetoothCall") /\ lease.shown = "bluetoothCall"

(* Generations are bumped by requests and once by Quit.                    *)
GenBounded == client.gen <= client.made + (IF Stopping THEN 1 ELSE 0)

(* An import belongs to the device that was selected when it began.        *)
JobOfDevice == book.job # "none" => book.of = ctl.device

(* A disconnect never waits in refresh, and one that ended without an      *)
(* error has closed the audio and cleared the wish to connect.             *)
DisconnectDone ==
    ctl.by = "request" /\ ctl.req.kind = "disconnect" =>
        /\ ctl.at = "finish"
        /\ ~ctl.err => dup = "none" /\ ~ctl.wanted

(* Once Quit's disconnect has been answered the controller stays silent.   *)
AnsweredSilent ==
    quit \in {"answered", "stopped"} =>
        dup = "none" /\ ~ctl.wanted /\ ctl.at \notin {"route", "claim"}

(* What is left behind when the controller stops is in the exit error.     *)
LeftRecorded == ctl.at = "stopped" /\ book.blocked => exit.error

(* The inductive invariant.                                                *)
IInv == /\ TypeOK /\ MicInv /\ CallHolds /\ GenBounded /\ JobOfDevice /\ ContactsOfDevice
        /\ DisconnectDone /\ AnsweredSilent /\ LeftRecorded /\ CleanExitConfirmed

USE CallsAssumption, MicAssumption

-----------------------------------------------------------------------------
(* Types of what the helpers return.                                       *)

(* Updating one field of the controller.                                   *)
LEMMA ControllerFields ==
    ASSUME NEW c \in ControllerState
    PROVE  /\ \A x \in {"loop", "refresh", "route", "claim", "finish", "stopped"} :
                  [c EXCEPT !.at = x] \in ControllerState
           /\ \A x \in {"tick", "request"} : [c EXCEPT !.by = x] \in ControllerState
           /\ \A x \in Request : [c EXCEPT !.req = x] \in ControllerState
           /\ \A x \in BOOLEAN : /\ [c EXCEPT !.err = x] \in ControllerState
                                 /\ [c EXCEPT !.wanted = x] \in ControllerState
                                 /\ [c EXCEPT !.known = x] \in ControllerState
           /\ \A x \in 0..Attempts : /\ [c EXCEPT !.attempts = x] \in ControllerState
                                     /\ [c EXCEPT !.tries = x] \in ControllerState
           /\ \A x \in Target : /\ [c EXCEPT !.device = x] \in ControllerState
                                /\ [c EXCEPT !.gateway = x] \in ControllerState
           /\ \A x \in SUBSET Phones : [c EXCEPT !.listed = x] \in ControllerState
           /\ \A x \in {"idle", "connecting", "connected", "disconnected", "unavailable"} :
                  [c EXCEPT !.phase = x] \in ControllerState
<1> USE DEF ControllerState
<1>1. \A x \in {"loop", "refresh", "route", "claim", "finish", "stopped"} :
          [c EXCEPT !.at = x] \in ControllerState
  OBVIOUS
<1>2. \A x \in {"tick", "request"} : [c EXCEPT !.by = x] \in ControllerState
  OBVIOUS
<1>3. \A x \in Request : [c EXCEPT !.req = x] \in ControllerState
  OBVIOUS
<1>4. \A x \in BOOLEAN : /\ [c EXCEPT !.err = x] \in ControllerState
                         /\ [c EXCEPT !.wanted = x] \in ControllerState
                         /\ [c EXCEPT !.known = x] \in ControllerState
  OBVIOUS
<1>5. \A x \in 0..Attempts : /\ [c EXCEPT !.attempts = x] \in ControllerState
                             /\ [c EXCEPT !.tries = x] \in ControllerState
  OBVIOUS
<1>6. \A x \in Target : /\ [c EXCEPT !.device = x] \in ControllerState
                        /\ [c EXCEPT !.gateway = x] \in ControllerState
  OBVIOUS
<1>7. \A x \in SUBSET Phones : [c EXCEPT !.listed = x] \in ControllerState
  OBVIOUS
<1>8. \A x \in {"idle", "connecting", "connected", "disconnected", "unavailable"} :
          [c EXCEPT !.phase = x] \in ControllerState
  OBVIOUS
<1> HIDE DEF ControllerState
<1> QED
  BY <1>1, <1>2, <1>3, <1>4, <1>5, <1>6, <1>7, <1>8

(* The requests and the constants that fields are set to.                  *)
LEMMA ConstantTypes ==
    /\ Nothing \in Request /\ QuitRequest \in Request
    /\ [QuitRequest EXCEPT !.fresh = TRUE] \in Request
    /\ NoPhone \in Target /\ Phones \subseteq Target
    /\ 0 \in 0..Attempts /\ {} \in SUBSET Phones
<1>1. 0 \in 0..MaxRequests + 1 /\ NoPhone \in Target /\ Phones \subseteq Target
  BY DEF Target
<1>2. Nothing \in Request /\ QuitRequest \in Request
  BY <1>1 DEF Nothing, QuitRequest, Request, Kinds
<1>3. [QuitRequest EXCEPT !.fresh = TRUE] \in Request
  BY <1>2 DEF Request
<1> QED
  BY <1>1, <1>2, <1>3

(* Where a place is left for.                                              *)
LEMMA PlaceTypes ==
    ASSUME NEW c \in ControllerState
    PROVE  /\ \A err \in BOOLEAN : /\ Finish(c, err) \in ControllerState
                                   /\ Finish(c, err).at = "finish"
                                   /\ Finish(c, err).err = err
                                   /\ Finish(c, err).by = c.by
                                   /\ Finish(c, err).req = c.req
                                   /\ Finish(c, err).wanted = c.wanted
                                   /\ Finish(c, err).device = c.device
           /\ Back(c) \in ControllerState
           /\ Back(c).at = "loop" /\ Back(c).by = "tick"
           /\ Back(c).wanted = c.wanted /\ Back(c).device = c.device
<1>1. \A err \in BOOLEAN : Finish(c, err) \in ControllerState
  <2>1. [c EXCEPT !.at = "finish"] \in ControllerState
    BY ControllerFields
  <2> QED
    BY <2>1, ControllerFields DEF Finish
<1>2. \A err : /\ Finish(c, err).at = "finish" /\ Finish(c, err).err = err
               /\ Finish(c, err).by = c.by /\ Finish(c, err).req = c.req
               /\ Finish(c, err).wanted = c.wanted /\ Finish(c, err).device = c.device
  BY DEF Finish, ControllerState
<1>3. Back(c) \in ControllerState
  <2>1. [c EXCEPT !.at = "loop"] \in ControllerState
    BY ControllerFields
  <2>2. [[c EXCEPT !.at = "loop"] EXCEPT !.by = "tick"] \in ControllerState
    BY <2>1, ControllerFields
  <2>3. [[c EXCEPT !.at = "loop", !.by = "tick"] EXCEPT !.req = Nothing] \in ControllerState
    BY <2>2, ControllerFields, ConstantTypes
  <2> QED
    BY <2>3, ControllerFields DEF Back
<1>4. /\ Back(c).at = "loop" /\ Back(c).by = "tick"
      /\ Back(c).wanted = c.wanted /\ Back(c).device = c.device
  BY DEF Back, ControllerState
<1> QED
  BY <1>1, <1>2, <1>3, <1>4

(* Losing the telephony service ends the refresh with an error.            *)
LEMMA ServiceLostTypes ==
    ASSUME NEW c \in ControllerState
    PROVE  /\ ServiceLost(c) \in ControllerState
           /\ ServiceLost(c).at = "finish" /\ ServiceLost(c).err
           /\ ServiceLost(c).by = c.by /\ ServiceLost(c).req = c.req
           /\ ServiceLost(c).device = c.device
           /\ ServiceLost(c).wanted => c.wanted
<1> DEFINE n == IF c.attempts < Attempts THEN c.attempts + 1 ELSE Attempts
           d == [c EXCEPT !.gateway = NoPhone, !.listed = {},
                          !.attempts = IF c.wanted THEN n ELSE @, !.wanted = @ /\ n < Attempts]
<1>1. n \in 0..Attempts /\ c.attempts \in 0..Attempts /\ (c.wanted /\ n < Attempts) \in BOOLEAN
  BY DEF ControllerState
<1>2. d \in ControllerState
  <2>1. [c EXCEPT !.gateway = NoPhone] \in ControllerState
    BY ControllerFields, ConstantTypes
  <2>2. [[c EXCEPT !.gateway = NoPhone] EXCEPT !.listed = {}] \in ControllerState
    BY <2>1, ControllerFields, ConstantTypes
  <2>3. (IF c.wanted THEN n ELSE c.attempts) \in 0..Attempts
    BY <1>1
  <2> HIDE DEF n
  <2>4. [[c EXCEPT !.gateway = NoPhone, !.listed = {}]
           EXCEPT !.attempts = IF c.wanted THEN n ELSE c.attempts] \in ControllerState
    BY <2>2, <2>3, ControllerFields
  <2> QED
    BY <1>1, <2>4, ControllerFields
<1>3. d.by = c.by /\ d.req = c.req /\ d.device = c.device /\ (d.wanted => c.wanted)
  BY DEF ControllerState
<1>4. ServiceLost(c) = Finish(d, TRUE)
  BY DEF ServiceLost
<1> HIDE DEF d
<1>5. /\ Finish(d, TRUE) \in ControllerState
      /\ Finish(d, TRUE).at = "finish" /\ Finish(d, TRUE).err = TRUE
  BY <1>2, PlaceTypes
<1>6. /\ Finish(d, TRUE).by = d.by /\ Finish(d, TRUE).req = d.req
      /\ Finish(d, TRUE).wanted = d.wanted /\ Finish(d, TRUE).device = d.device
  BY <1>2, PlaceTypes
<1> QED
  BY <1>3, <1>4, <1>5, <1>6

(* The first request of the queue.                                         *)
LEMMA TakenTypes ==
    ASSUME TypeOK, client.reqs # <<>>
    PROVE  /\ Head(client.reqs) \in Request
           /\ Tail(client.reqs) \in Seq(Request)
           /\ Len(Tail(client.reqs)) <= QueueCap
           /\ Taken \in ControllerState
           /\ Taken.by = "request" /\ Taken.req = Head(client.reqs)
           /\ Taken.device = ctl.device /\ Taken.wanted = ctl.wanted
<1> USE DEF TypeOK
<1>1. client.reqs \in Seq(Request) /\ Len(client.reqs) <= QueueCap
  BY DEF ClientState
<1>2. Head(client.reqs) \in Request /\ Tail(client.reqs) \in Seq(Request)
      /\ Len(Tail(client.reqs)) <= QueueCap
  BY <1>1
<1>3. [ctl EXCEPT !.by = "request"] \in ControllerState
  BY ControllerFields
<1>4. Taken \in ControllerState
  BY <1>2, <1>3, ControllerFields DEF Taken
<1>5. /\ Taken.by = "request" /\ Taken.req = Head(client.reqs)
      /\ Taken.device = ctl.device /\ Taken.wanted = ctl.wanted
  BY DEF Taken, ControllerState
<1> QED
  BY <1>2, <1>4, <1>5

(* A queue whose call ids became stale is as long as before.               *)
LEMMA StaleTypes ==
    ASSUME NEW reqs \in Seq(Request)
    PROVE  Stale(reqs) \in Seq(Request) /\ Len(Stale(reqs)) = Len(reqs)
<1>1. \A r \in Request, b \in BOOLEAN : [r EXCEPT !.fresh = b] \in Request
  BY DEF Request
<1>2. \A i \in 1..Len(reqs) :
        [reqs[i] EXCEPT !.fresh = @ /\ reqs[i].kind # "command"] \in Request
  <2> SUFFICES ASSUME NEW i \in 1..Len(reqs)
               PROVE  [reqs[i] EXCEPT !.fresh = @ /\ reqs[i].kind # "command"] \in Request
    OBVIOUS
  <2>1. reqs[i] \in Request /\ (reqs[i].fresh /\ reqs[i].kind # "command") \in BOOLEAN
    OBVIOUS
  <2> QED
    BY <1>1, <2>1
<1>3. DOMAIN reqs = 1..Len(reqs) /\ Len(reqs) \in Nat
  OBVIOUS
<1>4. Stale(reqs) \in [1..Len(reqs) -> Request]
  BY <1>2, <1>3 DEF Stale
<1> QED
  BY <1>3, <1>4

(* Updating one field of the client.                                       *)
LEMMA ClientFields ==
    ASSUME NEW c \in ClientState
    PROVE  /\ \A q \in Seq(Request) : [c EXCEPT !.reqs = q] \in ClientState
           /\ \A g \in 0..MaxRequests + 1 : /\ [c EXCEPT !.gen = g] \in ClientState
                                            /\ [c EXCEPT !.seen = g] \in ClientState
           /\ \A n \in 0..MaxRequests : [c EXCEPT !.made = n] \in ClientState
<1>1. \A q \in Seq(Request) : [c EXCEPT !.reqs = q] \in ClientState
  BY DEF ClientState
<1>2. \A g \in 0..MaxRequests + 1 : /\ [c EXCEPT !.gen = g] \in ClientState
                                    /\ [c EXCEPT !.seen = g] \in ClientState
  BY DEF ClientState
<1>3. \A n \in 0..MaxRequests : [c EXCEPT !.made = n] \in ClientState
  BY DEF ClientState
<1> QED
  BY <1>1, <1>2, <1>3

(* Updating one field of the phonebook.                                    *)
LEMMA BookFields ==
    ASSUME NEW b \in BookState
    PROVE  /\ \A x \in {"none", "fetch", "fetched", "done"} : [b EXCEPT !.job = x] \in BookState
           /\ \A x \in BOOLEAN : /\ [b EXCEPT !.got = x] \in BookState
                                 /\ [b EXCEPT !.bad = x] \in BookState
                                 /\ [b EXCEPT !.blocked = x] \in BookState
           /\ \A x \in Target : /\ [b EXCEPT !.of = x] \in BookState
                                /\ [b EXCEPT !.entries = x] \in BookState
<1>1. \A x \in {"none", "fetch", "fetched", "done"} : [b EXCEPT !.job = x] \in BookState
  BY DEF BookState
<1>2. \A x \in BOOLEAN : /\ [b EXCEPT !.got = x] \in BookState
                         /\ [b EXCEPT !.bad = x] \in BookState
                         /\ [b EXCEPT !.blocked = x] \in BookState
  BY DEF BookState
<1>3. \A x \in Target : /\ [b EXCEPT !.of = x] \in BookState
                        /\ [b EXCEPT !.entries = x] \in BookState
  BY DEF BookState
<1> QED
  BY <1>1, <1>2, <1>3

-----------------------------------------------------------------------------
(* The controller.                                                         *)

(* A refresh keeps the type of the controller, and only the claim of a     *)
(* route leads to the place where it is awaited.                           *)
LEMMA RefreshTyped ==
    ASSUME TypeOK, Refresh
    PROVE  ctl' \in ControllerState /\ (ctl'.at = "claim" => RouteClaims)
<1> USE DEF TypeOK
<1>1. ctl.attempts \in 0..Attempts /\ ctl.tries \in 0..Attempts
      /\ (ctl.attempts < Attempts => ctl.attempts + 1 \in 0..Attempts)
      /\ (ctl.tries < Attempts => ctl.tries + 1 \in 0..Attempts)
      /\ ctl.device \in Target
  BY DEF ControllerState
<1>12. \A err \in BOOLEAN : /\ Finish(ctl, err) \in ControllerState
                            /\ Finish(ctl, err).at = "finish"
  BY PlaceTypes
<1>2. CASE RefreshService
  BY <1>2, ServiceLostTypes DEF RefreshService
<1>3. CASE RefreshOwner
  <2> DEFINE c == [ctl EXCEPT !.known = TRUE, !.gateway = NoPhone, !.listed = {}]
  <2>1. [ctl EXCEPT !.known = TRUE] \in ControllerState
    BY ControllerFields, ConstantTypes
  <2>2. [[ctl EXCEPT !.known = TRUE] EXCEPT !.gateway = NoPhone] \in ControllerState
    BY <2>1, ControllerFields, ConstantTypes
  <2>3. c \in ControllerState
    BY <2>2, ControllerFields, ConstantTypes
  <2>4. c.at = "refresh"
    BY <1>3 DEF RefreshOwner, ControllerState
  <2>5. ctl' \in {c, ServiceLost(c)}
    BY <1>3 DEF RefreshOwner
  <2> HIDE DEF c
  <2> QED
    BY <2>3, <2>4, <2>5, ServiceLostTypes
<1>4. CASE RefreshObjectsFail
  <2>1. [ctl EXCEPT !.gateway = NoPhone] \in ControllerState
    BY ControllerFields, ConstantTypes
  <2>2. [[ctl EXCEPT !.gateway = NoPhone] EXCEPT !.listed = {}] \in ControllerState
    BY <2>1, ControllerFields, ConstantTypes
  <2> QED
    BY <1>4, <2>2, PlaceTypes DEF RefreshObjectsFail
<1>5. CASE RefreshUnwanted
  <2>1. [ctl EXCEPT !.wanted = FALSE] \in ControllerState
    BY ControllerFields
  <2> QED
    <3>1. /\ Finish([ctl EXCEPT !.wanted = FALSE], TRUE) \in ControllerState
          /\ Finish([ctl EXCEPT !.wanted = FALSE], TRUE).at = "finish"
      BY <2>1, PlaceTypes
    <3> QED
      BY <1>5, <1>12, <3>1 DEF RefreshUnwanted
<1>6. CASE RefreshNoGateway
  <2> DEFINE c == [ctl EXCEPT !.listed = {}, !.gateway = NoPhone, !.phase = "connecting"]
  <2>1. [ctl EXCEPT !.listed = {}] \in ControllerState
    BY ControllerFields, ConstantTypes
  <2>2. [[ctl EXCEPT !.listed = {}] EXCEPT !.gateway = NoPhone] \in ControllerState
    BY <2>1, ControllerFields, ConstantTypes
  <2>3. c \in ControllerState
    BY <2>2, ControllerFields, ConstantTypes
  <2>4. [c EXCEPT !.wanted = FALSE] \in ControllerState
    BY <2>3, ControllerFields, ConstantTypes
  <2>5. c.attempts = ctl.attempts
    BY DEF ControllerState
  <2>6. \A w \in BOOLEAN : ctl.attempts < Attempts =>
            [c EXCEPT !.attempts = @ + 1, !.wanted = w] \in ControllerState
    <3> HIDE DEF c
    <3>1. ctl.attempts < Attempts => [c EXCEPT !.attempts = @ + 1] \in ControllerState
      BY <1>1, <2>3, <2>5, ControllerFields, ConstantTypes
    <3> QED
      BY <3>1, ControllerFields
  <2>7. \/ ctl' = Finish(ctl, TRUE)
        \/ ctl' = Finish([c EXCEPT !.wanted = FALSE], TRUE)
        \/ ctl' = Finish(c, FALSE)
        \/ ctl.attempts < Attempts /\ \E w \in BOOLEAN, err \in BOOLEAN :
              ctl' = Finish([c EXCEPT !.attempts = @ + 1, !.wanted = w], err)
    BY <1>6, <2>5 DEF RefreshNoGateway
  <2> HIDE DEF c
  <2> QED
    <3>1. CASE \/ ctl' = Finish(ctl, TRUE)
               \/ ctl' = Finish([c EXCEPT !.wanted = FALSE], TRUE)
               \/ ctl' = Finish(c, FALSE)
      <4>1. Finish(c, FALSE) \in ControllerState /\ Finish(c, FALSE).at = "finish"
        BY <2>3, PlaceTypes
      <4>2. /\ Finish([c EXCEPT !.wanted = FALSE], TRUE) \in ControllerState
            /\ Finish([c EXCEPT !.wanted = FALSE], TRUE).at = "finish"
        BY <2>4, PlaceTypes
      <4> QED
        BY <1>12, <3>1, <4>1, <4>2
    <3>2. ASSUME NEW w \in BOOLEAN, NEW err \in BOOLEAN, ctl.attempts < Attempts,
                 ctl' = Finish([c EXCEPT !.attempts = @ + 1, !.wanted = w], err)
          PROVE  ctl' \in ControllerState /\ ctl'.at = "finish"
      <4> DEFINE e == [c EXCEPT !.attempts = @ + 1, !.wanted = w]
      <4>1. e \in ControllerState
        BY <2>6, <3>2
      <4>2. ctl' = Finish(e, err)
        BY <3>2
      <4> HIDE DEF e
      <4>3. Finish(e, err) \in ControllerState /\ Finish(e, err).at = "finish"
        BY <4>1, PlaceTypes
      <4> QED
        BY <4>2, <4>3
    <3> QED
      BY <2>7, <3>1, <3>2
<1>7. CASE RefreshGateway
  <2>1. [ctl EXCEPT !.gateway = ctl.device] \in ControllerState
    BY <1>1, ControllerFields, ConstantTypes
  <2>2. [[ctl EXCEPT !.gateway = ctl.device] EXCEPT !.tries = 0] \in ControllerState
    BY <2>1, ControllerFields, ConstantTypes
  <2>3. [ctl EXCEPT !.gateway = ctl.device, !.tries = 0].at = ctl.at
    BY DEF ControllerState
  <2> QED
    BY <1>7, <1>12, <2>2, <2>3 DEF RefreshGateway, InRefresh
<1>8. CASE RefreshCalls
  <2> DEFINE now == {ctl.device} \cap {p \in Phones : tel.call[p] # "none"}
             c == [ctl EXCEPT !.phase = "connected", !.listed = now,
                              !.tries = IF ctl.listed = {} /\ now # {} THEN 0 ELSE @]
  <2>1. now \in SUBSET Phones
    OBVIOUS
  <2>2. [ctl EXCEPT !.phase = "connected"] \in ControllerState
    BY ControllerFields, ConstantTypes
  <2>3. c \in ControllerState
    <3> HIDE DEF now
    <3>1. [[ctl EXCEPT !.phase = "connected"] EXCEPT !.listed = now] \in ControllerState
      BY <2>1, <2>2, ControllerFields, ConstantTypes
    <3>2. (IF ctl.listed = {} /\ now # {} THEN 0 ELSE ctl.tries) \in 0..Attempts
      BY <1>1
    <3> QED
      BY <3>1, <3>2, ControllerFields
  <2>4. ctl' \in {[c EXCEPT !.at = "route"], Finish(c, FALSE), Finish(c, TRUE)}
    BY <1>8 DEF RefreshCalls
  <2>5. [c EXCEPT !.at = "route"].at = "route"
    BY DEF ControllerState
  <2> HIDE DEF c
  <2> QED
    <3>1. [c EXCEPT !.at = "route"] \in ControllerState
      BY <2>3, ControllerFields
    <3>2. \A err \in BOOLEAN : Finish(c, err) \in ControllerState
                               /\ Finish(c, err).at = "finish"
      BY <2>3, PlaceTypes
    <3>3. CASE ctl' = [c EXCEPT !.at = "route"]
      BY <2>5, <3>1, <3>3
    <3>4. ASSUME NEW err \in BOOLEAN, ctl' = Finish(c, err)
          PROVE  ctl' \in ControllerState /\ ctl'.at = "finish"
      BY <3>2, <3>4
    <3> QED
      BY <2>4, <3>3, <3>4
<1>9. CASE RouteChanged
  <2>1. [ctl EXCEPT !.tries = 0].at = ctl.at
    BY DEF ControllerState
  <2>2. [ctl EXCEPT !.tries = 0] \in ControllerState
    BY ControllerFields, ConstantTypes
  <2> QED
    BY <1>9, <2>1, <2>2, PlaceTypes, ZenonT(60) DEF RouteChanged
<1>10. CASE RouteGone \/ RouteWatched \/ RouteOpens \/ RouteFails \/ RefreshTimesOut
  BY <1>10, PlaceTypes DEF RouteGone, RouteWatched, RouteOpens, RouteFails, RefreshTimesOut
<1>11. CASE RouteClaims
  <2>1. [ctl EXCEPT !.at = "claim"] \in ControllerState
    BY ControllerFields, ConstantTypes
  <2>2. ctl.tries < Attempts => /\ [[ctl EXCEPT !.at = "claim"] EXCEPT !.tries = @ + 1] \in ControllerState
                                /\ [ctl EXCEPT !.tries = @ + 1] \in ControllerState
    <3>1. [ctl EXCEPT !.at = "claim"].tries = ctl.tries
      BY DEF ControllerState
    <3> QED
      BY <1>1, <2>1, <3>1, ControllerFields
  <2>3. ctl.tries < Attempts =>
            /\ Finish([ctl EXCEPT !.tries = @ + 1], TRUE) \in ControllerState
            /\ Finish([ctl EXCEPT !.tries = @ + 1], TRUE).at = "finish"
    BY <2>2, PlaceTypes
  <2>4. \/ ctl' = Finish(ctl, FALSE)
        \/ ctl.tries < Attempts /\ ctl' = [ctl EXCEPT !.at = "claim", !.tries = @ + 1]
        \/ ctl.tries < Attempts /\ ctl' = Finish([ctl EXCEPT !.tries = @ + 1], TRUE)
    BY <1>11 DEF RouteClaims
  <2>5. CASE ctl' = Finish(ctl, FALSE)
    BY <1>11, <1>12, <2>5
  <2>6. CASE ctl.tries < Attempts /\ ctl' = [ctl EXCEPT !.at = "claim", !.tries = @ + 1]
    BY <1>11, <2>2, <2>6
  <2>7. CASE ctl.tries < Attempts /\ ctl' = Finish([ctl EXCEPT !.tries = @ + 1], TRUE)
    BY <1>11, <2>3, <2>7
  <2> QED
    BY <2>4, <2>5, <2>6, <2>7
<1> QED
  BY <1>2, <1>3, <1>4, <1>5, <1>6, <1>7, <1>8, <1>9, <1>10, <1>11 DEF Refresh

(* A handled request is taken; it is finished at once or goes to refresh,  *)
(* which a disconnect and a refused command never do.                      *)
LEMMA HandleTyped ==
    ASSUME TypeOK, Handle
    PROVE  /\ ctl' \in ControllerState
           /\ \/ ctl' = ctl
              \/ /\ ctl'.by = "request" /\ ctl'.req = Head(client.reqs)
                 /\ \/ ctl'.at = "finish"
                    \/ ctl'.at = "refresh" /\ ~Stopping /\ ctl'.req.kind # "disconnect"
<1> DEFINE Goal == /\ ctl' \in ControllerState
                   /\ ctl'.by = "request" /\ ctl'.req = Head(client.reqs)
                   /\ \/ ctl'.at = "finish"
                      \/ ctl'.at = "refresh" /\ ~Stopping /\ ctl'.req.kind # "disconnect"
<1> USE DEF TypeOK
<1>1. ASSUME NEW c \in ControllerState, NEW err \in BOOLEAN, c.by = "request",
             c.req = Head(client.reqs), ctl' = Finish(c, err)
      PROVE  Goal
  BY <1>1, PlaceTypes
<1>2. CASE SkipRequest
  BY <1>2 DEF SkipRequest
<1> DEFINE Waiting == [Taken EXCEPT !.at = "refresh", !.err = FALSE, !.tries = 0]
<1>3. client.reqs # <<>> => Waiting \in ControllerState
  <2> SUFFICES ASSUME client.reqs # <<>> PROVE Waiting \in ControllerState
    OBVIOUS
  <2>1. [Taken EXCEPT !.at = "refresh"] \in ControllerState
    BY TakenTypes, ControllerFields
  <2>2. [[Taken EXCEPT !.at = "refresh"] EXCEPT !.err = FALSE] \in ControllerState
    BY <2>1, ControllerFields
  <2> QED
    BY <2>2, ControllerFields, ConstantTypes
<1>4. CASE Connect
  <2>1. client.reqs # <<>> /\ Head(client.reqs).kind = "connect" /\ ~Stopping
    BY <1>4 DEF Connect, Accept, Next1, Skipped
  <2> DEFINE p == Head(client.reqs).phone
             c == [Taken EXCEPT !.device = p]
             d == [c EXCEPT !.at = "refresh", !.err = FALSE, !.wanted = TRUE,
                            !.attempts = 0, !.tries = 0, !.gateway = NoPhone]
  <2>2. Head(client.reqs) \in Request /\ Taken \in ControllerState
        /\ Taken.by = "request" /\ Taken.req = Head(client.reqs)
    BY <2>1, TakenTypes
  <2>3. p \in Target
    BY <2>2 DEF Request
  <2>4. c \in ControllerState
    BY <2>2, <2>3, ControllerFields
  <2>5. c.by = "request" /\ c.req = Head(client.reqs)
    BY <2>2 DEF ControllerState
  <2>6. ctl' \in {Finish(Taken, TRUE), Finish(c, TRUE), d}
    BY <1>4 DEF Connect
  <2> HIDE DEF c
  <2>7. d \in ControllerState
    <3>1. [c EXCEPT !.at = "refresh"] \in ControllerState
      BY <2>4, ControllerFields
    <3>2. [[c EXCEPT !.at = "refresh"] EXCEPT !.err = FALSE] \in ControllerState
      BY <3>1, ControllerFields
    <3>3. [[c EXCEPT !.at = "refresh", !.err = FALSE] EXCEPT !.wanted = TRUE] \in ControllerState
      BY <3>2, ControllerFields
    <3>4. [[c EXCEPT !.at = "refresh", !.err = FALSE, !.wanted = TRUE]
             EXCEPT !.attempts = 0] \in ControllerState
      BY <3>3, ControllerFields, ConstantTypes
    <3>5. [[c EXCEPT !.at = "refresh", !.err = FALSE, !.wanted = TRUE, !.attempts = 0]
             EXCEPT !.tries = 0] \in ControllerState
      BY <3>4, ControllerFields, ConstantTypes
    <3> QED
      BY <3>5, ControllerFields, ConstantTypes
  <2>8. d.at = "refresh" /\ d.by = c.by /\ d.req = c.req
    BY <2>4 DEF ControllerState
  <2> HIDE DEF d
  <2>9. CASE ctl' = d
    BY <2>1, <2>5, <2>7, <2>8, <2>9
  <2> QED
    BY <1>1, <2>2, <2>4, <2>5, <2>6, <2>9
<1>5. CASE Disconnect
  <2>1. client.reqs # <<>>
    BY <1>5 DEF Disconnect, Accept, Next1
  <2> DEFINE c == [Taken EXCEPT !.wanted = FALSE]
             d == [c EXCEPT !.device = NoPhone, !.listed = {}, !.gateway = NoPhone,
                            !.phase = "disconnected"]
  <2>2. Taken \in ControllerState /\ Taken.by = "request" /\ Taken.req = Head(client.reqs)
    BY <2>1, TakenTypes
  <2>3. c \in ControllerState
    BY <2>2, ControllerFields
  <2>4. c.by = "request" /\ c.req = Head(client.reqs)
    BY <2>2 DEF ControllerState
  <2>5. \/ ctl' = Finish(c, TRUE) \/ ctl' = Finish(d, FALSE)
    BY <1>5 DEF Disconnect
  <2> HIDE DEF c
  <2>6. d \in ControllerState
    <3>1. [c EXCEPT !.device = NoPhone] \in ControllerState
      BY <2>3, ControllerFields, ConstantTypes
    <3>2. [[c EXCEPT !.device = NoPhone] EXCEPT !.listed = {}] \in ControllerState
      BY <3>1, ControllerFields, ConstantTypes
    <3>3. [[c EXCEPT !.device = NoPhone, !.listed = {}] EXCEPT !.gateway = NoPhone] \in ControllerState
      BY <3>2, ControllerFields, ConstantTypes
    <3> QED
      BY <3>3, ControllerFields
  <2>7. d.by = c.by /\ d.req = c.req
    BY <2>3 DEF ControllerState
  <2> HIDE DEF d
  <2> QED
    BY <1>1, <2>3, <2>4, <2>5, <2>6, <2>7
<1>6. CASE RetryAudio
  <2>1. client.reqs # <<>> /\ Head(client.reqs).kind = "audio" /\ ~Stopping
    BY <1>6 DEF RetryAudio, Accept, Next1, Skipped
  <2>2. Taken \in ControllerState /\ Taken.by = "request" /\ Taken.req = Head(client.reqs)
    BY <2>1, TakenTypes
  <2>3. Waiting.at = "refresh" /\ Waiting.by = Taken.by /\ Waiting.req = Taken.req
    BY <2>2 DEF ControllerState
  <2>4. ctl' = Waiting
    BY <1>6 DEF RetryAudio
  <2> HIDE DEF Waiting
  <2> QED
    BY <1>3, <2>1, <2>2, <2>3, <2>4
<1>7. CASE Import \/ ClearRequest \/ CommandSent \/ CommandRefused
  <2>1. client.reqs # <<>>
    BY <1>7 DEF Import, ClearRequest, CommandSent, CommandRefused, Accept, Next1
  <2>2. Taken \in ControllerState /\ Taken.by = "request" /\ Taken.req = Head(client.reqs)
    BY <2>1, TakenTypes
  <2>3. \E err \in BOOLEAN : ctl' = Finish(Taken, err)
    BY <1>7 DEF Import, ClearRequest, CommandSent, CommandRefused
  <2> QED
    BY <1>1, <2>2, <2>3
<1>8. CASE CommandOwnerChanged
  <2>1. client.reqs # <<>>
    BY <1>8 DEF CommandOwnerChanged, Accept, Next1
  <2> DEFINE c == [Taken EXCEPT !.known = TRUE, !.gateway = NoPhone, !.listed = {}]
  <2>2. Taken \in ControllerState /\ Taken.by = "request" /\ Taken.req = Head(client.reqs)
    BY <2>1, TakenTypes
  <2>3. c \in ControllerState
    <3>1. [Taken EXCEPT !.known = TRUE] \in ControllerState
      BY <2>2, ControllerFields
    <3>2. [[Taken EXCEPT !.known = TRUE] EXCEPT !.gateway = NoPhone] \in ControllerState
      BY <3>1, ControllerFields, ConstantTypes
    <3> QED
      BY <3>2, ControllerFields, ConstantTypes
  <2>4. c.by = "request" /\ c.req = Head(client.reqs)
    BY <2>2 DEF ControllerState
  <2>5. ctl' = Finish(c, TRUE)
    BY <1>8 DEF CommandOwnerChanged
  <2> HIDE DEF c
  <2> QED
    BY <1>1, <2>3, <2>4, <2>5
<1> QED
  BY <1>2, <1>4, <1>5, <1>6, <1>7, <1>8 DEF Handle

(* The controller's steps keep its type, and only the claim of a route     *)
(* leads to the place where it is awaited.                                 *)
LEMMA ControllerTyped ==
    ASSUME TypeOK, ControllerStep
    PROVE  ctl' \in ControllerState /\ (ctl'.at = "claim" => RouteClaims)
<1> USE DEF TypeOK
<1>1. CASE Signal
  <2>1. [ctl EXCEPT !.listed = {}] \in ControllerState
    BY ControllerFields, ConstantTypes
  <2>2. [ctl EXCEPT !.listed = {}].at = ctl.at /\ ctl.at # "claim"
    BY <1>1 DEF Signal, AtLoop, ControllerState
  <2> QED
    BY <1>1, <2>1, <2>2 DEF Signal
<1>2. CASE Cancelled
  <2>1. [ctl EXCEPT !.wanted = FALSE] \in ControllerState
    BY ControllerFields
  <2>2. [ctl EXCEPT !.wanted = FALSE].at = ctl.at /\ ctl.at # "claim"
    BY <1>2 DEF Cancelled, AtLoop, ControllerState
  <2> QED
    BY <1>2, <2>1, <2>2 DEF Cancelled
<1>3. CASE Tick
  <2>1. [ctl EXCEPT !.at = "refresh"] \in ControllerState
    BY ControllerFields
  <2>2. [ctl EXCEPT !.at = "refresh"].at = "refresh"
    BY DEF ControllerState
  <2> QED
    BY <1>3, <2>1, <2>2 DEF Tick
<1>4. CASE Handle
  <2>1. ctl.at # "claim"
    BY <1>4 DEF Handle, SkipRequest, Connect, Disconnect, RetryAudio, Import, ClearRequest,
                CommandOwnerChanged, CommandSent, CommandRefused, Accept, Next1, Quiet, AtLoop
  <2> QED
    BY <1>4, <2>1, HandleTyped
<1>5. CASE Refresh
  BY <1>5, RefreshTyped
<1>6. CASE FinishTick
  <2>1. \A c \in ControllerState :
          /\ TickFailed(c) \in ControllerState /\ TickFailed(c).at = "loop"
    <3> SUFFICES ASSUME NEW c \in ControllerState
                 PROVE  TickFailed(c) \in ControllerState /\ TickFailed(c).at = "loop"
      OBVIOUS
    <3>1. Phase(c) \in {"idle", "connecting", "connected", "disconnected", "unavailable"}
      BY DEF Phase
    <3>2. Back(c) \in ControllerState /\ Back(c).at = "loop"
      BY PlaceTypes
    <3>3. [Back(c) EXCEPT !.phase = Phase(c)] \in ControllerState
      BY <3>1, <3>2, ControllerFields
    <3>4. (IF Phase(c) = "connected" THEN Back(c).listed ELSE {}) \in SUBSET Phones
      BY <3>2 DEF ControllerState
    <3>5. TickFailed(c) \in ControllerState
      BY <3>3, <3>4, ControllerFields DEF TickFailed
    <3> QED
      BY <3>2, <3>5 DEF TickFailed, ControllerState
  <2>2. [ctl EXCEPT !.wanted = FALSE] \in ControllerState
    BY ControllerFields
  <2>3. Back(ctl) \in ControllerState /\ Back(ctl).at = "loop"
    BY PlaceTypes
  <2>4. ctl' \in {Back(ctl), TickFailed(ctl), TickFailed([ctl EXCEPT !.wanted = FALSE])}
    BY <1>6 DEF FinishTick
  <2> QED
    BY <2>1, <2>2, <2>3, <2>4
<1>7. CASE FinishRequest
  <2>1. Back(ctl) \in ControllerState /\ Back(ctl).at = "loop"
    BY PlaceTypes
  <2>2. [Back(ctl) EXCEPT !.wanted = FALSE] \in ControllerState
    BY <2>1, ControllerFields
  <2>3. [Back(ctl) EXCEPT !.wanted = FALSE].at = "loop"
    BY <2>1 DEF ControllerState
  <2>4. ctl' \in {Back(ctl), [Back(ctl) EXCEPT !.wanted = FALSE]}
    BY <1>7 DEF FinishRequest
  <2> QED
    BY <2>1, <2>2, <2>3, <2>4
<1>8. CASE ControllerStops
  <2>1. [ctl EXCEPT !.at = "stopped"] \in ControllerState
    BY ControllerFields
  <2>2. [ctl EXCEPT !.at = "stopped", !.wanted = FALSE] \in ControllerState
    BY <2>1, ControllerFields
  <2>3. [ctl EXCEPT !.at = "stopped", !.wanted = FALSE].at = "stopped"
    BY DEF ControllerState
  <2> QED
    BY <1>8, <2>2, <2>3 DEF ControllerStops
<1> QED
  BY <1>1, <1>2, <1>3, <1>4, <1>5, <1>6, <1>7, <1>8 DEF ControllerStep

(* Steps of everybody but the controller.                                   *)
Others ==
    \/ \E k \in Uses, p \in Phones : Submit(k, p)
    \/ ClientCloses \/ SetMuted \/ ImportFetches \/ ImportCleans \/ MicrophoneStep
    \/ QuitRequested \/ QuitTestStopped \/ QuitDone \/ Shutdown \/ Exit
    \/ PhoneChanges \/ ServiceChanges

(* The others only tell it that the telephony service has changed.         *)
LEMMA OthersTyped ==
    ASSUME TypeOK, Others
    PROVE  /\ ctl' \in ControllerState /\ dup' = dup
           /\ ctl'.at = ctl.at /\ ctl'.by = ctl.by /\ ctl'.req = ctl.req
           /\ ctl'.err = ctl.err /\ ctl'.wanted = ctl.wanted /\ ctl'.device = ctl.device
<1> USE DEF TypeOK
<1>1. CASE ServiceChanges
  <2>1. [ctl EXCEPT !.known = FALSE] \in ControllerState
    BY ControllerFields
  <2>2. ctl' = [ctl EXCEPT !.known = FALSE] /\ dup' = dup
    BY <1>1 DEF ServiceChanges
  <2> QED
    BY <2>1, <2>2 DEF ControllerState
<1>2. CASE ~ServiceChanges
  <2>1. UNCHANGED <<ctl, dup>>
    BY <1>2 DEF Others, Submit, ClientCloses, SetMuted, ImportFetches, ImportCleans,
                MicrophoneStep, callVars, QuitRequested, QuitTestStopped, QuitDone,
                Shutdown, Exit, PhoneChanges
  <2> QED
    BY <2>1, SMTT(40)
<1> QED
  BY <1>1, <1>2

-----------------------------------------------------------------------------
(* The lease.                                                              *)

(* While a call has the lease, what its owner does with it does not touch  *)
(* the other owners.                                                       *)
LEMMA CallOwns ==
    ASSUME MicInv, HeldFor("bluetoothCall"), UNCHANGED otherMic,
           lease' \in LeaseState, child' \in [Voices -> {"none", "running", "ended"}],
           faults' \in 0..MaxFaults, CaptureExclusive', FreeUnshown'
    PROVE  MicInv'
<1> USE DEF MicInv, MicTypeOK, otherMic
<1>1. aa \notin {"claim", "first", "open"} /\ test.at = "none"
  BY DEF AaHolds, TestHolds, HeldFor
<1>2. AaHolds' /\ TestHolds' /\ StreamsNumbered' /\ CreditWindow'
  BY <1>1 DEF AaHolds, TestHolds, StreamsNumbered, CreditWindow
<1> QED
  BY <1>2

(* A failing call is counted.                                              *)
LEMMA FaultTyped == ASSUME MicInv, Fault PROVE faults' \in 0..MaxFaults
<1>1. faults \in 0..MaxFaults
  BY DEF MicInv, MicTypeOK
<1> QED
  BY <1>1 DEF Fault

(* Closing the call's processes, or failing to, keeps the lease in order:  *)
(* routes that are left have kept it.                                      *)
LEMMA SilenceKeeps ==
    ASSUME TypeOK, MicInv, CallHolds,
           SilenceDone \/ SilenceFails, UNCHANGED otherMic
    PROVE  /\ MicInv' /\ dup' \in {"none", "open", "muted"}
           /\ dup' # "none" => dup' = dup /\ lease' = lease
<1> USE DEF TypeOK
<1>1. CASE SilenceDone /\ dup # "none"
  <2>1. HeldFor("bluetoothCall") /\ "bluetoothCall" \in Voices
    BY <1>1 DEF CallHolds, Voices
  <2>2. CloseReaped("bluetoothCall") /\ faults' = faults
    BY <1>1 DEF SilenceDone
  <2>3. /\ lease' \in LeaseState /\ child' \in [Voices -> {"none", "running", "ended"}]
        /\ CaptureExclusive' /\ FreeUnshown'
    BY <2>1, <2>2, DropKeepsExclusive DEF MicInv
  <2>4. MicInv'
    BY <2>1, <2>2, <2>3, CallOwns DEF MicInv, MicTypeOK
  <2> QED
    BY <1>1, <2>4 DEF SilenceDone
<1>2. CASE SilenceFails \/ (SilenceDone /\ dup = "none")
  <2>1. /\ dup' = dup /\ UNCHANGED <<lease, child>> /\ UNCHANGED otherMic
        /\ faults' \in 0..MaxFaults
    BY <1>2, FaultTyped DEF SilenceFails, SilenceDone, MicInv, MicTypeOK
  <2>2. MicInv'
    BY <2>1 DEF MicInv, MicTypeOK, otherMic, AaHolds, TestHolds, FreeUnshown, HeldFor,
                CaptureExclusive, StreamsNumbered, CreditWindow
  <2> QED
    BY <2>1, <2>2
<1> QED
  BY <1>1, <1>2

(* The claim of a route, what comes of it, and the end of the controller.  *)
LEMMA RouteKeeps ==
    ASSUME TypeOK, MicInv, CallHolds,
           RouteClaims \/ RouteOpens \/ RouteFails \/ RefreshTimesOut \/ ControllerStops
    PROVE  MicInv' /\ CallHolds' /\ dup' \in {"none", "open", "muted"}
<1> USE DEF TypeOK
<1>1. "bluetoothCall" \in Voices
  BY DEF Voices
<1>2. ASSUME ctl.at = "claim"
      PROVE  /\ HeldFor("bluetoothCall") /\ lease.shown = "none" /\ dup = "none"
             /\ \A o \in Voices : child[o] # "running"
  BY <1>2 DEF CallHolds, MicInv, CaptureExclusive, HeldFor, Voices
<1>3. CASE RouteClaims
  <2>1. CASE lease' = lease
    <3>1. MicInv' /\ dup' = dup
      BY <1>3, <2>1 DEF RouteClaims, otherMic, MicInv, MicTypeOK, AaHolds, TestHolds,
           FreeUnshown, HeldFor, CaptureExclusive, StreamsNumbered, CreditWindow
    <3>2. dup = "none" /\ ctl'.at # "claim"
      <4>1. [ctl EXCEPT !.tries = @ + 1].by = ctl.by
        BY DEF ControllerState
      <4>2. lease' # Acquired("bluetoothCall") \/ ~CanClaim
        BY <2>1 DEF Acquired, CanClaim, MicInv, MicTypeOK, LeaseState
      <4> QED
        BY <1>3, <4>2 DEF RouteClaims, Finish, ControllerState
    <3> QED
      BY <3>1, <3>2 DEF CallHolds
  <2>2. CASE CanClaim /\ lease' = Acquired("bluetoothCall")
    <3>1. lease' \in LeaseState
      BY <1>1, <2>2, LeaseTypes DEF MicInv, MicTypeOK
    <3>2. lease'.permit = "held" /\ lease'.flock = "bluetoothCall" /\ lease'.shown = "none"
      BY <2>2 DEF Acquired, CanClaim, FreeUnshown, LeaseState, MicInv, MicTypeOK
    <3>3. CaptureExclusive' /\ UNCHANGED <<dup, child, faults, otherMic>> /\ dup = "none"
      BY <1>3, <2>2 DEF RouteClaims, CaptureExclusive, CanClaim, MicInv
    <3>4. AaHolds' /\ TestHolds' /\ FreeUnshown'
      BY <2>2, <3>2, <3>3
      DEF AaHolds, TestHolds, FreeUnshown, HeldFor, CanClaim, MicInv, otherMic
    <3>5. MicInv'
      BY <3>1, <3>3, <3>4 DEF MicInv, MicTypeOK, otherMic, StreamsNumbered, CreditWindow
    <3>6. CallHolds'
      BY <3>2, <3>3 DEF CallHolds, HeldFor
    <3> QED
      BY <3>3, <3>5, <3>6
  <2> QED
    BY <1>3, <2>1, <2>2 DEF RouteClaims
<1>4. ASSUME ctl.at = "claim", ctl'.at = "finish", dup' = "none", UNCHANGED otherMic,
             faults' \in 0..MaxFaults,
             \/ lease' \in {Released, Unclaimed} /\ child' = child
             \/ /\ lease' = Poisoned
                /\ child' = [child EXCEPT !["bluetoothCall"] = "running"]
      PROVE  MicInv' /\ CallHolds'
  <2>1. HeldFor("bluetoothCall") /\ lease.shown = "none" /\ lease \in LeaseState
        /\ \A o \in Voices : child[o] # "running"
    BY <1>2, <1>4 DEF MicInv, MicTypeOK
  <2>2. lease' \in LeaseState /\ child' \in [Voices -> {"none", "running", "ended"}]
    BY <1>1, <1>4, LeaseTypes DEF MicInv, MicTypeOK
  <2>3. FreeUnshown'
    <3>1. Released.shown = "none" /\ Unclaimed.shown = lease.shown
          /\ Poisoned.permit = "forgotten"
      BY <2>1 DEF Released, Unclaimed, Poisoned, LeaseState
    <3> QED
      BY <1>4, <2>1, <3>1 DEF FreeUnshown
  <2>4. CaptureExclusive'
    BY <1>4, <2>1
    DEF CaptureExclusive, Poisoned, HeldFor, LeaseState, MicInv, MicTypeOK
  <2> QED
    BY <1>4, <2>1, <2>2, <2>3, <2>4, CallOwns DEF CallHolds
<1>5. CASE RouteOpens
  <2>1. ctl.at = "claim" /\ ctl'.at = "finish" /\ UNCHANGED <<faults, otherMic>>
    BY <1>5 DEF RouteOpens, Finish, ControllerState
  <2>2. CASE lease' = Unclaimed /\ UNCHANGED <<dup, child>>
    BY <1>2, <1>4, <2>1, <2>2 DEF MicInv, MicTypeOK
  <2>3. CASE /\ lease' = Claimed("bluetoothCall")
             /\ child' = [child EXCEPT !["bluetoothCall"] = "running"]
             /\ dup' = IF muted THEN "muted" ELSE "open"
    <3>1. HeldFor("bluetoothCall") /\ \A o \in Voices : child[o] # "running"
      BY <1>2, <2>1
    <3>2. lease' \in LeaseState /\ child' \in [Voices -> {"none", "running", "ended"}]
      BY <1>1, <2>3, LeaseTypes DEF MicInv, MicTypeOK
    <3>3. /\ lease'.permit = "held" /\ lease'.flock = "bluetoothCall"
          /\ lease'.shown = "bluetoothCall"
      BY <2>3, <3>1 DEF Claimed, HeldFor, LeaseState, MicInv, MicTypeOK
    <3>4. CaptureExclusive' /\ FreeUnshown'
      BY <2>3, <3>1, <3>3 DEF CaptureExclusive, FreeUnshown, MicInv, MicTypeOK
    <3>5. MicInv'
      BY <2>1, <3>1, <3>2, <3>4, CallOwns DEF MicInv, MicTypeOK
    <3>6. CallHolds'
      BY <2>1, <3>3 DEF CallHolds, HeldFor
    <3> QED
      BY <2>3, <3>5, <3>6
  <2> QED
    BY <1>5, <2>2, <2>3 DEF RouteOpens
<1>6. CASE RouteFails
  <2>1. ctl.at = "claim" /\ ctl'.at = "finish" /\ dup' = dup /\ UNCHANGED otherMic
        /\ faults' \in 0..MaxFaults
    BY <1>6, FaultTyped, PlaceTypes DEF RouteFails
  <2> QED
    BY <1>2, <1>4, <1>6, <2>1 DEF RouteFails
<1>7. CASE RefreshTimesOut
  <2>1. ctl'.at = "finish" /\ UNCHANGED <<dup, child, otherMic>> /\ faults' \in 0..MaxFaults
    BY <1>7, FaultTyped, PlaceTypes DEF RefreshTimesOut
  <2>2. CASE ctl.at = "claim"
    BY <1>2, <1>4, <1>7, <2>1, <2>2 DEF RefreshTimesOut
  <2>3. CASE ctl.at # "claim"
    <3>1. lease' = lease
      BY <1>7, <2>3 DEF RefreshTimesOut
    <3>2. MicInv'
      BY <2>1, <3>1 DEF otherMic, MicInv, MicTypeOK, AaHolds, TestHolds,
           FreeUnshown, HeldFor, CaptureExclusive, StreamsNumbered, CreditWindow
    <3> QED
      BY <2>1, <3>1, <3>2 DEF CallHolds, HeldFor
  <2> QED
    BY <2>2, <2>3
<1>8. CASE ControllerStops
  <2>1. dup' = "none" /\ ctl'.at = "stopped" /\ UNCHANGED otherMic
    BY <1>8 DEF ControllerStops, ControllerState
  <2>2. CASE SilenceDone
    BY <2>1, <2>2, SilenceKeeps DEF CallHolds
  <2>3. CASE dup # "none" /\ CloseFailed("bluetoothCall")
    <3>1. HeldFor("bluetoothCall")
      BY <2>3 DEF CallHolds
    <3>2. /\ lease' \in LeaseState /\ child' \in [Voices -> {"none", "running", "ended"}]
          /\ CaptureExclusive' /\ FreeUnshown'
      BY <1>1, <2>3, <3>1, DropKeepsExclusive DEF CloseFailed, MicInv
    <3>3. faults' \in 0..MaxFaults
      BY <2>3, FaultTyped DEF CloseFailed
    <3>4. MicInv'
      BY <2>1, <3>1, <3>2, <3>3, CallOwns
    <3> QED
      BY <2>1, <3>4 DEF CallHolds
  <2> QED
    BY <1>8, <2>2, <2>3 DEF ControllerStops
<1> QED
  BY <1>3, <1>5, <1>6, <1>7, <1>8

(* Every step keeps the lease in order.                                    *)
LEMMA LeaseKeeps ==
    ASSUME TypeOK, MicInv, CallHolds, Next
    PROVE  MicInv' /\ CallHolds' /\ dup' \in {"none", "open", "muted"}
<1> DEFINE Goal == MicInv' /\ CallHolds' /\ dup' \in {"none", "open", "muted"}
<1>1. ASSUME UNCHANGED <<lease, child, otherMic>>, faults' \in 0..MaxFaults
      PROVE  MicInv'
  BY <1>1 DEF otherMic, MicInv, MicTypeOK, AaHolds, TestHolds, FreeUnshown, HeldFor,
              CaptureExclusive, StreamsNumbered, CreditWindow
<1>2. ASSUME SilenceDone \/ SilenceFails, UNCHANGED otherMic, ControllerStep, ~RouteClaims
      PROVE  Goal
  <2>1. MicInv' /\ dup' \in {"none", "open", "muted"}
        /\ (dup' # "none" => dup' = dup /\ lease' = lease)
    BY <1>2, SilenceKeeps
  <2>2. ctl'.at # "claim"
    BY <1>2, ControllerTyped
  <2> QED
    BY <2>1, <2>2 DEF CallHolds, HeldFor
<1>3. ASSUME UNCHANGED <<lease, child, dup, otherMic>>, faults' \in 0..MaxFaults,
             ControllerStep, ~RouteClaims
      PROVE  Goal
  <2>1. ctl'.at # "claim"
    BY <1>3, ControllerTyped
  <2> QED
    BY <1>1, <1>3, <2>1 DEF CallHolds, HeldFor, TypeOK
<1>4. faults' = faults => faults' \in 0..MaxFaults
  BY DEF MicInv, MicTypeOK
<1>5. CASE RouteClaims \/ RouteOpens \/ RouteFails \/ RefreshTimesOut \/ ControllerStops
  BY <1>5, RouteKeeps
<1>6. CASE /\ ~RouteClaims
           /\ \/ Signal \/ Tick \/ SkipRequest \/ RetryAudio \/ Import \/ ClearRequest
              \/ CommandSent \/ CommandRefused \/ RefreshService \/ RefreshUnwanted
              \/ RefreshObjectsFail \/ RouteWatched
  <2>1. ControllerStep /\ UNCHANGED <<lease, child, dup, otherMic>> /\ (faults' = faults \/ Fault)
    BY <1>6 DEF ControllerStep, Handle, Refresh, Signal, Tick, SkipRequest, RetryAudio, Import,
                ClearRequest, CommandSent, CommandRefused, RefreshService, RefreshUnwanted,
                RefreshObjectsFail, RouteWatched, micVars, otherMic
  <2> QED
    BY <1>3, <1>4, <1>6, <2>1, FaultTyped
<1>7. CASE /\ ~RouteClaims
           /\ \/ Cancelled \/ RefreshOwner \/ RefreshNoGateway \/ RefreshGateway
              \/ RouteChanged \/ RouteGone \/ Connect \/ Disconnect \/ CommandOwnerChanged
  <2>1. /\ ControllerStep /\ UNCHANGED otherMic
        /\ SilenceDone \/ SilenceFails
    BY <1>7 DEF ControllerStep, Handle, Refresh, Cancelled, RefreshOwner, RefreshNoGateway,
                RefreshGateway, RouteChanged, RouteGone, Connect, Disconnect, CommandOwnerChanged
  <2> QED
    BY <1>2, <1>7, <2>1
<1>8. CASE ~RouteClaims /\ (RefreshCalls \/ FinishTick \/ FinishRequest)
  <2>1. /\ ControllerStep /\ UNCHANGED otherMic
        /\ \/ SilenceDone \/ SilenceFails
           \/ UNCHANGED <<dup, lease, child, faults>>
    BY <1>8 DEF ControllerStep, Refresh, RefreshCalls, FinishTick, FinishRequest
  <2> QED
    BY <1>2, <1>3, <1>4, <1>8, <2>1
<1>9. CASE MicrophoneStep
  <2>1. AaBegin \/ TestStart \/ AaMicStep \/ TestClaimed \/ TestTask \/ MicEnvironment
    BY <1>9 DEF MicrophoneStep
  <2>2. MicInv' /\ CallUndisturbed /\ UNCHANGED <<ctl, dup>>
    BY <1>9, <2>1, MicStepKeeps DEF MicrophoneStep, callVars
  <2> QED
    BY <2>2 DEF CallHolds, CallUndisturbed, HeldFor, TypeOK
<1>10. CASE ClientCloses \/ QuitRequested \/ Shutdown
  <2>1. /\ test' = stop_test /\ UNCHANGED <<lease, child, aa, credit, owed, carplays, faults>>
        /\ UNCHANGED <<ctl, dup>>
    BY <1>10 DEF ClientCloses, QuitRequested, Shutdown, micButTest
  <2> QED
    BY <2>1, StopTestKeeps DEF CallHolds, HeldFor, TypeOK
<1>11. CASE /\ Others
            /\ ~(MicrophoneStep \/ ClientCloses \/ QuitRequested \/ Shutdown)
  <2>1. UNCHANGED <<lease, child, otherMic>> /\ (faults' = faults \/ Fault)
    BY <1>11 DEF Others, Submit, SetMuted, ImportFetches, ImportCleans, QuitTestStopped,
                 QuitDone, Exit, PhoneChanges, ServiceChanges, micVars, otherMic
  <2>2. MicInv'
    BY <1>1, <1>4, <2>1, FaultTyped
  <2> QED
    BY <1>11, <2>1, <2>2, OthersTyped DEF CallHolds, HeldFor, TypeOK
<1> QED
  BY <1>5, <1>6, <1>7, <1>8, <1>9, <1>10, <1>11
  DEF Next, ControllerStep, Handle, Refresh, Others

-----------------------------------------------------------------------------
(* The client's queue and generations.                                     *)

(* Quit is asked for once; what follows never goes back to before it.      *)
LEMMA QuitTyped ==
    ASSUME quit \in {"none", "test", "calls", "answered", "stopped", "failed"}, Next
    PROVE  /\ quit' \in {"none", "test", "calls", "answered", "stopped", "failed"}
           /\ quit' # quit => /\ quit' # "none"
                              /\ quit = "none" => QuitRequested
                              /\ quit' = "answered" => FinishRequest
                              /\ quit' = "stopped" => QuitDone
<1>1. CASE QuitRequested \/ QuitTestStopped \/ QuitDone \/ FinishRequest
  BY <1>1 DEF QuitRequested, QuitTestStopped, QuitFails, QuitDone, FinishRequest
<1>2. CASE Refresh
  BY <1>2 DEF Refresh, RefreshService, RefreshOwner, RefreshObjectsFail, RefreshUnwanted,
      RefreshNoGateway, RefreshGateway, RefreshCalls, RouteChanged, RouteGone, RouteWatched,
      RouteClaims, RouteOpens, RouteFails, RefreshTimesOut
<1>3. CASE Handle
  BY <1>3 DEF Handle, SkipRequest, Connect, Disconnect, RetryAudio, Import, ClearRequest,
      CommandOwnerChanged, CommandSent, CommandRefused
<1>4. CASE Signal \/ Cancelled \/ Tick \/ FinishTick \/ ControllerStops
  BY <1>4 DEF Signal, Cancelled, Tick, FinishTick, ControllerStops
<1>5. CASE Others /\ ~(QuitRequested \/ QuitTestStopped \/ QuitDone)
  BY <1>5 DEF Others, Submit, ClientCloses, SetMuted, ImportFetches, ImportCleans,
      MicrophoneStep, callVars, Shutdown, Exit, PhoneChanges, ServiceChanges
<1> QED
  BY <1>1, <1>2, <1>3, <1>4, <1>5 DEF Next, ControllerStep, Others

(* The queue stays within its capacity and no generation is beyond the     *)
(* number of requests and Quit.                                            *)
LEMMA ClientKeeps ==
    ASSUME TypeOK, GenBounded, Next
    PROVE  client' \in ClientState /\ Len(client'.reqs) <= QueueCap /\ GenBounded'
<1> DEFINE Goal == client' \in ClientState /\ Len(client'.reqs) <= QueueCap /\ GenBounded'
<1>1. /\ client.reqs \in Seq(Request) /\ Len(client.reqs) <= QueueCap
      /\ client.gen \in 0..MaxRequests + 1 /\ client.seen \in 0..MaxRequests + 1
      /\ client.made \in 0..MaxRequests /\ client \in ClientState
  BY DEF TypeOK, ClientState
<1>2. quit # "none" => quit' # "none"
  BY QuitTyped DEF TypeOK
<1>3. ASSUME NEW q \in Seq(Request), Len(q) <= QueueCap,
             client' = [client EXCEPT !.reqs = q]
      PROVE  Goal
  <2>1. client' \in ClientState
    BY <1>1, <1>3, ClientFields
  <2>2. client'.reqs = q /\ client'.gen = client.gen /\ client'.made = client.made
    BY <1>1, <1>3 DEF ClientState
  <2> QED
    BY <1>1, <1>2, <1>3, <2>1, <2>2 DEF GenBounded, Stopping
<1>4. ASSUME client' = client PROVE Goal
  BY <1>1, <1>2, <1>4 DEF GenBounded, Stopping
<1>5. ASSUME NEW q \in Seq(Request), Len(q) <= QueueCap, client.made < MaxRequests,
             NEW g \in {client.gen, client.gen + 1}, quit' = quit,
             client' = [client EXCEPT !.reqs = q, !.gen = g, !.made = @ + 1]
      PROVE  Goal
  <2>1. g \in 0..MaxRequests + 1 /\ client.made + 1 \in 0..MaxRequests
    <3>1. MaxRequests \in Nat
      BY DEF CallsAssumption
    <3>2. client.gen <= client.made + 1
      BY <1>1, <3>1 DEF GenBounded
    <3>3. client.gen \in 0..MaxRequests + 1 /\ client.made \in 0..MaxRequests
      BY <1>1
    <3>4. g = client.gen \/ g = client.gen + 1
      BY <1>5
    <3>5. client.made < MaxRequests
      BY <1>5
    <3> HIDE DEF Goal
    <3> QED
      BY <3>1, <3>2, <3>3, <3>4, <3>5, SMT
  <2>2. [client EXCEPT !.reqs = q] \in ClientState
    BY <1>1, ClientFields
  <2>3. [client EXCEPT !.reqs = q, !.gen = g] \in ClientState
    BY <2>1, <2>2, ClientFields
  <2>4. [client EXCEPT !.reqs = q, !.gen = g].made = client.made
    BY <1>1 DEF ClientState
  <2>5. client' \in ClientState
    BY <1>5, <2>1, <2>3, <2>4, ClientFields
  <2>6. client'.reqs = q /\ client'.gen = g /\ client'.made = client.made + 1
    BY <1>1, <1>5 DEF ClientState
  <2>7. Stopping' <=> Stopping
    BY <1>5 DEF Stopping
  <2>8. GenBounded'
    <3>1. client.gen \in Nat /\ client.made \in Nat /\ (g = client.gen \/ g = client.gen + 1)
      BY <1>1, <1>5
    <3>2. CASE Stopping
      BY <2>6, <2>7, <3>1, <3>2 DEF GenBounded
    <3>3. CASE ~Stopping
      BY <2>6, <2>7, <3>1, <3>3 DEF GenBounded
    <3> QED
      BY <3>2, <3>3
  <2> QED
    BY <1>5, <2>5, <2>6, <2>8
<1>6. \A q \in Seq(Request), r \in Request :
          Append(q, r) \in Seq(Request) /\ Len(Append(q, r)) = Len(q) + 1
  OBVIOUS
<1>7. CASE \E k \in Uses, p \in Phones : Submit(k, p)
  <2>1. PICK k \in Uses, p \in Phones : Submit(k, p)
    BY <1>7
  <2> DEFINE g == IF k = "disconnect" THEN client.gen + 1 ELSE client.gen
             r == [kind |-> k, phone |-> p, gen |-> g, fresh |-> TRUE]
  <2>2. g \in {client.gen, client.gen + 1} /\ client.made < MaxRequests
        /\ Len(client.reqs) < QueueCap /\ quit' = quit
        /\ client' = [client EXCEPT !.reqs = Append(@, r), !.gen = g, !.made = @ + 1]
    BY <2>1 DEF Submit
  <2>3. g \in 0..MaxRequests + 1
    <3>1. ~Stopping
      BY <2>1 DEF Submit
    <3> QED
      BY <1>1, <2>2, <3>1, SMTT(40) DEF GenBounded
  <2>4. r \in Request
    BY <2>3 DEF Request, Target
  <2> HIDE DEF g, r
  <2>5. Append(client.reqs, r) \in Seq(Request) /\ Len(Append(client.reqs, r)) <= QueueCap
    BY <1>1, <1>6, <2>2, <2>4
  <2> QED
    BY <1>5, <2>2, <2>5
<1>8. CASE ClientCloses
  <2> DEFINE q == IF Len(client.reqs) < QueueCap
                  THEN Append(client.reqs, [QuitRequest EXCEPT !.fresh = TRUE])
                  ELSE client.reqs
  <2>1. q \in Seq(Request) /\ Len(q) <= QueueCap
    BY <1>1, <1>6, ConstantTypes
  <2>2. client' = [client EXCEPT !.reqs = q, !.gen = client.gen + 1, !.made = @ + 1]
        /\ client.made < MaxRequests /\ quit' = quit
    BY <1>1, <1>8 DEF ClientCloses, ClientState
  <2> HIDE DEF q
  <2> QED
    BY <1>5, <2>1, <2>2
<1>9. CASE SetMuted
  <2>1. client' = [client EXCEPT !.made = @ + 1] /\ client.made < MaxRequests /\ quit' = quit
    BY <1>9 DEF SetMuted
  <2>2. client.made + 1 \in 0..MaxRequests
    BY <1>1, <2>1
  <2>3. client' \in ClientState
    BY <1>1, <2>1, <2>2, ClientFields
  <2>4. client'.reqs = client.reqs /\ client'.gen = client.gen /\ client'.made = client.made + 1
    BY <1>1, <2>1 DEF ClientState
  <2> QED
    BY <1>1, <2>1, <2>3, <2>4 DEF GenBounded, Stopping
<1>10. CASE QuitRequested
  <2>1. client' = [client EXCEPT !.gen = @ + 1] /\ quit = "none" /\ quit' = "test"
    BY <1>10 DEF QuitRequested
  <2>2. client.gen + 1 \in 0..MaxRequests + 1
    BY <1>1, <2>1, SMTT(40) DEF GenBounded, Stopping
  <2>3. client' \in ClientState
    BY <1>1, <2>1, <2>2, ClientFields
  <2>4. client'.reqs = client.reqs /\ client'.gen = client.gen + 1 /\ client'.made = client.made
    BY <1>1, <2>1 DEF ClientState
  <2> QED
    BY <1>1, <2>1, <2>3, <2>4 DEF GenBounded, Stopping
<1>11. CASE QuitTestStopped
  <2>1. /\ Append(client.reqs, QuitRequest) \in Seq(Request)
        /\ Len(Append(client.reqs, QuitRequest)) = Len(client.reqs) + 1
    BY <1>1, <1>6, ConstantTypes
  <2>2. \/ client' = client
        \/ /\ Len(Append(client.reqs, QuitRequest)) <= QueueCap
           /\ client' = [client EXCEPT !.reqs = Append(client.reqs, QuitRequest)]
    BY <1>1, <1>11, <2>1 DEF QuitTestStopped
  <2> QED
    BY <1>3, <1>4, <2>1, <2>2
<1>12. CASE Cancelled
  <2>1. client' = [client EXCEPT !.seen = client.gen]
    BY <1>12 DEF Cancelled
  <2>2. client' \in ClientState
    BY <1>1, <2>1, ClientFields
  <2>3. client'.reqs = client.reqs /\ client'.gen = client.gen /\ client'.made = client.made
    BY <1>1, <2>1 DEF ClientState
  <2> QED
    BY <1>1, <1>2, <2>2, <2>3 DEF GenBounded, Stopping
<1>13. CASE client' = NewEpoch
  <2>1. Stale(client.reqs) \in Seq(Request) /\ Len(Stale(client.reqs)) = Len(client.reqs)
    BY <1>1, StaleTypes
  <2> QED
    BY <1>1, <1>3, <1>13, <2>1 DEF NewEpoch
<1>14. CASE client.reqs # <<>> /\ client' \in {Popped, [Popped EXCEPT !.reqs = Stale(@)]}
  <2>1. Tail(client.reqs) \in Seq(Request) /\ Len(Tail(client.reqs)) <= QueueCap
    BY <1>14, TakenTypes
  <2>2. Stale(Tail(client.reqs)) \in Seq(Request) /\ Len(Stale(Tail(client.reqs))) <= QueueCap
    BY <2>1, StaleTypes
  <2>3. Popped.reqs = Tail(client.reqs)
    BY <1>1 DEF Popped, ClientState
  <2>4. [Popped EXCEPT !.reqs = Stale(@)] = [client EXCEPT !.reqs = Stale(Tail(client.reqs))]
    BY <1>1, <2>3 DEF Popped, ClientState
  <2> QED
    BY <1>3, <1>14, <2>1, <2>2, <2>4 DEF Popped
<1>15. CASE Refresh
  <2>1. client' \in {client, NewEpoch}
    BY <1>15
    DEF Refresh, RefreshService, RefreshOwner, RefreshObjectsFail, RefreshUnwanted,
        RefreshNoGateway, RefreshGateway, RefreshCalls, RouteChanged, RouteGone, RouteWatched,
        RouteClaims, RouteOpens, RouteFails, RefreshTimesOut
  <2> QED
    BY <1>4, <1>13, <2>1
<1>16. CASE Handle
  <2>1. client.reqs # <<>>
    BY <1>16 DEF Handle, SkipRequest, Connect, Disconnect, RetryAudio, Import, ClearRequest,
                 CommandOwnerChanged, CommandSent, CommandRefused, Accept, Next1
  <2>2. client' \in {Popped, [Popped EXCEPT !.reqs = Stale(@)]}
    BY <1>16 DEF Handle, SkipRequest, Connect, Disconnect, RetryAudio, Import, ClearRequest,
                 CommandOwnerChanged, CommandSent, CommandRefused
  <2> QED
    BY <1>14, <2>1, <2>2
<1>17. CASE Signal \/ Tick \/ FinishTick \/ FinishRequest \/ ControllerStops
  <2>1. client' \in {client, NewEpoch}
    BY <1>17 DEF Signal, Tick, FinishTick, FinishRequest, ControllerStops
  <2> QED
    BY <1>4, <1>13, <2>1
<1>18. CASE ImportFetches \/ ImportCleans \/ MicrophoneStep \/ QuitDone \/ Shutdown \/ Exit
            \/ PhoneChanges \/ ServiceChanges
  <2>1. client' = client
    BY <1>18 DEF ImportFetches, ImportCleans, MicrophoneStep, callVars, QuitDone, Shutdown, Exit,
                 PhoneChanges, ServiceChanges
  <2> QED
    BY <1>4, <2>1
<1> QED
  BY <1>7, <1>8, <1>9, <1>10, <1>11, <1>12, <1>15, <1>16, <1>17, <1>18 DEF Next, ControllerStep

-----------------------------------------------------------------------------
(* What the controller remembers of its request and its phone.             *)

(* A refresh belongs to the phone and the request it began with, and       *)
(* without the wish to connect it goes neither to routes nor to a claim.   *)
LEMMA RefreshRemembers ==
    ASSUME TypeOK, Refresh
    PROVE  /\ ctl.at \in {"refresh", "route", "claim"} /\ ctl'.at # "stopped"
           /\ ctl'.device = ctl.device /\ ctl'.by = ctl.by /\ ctl'.req = ctl.req
           /\ ctl'.wanted => ctl.wanted
           /\ ctl'.at \in {"route", "claim"} => ctl.wanted \/ ctl.at \in {"route", "claim"}
<1> DEFINE Same(c) == /\ c \in ControllerState
                      /\ c.device = ctl.device /\ c.by = ctl.by /\ c.req = ctl.req
                      /\ c.wanted => ctl.wanted
<1>1. ctl \in ControllerState
  BY DEF TypeOK
<1>2. ASSUME NEW c, Same(c), NEW err \in BOOLEAN
      PROVE  Same(Finish(c, err)) /\ Finish(c, err).at = "finish"
  BY <1>2, PlaceTypes
<1>3. CASE RefreshService
  BY <1>1, <1>3, ServiceLostTypes DEF RefreshService
<1>4. CASE RefreshOwner
  <2> DEFINE c == [ctl EXCEPT !.known = TRUE, !.gateway = NoPhone, !.listed = {}]
  <2>1. [ctl EXCEPT !.known = TRUE] \in ControllerState
    BY <1>1, ControllerFields
  <2>2. [[ctl EXCEPT !.known = TRUE] EXCEPT !.gateway = NoPhone] \in ControllerState
    BY <2>1, ControllerFields, ConstantTypes
  <2>3. c \in ControllerState
    BY <2>2, ControllerFields, ConstantTypes
  <2>4. c.at = ctl.at /\ c.device = ctl.device /\ c.by = ctl.by /\ c.req = ctl.req
        /\ c.wanted = ctl.wanted
    BY <1>1 DEF ControllerState
  <2>5. ctl' \in {c, ServiceLost(c)} /\ ctl.at = "refresh"
    BY <1>4 DEF RefreshOwner
  <2> HIDE DEF c
  <2> QED
    BY <2>3, <2>4, <2>5, ServiceLostTypes
<1>5. CASE RefreshObjectsFail \/ RefreshUnwanted
  BY <1>1, <1>5, ZenonT(60) DEF RefreshObjectsFail, RefreshUnwanted, InRefresh, Finish, ControllerState
<1>9. CASE RefreshGateway
  BY <1>1, <1>9 DEF RefreshGateway, InRefresh, Finish, ControllerState
<1>10. CASE RefreshCalls
  <2> DEFINE now == {ctl.device} \cap {p \in Phones : tel.call[p] # "none"}
             c == [ctl EXCEPT !.phase = "connected", !.listed = now,
                              !.tries = IF ctl.listed = {} /\ now # {} THEN 0 ELSE @]
  <2>1. c.device = ctl.device /\ c.by = ctl.by /\ c.req = ctl.req /\ c.wanted = ctl.wanted
    BY <1>1 DEF ControllerState
  <2>2. \/ ctl' = [c EXCEPT !.at = "route"]
        \/ ctl' = [c EXCEPT !.at = "finish", !.err = FALSE]
        \/ ctl' = [c EXCEPT !.at = "finish", !.err = TRUE]
    BY <1>10 DEF RefreshCalls, Finish
  <2>3. ctl.at = "refresh" /\ ctl.wanted
    BY <1>10 DEF RefreshCalls, InRefresh
  <2> QED
    <3>1. ctl'.at \in {"route", "finish"}
      BY <1>1, <2>2 DEF ControllerState
    <3>2. ctl'.device = c.device /\ ctl'.by = c.by /\ ctl'.req = c.req /\ ctl'.wanted = c.wanted
      BY <1>1, <2>2, ZenonT(60) DEF ControllerState
    <3> HIDE DEF c
    <3> QED
      BY <2>1, <2>3, <3>1, <3>2
<1>6. CASE RefreshNoGateway
  <2>1. ctl'.at = "finish" /\ ctl.at = "refresh" /\ ctl.wanted
    BY <1>1, <1>6, ZenonT(60) DEF RefreshNoGateway, InRefresh, Finish, ControllerState
  <2>2. ctl'.device = ctl.device /\ ctl'.by = ctl.by /\ ctl'.req = ctl.req
    BY <1>1, <1>6, ZenonT(60) DEF RefreshNoGateway, InRefresh, Finish, ControllerState
  <2> QED
    BY <2>1, <2>2
<1>7. CASE RouteChanged \/ RouteGone \/ RouteWatched \/ RouteClaims
  BY <1>1, <1>7, ZenonT(60)
  DEF RouteChanged, RouteGone, RouteWatched, RouteClaims, Finish, ControllerState
<1>8. CASE RouteOpens \/ RouteFails \/ RefreshTimesOut
  BY <1>1, <1>8 DEF RouteOpens, RouteFails, RefreshTimesOut, Finish, ControllerState
<1> QED
  BY <1>3, <1>4, <1>5, <1>6, <1>7, <1>8, <1>9, <1>10 DEF Refresh

(* A request changes the phone only by clearing what the book has of it.   *)
LEMMA HandleRemembers ==
    ASSUME TypeOK, Handle
    PROVE  ctl'.device = ctl.device \/ ClearBook
<1>1. CASE SkipRequest \/ Connect \/ Disconnect
  BY <1>1 DEF SkipRequest, Connect, Disconnect
<1>2. CASE RetryAudio \/ CommandOwnerChanged
  BY <1>2 DEF RetryAudio, CommandOwnerChanged, Taken, Finish, ControllerState, TypeOK
<1>3. CASE Import \/ ClearRequest \/ CommandSent \/ CommandRefused
  <2>1. \E err \in BOOLEAN : ctl' = Finish(Taken, err)
    BY <1>3 DEF Import, ClearRequest, CommandSent, CommandRefused
  <2> QED
    BY <2>1 DEF Taken, Finish, ControllerState, TypeOK
<1> QED
  BY <1>1, <1>2, <1>3 DEF Handle

-----------------------------------------------------------------------------
(* The phonebook.                                                          *)

(* A cleared book has no import and no contacts, but remembers whether an  *)
(* OBEX session may have been left.                                        *)
LEMMA ClearTypes ==
    ASSUME book \in BookState
    PROVE  /\ \A bad \in BOOLEAN : /\ Cleared(bad) \in BookState
                                   /\ Cleared(bad).job = "none"
                                   /\ Cleared(bad).entries = NoPhone
           /\ ClearBook => /\ book' \in BookState
                           /\ book'.job = "none" /\ book'.entries = NoPhone
<1>1. \A bad \in BOOLEAN : /\ Cleared(bad) \in BookState
                           /\ Cleared(bad).job = "none"
                           /\ Cleared(bad).entries = NoPhone
  BY ConstantTypes DEF Cleared, BookState
<1>2. ClearBook => \E bad \in BOOLEAN : book' = Cleared(bad)
  BY DEF ClearBook, BookState
<1> QED
  BY <1>1, <1>2

(* An import and the contacts belong to the selected phone.                *)
LEMMA BookKeeps ==
    ASSUME TypeOK, JobOfDevice, ContactsOfDevice, Next
    PROVE  book' \in BookState /\ JobOfDevice' /\ ContactsOfDevice'
<1> DEFINE Goal == book' \in BookState /\ JobOfDevice' /\ ContactsOfDevice'
<1>1. book \in BookState
  BY DEF TypeOK
<1>2. ASSUME ClearBook PROVE Goal
  BY <1>1, <1>2, ClearTypes DEF JobOfDevice, ContactsOfDevice
<1>3. ASSUME book' = book, ctl'.device = ctl.device PROVE Goal
  BY <1>1, <1>3 DEF JobOfDevice, ContactsOfDevice
<1>4. CASE Refresh /\ ~RefreshTimesOut
  <2>1. ClearBook \/ book' = book
    BY <1>4
    DEF Refresh, RefreshService, RefreshOwner, RefreshObjectsFail, RefreshUnwanted,
        RefreshNoGateway, RefreshGateway, RefreshCalls, RouteChanged, RouteGone, RouteWatched,
        RouteClaims, RouteOpens, RouteFails
  <2> QED
    BY <1>2, <1>3, <1>4, <2>1, RefreshRemembers
<1>5. CASE RefreshTimesOut
  <2>1. ctl'.device = ctl.device
    BY <1>5, RefreshRemembers DEF Refresh
  <2>2. /\ CancelledBook \in BookState /\ CancelledBook.job = book.job
        /\ CancelledBook.of = book.of /\ CancelledBook.entries = NoPhone
    BY <1>1, ConstantTypes DEF CancelledBook, BookState
  <2>3. book' \in {book, CancelledBook}
    BY <1>5 DEF RefreshTimesOut
  <2> QED
    BY <1>1, <2>1, <2>2, <2>3 DEF JobOfDevice, ContactsOfDevice
<1>6. CASE Handle /\ ~Import
  <2>1. ClearBook \/ book' = book
    BY <1>6 DEF Handle, SkipRequest, Connect, Disconnect, RetryAudio, ClearRequest,
                CommandOwnerChanged, CommandSent, CommandRefused
  <2> QED
    BY <1>2, <1>3, <1>6, <2>1, HandleRemembers
<1>7. CASE Import
  <2>1. client.reqs # <<>> /\ \E err \in BOOLEAN : ctl' = Finish(Taken, err)
    BY <1>7 DEF Import, Accept, Next1
  <2>2. ctl'.device = ctl.device
    BY <2>1, TakenTypes, PlaceTypes
  <2>3. ctl.device \in Target
    BY DEF TypeOK, ControllerState
  <2>4. /\ Importing \in BookState /\ Importing.of = ctl.device /\ Importing.entries = NoPhone
    <3>1. Cleared(FALSE) \in BookState /\ Cleared(FALSE).entries = NoPhone
      BY <1>1, ClearTypes
    <3>2. [Cleared(FALSE) EXCEPT !.job = "fetch"] \in BookState
      BY <3>1, BookFields
    <3>3. [[Cleared(FALSE) EXCEPT !.job = "fetch"] EXCEPT !.of = ctl.device] \in BookState
      BY <2>3, <3>2, BookFields
    <3>4. Importing \in BookState
      BY <3>3, BookFields DEF Importing
    <3> QED
      BY <3>1, <3>4 DEF Importing, BookState
  <2>5. book' \in {book, Importing} \/ \E bad \in BOOLEAN : book' = Cleared(bad)
    BY <1>7 DEF Import
  <2> QED
    BY <1>1, <1>3, <2>2, <2>4, <2>5, ClearTypes DEF JobOfDevice, ContactsOfDevice
<1>8. CASE Tick
  <2>1. ctl'.device = ctl.device
    BY <1>8 DEF Tick, ControllerState, TypeOK
  <2>2. CASE book' = Polled
    <3>1. CASE book.job = "done"
      <4>1. book.bad \in BOOLEAN /\ book.of \in Target
        BY <1>1 DEF BookState
      <4>2. /\ Cleared(book.bad) \in BookState /\ Cleared(book.bad).job = "none"
        BY <1>1, <4>1, ClearTypes
      <4>3. /\ Polled \in BookState /\ Polled.job = "none"
            /\ Polled.entries \in {book.of, NoPhone}
        BY <3>1, <4>1, <4>2, ConstantTypes DEF Polled, BookState
      <4> QED
        BY <2>1, <2>2, <3>1, <4>3 DEF JobOfDevice, ContactsOfDevice
    <3>2. CASE book.job # "done"
      BY <1>3, <2>1, <2>2, <3>2 DEF Polled
    <3> QED
      BY <3>1, <3>2
  <2> QED
    BY <1>2, <1>8, <2>2 DEF Tick
<1>9. CASE Signal \/ Cancelled \/ FinishTick \/ FinishRequest \/ ControllerStops
  <2>1. ClearBook \/ (book' = book /\ ~Cancelled /\ ~ControllerStops)
    BY <1>9 DEF Signal, Cancelled, FinishTick, FinishRequest, ControllerStops
  <2>2. CASE Signal \/ FinishTick \/ FinishRequest
    <3>1. Signal => ctl'.device = ctl.device
      BY DEF Signal, ControllerState, TypeOK
    <3>2. FinishTick => ctl'.device = ctl.device
      BY ZenonT(60) DEF FinishTick, TickFailed, Back, ControllerState, TypeOK
    <3>3. FinishRequest => ctl'.device = ctl.device
      BY DEF FinishRequest, Back, ControllerState, TypeOK
    <3>4. ctl'.device = ctl.device
      BY <2>2, <3>1, <3>2, <3>3
    <3> QED
      BY <1>2, <1>3, <2>1, <3>4
  <2> QED
    BY <1>2, <1>9, <2>1, <2>2
<1>10. CASE ImportFetches \/ ImportCleans
  <2>1. ctl' = ctl
    BY <1>10 DEF ImportFetches, ImportCleans
  <2>2. /\ book' \in BookState /\ book'.of = book.of /\ book'.entries = book.entries
        /\ book.job # "none"
    <3>1. CASE ImportFetches
      <4>1. PICK g \in {book.got, FALSE} : book' = [book EXCEPT !.job = "fetched", !.got = g]
        BY <3>1 DEF ImportFetches
      <4>2. g \in BOOLEAN /\ [book EXCEPT !.job = "fetched"] \in BookState
        BY <1>1, BookFields DEF BookState
      <4>3. book' \in BookState
        BY <4>1, <4>2, BookFields
      <4> QED
        BY <1>1, <3>1, <4>1, <4>3 DEF ImportFetches, BookState
    <3>2. CASE ImportCleans
      <4>1. [book EXCEPT !.job = "done"] \in BookState
        BY <1>1, BookFields
      <4>2. [book EXCEPT !.job = "done", !.bad = TRUE] \in BookState
        BY <4>1, BookFields
      <4>3. book' \in {[book EXCEPT !.job = "done"], [book EXCEPT !.job = "done", !.bad = TRUE]}
        BY <3>2 DEF ImportCleans
      <4> QED
        BY <1>1, <3>2, <4>1, <4>2, <4>3 DEF ImportCleans, BookState
    <3> QED
      BY <1>10, <3>1, <3>2
  <2> QED
    BY <2>1, <2>2 DEF JobOfDevice, ContactsOfDevice
<1>11. CASE Others /\ ~(ImportFetches \/ ImportCleans)
  <2>1. book' = book
    BY <1>11 DEF Others, Submit, ClientCloses, SetMuted, MicrophoneStep, callVars, QuitRequested,
                 QuitTestStopped, QuitDone, Shutdown, Exit, PhoneChanges, ServiceChanges
  <2> QED
    BY <1>3, <1>11, <2>1, OthersTyped
<1> QED
  BY <1>4, <1>5, <1>6, <1>7, <1>8, <1>9, <1>10, <1>11 DEF Next, ControllerStep, Refresh, Others

-----------------------------------------------------------------------------
(* Quit and the exit.                                                      *)

(* A disconnect is over as soon as it is handled; when it ends without an  *)
(* error the audio is closed and the wish to connect is gone.              *)
LEMMA DisconnectKeeps ==
    ASSUME TypeOK, DisconnectDone, Next
    PROVE  DisconnectDone'
<1>1. ctl \in ControllerState
  BY DEF TypeOK
<1>2. CASE Refresh
  BY <1>2, RefreshRemembers DEF DisconnectDone
<1>3. CASE Disconnect
  <2>1. client.reqs # <<>> /\ Head(client.reqs).kind = "disconnect"
    BY <1>3 DEF Disconnect, Accept, Next1
  <2>2. Taken \in ControllerState
    BY <2>1, TakenTypes
  <2> DEFINE c == [Taken EXCEPT !.wanted = FALSE]
             d == [c EXCEPT !.device = NoPhone, !.listed = {}, !.gateway = NoPhone,
                            !.phase = "disconnected"]
  <2>3. Finish(c, TRUE).at = "finish" /\ Finish(c, TRUE).err = TRUE
        /\ Finish(d, FALSE).at = "finish" /\ Finish(d, FALSE).wanted = FALSE
    BY <2>2 DEF Finish, ControllerState
  <2>4. \/ ctl' = Finish(c, TRUE)
        \/ ctl' = Finish(d, FALSE) /\ dup' = "none"
    BY <1>3 DEF Disconnect, SilenceDone
  <2> HIDE DEF c, d
  <2> QED
    BY <2>3, <2>4 DEF DisconnectDone
<1>4. CASE SkipRequest
  BY <1>4 DEF SkipRequest, DisconnectDone
<1>5. CASE Handle /\ ~Disconnect /\ ~SkipRequest
  <2>1. /\ client.reqs # <<>> /\ Head(client.reqs).kind # "disconnect"
        /\ \/ ctl'.by = "request" /\ ctl'.req = Head(client.reqs)
           \/ ctl' = ctl /\ dup' = dup
    <3>1. client.reqs # <<>> /\ Head(client.reqs).kind # "disconnect"
      BY <1>5 DEF Handle, Connect, RetryAudio, Import, ClearRequest, CommandOwnerChanged,
                  CommandSent, CommandRefused, Accept, Next1
    <3>2. CASE ctl' = ctl
      <4>1. ctl.at = "loop"
        BY <1>5 DEF Handle, Connect, RetryAudio, Import, ClearRequest, CommandOwnerChanged,
                    CommandSent, CommandRefused, Accept, Next1, Quiet, AtLoop
      <4>2. ctl'.at \in {"finish", "refresh"}
        BY <1>5, ZenonT(60) DEF Handle, Connect, RetryAudio, Import, ClearRequest, CommandOwnerChanged,
                    CommandSent, CommandRefused, Finish, Taken, ControllerState, TypeOK
      <4> QED
        BY <3>2, <4>1, <4>2
    <3> QED
      BY <1>5, <3>1, <3>2, HandleTyped
  <2> QED
    BY <2>1 DEF DisconnectDone
<1>6. CASE Signal \/ Cancelled \/ Tick
  <2>1. ctl.at = "loop"
    BY <1>6 DEF Signal, Cancelled, Tick, Quiet, AtLoop
  <2>2. ctl'.by = ctl.by /\ ctl'.req = ctl.req
    BY <1>1, <1>6 DEF Signal, Cancelled, Tick, ControllerState
  <2> QED
    BY <2>1, <2>2 DEF DisconnectDone
<1>7. CASE FinishTick \/ FinishRequest
  <2>1. ctl'.by = "tick"
    BY <1>1, <1>7 DEF FinishTick, FinishRequest, TickFailed, Back, ControllerState
  <2> QED
    BY <2>1 DEF DisconnectDone
<1>8. CASE ControllerStops
  <2>1. ctl.at = "loop" /\ ctl'.by = ctl.by /\ ctl'.req = ctl.req
    BY <1>1, <1>8 DEF ControllerStops, ControllerState
  <2> QED
    BY <2>1 DEF DisconnectDone
<1>9. CASE Others
  BY <1>9, OthersTyped DEF DisconnectDone
<1> QED
  BY <1>2, <1>3, <1>4, <1>5, <1>6, <1>7, <1>8, <1>9 DEF Next, ControllerStep, Others

(* After the answer to Quit's disconnect nobody starts call audio again:   *)
(* later requests are refused and nothing else sets the wish to connect.   *)
LEMMA SilentKeeps ==
    ASSUME TypeOK, DisconnectDone, AnsweredSilent, Next
    PROVE  AnsweredSilent'
<1> DEFINE Silent == dup = "none" /\ ~ctl.wanted /\ ctl.at \notin {"route", "claim"}
<1>1. ctl \in ControllerState
  BY DEF TypeOK
<1>2. SilenceDone \/ SilenceFails \/ dup' = dup => (dup = "none" => dup' = "none")
  BY DEF SilenceDone, SilenceFails
<1>3. CASE quit' # quit /\ quit' = "answered"
  <2>1. FinishRequest
    BY <1>3, QuitTyped DEF TypeOK
  <2>2. ctl.by = "request" /\ ctl.req = QuitRequest /\ ~ctl.err
    BY <1>3, <2>1 DEF FinishRequest
  <2>3. ctl.req.kind = "disconnect"
    BY <2>2 DEF QuitRequest
  <2>4. dup = "none" /\ ~ctl.wanted
    BY <2>2, <2>3 DEF DisconnectDone
  <2>5. ctl' = Back(ctl) /\ dup' = dup
    BY <2>1, <2>3 DEF FinishRequest, Revoked
  <2>6. Back(ctl).at = "loop" /\ Back(ctl).wanted = ctl.wanted
    BY <1>1, PlaceTypes
  <2> QED
    BY <2>4, <2>5, <2>6 DEF AnsweredSilent
<1>4. CASE quit' # quit /\ quit' # "answered"
  <2>1. quit' = "stopped" => QuitDone
    BY <1>4, QuitTyped DEF TypeOK
  <2>2. QuitDone => quit = "answered" /\ UNCHANGED <<ctl, dup>>
    BY DEF QuitDone
  <2> QED
    BY <1>4, <2>1, <2>2 DEF AnsweredSilent
<1>5. CASE quit' = quit /\ quit \in {"answered", "stopped"}
  <2>1. Silent /\ Stopping
    BY <1>5 DEF AnsweredSilent, Stopping
  <2>2. CASE Refresh
    <3>1. ~ctl'.wanted /\ ctl'.at \notin {"route", "claim"}
      BY <2>1, <2>2, RefreshRemembers
    <3>2. SilenceDone \/ SilenceFails \/ dup' = dup
      BY <2>1, <2>2
      DEF Refresh, RefreshService, RefreshOwner, RefreshObjectsFail, RefreshUnwanted,
          RefreshNoGateway, RefreshGateway, RefreshCalls, RouteChanged, RouteGone, RouteWatched,
          RouteClaims, RouteOpens, RouteFails, RefreshTimesOut
    <3> QED
      BY <1>2, <2>1, <3>1, <3>2 DEF AnsweredSilent
  <2>3. CASE Handle
    <3>1. ctl'.at \notin {"route", "claim"}
      BY <2>1, <2>3, HandleTyped
    <3>2. SilenceDone \/ SilenceFails \/ dup' = dup
      BY <2>3 DEF Handle, SkipRequest, Connect, Disconnect, RetryAudio, Import, ClearRequest,
                  CommandOwnerChanged, CommandSent, CommandRefused
    <3>3. ~Connect /\ ~RetryAudio
      BY <2>1 DEF Connect, RetryAudio, Accept, Next1, Skipped
    <3>4. ~ctl'.wanted
      <4>1. Taken.wanted = ctl.wanted /\ ctl \in ControllerState
        BY <1>1 DEF Taken, ControllerState
      <4>2. CASE SkipRequest
        BY <2>1, <4>2 DEF SkipRequest
      <4>3. CASE Disconnect \/ CommandOwnerChanged
        BY <1>1, <2>1, <4>3, ZenonT(60) DEF Disconnect, CommandOwnerChanged, Taken, Finish, ControllerState
      <4>4. CASE Import \/ ClearRequest \/ CommandSent \/ CommandRefused
        <5>1. \E err \in BOOLEAN : ctl' = Finish(Taken, err)
          BY <4>4 DEF Import, ClearRequest, CommandSent, CommandRefused
        <5> QED
          BY <1>1, <2>1, <5>1 DEF Taken, Finish, ControllerState
      <4> QED
        BY <2>3, <3>3, <4>2, <4>3, <4>4 DEF Handle
    <3> QED
      BY <1>2, <2>1, <3>1, <3>2, <3>4 DEF AnsweredSilent
  <2>4. CASE Signal \/ Cancelled \/ Tick \/ ControllerStops
    <3>1. SilenceDone \/ SilenceFails \/ dup' = dup \/ dup' = "none"
      BY <2>4 DEF Signal, Cancelled, Tick, ControllerStops
    <3>2. ~ctl'.wanted /\ ctl'.at \notin {"route", "claim"}
      BY <1>1, <2>1, <2>4 DEF Signal, Cancelled, Tick, ControllerStops, ControllerState
    <3> QED
      BY <1>2, <2>1, <3>1, <3>2 DEF AnsweredSilent
  <2>5. CASE FinishTick \/ FinishRequest
    <3>1. SilenceDone \/ SilenceFails \/ dup' = dup
      BY <2>5 DEF FinishTick, FinishRequest
    <3>2. ~ctl'.wanted /\ ctl'.at = "loop"
      BY <1>1, <2>1, <2>5, ZenonT(60) DEF FinishTick, FinishRequest, TickFailed, Back, ControllerState
    <3> QED
      BY <1>2, <2>1, <3>1, <3>2 DEF AnsweredSilent
  <2>6. CASE Others
    BY <2>1, <2>6, OthersTyped DEF AnsweredSilent
  <2> QED
    BY <2>2, <2>3, <2>4, <2>5, <2>6 DEF Next, ControllerStep, Others
<1>6. CASE quit' = quit /\ quit \notin {"answered", "stopped"}
  BY <1>6 DEF AnsweredSilent
<1> QED
  BY <1>3, <1>4, <1>5, <1>6

(* What the controller left behind is in the exit's error, so a clean exit *)
(* leaves no capture process and no OBEX session.                          *)
LEMMA ExitKeeps ==
    ASSUME TypeOK, MicInv, LeftRecorded, Next
    PROVE  /\ exit' \in [at : {"none", "down", "clean", "uncertain"}, error : BOOLEAN]
           /\ LeftRecorded' /\ CleanExitConfirmed'
<1> DEFINE Exits == [at : {"none", "down", "clean", "uncertain"}, error : BOOLEAN]
<1>1. exit \in Exits /\ exit.at \in {"none", "down"}
  BY DEF TypeOK, Next
<1>2. CASE ControllerStops
  <2>1. book' \in BookState
    BY <1>2, ClearTypes DEF ControllerStops, TypeOK
  <2>2. (exit.error \/ book'.blocked) \in BOOLEAN /\ exit'.at = exit.at
    BY <1>1, <1>2 DEF ControllerStops
  <2>3. exit' \in Exits
    BY <1>1, <1>2, <2>2 DEF ControllerStops
  <2>4. book'.blocked => exit'.error
    BY <1>1, <1>2 DEF ControllerStops
  <2> QED
    BY <1>1, <2>2, <2>3, <2>4 DEF LeftRecorded, CleanExitConfirmed
<1>3. CASE ControllerStep /\ ~ControllerStops
  <2>1. exit' = exit
    BY <1>3 DEF ControllerStep, Signal, Cancelled, Tick, FinishTick, FinishRequest, Handle,
        SkipRequest, Connect, Disconnect, RetryAudio, Import, ClearRequest, CommandOwnerChanged,
        CommandSent, CommandRefused, Refresh, RefreshService, RefreshOwner, RefreshObjectsFail,
        RefreshUnwanted, RefreshNoGateway, RefreshGateway, RefreshCalls, RouteChanged, RouteGone,
        RouteWatched, RouteClaims, RouteOpens, RouteFails, RefreshTimesOut
  <2>2. ctl'.at # "stopped"
    <3>1. CASE Refresh
      BY <3>1, RefreshRemembers
    <3>2. CASE Handle
      <4>1. ctl.at = "loop"
        BY <3>2 DEF Handle, SkipRequest, Connect, Disconnect, RetryAudio, Import, ClearRequest,
            CommandOwnerChanged, CommandSent, CommandRefused, Accept, Next1, Quiet, AtLoop
      <4> QED
        BY <3>2, <4>1, HandleTyped
    <3>3. CASE Signal \/ Cancelled \/ Tick
      BY <3>3 DEF Signal, Cancelled, Tick, Quiet, AtLoop, ControllerState, TypeOK
    <3>4. CASE FinishTick \/ FinishRequest
      BY <3>4 DEF FinishTick, FinishRequest, TickFailed, Back, ControllerState, TypeOK
    <3> QED
      BY <1>3, <3>1, <3>2, <3>3, <3>4 DEF ControllerStep
  <2> QED
    BY <1>1, <2>1, <2>2 DEF LeftRecorded, CleanExitConfirmed
<1>4. CASE ImportFetches \/ ImportCleans
  <2>1. book'.blocked = book.blocked /\ ctl' = ctl /\ exit' = exit
    BY <1>4 DEF ImportFetches, ImportCleans, BookState, TypeOK
  <2> QED
    BY <1>1, <2>1 DEF LeftRecorded, CleanExitConfirmed
<1>5. CASE Exit
  <2>1. exit.at = "down" /\ ctl.at = "stopped" /\ UNCHANGED <<ctl, book, child>>
        /\ exit' = [exit EXCEPT !.at = IF exit.error \/ lease.shown # "none"
                                       THEN "uncertain" ELSE "clean"]
    BY <1>5 DEF Exit, micVars
  <2>2. exit' \in Exits /\ exit'.error = exit.error
    BY <1>1, <2>1
  <2>3. exit'.at = "clean" => ~exit.error /\ lease.shown = "none"
    BY <1>1, <2>1
  <2>4. lease.shown = "none" => \A o \in Voices : child[o] # "running"
    BY DEF MicInv, CaptureExclusive, Voices
  <2> QED
    BY <2>1, <2>2, <2>3, <2>4 DEF LeftRecorded, CleanExitConfirmed
<1>6. CASE QuitTestStopped \/ Shutdown
  <2>1. book' = book /\ ctl' = ctl
    BY <1>6 DEF QuitTestStopped, QuitFails, Shutdown
  <2>2. exit' \in {exit, [exit EXCEPT !.error = TRUE], [exit EXCEPT !.at = "down"]}
    BY <1>6 DEF QuitTestStopped, QuitFails, Shutdown
  <2>3. exit' \in Exits /\ (exit.error => exit'.error) /\ exit'.at \in {"none", "down"}
    BY <1>1, <2>2
  <2> QED
    BY <2>1, <2>3 DEF LeftRecorded, CleanExitConfirmed
<1>7. CASE Others /\ ~(ImportFetches \/ ImportCleans \/ Exit \/ QuitTestStopped \/ Shutdown)
  <2>1. book' = book /\ exit' = exit
    BY <1>7 DEF Others, Submit, ClientCloses, SetMuted, MicrophoneStep, callVars, QuitRequested,
                QuitDone, PhoneChanges, ServiceChanges
  <2>2. ctl'.at = ctl.at
    BY <1>7, OthersTyped
  <2> QED
    BY <1>1, <2>1, <2>2 DEF LeftRecorded, CleanExitConfirmed
<1> QED
  BY <1>2, <1>3, <1>4, <1>5, <1>6, <1>7 DEF Next, Others

-----------------------------------------------------------------------------
(* The invariant.                                                          *)

(* Phones, the telephony service and the mute keep their types.            *)
LEMMA TelephonyTyped ==
    ASSUME TypeOK, Next
    PROVE  tel' \in Telephony /\ muted' \in BOOLEAN
<1>1. tel \in Telephony /\ muted \in BOOLEAN
  BY DEF TypeOK
<1>2. \A t \in Telephony, b \in BOOLEAN : /\ [t EXCEPT !.signal = b] \in Telephony
                                          /\ [t EXCEPT !.up = b] \in Telephony
  BY DEF Telephony
<1>3. \A t \in Telephony, x \in SUBSET Phones : /\ [t EXCEPT !.ag = x] \in Telephony
                                                /\ [t EXCEPT !.allowed = x] \in Telephony
  BY DEF Telephony
<1>4. \A t \in Telephony, n \in 0..MaxEvents : [t EXCEPT !.events = n] \in Telephony
  BY DEF Telephony
<1>5. \A t \in Telephony, f \in [Phones -> {"none", "incoming", "active"}] :
         [t EXCEPT !.call = f] \in Telephony
  BY DEF Telephony
<1> DEFINE t1 == [tel EXCEPT !.events = @ + 1]
<1>6. tel.events < MaxEvents => t1 \in Telephony
  <2>1. tel.events \in 0..MaxEvents
    BY <1>1 DEF Telephony
  <2> QED
    BY <1>1, <1>4, <2>1
<1>7. t1.ag = tel.ag /\ t1.call = tel.call /\ t1.allowed = tel.allowed /\ t1.up = tel.up
  BY <1>1 DEF Telephony
<1>8. tel.ag \in SUBSET Phones /\ tel.allowed \in SUBSET Phones /\ tel.up \in BOOLEAN
      /\ tel.call \in [Phones -> {"none", "incoming", "active"}]
  BY <1>1 DEF Telephony
<1>9. CASE Signal
  BY <1>1, <1>2, <1>9 DEF Signal
<1>10. CASE RouteChanged
  BY <1>1, <1>6, <1>10 DEF RouteChanged
<1>11. CASE ServiceChanges
  <2>1. tel' = [t1 EXCEPT !.up = ~@, !.ag = {}, !.call = [p \in Phones |-> "none"]]
        /\ t1 \in Telephony /\ muted' = muted
    BY <1>6, <1>11 DEF ServiceChanges, Event
  <2> HIDE DEF t1
  <2>2. [t1 EXCEPT !.up = ~@] \in Telephony
    BY <1>2, <1>7, <1>8, <2>1
  <2>3. [t1 EXCEPT !.up = ~@, !.ag = {}] \in Telephony
    BY <1>3, <2>2
  <2>4. [p \in Phones |-> "none"] \in [Phones -> {"none", "incoming", "active"}]
    OBVIOUS
  <2>5. [t1 EXCEPT !.up = ~@, !.ag = {}, !.call = [p \in Phones |-> "none"]] \in Telephony
    BY <1>5, <2>3, <2>4
  <2> QED
    BY <1>1, <2>1, <2>5
<1>12. CASE PhoneChanges
  <2>1. t1 \in Telephony /\ muted' = muted
    BY <1>6, <1>12 DEF PhoneChanges, Event
  <2>2. PICK p \in Phones :
          tel' \in {[t1 EXCEPT !.ag = @ \cup {p}, !.signal = TRUE],
                    [t1 EXCEPT !.ag = @ \ {p}, !.call[p] = "none", !.signal = TRUE],
                    [t1 EXCEPT !.call[p] = IF p \in tel.ag THEN "incoming" ELSE @,
                               !.signal = TRUE],
                    [t1 EXCEPT !.call[p] = IF p \in tel.ag THEN "active" ELSE @],
                    [t1 EXCEPT !.call[p] = "none", !.signal = TRUE],
                    [t1 EXCEPT !.allowed = @ \cup {p}],
                    [t1 EXCEPT !.allowed = @ \ {p}]}
    BY <1>12 DEF PhoneChanges
  <2> HIDE DEF t1
  <2>3. \A x \in {"none", "incoming", "active"} :
           [t1.call EXCEPT ![p] = x] \in [Phones -> {"none", "incoming", "active"}]
    BY <1>7, <1>8
  <2>4. t1.call[p] \in {"none", "incoming", "active"}
    BY <1>7, <1>8
  <2>5. \A x \in {"none", "incoming", "active"} : [t1 EXCEPT !.call[p] = x] \in Telephony
    BY <1>5, <2>1, <2>3
  <2>6. /\ [t1 EXCEPT !.ag = @ \cup {p}] \in Telephony
        /\ [t1 EXCEPT !.ag = @ \ {p}] \in Telephony
        /\ [t1 EXCEPT !.allowed = @ \cup {p}] \in Telephony
        /\ [t1 EXCEPT !.allowed = @ \ {p}] \in Telephony
    BY <1>3, <1>7, <1>8, <2>1
  <2>7. [t1 EXCEPT !.ag = @ \cup {p}, !.signal = TRUE] \in Telephony
    BY <1>2, <2>6
  <2>8. [t1 EXCEPT !.ag = @ \ {p}, !.call[p] = "none", !.signal = TRUE] \in Telephony
    <3>1. [t1 EXCEPT !.ag = @ \ {p}].call = t1.call
      BY <2>1 DEF Telephony
    <3>2. [t1 EXCEPT !.ag = @ \ {p}, !.call[p] = "none"] \in Telephony
      BY <1>5, <2>3, <2>6, <3>1
    <3> QED
      BY <1>2, <3>2
  <2>9. \A x \in {"none", "incoming", "active"} :
           [t1 EXCEPT !.call[p] = x, !.signal = TRUE] \in Telephony
    BY <1>2, <2>5
  <2> QED
    BY <1>1, <2>1, <2>2, <2>4, <2>5, <2>6, <2>7, <2>8, <2>9
<1>13. CASE SetMuted
  BY <1>1, <1>13 DEF SetMuted
<1>14. CASE Others /\ ~(SetMuted \/ PhoneChanges \/ ServiceChanges)
  BY <1>1, <1>14 DEF Others, Submit, ClientCloses, ImportFetches, ImportCleans,
      MicrophoneStep, callVars, QuitRequested, QuitTestStopped, QuitDone, Shutdown, Exit
<1>15. CASE Refresh /\ ~RouteChanged
  BY <1>1, <1>15 DEF Refresh, RefreshService, RefreshOwner, RefreshObjectsFail,
      RefreshUnwanted, RefreshNoGateway, RefreshGateway, RefreshCalls, RouteGone,
      RouteWatched, RouteClaims, RouteOpens, RouteFails, RefreshTimesOut
<1>16. CASE Handle
  BY <1>1, <1>16 DEF Handle, SkipRequest, Connect, Disconnect, RetryAudio, Import,
      ClearRequest, CommandOwnerChanged, CommandSent, CommandRefused
<1>17. CASE Cancelled \/ Tick \/ FinishTick \/ FinishRequest \/ ControllerStops
  BY <1>1, <1>17 DEF Cancelled, Tick, FinishTick, FinishRequest, ControllerStops
<1> QED
  BY <1>9, <1>10, <1>11, <1>12, <1>13, <1>14, <1>15, <1>16, <1>17
  DEF Next, ControllerStep, Others

(* The daemon starts in the invariant.                                     *)
LEMMA Initially == Init => IInv
<1> SUFFICES ASSUME Init PROVE IInv
  OBVIOUS
<1>1. MicInv
  BY MicInitially DEF Init
<1>2. ctl \in ControllerState
  BY ConstantTypes DEF Init, ControllerState
<1>3. book \in BookState
  BY ConstantTypes DEF Init, BookState
<1>4. client \in ClientState /\ Len(client.reqs) <= QueueCap
  BY DEF Init, ClientState
<1>5. tel \in Telephony
  <2>1. PICK a \in SUBSET Phones, g \in SUBSET Phones, s \in {"none", "active"} :
           tel = [up |-> TRUE, ag |-> g, allowed |-> a, signal |-> FALSE, events |-> 0,
                  call |-> [p \in Phones |-> IF p \in g THEN s ELSE "none"]]
    BY DEF Init
  <2>2. [p \in Phones |-> IF p \in g THEN s ELSE "none"]
            \in [Phones -> {"none", "incoming", "active"}]
    OBVIOUS
  <2>3. 0 \in 0..MaxEvents
    OBVIOUS
  <2> QED
    BY <2>1, <2>2, <2>3 DEF Telephony
<1>6. TypeOK
  BY <1>1, <1>2, <1>3, <1>4, <1>5 DEF TypeOK, MicInv, Init
<1>7. CallHolds /\ GenBounded /\ JobOfDevice /\ ContactsOfDevice
  BY DEF Init, CallHolds, GenBounded, JobOfDevice, ContactsOfDevice, Stopping
<1>8. DisconnectDone /\ AnsweredSilent /\ LeftRecorded /\ CleanExitConfirmed
  BY DEF Init, DisconnectDone, AnsweredSilent, LeftRecorded, CleanExitConfirmed
<1> QED
  BY <1>1, <1>6, <1>7, <1>8 DEF IInv

(* IInv is invariant: the lease has one owner from claim to reaping, the   *)
(* book belongs to the selected phone, Quit's disconnect stays done and an *)
(* uncertain end is recorded.                                              *)
THEOREM Invariance == Spec => []IInv
<1>1. Init => IInv
  BY Initially
<1>2. IInv /\ [Next]_vars => IInv'
  <2>1. ASSUME IInv, Next PROVE IInv'
    <3>1. TypeOK /\ MicInv /\ CallHolds /\ GenBounded /\ JobOfDevice /\ ContactsOfDevice
          /\ DisconnectDone /\ AnsweredSilent /\ LeftRecorded
      BY <2>1 DEF IInv
    <3>2. MicInv' /\ CallHolds' /\ dup' \in {"none", "open", "muted"}
      BY <2>1, <3>1, LeaseKeeps
    <3>3. ctl' \in ControllerState
      BY <2>1, <3>1, ControllerTyped, OthersTyped DEF Next, Others
    <3>4. client' \in ClientState /\ Len(client'.reqs) <= QueueCap /\ GenBounded'
      BY <2>1, <3>1, ClientKeeps
    <3>5. book' \in BookState /\ JobOfDevice' /\ ContactsOfDevice'
      BY <2>1, <3>1, BookKeeps
    <3>6. DisconnectDone' /\ AnsweredSilent'
      BY <2>1, <3>1, DisconnectKeeps, SilentKeeps
    <3>7. /\ exit' \in [at : {"none", "down", "clean", "uncertain"}, error : BOOLEAN]
          /\ LeftRecorded' /\ CleanExitConfirmed'
      BY <2>1, <3>1, ExitKeeps
    <3>8. quit' \in {"none", "test", "calls", "answered", "stopped", "failed"}
      BY <2>1, <3>1, QuitTyped DEF TypeOK
    <3>9. tel' \in Telephony /\ muted' \in BOOLEAN
      BY <2>1, <3>1, TelephonyTyped
    <3>10. TypeOK'
      BY <3>2, <3>3, <3>4, <3>5, <3>7, <3>8, <3>9 DEF TypeOK, MicInv
    <3> QED
      BY <3>2, <3>4, <3>5, <3>6, <3>7, <3>10 DEF IInv
  <2>2. ASSUME IInv, UNCHANGED vars PROVE IInv'
    <3> USE <2>2 DEF vars, micVars, callVars
    <3>1. MicInv' = MicInv
      BY DEF MicInv, MicTypeOK, AaHolds, TestHolds, FreeUnshown, HeldFor, CaptureExclusive,
             StreamsNumbered, CreditWindow
    <3>2. TypeOK' = TypeOK
      BY DEF TypeOK, MicTypeOK
    <3>3. /\ CallHolds' = CallHolds /\ GenBounded' = GenBounded /\ JobOfDevice' = JobOfDevice
          /\ ContactsOfDevice' = ContactsOfDevice /\ DisconnectDone' = DisconnectDone
          /\ AnsweredSilent' = AnsweredSilent /\ LeftRecorded' = LeftRecorded
          /\ CleanExitConfirmed' = CleanExitConfirmed
      BY DEF CallHolds, HeldFor, GenBounded, Stopping, JobOfDevice, ContactsOfDevice,
             DisconnectDone, AnsweredSilent, LeftRecorded, CleanExitConfirmed
    <3> QED
      BY <3>1, <3>2, <3>3 DEF IInv
  <2> QED
    BY <2>1, <2>2
<1> QED
  BY <1>1, <1>2, PTL DEF Spec

(* Every variable keeps its type, the request queue its capacity.          *)
THEOREM TypeCorrect == Spec => []TypeOK
<1>1. IInv => TypeOK
  BY DEF IInv
<1> QED
  BY <1>1, Invariance, PTL

(* A running capture process excludes every other (voice.rs, the lock of   *)
(* audio-ownership and the call routes of calls.rs).                       *)
THEOREM ExclusiveCapture == Spec => []CaptureExclusive
<1>1. IInv => CaptureExclusive
  BY DEF IInv, MicInv
<1> QED
  BY <1>1, Invariance, PTL

(* The phone's window bounds the unacknowledged frames of the open stream  *)
(* (Credits::ack).                                                         *)
THEOREM WindowRespected == Spec => []CreditWindow
<1>1. IInv => CreditWindow
  BY DEF IInv, MicInv
<1> QED
  BY <1>1, Invariance, PTL

(* A clean exit leaves no capture process and no OBEX session (main.rs).   *)
THEOREM CleanExit == Spec => []CleanExitConfirmed
<1>1. IInv => CleanExitConfirmed
  BY DEF IInv
<1> QED
  BY <1>1, Invariance, PTL

(* The contacts shown are those of the selected phone (phonebook.rs).      *)
THEOREM OwnContacts == Spec => []ContactsOfDevice
<1>1. IInv => ContactsOfDevice
  BY DEF IInv
<1> QED
  BY <1>1, Invariance, PTL

(* After a confirmed Quit no call audio runs and none is claimed.          *)
THEOREM QuitSilent == Spec => []QuitEndsCallAudio
<1>1. IInv => QuitEndsCallAudio
  BY DEF IInv, AnsweredSilent, QuitEndsCallAudio
<1> QED
  BY <1>1, Invariance, PTL
===============================================================================
