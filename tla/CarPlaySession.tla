--------------------------- MODULE CarPlaySession ---------------------------
(***************************************************************************)
(* One wired CarPlay session of argo-carplayd (wired_runtime.rs): what it  *)
(* acquires and gives back, the control socket of the shell                *)
(* (runtime_control.rs), the receiver and its event channel                *)
(* (protocol/receiver.rs) and the encoded video stream (media.rs).         *)
(*                                                                         *)
(* The phone, NetworkManager and the native view are external.  A command  *)
(* goes through two bounded queues before the phone learns of it.  A       *)
(* picture is a number and whether it is a keyframe.  Stale session        *)
(* numbers, texts, coordinates, gains and the contents of a message are    *)
(* left out; the audio streams are too (their microphone is the CarPlay    *)
(* capture of Microphone).                                                 *)
(***************************************************************************)
EXTENDS Naturals, Sequences, FiniteSets

CONSTANTS
    Pointers,      \* pointers of the shell's touch surface
    HasAudio,      \* is an audio output configured?
    CommandCap,    \* command queue, 32 in the code
    EventCap,      \* event queue, 32 in the code
    QueueLimit,    \* QUEUE_LIMIT of media.rs, 3 in the code
    MaxInputs,     \* bound on requests to the control socket
    MaxFrames      \* bound on pictures the phone sends

ASSUME SessionAssumption ==
    /\ HasAudio \in BOOLEAN
    /\ CommandCap \in Nat \ {0} /\ EventCap \in Nat \ {0}
    /\ QueueLimit \in Nat \ {0} /\ MaxInputs \in Nat /\ MaxFrames \in Nat

VARIABLES
    ses,        \* run(): where it is, its stop switch and its outcome
    res,        \* the session lock, the NetworkManager connection, the mux
    cancel,     \* the disconnect watch
    pre,        \* Presentation
    commands,   \* mpsc queue from the control socket to the receiver
    rcv,        \* Receiver::run: how far the phone is
    events,     \* mpsc queue from the receiver to the event channel
    contacts,   \* touch slots the phone holds to be pressed
    video,      \* VideoStream, its consumer and the picture being written
    inputs, frames

innerVars == <<cancel, pre, commands, rcv, events, contacts, video>>
inputVars == <<cancel, pre, commands>>
sessionVars == <<ses, res, innerVars, inputs, frames>>

Slots == {0, 1}
Unheld == 2

Command == [kind : {"event", "policy", "release", "touch"}, slot : Slots, down : BOOLEAN]
Simple(k) == [kind |-> k, slot |-> 0, down |-> FALSE]
Touch(s, d) == [kind |-> "touch", slot |-> s, down |-> d]

(* How far the phone is.  The wired task brings the iAP2 link up and then  *)
(* tells the phone where to connect; over the TCP connection come          *)
(* pair-setup (a known phone omits it), pair-verify in two requests,       *)
(* auth-setup and SETUP of the session.                                    *)
Unconnected == {"synchronize", "identify", "accept"}
Stages == Unconnected \cup
          {"pairing", "paired", "verifying", "verified", "authenticated", "setup"}

NoFrame == [n |-> 0, key |-> FALSE]
NoVideo == [state |-> "none", queue |-> <<>>, need |-> TRUE, serving |-> FALSE,
            flight |-> NoFrame, seen |-> 0]
NoPresentation == [active |-> FALSE, visible |-> FALSE,
                   pointers |-> [p \in Pointers |-> Unheld]]
NoReceiver == [stage |-> "synchronize", ended |-> FALSE, active |-> FALSE, screen |-> FALSE]
NoSession == [at |-> "none", stop |-> FALSE, out |-> "none"]

SessionState ==
    [at : {"none", "claim", "prepare", "adding", "up", "address", "mux", "carkit",
           "live", "join", "unbridge", "done"},
     stop : BOOLEAN, out : {"none", "user", "other"}]
Resources == [lock : BOOLEAN, nm : BOOLEAN, mux : {"none", "live", "aborted"}]
Presentation ==
    [active : BOOLEAN, visible : BOOLEAN, pointers : [Pointers -> Slots \cup {Unheld}]]
ReceiverState == [stage : Stages, ended : BOOLEAN, active : BOOLEAN, screen : BOOLEAN]
Picture == [n : 0..MaxFrames, key : BOOLEAN]
Stream == [state : {"none", "open", "closed"}, queue : Seq(Picture), need : BOOLEAN,
           serving : BOOLEAN, flight : Picture, seen : 0..MaxFrames]

SessionTypeOK ==
    /\ ses \in SessionState /\ res \in Resources /\ cancel \in BOOLEAN
    /\ pre \in Presentation
    /\ commands \in Seq(Command) /\ Len(commands) =< CommandCap
    /\ rcv \in ReceiverState
    /\ events \in Seq(Command) /\ Len(events) =< EventCap
    /\ contacts \subseteq Slots
    /\ video \in Stream /\ Len(video.queue) =< QueueLimit
    /\ inputs \in 0..MaxInputs /\ frames \in 0..MaxFrames

Idle ==
    /\ cancel = FALSE /\ pre = NoPresentation /\ commands = <<>> /\ rcv = NoReceiver
    /\ events = <<>> /\ contacts = {} /\ video = NoVideo

(* With the tasks of a session goes all they kept.                         *)
Reset ==
    /\ cancel' = FALSE /\ pre' = NoPresentation /\ commands' = <<>> /\ rcv' = NoReceiver
    /\ events' = <<>> /\ contacts' = {} /\ video' = NoVideo

SessionInit ==
    /\ ses = NoSession
    /\ res = [lock |-> FALSE, nm |-> FALSE, mux |-> "none"]
    /\ Idle
    /\ inputs = 0 /\ frames = 0

Live == ses.at = "live"

-----------------------------------------------------------------------------
(* run() up to the spawned tasks, and its way back.                        *)

At(a) == ses.at = a
Goes(a) == ses' = [ses EXCEPT !.at = a]
Outer == UNCHANGED <<innerVars, inputs, frames>>

(* run() returns: the session lock is closed with it.                      *)
Returns(out, r) ==
    /\ ses' = [ses EXCEPT !.at = "done", !.out = out]
    /\ res' = [r EXCEPT !.lock = FALSE]
    /\ Outer

(* runtime_owner and the first expose_carplay.                             *)
Claim ==
    /\ At("claim")
    /\ \/ Goes("prepare") /\ res' = [res EXCEPT !.lock = TRUE] /\ Outer
       \/ Returns("other", res)

(* prepare has 600 tries to select the configuration; stop ends it.        *)
Selected == At("prepare") /\ Goes("adding") /\ UNCHANGED res /\ Outer
PrepareEnds == At("prepare") /\ Returns("other", res)
Prepare == Selected \/ PrepareEnds

(* Bridge::start: NetworkManager adds the connection before nmcli returns; *)
(* only then does Profile exist, which deletes it when dropped.  A failure *)
(* and stop drop the future.                                               *)
Adding ==
    /\ At("adding")
    /\ \/ ~res.nm /\ res' = [res EXCEPT !.nm = TRUE] /\ UNCHANGED ses /\ Outer
       \/ res.nm /\ Goes("up") /\ UNCHANGED res /\ Outer
       \/ Returns("other", res)

Unprofiled(r) == [r EXCEPT !.nm = FALSE]

(* The rest of Bridge::start: activation and TAP, then the address; the    *)
(* profile is dropped when one of them fails.                              *)
TapOpened == At("up") /\ Goes("address") /\ UNCHANGED res /\ Outer
Addressed == At("address") /\ Goes("mux") /\ UNCHANGED res /\ Outer
Unbridged == ses.at \in {"up", "address"} /\ Returns("other", Unprofiled(res))
BridgeUp == TapOpened \/ Addressed \/ Unbridged

(* The listener, the sockets and UsbMux::start, which needs the interface. *)
StartMux ==
    /\ At("mux")
    /\ \/ /\ res.mux = "none" /\ Goes("carkit") /\ res' = [res EXCEPT !.mux = "live"]
       \/ Goes("unbridge") /\ UNCHANGED res
    /\ Outer

(* An error drops the mux, which aborts its task and does not wait for it. *)
MuxDropped == Goes("unbridge") /\ res' = [res EXCEPT !.mux = "aborted"]

(* The tasks are spawned, or the control socket cannot be bound.           *)
Spawned == \/ Goes("live") /\ UNCHANGED res
           \/ MuxDropped

(* open_local_carkit and the tasks.  Stop closes the mux.                  *)
OpenCarkit ==
    /\ At("carkit")
    /\ \/ ~ses.stop /\ Spawned
       \/ ses.stop /\ Goes("unbridge") /\ res' = [res EXCEPT !.mux = "none"]
       \/ MuxDropped
    /\ Outer

(* stop, bridge.ended() or the first task that ended: the wired task ends  *)
(* when cancelled or when the link does.                                   *)
Leave ==
    /\ Live
    /\ ses' = [ses EXCEPT !.at = "join", !.out = IF cancel THEN "user" ELSE "other"]
    /\ cancel' = TRUE
    /\ UNCHANGED <<res, pre, commands, rcv, events, contacts, video, inputs, frames>>

(* abort_all and join, mux.close().                                        *)
Join ==
    /\ At("join")
    /\ Reset
    /\ Goes("unbridge") /\ res' = [res EXCEPT !.mux = "none"]
    /\ UNCHANGED <<inputs, frames>>

(* bridge.close(); the profile is dropped with it.                         *)
CloseBridge == At("unbridge") /\ Returns(IF ses.out = "user" THEN "user" ELSE "other",
                                         Unprofiled(res))

(* The runtime gets to a task that was aborted.                            *)
Reaped ==
    /\ res.mux = "aborted" /\ res' = [res EXCEPT !.mux = "none"]
    /\ UNCHANGED <<ses, innerVars, inputs, frames>>

(* run() is dropped where it is.                                           *)
Dropped ==
    /\ ses' = NoSession
    /\ res' = [lock |-> FALSE,
               nm   |-> res.nm /\ ses.at \in {"none", "claim", "prepare", "adding", "done"},
               mux  |-> IF res.mux = "live" THEN "aborted" ELSE res.mux]
    /\ Reset
    /\ UNCHANGED <<inputs, frames>>

-----------------------------------------------------------------------------
(* Control::request.  A handler runs under the presentation lock.          *)

Receiving == Live /\ ~rcv.ended
Room(n) == ~rcv.ended /\ Len(commands) + n =< CommandCap

Request ==
    /\ Live /\ ~cancel /\ inputs < MaxInputs
    /\ inputs' = inputs + 1
    /\ UNCHANGED <<ses, res, rcv, events, contacts, video, frames>>

Push(c) == commands' = Append(commands, c)

(* Mutant: a full queue loses the command and the session goes on.         *)
terminal_command_lost(c, after) ==
    /\ pre' = after
    /\ commands' = IF Room(1) THEN Append(commands, c) ELSE commands
    /\ UNCHANGED cancel

terminal_command(c, after) ==
    \/ Room(1) /\ Push(c) /\ pre' = after /\ UNCHANGED cancel
    \/ ~Room(1) /\ pre' = NoPresentation /\ cancel' = TRUE /\ UNCHANGED commands

Released(p) == [p EXCEPT !.pointers = NoPresentation.pointers]

Activate ==
    LET asked == IF HasAudio /\ rcv.stage \notin Unconnected THEN 2 ELSE 1 IN
    /\ Request
    /\ Room(asked)
    /\ commands' = commands \o [i \in 1..asked |-> Simple("event")]
    /\ pre' = [pre EXCEPT !.active = TRUE, !.visible = TRUE]
    /\ UNCHANGED cancel

Show ==
    /\ Request
    /\ \/ pre.active /\ Room(1) /\ Push(Simple("event"))
       \/ ~pre.active /\ UNCHANGED commands
    /\ pre' = [pre EXCEPT !.visible = TRUE]
    /\ UNCHANGED cancel

Hide ==
    /\ Request
    /\ terminal_command(Simple("release"), [Released(pre) EXCEPT !.visible = FALSE])

InputOwned == pre.active /\ pre.visible
Held(p) == pre.pointers[p] # Unheld
FreeSlots == {s \in Slots : \A p \in Pointers : pre.pointers[p] # s}

Down(p) ==
    /\ Request /\ InputOwned /\ video.state = "open" /\ ~Held(p) /\ FreeSlots # {}
    /\ Room(1)
    /\ LET s == CHOOSE s \in FreeSlots : \A t \in FreeSlots : s =< t IN
         /\ Push(Touch(s, TRUE))
         /\ pre' = [pre EXCEPT !.pointers[p] = s]
    /\ UNCHANGED cancel

Move(p) ==
    /\ Request /\ InputOwned /\ video.state = "open" /\ Held(p)
    /\ Room(1) /\ Push(Touch(pre.pointers[p], TRUE))
    /\ UNCHANGED <<pre, cancel>>

Up(p) ==
    /\ Request /\ InputOwned /\ video.state = "open" /\ Held(p)
    /\ terminal_command(Touch(pre.pointers[p], FALSE), [pre EXCEPT !.pointers[p] = Unheld])

CancelTouch ==
    /\ Request /\ InputOwned
    /\ terminal_command(Simple("release"), Released(pre))

(* Gain and the microphone's source and mute; Siri needs the projection.   *)
Policy ==
    /\ Request
    /\ Room(1) /\ \/ Push(Simple("policy"))
                  \/ pre.active /\ Push(Simple("event"))
    /\ UNCHANGED <<pre, cancel>>

(* Accepted after a cancellation too; the release is a best effort.        *)
Disconnect ==
    /\ Live /\ inputs < MaxInputs /\ inputs' = inputs + 1
    /\ pre' = NoPresentation /\ cancel' = TRUE
    /\ commands' = IF Room(1) THEN Append(commands, Simple("release")) ELSE commands
    /\ UNCHANGED <<ses, res, rcv, events, contacts, video, frames>>

Control ==
    \/ Activate \/ Show \/ Hide \/ CancelTouch \/ Policy \/ Disconnect
    \/ \E p \in Pointers : Down(p) \/ Move(p) \/ Up(p)

-----------------------------------------------------------------------------
(* Receiver::run, the event channel and the screen.                        *)

Inner == UNCHANGED <<ses, res, inputs, cancel, pre>>

(* The loop is left: its tasks are joined, the video stopped and removed.  *)
ReceiverEnds ==
    /\ rcv' = [rcv EXCEPT !.ended = TRUE]
    /\ video' = [NoVideo EXCEPT !.state = "closed"]
    /\ events' = <<>>

Advances(from, to) ==
    /\ Receiving /\ rcv.stage \in from
    /\ rcv' = [rcv EXCEPT !.stage = to]
    /\ Inner /\ UNCHANGED <<commands, events, contacts, video, frames>>

(* The wired task: synchronization of the link, then identification,       *)
(* authentication, availability and StartSession.                          *)
Synchronized == Advances({"synchronize"}, "identify")
BroughtUp == Advances({"identify"}, "accept")

(* The requests of the phone; the receiver refuses another order.  A phone *)
(* is known once the last message of pair-setup has registered it.         *)
Accepted == Advances({"accept"}, "pairing")
PairSetup == Advances({"pairing"}, "paired")
VerifyStart == Advances({"pairing", "paired"}, "verifying")
VerifyFinish == Advances({"verifying"}, "verified")
AuthSetup == Advances({"verified"}, "authenticated")
SessionSetup == Advances({"authenticated"}, "setup")

Setup == Receiving /\ rcv.stage = "setup"

(* RECORD, and SETUP of the screen stream.                                 *)
Record ==
    /\ Setup /\ ~rcv.active
    /\ rcv' = [rcv EXCEPT !.active = TRUE]
    /\ Inner /\ UNCHANGED <<commands, events, contacts, video, frames>>

SetupScreen ==
    /\ Setup /\ ~rcv.screen
    /\ rcv' = [rcv EXCEPT !.screen = TRUE]
    /\ Inner /\ UNCHANGED <<commands, events, contacts, video, frames>>

(* A deadline, TEARDOWN, a request out of order, a stream or a task that   *)
(* failed, the phone gone.                                                 *)
ReceiverFails ==
    /\ Receiving /\ ReceiverEnds
    /\ Inner /\ UNCHANGED <<commands, contacts, frames>>

(* Mutant: a press that finds no room in the event queue is dropped.       *)
ForwardLossy ==
    /\ Receiving /\ rcv.stage \notin Unconnected /\ commands # <<>>
    /\ commands' = Tail(commands)
    /\ \/ /\ \/ Head(commands).kind = "policy" \/ ~rcv.active
             \/ Len(events) = EventCap /\ Head(commands).down
          /\ UNCHANGED <<events, rcv, video>>
       \/ /\ Head(commands).kind # "policy" /\ rcv.active
          /\ \/ /\ Len(events) < EventCap
                /\ events' = Append(events, Head(commands))
                /\ UNCHANGED <<rcv, video>>
             \/ Len(events) = EventCap /\ ReceiverEnds
    /\ Inner /\ UNCHANGED <<contacts, frames>>

(* A command is taken from the queue: policy is applied, anything else is  *)
(* for the phone and is dropped until the phone has sent RECORD.           *)
Forward ==
    /\ Receiving /\ rcv.stage \notin Unconnected /\ commands # <<>>
    /\ commands' = Tail(commands)
    /\ \/ /\ Head(commands).kind = "policy" \/ ~rcv.active
          /\ UNCHANGED <<events, rcv, video>>
       \/ /\ Head(commands).kind # "policy" /\ rcv.active
          /\ \/ /\ Len(events) < EventCap
                /\ events' = Append(events, Head(commands))
                /\ UNCHANGED <<rcv, video>>
             \/ Len(events) = EventCap /\ ReceiverEnds
    /\ Inner /\ UNCHANGED <<contacts, frames>>

(* What a report leaves pressed.                                           *)
Pressed(held, c) ==
    CASE c.kind = "touch" /\ c.down  -> held \cup {c.slot}
      [] c.kind = "touch" /\ ~c.down -> held \ {c.slot}
      [] c.kind = "release"          -> {}
      [] OTHER                       -> held

(* Mutant: reports are held back while the projection is hidden.           *)
SendEventVisible ==
    /\ Setup /\ events # <<>> /\ pre.visible
    /\ contacts' = Pressed(contacts, Head(events))
    /\ events' = Tail(events)
    /\ Inner /\ UNCHANGED <<commands, rcv, video, frames>>

(* event_channel; a write that fails is ReceiverFails.                     *)
SendEvent ==
    /\ Setup /\ events # <<>>
    /\ contacts' = Pressed(contacts, Head(events))
    /\ events' = Tail(events)
    /\ Inner /\ UNCHANGED <<commands, rcv, video, frames>>

(* The first codec configuration; an equal one is ignored.                 *)
Configure ==
    /\ Receiving /\ rcv.screen /\ video.state = "none"
    /\ video' = [video EXCEPT !.state = "open"]
    /\ Inner /\ UNCHANGED <<commands, rcv, events, contacts, frames>>

(* NeedKeyframe: screen asks for one at most every 250 ms.                 *)
AskKeyframe(v) ==
    \/ video' = v /\ UNCHANGED <<events, rcv>>
    \/ /\ Len(events) < EventCap
       /\ events' = Append(events, Simple("event")) /\ video' = v /\ UNCHANGED rcv
    \/ Len(events) = EventCap /\ ReceiverEnds

(* Mutant: an overflow drops the pictures and goes on with deltas.         *)
OverflowedGoesOn(v) == IF Len(v.queue) = QueueLimit THEN [v EXCEPT !.queue = <<>>] ELSE v

Overflowed(v) ==
    IF Len(v.queue) = QueueLimit THEN [v EXCEPT !.queue = <<>>, !.need = TRUE] ELSE v

Publish(key) ==
    /\ Receiving /\ video.state = "open" /\ frames < MaxFrames
    /\ frames' = frames + 1
    /\ LET v == Overflowed(video) IN
         IF v.need /\ ~key
         THEN AskKeyframe(v)
         ELSE /\ video' = [v EXCEPT !.need = FALSE,
                                    !.queue = Append(@, [n |-> frames + 1, key |-> key])]
              /\ UNCHANGED <<events, rcv>>
    /\ Inner /\ UNCHANGED <<commands, contacts>>

Consumer(v) ==
    /\ Live /\ video.state = "open" /\ video' = v
    /\ Inner /\ UNCHANGED <<commands, rcv, events, contacts, frames>>

(* send_to: the view connects, a picture is taken and written, and a view  *)
(* that left or a write that failed drops ConsumerLease.  Where no picture *)
(* is sent a view makes no difference and none is enumerated.              *)
Serve == MaxFrames > 0 /\ ~video.serving /\ Consumer([video EXCEPT !.serving = TRUE, !.seen = 0])

TakeFrame ==
    /\ video.serving /\ video.flight = NoFrame /\ video.queue # <<>>
    /\ Consumer([video EXCEPT !.flight = Head(video.queue), !.queue = Tail(@)])

Written ==
    /\ video.flight # NoFrame
    /\ Consumer([video EXCEPT !.flight = NoFrame, !.seen = video.flight.n])

ConsumerGone ==
    /\ video.serving
    /\ Consumer([video EXCEPT !.serving = FALSE, !.queue = <<>>, !.need = TRUE,
                              !.flight = NoFrame, !.seen = 0])

Phone ==
    \/ Synchronized \/ BroughtUp \/ Accepted \/ PairSetup \/ VerifyStart \/ VerifyFinish
    \/ AuthSetup \/ SessionSetup \/ Record \/ SetupScreen \/ ReceiverFails \/ Configure
    \/ \E key \in BOOLEAN : Publish(key)

View == Serve \/ TakeFrame \/ Written \/ ConsumerGone

SessionStep ==
    \/ Claim \/ Prepare \/ Adding \/ BridgeUp \/ StartMux \/ OpenCarkit \/ Leave \/ Join
    \/ CloseBridge \/ Reaped \/ Control \/ Forward \/ SendEvent \/ Phone \/ View

-----------------------------------------------------------------------------
(* Steps of run() that the runtime takes by itself: each call has a        *)
(* deadline, and stop or cancel wakes the wait.                            *)
Ending == (ses.stop \/ cancel \/ rcv.ended) /\ Leave
SessionProceeds ==
    \/ Claim \/ Prepare \/ Adding \/ BridgeUp \/ StartMux \/ OpenCarkit \/ Ending \/ Join
    \/ CloseBridge

-----------------------------------------------------------------------------
(* What the phone will hold to be pressed once it has every queued report. *)
Eventually[n \in 0..CommandCap + EventCap] ==
    IF n = 0 THEN contacts ELSE Pressed(Eventually[n - 1], (events \o commands)[n])

(* No contact outlives its pointer: once the queued reports are delivered, *)
(* the phone holds no slot pressed that no pointer of the shell holds      *)
(* (runtime_control.rs: a release that finds no room ends the session; a   *)
(* report that finds no room in the event queue ends the receiver).        *)
NoStuckTouch ==
    Receiving /\ ~cancel =>
        Eventually[Len(events) + Len(commands)] \subseteq {pre.pointers[p] : p \in Pointers}

(* What the shell reports reaches the phone: the two queues, the receiver  *)
(* and the event channel together are one channel that keeps every         *)
(* accepted report and its order, or breaks (runtime_control.rs and        *)
(* receiver.rs: try_send, and an end for a queue without room).            *)
IsReport(c) == c.kind \in {"touch", "release"}

(* q without what is not a report.                                         *)
OnlyReports(q) ==
    LET kept[n \in 0..Len(q)] ==
            IF n = 0 THEN <<>>
            ELSE kept[n - 1] \o (IF IsReport(q[n]) THEN <<q[n]>> ELSE <<>>)
    IN  kept[Len(q)]

Reports == INSTANCE ReportChannel WITH
    Report    <- {c \in Command : IsReport(c)},
    Effect    <- Pressed,
    open      <- Receiving,
    recording <- Receiving /\ rcv.active,
    pipe      <- IF Receiving THEN OnlyReports(events \o commands) ELSE <<>>,
    contacts  <- IF Receiving THEN contacts ELSE {}
ReportsDelivered == Reports!Spec

(* The decoder is never handed a delta picture without its predecessor:    *)
(* what is being written is a keyframe or follows what this view has       *)
(* (media.rs: publish clears the whole chain on overflow, ConsumerLease    *)
(* when a view leaves).                                                    *)
VideoContinuous ==
    video.flight # NoFrame =>
        \/ video.flight.key
        \/ video.seen # 0 /\ video.flight.n = video.seen + 1
=============================================================================
