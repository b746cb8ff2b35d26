---------------------------- MODULE CarPlay_proofs ----------------------------
(***************************************************************************)
(* The CarPlay daemon: why the USB configuration lease covers every        *)
(* session, why the decoder never gets a delta picture without its         *)
(* predecessor and why no contact stays pressed on the phone once its      *)
(* pointer is gone, for every length of the queues, every number of        *)
(* pointers and every number of requests, pictures and faults.             *)
(***************************************************************************)
EXTENDS CarPlay, WellFoundedInduction, SequenceTheorems, TLAPS

USE SessionAssumption, DaemonAssumption DEF SessionAssumption, DaemonAssumption

-----------------------------------------------------------------------------
(* Updating a field of the records the daemon keeps.                       *)

Places == {"none", "claim", "prepare", "adding", "up", "address", "mux", "carkit",
           "live", "join", "unbridge", "done"}
Posts == {"probe", "top", "release", "idle", "pkcheck", "unauthorized", "start",
          "session", "await", "judge", "pause", "backoff", "end", "ended"}

LEMMA SessionFields ==
    /\ NoSession \in SessionState
    /\ \A s \in SessionState, a \in Places : [s EXCEPT !.at = a] \in SessionState
    /\ \A s \in SessionState, o \in {"none", "user", "other"} :
           [s EXCEPT !.out = o] \in SessionState
    /\ \A s \in SessionState, b \in BOOLEAN : [s EXCEPT !.stop = b] \in SessionState
    /\ \A s \in SessionState, a \in Places, o \in {"none", "user", "other"} :
           [s EXCEPT !.at = a, !.out = o] \in SessionState
BY DEF SessionState, NoSession, Places

LEMMA ResourceFields ==
    /\ \A r \in Resources, b \in BOOLEAN : /\ [r EXCEPT !.lock = b] \in Resources
                                           /\ [r EXCEPT !.nm = b] \in Resources
    /\ \A r \in Resources, m \in {"none", "live", "aborted"} :
           [r EXCEPT !.mux = m] \in Resources
BY DEF Resources

LEMMA PresentationFields ==
    /\ NoPresentation \in Presentation
    /\ \A q \in Presentation, b \in BOOLEAN : /\ [q EXCEPT !.active = b] \in Presentation
                                              /\ [q EXCEPT !.visible = b] \in Presentation
    /\ \A q \in Presentation : [q EXCEPT !.pointers = NoPresentation.pointers] \in Presentation
    /\ \A q \in Presentation, p \in Pointers, s \in Slots \cup {Unheld} :
           [q EXCEPT !.pointers[p] = s] \in Presentation
BY DEF Presentation, NoPresentation, Unheld, Slots

LEMMA ReceiverFields ==
    /\ NoReceiver \in ReceiverState
    /\ \A r \in ReceiverState, t \in Stages : [r EXCEPT !.stage = t] \in ReceiverState
    /\ \A r \in ReceiverState, b \in BOOLEAN : /\ [r EXCEPT !.ended = b] \in ReceiverState
                                               /\ [r EXCEPT !.active = b] \in ReceiverState
                                               /\ [r EXCEPT !.screen = b] \in ReceiverState
BY DEF ReceiverState, NoReceiver, Stages, Unconnected

LEMMA StreamFields ==
    /\ NoVideo \in Stream /\ Len(NoVideo.queue) = 0
    /\ \A v \in Stream, s \in {"none", "open", "closed"} : [v EXCEPT !.state = s] \in Stream
    /\ \A v \in Stream, q \in Seq(Picture) : [v EXCEPT !.queue = q] \in Stream
    /\ \A v \in Stream, b \in BOOLEAN : /\ [v EXCEPT !.need = b] \in Stream
                                        /\ [v EXCEPT !.serving = b] \in Stream
    /\ \A v \in Stream, f \in Picture : [v EXCEPT !.flight = f] \in Stream
    /\ \A v \in Stream, n \in 0..MaxFrames : [v EXCEPT !.seen = n] \in Stream
<1>1. NoFrame \in Picture /\ <<>> \in Seq(Picture) BY DEF NoFrame, Picture
<1> HIDE DEF Picture, NoFrame
<1>2. 0 \in 0..MaxFrames OBVIOUS
<1>3. NoVideo \in Stream /\ Len(NoVideo.queue) = 0 BY <1>1, <1>2 DEF NoVideo, Stream
<1> QED BY <1>3 DEF Stream

LEMMA SupervisorFields ==
    /\ \A s \in SupervisorState, p \in Posts : [s EXCEPT !.pc = p] \in SupervisorState
    /\ \A s \in SupervisorState, b \in BOOLEAN : [s EXCEPT !.ok = b] \in SupervisorState
    /\ \A s \in SupervisorState, c \in State : [s EXCEPT !.cur = c] \in SupervisorState
    /\ \A s \in SupervisorState, p \in Posts, b \in BOOLEAN :
           [s EXCEPT !.pc = p, !.ok = b] \in SupervisorState
    /\ \A s \in SupervisorState, p \in Posts, c \in State :
           [s EXCEPT !.cur = c, !.pc = p] \in SupervisorState
BY ZenonT(60) DEF SupervisorState, Posts

LEMMA SettingFields ==
    \A s \in State, b \in BOOLEAN : /\ [s EXCEPT !.enabled = b] \in State
                                    /\ [s EXCEPT !.auto = b] \in State
                                    /\ [s EXCEPT !.running = b] \in State
                                    /\ [s EXCEPT !.authorize = b] \in State
BY DEF State

-----------------------------------------------------------------------------
(* The steps of a session, grouped by what they touch.                     *)

SettingUp == \/ Claim \/ Prepare \/ Adding \/ BridgeUp \/ StartMux \/ OpenCarkit
             \/ CloseBridge \/ Reaped

(* The steps that take the phone further and leave queues and video alone. *)
Advancing == \/ Synchronized \/ BroughtUp \/ Accepted \/ PairSetup \/ VerifyStart
             \/ VerifyFinish \/ AuthSetup \/ SessionSetup \/ Record \/ SetupScreen

Publishing == \E key \in BOOLEAN : Publish(key)

LEMMA SessionSteps ==
    SessionStep => \/ SettingUp \/ Leave \/ Join \/ Control \/ Forward \/ SendEvent
                   \/ Advancing \/ ReceiverFails \/ Configure \/ Publishing \/ View
BY DEF SessionStep, SettingUp, Advancing, Publishing, Phone

LEMMA SettingUpTypes ==
    ASSUME ses \in SessionState, res \in Resources, SettingUp
    PROVE  /\ ses' \in SessionState /\ res' \in Resources
           /\ UNCHANGED <<innerVars, inputs, frames>>
<1> USE DEF At, Goes, Outer, Places
<1>1. ASSUME NEW out \in {"none", "user", "other"}, NEW r \in Resources, Returns(out, r)
      PROVE  /\ ses' \in SessionState /\ res' \in Resources
             /\ UNCHANGED <<innerVars, inputs, frames>>
  <2>1. [r EXCEPT !.lock = FALSE] \in Resources BY ResourceFields
  <2>2. [ses EXCEPT !.at = "done", !.out = out] \in SessionState BY SessionFields
  <2> QED BY <1>1, <2>1, <2>2 DEF Returns
<1>2. [res EXCEPT !.nm = FALSE] \in Resources BY ResourceFields
<1>3. [res EXCEPT !.lock = TRUE] \in Resources /\ [res EXCEPT !.nm = TRUE] \in Resources
  BY ResourceFields
<1>4. \A m \in {"none", "live", "aborted"} : [res EXCEPT !.mux = m] \in Resources
  BY ResourceFields
<1>5. \A a \in Places : [ses EXCEPT !.at = a] \in SessionState BY SessionFields
<1>6. CASE Claim
  <2>1. CASE Returns("other", res) BY <1>1, <2>1
  <2> QED BY <1>6, <1>3, <1>5, <2>1 DEF Claim
<1>7. CASE Prepare
  <2>1. CASE Returns("other", res) BY <1>1, <2>1
  <2> QED BY <1>7, <1>5, <2>1 DEF Prepare, Selected, PrepareEnds
<1>8. CASE Adding
  <2>1. CASE Returns("other", res) BY <1>1, <2>1
  <2> QED BY <1>8, <1>3, <1>5, <2>1 DEF Adding
<1>9. CASE BridgeUp
  <2>1. CASE Returns("other", Unprofiled(res)) BY <1>1, <1>2, <2>1 DEF Unprofiled
  <2> QED BY <1>9, <1>5, <2>1 DEF BridgeUp, TapOpened, Addressed, Unbridged
<1>10. CASE StartMux BY <1>10, <1>4, <1>5 DEF StartMux
<1>11. CASE OpenCarkit BY <1>11, <1>4, <1>5 DEF OpenCarkit, Spawned, MuxDropped
<1>12. CASE CloseBridge
  <2>1. Returns(IF ses.out = "user" THEN "user" ELSE "other", Unprofiled(res))
    BY <1>12 DEF CloseBridge
  <2>2. (IF ses.out = "user" THEN "user" ELSE "other") \in {"none", "user", "other"} OBVIOUS
  <2> QED BY <1>1, <1>2, <2>1, <2>2 DEF Unprofiled
<1>13. CASE Reaped BY <1>13, <1>4 DEF Reaped
<1> QED BY <1>6, <1>7, <1>8, <1>9, <1>10, <1>11, <1>12, <1>13 DEF SettingUp

(* What a handler of the control socket leaves alone.                      *)
Elsewhere == UNCHANGED <<ses, res, rcv, events, contacts, video, frames>>

LEMMA CommandValues ==
    /\ \A k \in {"event", "policy", "release"} : Simple(k) \in Command
    /\ \A s \in Slots, b \in BOOLEAN : Touch(s, b) \in Command
BY DEF Simple, Touch, Command, Slots

LEMMA Pushed ==
    ASSUME SessionTypeOK, NEW c \in Command, Room(1)
    PROVE  Append(commands, c) \in Seq(Command) /\ Len(Append(commands, c)) =< CommandCap
<1>1. commands \in Seq(Command) BY DEF SessionTypeOK
<1>2. Len(commands) \in Nat BY <1>1, LenProperties
<1>3. Len(commands) + 1 =< CommandCap BY DEF Room
<1> QED BY <1>1, <1>2, <1>3, AppendProperties

LEMMA TerminalTypes ==
    ASSUME SessionTypeOK, NEW c \in Command, NEW after \in Presentation,
           terminal_command(c, after)
    PROVE  /\ pre' \in Presentation /\ cancel' \in BOOLEAN
           /\ commands' \in Seq(Command) /\ Len(commands') =< CommandCap
BY Pushed, PresentationFields DEF terminal_command, Push, SessionTypeOK

LEMMA ActivateQueue ==
    ASSUME SessionTypeOK, NEW asked \in {1, 2}, Room(asked)
    PROVE  LET q == commands \o [i \in 1..asked |-> Simple("event")]
           IN  /\ q \in Seq(Command) /\ Len(q) = Len(commands) + asked
               /\ Len(q) =< CommandCap
               /\ \A i \in 1..Len(commands) : q[i] = commands[i]
               /\ \A i \in Len(commands) + 1..Len(q) : q[i] = Simple("event")
<1> DEFINE more == [i \in 1..asked |-> Simple("event")]
<1>1. commands \in Seq(Command) /\ Len(commands) \in Nat BY LenProperties DEF SessionTypeOK
<1>2. more \in [1..asked -> Command] BY CommandValues
<1>3. more \in Seq(Command) BY <1>2, SeqDef
<1>4. Len(more) = asked
  <2>1. DOMAIN more = 1..asked /\ DOMAIN more = 1..Len(more) /\ Len(more) \in Nat
    BY <1>3, LenProperties
  <2> HIDE DEF more
  <2> QED BY <2>1
<1>5. \A i \in 1..asked : more[i] = Simple("event") OBVIOUS
<1> HIDE DEF more
<1>6. /\ commands \o more \in Seq(Command)
      /\ Len(commands \o more) = Len(commands) + Len(more)
      /\ \A i \in 1..Len(commands) + Len(more) :
             (commands \o more)[i] = IF i <= Len(commands) THEN commands[i]
                                     ELSE more[i - Len(commands)]
  BY <1>1, <1>3, ConcatProperties
<1>7. Len(commands) + asked =< CommandCap BY DEF Room
<1>8. \A i \in 1..Len(commands) : (commands \o more)[i] = commands[i]
  BY <1>1, <1>4, <1>6
<1>9. \A i \in Len(commands) + 1..Len(commands) + asked :
          (commands \o more)[i] = Simple("event")
  BY <1>1, <1>4, <1>5, <1>6
<1>10. /\ commands \o more \in Seq(Command) /\ Len(commands \o more) = Len(commands) + asked
       /\ Len(commands \o more) =< CommandCap
  BY <1>4, <1>6, <1>7
<1> QED BY <1>8, <1>9, <1>10 DEF more

LEMMA LowestFree ==
    ASSUME FreeSlots # {}
    PROVE  (CHOOSE s \in FreeSlots : \A t \in FreeSlots : s =< t) \in FreeSlots
<1>1. FreeSlots \in SUBSET {0, 1} BY DEF FreeSlots, Slots
<1>2. \A t \in FreeSlots : t = 0 \/ t = 1 BY <1>1
<1>3. \E s \in FreeSlots : \A t \in FreeSlots : s =< t
  <2>1. CASE 0 \in FreeSlots BY <1>2, <2>1
  <2>2. CASE 0 \notin FreeSlots
    <3>1. PICK t \in FreeSlots : TRUE OBVIOUS
    <3>2. 1 \in FreeSlots /\ \A u \in FreeSlots : 1 =< u BY <1>2, <2>2, <3>1
    <3> QED BY <3>2
  <2> QED BY <2>1, <2>2
<1> QED BY <1>3

LEMMA ControlTypes ==
    ASSUME SessionTypeOK, Control
    PROVE  /\ Live /\ Elsewhere /\ inputs' \in 0..MaxInputs
           /\ pre' \in Presentation /\ cancel' \in BOOLEAN
           /\ commands' \in Seq(Command) /\ Len(commands') =< CommandCap
<1> DEFINE Good == /\ Live /\ Elsewhere /\ inputs' \in 0..MaxInputs
                   /\ pre' \in Presentation /\ cancel' \in BOOLEAN
                   /\ commands' \in Seq(Command) /\ Len(commands') =< CommandCap
<1>1. /\ pre \in Presentation /\ cancel \in BOOLEAN /\ inputs \in 0..MaxInputs
      /\ commands \in Seq(Command) /\ Len(commands) =< CommandCap
  BY DEF SessionTypeOK
<1>2. ASSUME Request PROVE Live /\ Elsewhere /\ inputs' \in 0..MaxInputs
  BY <1>1, <1>2 DEF Request, Elsewhere
<1>3. ASSUME NEW c \in Command, Room(1), Push(c)
      PROVE  commands' \in Seq(Command) /\ Len(commands') =< CommandCap
  BY <1>3, Pushed DEF Push
<1>4. Released(pre) \in Presentation BY <1>1, PresentationFields DEF Released
<1>5. CASE Activate
  <2> DEFINE asked == IF HasAudio /\ rcv.stage \notin Unconnected THEN 2 ELSE 1
  <2>1. asked \in {1, 2} OBVIOUS
  <2>2. /\ Request /\ Room(asked) /\ UNCHANGED cancel
        /\ commands' = commands \o [i \in 1..asked |-> Simple("event")]
        /\ pre' = [pre EXCEPT !.active = TRUE, !.visible = TRUE]
    BY <1>5 DEF Activate
  <2>3. [pre EXCEPT !.active = TRUE] \in Presentation BY <1>1, PresentationFields
  <2>4. pre' \in Presentation BY <2>2, <2>3, PresentationFields
  <2> HIDE DEF asked
  <2> QED BY <1>1, <1>2, <2>1, <2>2, <2>4, ActivateQueue
<1>6. CASE Show
  <2>1. pre' \in Presentation BY <1>1, <1>6, PresentationFields DEF Show
  <2> QED BY <1>1, <1>2, <1>3, <1>6, <2>1, CommandValues DEF Show
<1>7. CASE Hide
  <2>1. [Released(pre) EXCEPT !.visible = FALSE] \in Presentation
    BY <1>4, PresentationFields
  <2> QED BY <1>2, <1>7, <2>1, CommandValues, TerminalTypes DEF Hide
<1>8. CASE CancelTouch
  BY <1>2, <1>4, <1>8, CommandValues, TerminalTypes DEF CancelTouch
<1>9. CASE Policy BY <1>1, <1>2, <1>3, <1>9, CommandValues DEF Policy
<1>10. CASE Disconnect
  <2>1. commands' \in Seq(Command) /\ Len(commands') =< CommandCap
    BY <1>1, <1>10, Pushed, CommandValues DEF Disconnect
  <2> QED BY <1>1, <1>10, <2>1, PresentationFields DEF Disconnect, Elsewhere
<1>11. ASSUME NEW p \in Pointers, Down(p) PROVE Good
  <2>1. PICK s \in FreeSlots : Push(Touch(s, TRUE)) /\ pre' = [pre EXCEPT !.pointers[p] = s]
    <3> DEFINE low == CHOOSE s \in FreeSlots : \A t \in FreeSlots : s =< t
    <3>3. low \in FreeSlots BY <1>11, LowestFree DEF Down
    <3>4. Push(Touch(low, TRUE)) /\ pre' = [pre EXCEPT !.pointers[p] = low]
      BY <1>11 DEF Down
    <3> QED BY <3>3, <3>4
  <2>2. s \in Slots BY DEF FreeSlots
  <2>3. pre' \in Presentation BY <1>1, <2>1, <2>2, PresentationFields
  <2> QED BY <1>1, <1>2, <1>3, <1>11, <2>1, <2>2, <2>3, CommandValues DEF Down
<1>12. ASSUME NEW p \in Pointers, Held(p) PROVE pre.pointers[p] \in Slots
  BY <1>1, <1>12 DEF Held, Presentation
<1>13. ASSUME NEW p \in Pointers, Move(p) PROVE Good
  BY <1>1, <1>2, <1>3, <1>12, <1>13, CommandValues DEF Move
<1>14. ASSUME NEW p \in Pointers, Up(p) PROVE Good
  <2>1. [pre EXCEPT !.pointers[p] = Unheld] \in Presentation BY <1>1, PresentationFields
  <2> QED BY <1>2, <1>12, <1>14, <2>1, CommandValues, TerminalTypes DEF Up
<1> QED BY <1>5, <1>6, <1>7, <1>8, <1>9, <1>10, <1>11, <1>13, <1>14 DEF Control

-----------------------------------------------------------------------------
(* The receiver, the event channel and the screen.                         *)

LEMMA ReceiverEndsTypes ==
    ASSUME SessionTypeOK, ReceiverEnds
    PROVE  /\ rcv' \in ReceiverState /\ events' \in Seq(Command) /\ Len(events') =< EventCap
           /\ video' \in Stream /\ Len(video'.queue) =< QueueLimit
<1>1. rcv' \in ReceiverState BY ReceiverFields DEF ReceiverEnds, SessionTypeOK
<1>2. video' \in Stream BY StreamFields DEF ReceiverEnds
<1>3. video'.queue = NoVideo.queue BY DEF ReceiverEnds, NoVideo
<1>4. events' \in Seq(Command) /\ Len(events') = 0 BY DEF ReceiverEnds
<1> QED BY <1>1, <1>2, <1>3, <1>4, StreamFields

LEMMA EventQueued ==
    ASSUME SessionTypeOK, NEW c \in Command, Len(events) < EventCap
    PROVE  Append(events, c) \in Seq(Command) /\ Len(Append(events, c)) =< EventCap
<1>1. events \in Seq(Command) /\ Len(events) \in Nat BY LenProperties DEF SessionTypeOK
<1> QED BY <1>1, AppendProperties

LEMMA Taken ==
    ASSUME NEW q \in Seq(Command), q # <<>>, NEW n \in Nat, Len(q) =< n
    PROVE  Head(q) \in Command /\ Tail(q) \in Seq(Command) /\ Len(Tail(q)) =< n
BY HeadTailProperties, LenProperties

LEMMA ForwardTypes ==
    ASSUME SessionTypeOK, Forward
    PROVE  /\ Receiving /\ Inner /\ UNCHANGED <<contacts, frames>>
           /\ commands' \in Seq(Command) /\ Len(commands') =< CommandCap
           /\ rcv' \in ReceiverState /\ events' \in Seq(Command) /\ Len(events') =< EventCap
           /\ video' \in Stream /\ Len(video'.queue) =< QueueLimit
<1>1. /\ commands \in Seq(Command) /\ Len(commands) =< CommandCap
      /\ events \in Seq(Command) /\ Len(events) =< EventCap
      /\ rcv \in ReceiverState /\ video \in Stream /\ Len(video.queue) =< QueueLimit
  BY DEF SessionTypeOK
<1>2. /\ Receiving /\ Inner /\ UNCHANGED <<contacts, frames>> /\ commands # <<>>
      /\ commands' = Tail(commands)
  BY DEF Forward
<1>3. /\ Head(commands) \in Command /\ commands' \in Seq(Command)
      /\ Len(commands') =< CommandCap
  BY <1>1, <1>2, Taken
<1>4. CASE UNCHANGED <<events, rcv, video>> BY <1>1, <1>2, <1>3, <1>4
<1>5. CASE /\ Len(events) < EventCap
           /\ events' = Append(events, Head(commands))
           /\ UNCHANGED <<rcv, video>>
  BY <1>1, <1>2, <1>3, <1>5, EventQueued
<1>6. CASE ReceiverEnds BY <1>2, <1>3, <1>6, ReceiverEndsTypes
<1> QED BY <1>4, <1>5, <1>6 DEF Forward

LEMMA PressedTypes ==
    \A held \in SUBSET Slots, c \in Command : Pressed(held, c) \in SUBSET Slots
BY DEF Pressed, Command

LEMMA SendEventTypes ==
    ASSUME SessionTypeOK, SendEvent
    PROVE  /\ Receiving /\ Inner /\ UNCHANGED <<commands, rcv, video, frames>>
           /\ events' \in Seq(Command) /\ Len(events') =< EventCap
           /\ contacts' \subseteq Slots
<1>1. events \in Seq(Command) /\ Len(events) =< EventCap /\ contacts \in SUBSET Slots
  BY DEF SessionTypeOK
<1>2. /\ Receiving /\ Inner /\ UNCHANGED <<commands, rcv, video, frames>>
      /\ events # <<>> /\ events' = Tail(events)
      /\ contacts' = Pressed(contacts, Head(events))
  BY DEF SendEvent, Setup
<1>3. /\ Head(events) \in Command /\ events' \in Seq(Command) /\ Len(events') =< EventCap
  BY <1>1, <1>2, Taken
<1>4. contacts' \in SUBSET Slots BY <1>1, <1>2, <1>3, PressedTypes
<1> QED BY <1>2, <1>3, <1>4

LEMMA AdvancingTypes ==
    ASSUME SessionTypeOK, Advancing
    PROVE  /\ Receiving /\ Inner /\ UNCHANGED <<commands, events, contacts, video, frames>>
           /\ rcv' \in ReceiverState /\ rcv'.ended = rcv.ended
           /\ rcv.active => rcv'.active
<1>1. rcv \in ReceiverState BY DEF SessionTypeOK
<1>2. ASSUME NEW from, NEW to \in Stages, Advances(from, to)
      PROVE  /\ Receiving /\ Inner /\ UNCHANGED <<commands, events, contacts, video, frames>>
             /\ rcv' \in ReceiverState /\ rcv'.ended = rcv.ended /\ rcv'.active = rcv.active
  <2>1. rcv' = [rcv EXCEPT !.stage = to] BY <1>2 DEF Advances
  <2>2. rcv' \in ReceiverState BY <1>1, <2>1, ReceiverFields
  <2>3. rcv'.ended = rcv.ended /\ rcv'.active = rcv.active BY <1>1, <2>1 DEF ReceiverState
  <2> QED BY <1>2, <2>2, <2>3 DEF Advances
<1>3. CASE Record
  <2>1. rcv' = [rcv EXCEPT !.active = TRUE] BY <1>3 DEF Record
  <2>2. rcv' \in ReceiverState BY <1>1, <2>1, ReceiverFields
  <2>3. rcv'.ended = rcv.ended /\ rcv'.active BY <1>1, <2>1 DEF ReceiverState
  <2> QED BY <1>3, <2>2, <2>3 DEF Record, Setup
<1>4. CASE SetupScreen
  <2>1. rcv' = [rcv EXCEPT !.screen = TRUE] BY <1>4 DEF SetupScreen
  <2>2. rcv' \in ReceiverState BY <1>1, <2>1, ReceiverFields
  <2>3. rcv'.ended = rcv.ended /\ rcv'.active = rcv.active BY <1>1, <2>1 DEF ReceiverState
  <2> QED BY <1>4, <2>2, <2>3 DEF SetupScreen, Setup
<1>5. /\ "identify" \in Stages /\ "accept" \in Stages /\ "pairing" \in Stages
      /\ "paired" \in Stages /\ "verifying" \in Stages /\ "verified" \in Stages
      /\ "authenticated" \in Stages /\ "setup" \in Stages
  BY DEF Stages, Unconnected
<1> QED BY <1>2, <1>3, <1>4, <1>5 DEF Advancing, Synchronized, BroughtUp, Accepted, PairSetup,
           VerifyStart, VerifyFinish, AuthSetup, SessionSetup

LEMMA ConfigureTypes ==
    ASSUME SessionTypeOK, Configure
    PROVE  /\ Receiving /\ Inner /\ UNCHANGED <<commands, rcv, events, contacts, frames>>
           /\ video' \in Stream /\ Len(video'.queue) =< QueueLimit
<1>1. video \in Stream /\ Len(video.queue) =< QueueLimit BY DEF SessionTypeOK
<1>2. video' \in Stream BY <1>1, StreamFields DEF Configure
<1>3. video'.queue = video.queue BY <1>1 DEF Configure, Stream
<1> QED BY <1>1, <1>2, <1>3 DEF Configure

(* An overflow empties the queue and waits for a keyframe.                 *)
LEMMA OverflowedTypes ==
    ASSUME SessionTypeOK
    PROVE  LET v == Overflowed(video)
           IN  /\ v \in Stream /\ Len(v.queue) \in Nat /\ Len(v.queue) < QueueLimit
               /\ v = video \/ (v.queue = <<>> /\ v.need)
               /\ v.serving = video.serving /\ v.flight = video.flight /\ v.seen = video.seen
<1>1. video \in Stream /\ Len(video.queue) =< QueueLimit BY DEF SessionTypeOK
<1>2. Len(video.queue) \in Nat BY <1>1, LenProperties DEF Stream
<1>3. CASE Len(video.queue) = QueueLimit
  <2> DEFINE w == [video EXCEPT !.queue = <<>>]
  <2>0. <<>> \in Seq(Picture) OBVIOUS
  <2>1. w \in Stream BY <1>1, <2>0, StreamFields
  <2>2. [w EXCEPT !.need = TRUE] \in Stream BY <2>1, StreamFields
  <2>3. Overflowed(video) = [video EXCEPT !.queue = <<>>, !.need = TRUE]
    BY <1>3 DEF Overflowed
  <2>4. Overflowed(video) \in Stream BY <2>2, <2>3
  <2>5. /\ Overflowed(video).queue = <<>> /\ Overflowed(video).need
        /\ Overflowed(video).serving = video.serving
        /\ Overflowed(video).flight = video.flight /\ Overflowed(video).seen = video.seen
    BY <1>1, <2>3 DEF Stream
  <2>6. Len(Overflowed(video).queue) = 0 BY <2>5
  <2> QED BY <2>4, <2>5, <2>6
<1>4. CASE Len(video.queue) # QueueLimit
  <2>1. Overflowed(video) = video BY <1>4 DEF Overflowed
  <2>2. Len(video.queue) < QueueLimit BY <1>1, <1>2, <1>4
  <2>3. /\ Overflowed(video) \in Stream /\ Len(Overflowed(video).queue) \in Nat
        /\ Len(Overflowed(video).queue) < QueueLimit
    BY <1>1, <1>2, <2>1, <2>2
  <2>4. /\ Overflowed(video).serving = video.serving
        /\ Overflowed(video).flight = video.flight /\ Overflowed(video).seen = video.seen
    BY <2>1
  <2> QED BY <2>1, <2>3, <2>4
<1> QED BY <1>3, <1>4

LEMMA PublishTypes ==
    ASSUME SessionTypeOK, NEW key \in BOOLEAN, Publish(key)
    PROVE  /\ Receiving /\ Inner /\ UNCHANGED <<commands, contacts>>
           /\ frames' \in 0..MaxFrames
           /\ rcv' \in ReceiverState /\ events' \in Seq(Command) /\ Len(events') =< EventCap
           /\ video' \in Stream /\ Len(video'.queue) =< QueueLimit
<1> DEFINE v == Overflowed(video)
           fr == [n |-> frames + 1, key |-> key]
<1>1. frames \in 0..MaxFrames /\ frames' = frames + 1 /\ frames < MaxFrames
  BY DEF SessionTypeOK, Publish
<1>2. frames' \in 0..MaxFrames BY <1>1
<1>3. v \in Stream /\ Len(v.queue) \in Nat /\ Len(v.queue) < QueueLimit BY OverflowedTypes
<1>4. /\ Receiving /\ Inner /\ UNCHANGED <<commands, contacts>>
      /\ \/ AskKeyframe(v)
         \/ /\ video' = [v EXCEPT !.need = FALSE, !.queue = Append(@, fr)]
            /\ UNCHANGED <<events, rcv>>
  BY DEF Publish
<1>5. rcv \in ReceiverState /\ events \in Seq(Command) /\ Len(events) =< EventCap
  BY DEF SessionTypeOK
<1>6. fr \in Picture BY <1>1, <1>2 DEF Picture
<1> HIDE DEF v, fr
<1>7. CASE video' = v /\ UNCHANGED <<events, rcv>> BY <1>2, <1>3, <1>4, <1>5, <1>7
<1>8. CASE /\ Len(events) < EventCap
           /\ events' = Append(events, Simple("event")) /\ video' = v /\ UNCHANGED rcv
  BY <1>2, <1>3, <1>4, <1>5, <1>8, EventQueued, CommandValues
<1>9. CASE ReceiverEnds BY <1>2, <1>4, <1>9, ReceiverEndsTypes
<1>10. CASE /\ video' = [v EXCEPT !.need = FALSE, !.queue = Append(@, fr)]
            /\ UNCHANGED <<events, rcv>>
  <2>1. v.queue \in Seq(Picture) BY <1>3 DEF Stream
  <2>2. Append(v.queue, fr) \in Seq(Picture) /\ Len(Append(v.queue, fr)) = Len(v.queue) + 1
    BY <1>6, <2>1, AppendProperties
  <2>3. [v EXCEPT !.need = FALSE] \in Stream BY <1>3, StreamFields
  <2>4. [[v EXCEPT !.need = FALSE] EXCEPT !.queue = Append(v.queue, fr)] \in Stream
    BY <2>2, <2>3, StreamFields
  <2>5. video' = [[v EXCEPT !.need = FALSE] EXCEPT !.queue = Append(v.queue, fr)]
    BY <1>3, <1>10 DEF Stream
  <2>6. video'.queue = Append(v.queue, fr) BY <1>3, <2>5 DEF Stream
  <2>7. Len(video'.queue) =< QueueLimit BY <1>3, <2>2, <2>6
  <2> QED BY <1>2, <1>4, <1>5, <1>10, <2>4, <2>5, <2>7
<1> QED BY <1>4, <1>7, <1>8, <1>9, <1>10 DEF AskKeyframe

LEMMA ViewTypes ==
    ASSUME SessionTypeOK, View
    PROVE  /\ Live /\ Inner /\ UNCHANGED <<commands, rcv, events, contacts, frames>>
           /\ video' \in Stream /\ Len(video'.queue) =< QueueLimit
<1>1. video \in Stream /\ Len(video.queue) =< QueueLimit BY DEF SessionTypeOK
<1>2. video.queue \in Seq(Picture) /\ Len(video.queue) \in Nat /\ video.flight \in Picture
  BY <1>1, LenProperties DEF Stream
<1>3. <<>> \in Seq(Picture) /\ Len(<<>>) = 0 /\ NoFrame \in Picture
  BY DEF NoFrame, Picture
<1>4. 0 \in 0..MaxFrames OBVIOUS
<1>5. CASE Serve
  <2>1. video' = [video EXCEPT !.serving = TRUE, !.seen = 0] BY <1>5 DEF Serve, Consumer
  <2>2. [video EXCEPT !.serving = TRUE] \in Stream BY <1>1, StreamFields
  <2>3. video' \in Stream BY <1>4, <2>1, <2>2, StreamFields
  <2>4. video'.queue = video.queue BY <1>1, <2>1 DEF Stream
  <2> QED BY <1>1, <1>5, <2>3, <2>4 DEF Serve, Consumer
<1>6. CASE TakeFrame
  <2>1. video' = [video EXCEPT !.flight = Head(video.queue), !.queue = Tail(video.queue)]
    BY <1>6 DEF TakeFrame, Consumer
  <2>2. /\ Head(video.queue) \in Picture /\ Tail(video.queue) \in Seq(Picture)
        /\ Len(Tail(video.queue)) = Len(video.queue) - 1
    BY <1>2, <1>6, HeadTailProperties DEF TakeFrame
  <2>3. [video EXCEPT !.flight = Head(video.queue)] \in Stream BY <1>1, <2>2, StreamFields
  <2>4. video' \in Stream BY <2>1, <2>2, <2>3, StreamFields
  <2>5. video'.queue = Tail(video.queue) BY <1>1, <2>1 DEF Stream
  <2>6. Len(video'.queue) =< QueueLimit BY <1>1, <1>2, <2>2, <2>5
  <2> QED BY <1>6, <2>4, <2>6 DEF TakeFrame, Consumer
<1>7. CASE Written
  <2>1. video' = [video EXCEPT !.flight = NoFrame, !.seen = video.flight.n]
    BY <1>7 DEF Written, Consumer
  <2>2. video.flight.n \in 0..MaxFrames BY <1>2 DEF Picture
  <2>3. [video EXCEPT !.flight = NoFrame] \in Stream BY <1>1, <1>3, StreamFields
  <2>4. video' \in Stream BY <2>1, <2>2, <2>3, StreamFields
  <2>5. video'.queue = video.queue BY <1>1, <2>1 DEF Stream
  <2> QED BY <1>1, <1>7, <2>4, <2>5 DEF Written, Consumer
<1>8. CASE ConsumerGone
  <2>1. video' = [video EXCEPT !.serving = FALSE, !.queue = <<>>, !.need = TRUE,
                               !.flight = NoFrame, !.seen = 0]
    BY <1>8 DEF ConsumerGone, Consumer
  <2>2. [video EXCEPT !.serving = FALSE] \in Stream BY <1>1, StreamFields
  <2>3. [video EXCEPT !.serving = FALSE, !.queue = <<>>] \in Stream
    BY <1>3, <2>2, StreamFields
  <2>4. [video EXCEPT !.serving = FALSE, !.queue = <<>>, !.need = TRUE] \in Stream
    BY <2>3, StreamFields
  <2>5. [video EXCEPT !.serving = FALSE, !.queue = <<>>, !.need = TRUE,
                      !.flight = NoFrame] \in Stream
    BY <1>3, <2>4, StreamFields
  <2>6. video' \in Stream BY <1>4, <2>1, <2>5, StreamFields
  <2>7. video'.queue = <<>> BY <1>1, <2>1 DEF Stream
  <2>8. Len(video'.queue) =< QueueLimit BY <1>3, <2>7
  <2> QED BY <1>8, <2>6, <2>8 DEF ConsumerGone, Consumer
<1> QED BY <1>5, <1>6, <1>7, <1>8 DEF View

LEMMA ReceiverFailsTypes ==
    ASSUME SessionTypeOK, ReceiverFails
    PROVE  /\ Receiving /\ Inner /\ UNCHANGED <<commands, contacts, frames>> /\ ReceiverEnds
           /\ rcv' \in ReceiverState /\ events' \in Seq(Command) /\ Len(events') =< EventCap
           /\ video' \in Stream /\ Len(video'.queue) =< QueueLimit
BY ReceiverEndsTypes DEF ReceiverFails

LEMMA ResetTypes ==
    ASSUME Reset
    PROVE  /\ cancel' \in BOOLEAN /\ pre' \in Presentation
           /\ commands' \in Seq(Command) /\ Len(commands') =< CommandCap
           /\ rcv' \in ReceiverState
           /\ events' \in Seq(Command) /\ Len(events') =< EventCap
           /\ contacts' \subseteq Slots
           /\ video' \in Stream /\ Len(video'.queue) =< QueueLimit
<1>1. <<>> \in Seq(Command) /\ Len(<<>>) = 0 OBVIOUS
<1>2. cancel' \in BOOLEAN /\ pre' \in Presentation /\ contacts' \subseteq Slots
  BY PresentationFields DEF Reset
<1>3. /\ commands' \in Seq(Command) /\ Len(commands') =< CommandCap
      /\ events' \in Seq(Command) /\ Len(events') =< EventCap
  BY <1>1 DEF Reset
<1>4. rcv' \in ReceiverState BY ReceiverFields DEF Reset
<1>5. video' \in Stream /\ Len(video'.queue) =< QueueLimit
  <2>1. video' = NoVideo BY DEF Reset
  <2> QED BY <2>1, StreamFields
<1> QED BY <1>2, <1>3, <1>4, <1>5

-----------------------------------------------------------------------------
(* The types of a session's state.                                         *)

LEMMA SessionStepTypes ==
    ASSUME SessionTypeOK, SessionStep
    PROVE  SessionTypeOK'
<1> USE DEF SessionTypeOK
<1>1. CASE SettingUp BY <1>1, SettingUpTypes DEF innerVars
<1>2. CASE Leave
  <2> DEFINE o == IF cancel THEN "user" ELSE "other"
  <2>1. o \in {"none", "user", "other"} OBVIOUS
  <2>2. ses' = [ses EXCEPT !.at = "join", !.out = o] BY <1>2, SMTT(40) DEF Leave
  <2> HIDE DEF o
  <2>3. ses' \in SessionState BY <2>1, <2>2, SessionFields, ZenonT(60) DEF Places
  <2> QED BY <1>2, <2>3 DEF Leave
<1>3. CASE Join
  <2>1. ses' \in SessionState BY <1>3, SessionFields DEF Join, Goes, Places
  <2>2. res' \in Resources BY <1>3, ResourceFields DEF Join
  <2> QED BY <1>3, <2>1, <2>2, ResetTypes DEF Join
<1>4. CASE Control BY <1>4, ControlTypes DEF Elsewhere
<1>5. CASE Forward BY <1>5, ForwardTypes DEF Inner
<1>6. CASE SendEvent BY <1>6, SendEventTypes DEF Inner
<1>7. CASE Advancing BY <1>7, AdvancingTypes DEF Inner
<1>8. CASE ReceiverFails BY <1>8, ReceiverFailsTypes DEF Inner
<1>9. CASE Configure BY <1>9, ConfigureTypes DEF Inner
<1>10. CASE Publishing BY <1>10, PublishTypes, SMTT(40) DEF Inner, Publishing
<1>11. CASE View BY <1>11, ViewTypes DEF Inner
<1> QED BY <1>1, <1>2, <1>3, <1>4, <1>5, <1>6, <1>7, <1>8, <1>9, <1>10, <1>11, SessionSteps

LEMMA DroppedTypes ==
    ASSUME SessionTypeOK, Dropped
    PROVE  SessionTypeOK'
<1>1. res \in Resources BY DEF SessionTypeOK
<1>2. res' \in Resources BY <1>1 DEF Dropped, Resources
<1> QED BY <1>2, SessionFields, ResetTypes DEF Dropped, SessionTypeOK

-----------------------------------------------------------------------------
(* The daemon around the session.                                          *)

(* Every change of the generation is paid for by a request.                *)
GenerationCounted ==
    /\ st.gen <= requests
    /\ request # NoRequest => st.gen < requests /\ request.base.gen < requests

LEMMA SameSession ==
    ASSUME SessionTypeOK, UNCHANGED sessionVars
    PROVE  SessionTypeOK'
BY DEF SessionTypeOK, sessionVars, innerVars

LEMMA OnlySes ==
    ASSUME SessionTypeOK, ses' \in SessionState, UNCHANGED <<res, innerVars, inputs, frames>>
    PROVE  SessionTypeOK'
BY DEF SessionTypeOK, innerVars

LEMMA RequestedTypes ==
    ASSUME NEW s \in State, s.gen < MaxRequests, NEW kind \in Kinds
    PROVE  /\ Requested(kind, s) \in State
           /\ Requested(kind, s).gen \in {s.gen, s.gen + 1}
<1>1. s.gen + 1 \in 0..MaxRequests BY DEF State
<1>2. \A t \in State : [t EXCEPT !.gen = s.gen + 1] \in State BY <1>1 DEF State
<1>3. ASSUME NEW on \in BOOLEAN
      PROVE  /\ Enabling(s, on) \in State
             /\ Enabling(s, on).gen \in {s.gen, s.gen + 1}
  <2>1. [s EXCEPT !.enabled = on, !.running = on] \in State BY SettingFields
  <2>2. [s EXCEPT !.enabled = on, !.running = on, !.gen = s.gen + 1] \in State
    BY <1>2, <2>1
  <2>3. [s EXCEPT !.enabled = on, !.running = on, !.gen = s.gen + 1].gen = s.gen + 1
    BY DEF State
  <2> QED BY <2>2, <2>3 DEF Enabling
<1>4. CASE kind \in {"enable", "disable"} BY <1>3, <1>4 DEF Requested
<1>5. CASE kind = "auto"
  <2>1. Requested(kind, s) = [s EXCEPT !.auto = TRUE] BY <1>5 DEF Requested
  <2>2. [s EXCEPT !.auto = TRUE].gen = s.gen BY DEF State
  <2> QED BY <2>1, <2>2, SettingFields
<1>6. CASE kind = "manual"
  <2>1. Requested(kind, s) = [s EXCEPT !.auto = FALSE] BY <1>6 DEF Requested
  <2>2. [s EXCEPT !.auto = FALSE].gen = s.gen BY DEF State
  <2> QED BY <2>1, <2>2, SettingFields
<1>7. CASE kind = "connect"
  <2>1. Requested(kind, s) = [s EXCEPT !.running = TRUE, !.authorize = TRUE, !.gen = s.gen + 1]
    BY <1>7 DEF Requested
  <2>2. [s EXCEPT !.running = TRUE, !.authorize = TRUE] \in State BY SettingFields
  <2>3. [s EXCEPT !.running = TRUE, !.authorize = TRUE, !.gen = s.gen + 1] \in State
    BY <1>2, <2>2
  <2>4. [s EXCEPT !.running = TRUE, !.authorize = TRUE, !.gen = s.gen + 1].gen = s.gen + 1
    BY DEF State
  <2> QED BY <2>1, <2>3, <2>4
<1>8. CASE kind = "disconnect"
  <2>1. Requested(kind, s) = [s EXCEPT !.running = FALSE, !.gen = s.gen + 1]
    BY <1>8 DEF Requested
  <2>2. [s EXCEPT !.running = FALSE, !.gen = s.gen + 1] \in State BY <1>2, SettingFields
  <2>3. [s EXCEPT !.running = FALSE, !.gen = s.gen + 1].gen = s.gen + 1 BY DEF State
  <2> QED BY <2>1, <2>2, <2>3
<1> QED BY <1>4, <1>5, <1>6, <1>7, <1>8 DEF Kinds

LEMMA ManagerTypes ==
    ASSUME TypeOK, GenerationCounted,
           \/ \E kind \in Kinds : BeginRequest(kind)
           \/ FinishRequest \/ RefuseRequest
    PROVE  TypeOK' /\ GenerationCounted'
<1>1. requests \in 0..MaxRequests /\ st \in State /\ st.gen \in 0..MaxRequests
  BY DEF TypeOK, State
<1>2. UNCHANGED <<sessionVars, daemonVars>>
  BY DEF BeginRequest, FinishRequest, RefuseRequest
<1>3. SessionTypeOK' BY <1>2, SameSession DEF TypeOK
<1>4. ASSUME NEW kind \in Kinds, BeginRequest(kind) PROVE TypeOK' /\ GenerationCounted'
  <2>1. requests + 1 \in 0..MaxRequests BY <1>1, <1>4 DEF BeginRequest
  <2>2. request' \in [kind : Kinds, base : State] BY <1>1, <1>4 DEF BeginRequest
  <2>3. TypeOK' BY <1>2, <1>3, <1>4, <2>1, <2>2 DEF TypeOK, BeginRequest, daemonVars
  <2>4. request'.base.gen < requests' /\ st'.gen < requests'
    BY <1>1, <1>4 DEF BeginRequest, GenerationCounted
  <2> QED BY <1>1, <1>4, <2>3, <2>4 DEF GenerationCounted, BeginRequest
<1>5. CASE FinishRequest
  <2>1. request.kind \in Kinds /\ request.base \in State BY <1>5 DEF FinishRequest, TypeOK
  <2>2. request.base.gen < requests /\ request.base.gen \in Nat
    BY <1>5, <2>1 DEF FinishRequest, GenerationCounted, State
  <2>3. request.base.gen < MaxRequests BY <1>1, <2>2
  <2>4. st' \in State /\ st'.gen \in {request.base.gen, request.base.gen + 1}
    BY <1>5, <2>1, <2>3, RequestedTypes DEF FinishRequest
  <2>5. TypeOK' BY <1>2, <1>3, <1>5, <2>4 DEF TypeOK, FinishRequest, daemonVars
  <2>6. st'.gen <= requests /\ requests' = requests /\ request' = NoRequest
    BY <1>1, <1>5, <2>2, <2>4 DEF FinishRequest
  <2> QED BY <2>5, <2>6 DEF GenerationCounted
<1>6. CASE RefuseRequest
  <2>1. TypeOK' BY <1>2, <1>3, <1>6 DEF TypeOK, RefuseRequest, daemonVars
  <2> QED BY <1>6, <2>1 DEF GenerationCounted, RefuseRequest
<1> QED BY <1>4, <1>5, <1>6

(* Steps of the supervisor that leave the sessions alone.                  *)
Deciding == \/ Probed \/ Top \/ Release \/ IdleWait \/ Pkcheck \/ Unauthorized
            \/ SessionDone \/ Pause \/ Backoff \/ End

LEMMA SupervisorPost ==
    ASSUME TypeOK
    PROVE  /\ \A p \in Posts : To(p) => sup' \in SupervisorState
           /\ Fails => sup' \in SupervisorState
<1>1. sup \in SupervisorState BY DEF TypeOK
<1>2. ASSUME NEW p \in Posts, To(p) PROVE sup' \in SupervisorState
  BY <1>1, <1>2, SupervisorFields DEF To
<1>3. ASSUME Fails PROVE sup' \in SupervisorState
  <2>1. "end" \in Posts BY DEF Posts
  <2> QED BY <1>1, <1>3, <2>1, SupervisorFields DEF Fails
<1> QED BY <1>2, <1>3

LEMMA DecidingTypes ==
    ASSUME TypeOK, Deciding
    PROVE  /\ UNCHANGED sessionVars /\ UNCHANGED requests /\ UNCHANGED <<main, stop, clean, faults>>
           /\ st' \in State /\ st'.gen = st.gen /\ unseen' \in BOOLEAN
           /\ request' \in {request, NoRequest}
           /\ sup' \in SupervisorState /\ server' \in BOOLEAN
           /\ lease' \in {"none", "live", "dead", "unconfirmed"}
<1> DEFINE Good == /\ UNCHANGED sessionVars /\ UNCHANGED requests
                   /\ UNCHANGED <<main, stop, clean, faults>>
                   /\ st' \in State /\ st'.gen = st.gen /\ unseen' \in BOOLEAN
                   /\ request' \in {request, NoRequest}
                   /\ sup' \in SupervisorState /\ server' \in BOOLEAN
                   /\ lease' \in {"none", "live", "dead", "unconfirmed"}
<1> USE SupervisorPost DEF Posts, managerVars, others, Watch, Woken
<1>1. /\ st \in State /\ unseen \in BOOLEAN /\ sup \in SupervisorState /\ server \in BOOLEAN
      /\ lease \in {"none", "live", "dead", "unconfirmed"}
  BY DEF TypeOK
<1>2. CASE Probed
  <2>1. sup' \in SupervisorState BY <1>2 DEF Probed
  <2> QED BY <1>1, <1>2, <2>1 DEF Probed
<1>3. CASE Top
  <2> DEFINE p == CASE ~st.running \/ ~st.enabled -> IF Handle THEN "release" ELSE "idle"
                    [] /\ st.running /\ st.enabled
                       /\ UsbLease /\ ~Handle /\ ~st.authorize -> "pkcheck"
                    [] OTHER -> "start"
  <2>1. p \in Posts OBVIOUS
  <2>2. To("end") \/ sup' = [sup EXCEPT !.cur = st, !.pc = p] BY <1>3 DEF Top
  <2> HIDE DEF p
  <2>3. sup' \in SupervisorState
    <3>1. [sup EXCEPT !.cur = st, !.pc = p] \in SupervisorState
      BY <1>1, <2>1, SupervisorFields
    <3> QED BY <2>2, <3>1
  <2> QED BY <1>1, <1>3, <2>3 DEF Top
<1>4. CASE Release
  <2>1. sup' \in SupervisorState BY <1>4 DEF Release
  <2> QED BY <1>1, <1>4, <2>1 DEF Release
<1>5. CASE IdleWait
  <2>1. sup' \in SupervisorState BY <1>5 DEF IdleWait
  <2> QED BY <1>1, <1>5, <2>1 DEF IdleWait
<1>6. CASE Pkcheck
  <2>1. sup' \in SupervisorState BY <1>6 DEF Pkcheck
  <2> QED BY <1>1, <1>6, <2>1 DEF Pkcheck
<1>7. CASE Unauthorized
  <2>1. sup' \in SupervisorState BY <1>7 DEF Unauthorized
  <2> QED BY <1>1, <1>7, <2>1 DEF Unauthorized
<1>8. CASE SessionDone
  <2>1. sup' \in SupervisorState BY <1>8 DEF SessionDone
  <2> QED BY <1>1, <1>8, <2>1 DEF SessionDone
<1>9. CASE Pause
  <2>1. sup' \in SupervisorState BY <1>9 DEF Pause
  <2>2. st' \in State BY <1>1, <1>9, SettingFields DEF Pause
  <2>3. st'.gen = st.gen BY <1>1, <1>9 DEF Pause, State
  <2> QED BY <1>1, <1>9, <2>1, <2>2, <2>3 DEF Pause
<1>10. CASE Backoff
  <2>1. sup' \in SupervisorState BY <1>10 DEF Backoff
  <2> QED BY <1>1, <1>10, <2>1 DEF Backoff
<1>11. CASE End
  <2>1. [sup EXCEPT !.pc = "ended", !.ok = FALSE] \in SupervisorState
    BY <1>1, SupervisorFields
  <2>2. sup' \in SupervisorState BY <1>11, <2>1 DEF End
  <2> QED BY <1>1, <1>11, <2>2 DEF End
<1> HIDE DEF Good
<1>12. Good BY <1>2, <1>3, <1>4, <1>5, <1>6, <1>7, <1>8, <1>9, <1>10, <1>11 DEF Deciding, Good
<1> QED BY <1>12 DEF Good

(* The steps of the supervisor that start, stop, drop or judge a session.  *)
LEMMA HoldingTypes ==
    ASSUME TypeOK, Start \/ SessionWait \/ Judge
    PROVE  /\ SessionTypeOK' /\ UNCHANGED <<st, request, requests, others>>
           /\ sup' \in SupervisorState /\ unseen' \in BOOLEAN
           /\ lease' \in {"none", "live", "dead", "unconfirmed"}
<1> USE SupervisorPost DEF Posts, managerVars, Watch, Woken, Stays
<1>1. /\ SessionTypeOK /\ ses \in SessionState /\ unseen \in BOOLEAN
      /\ sup \in SupervisorState /\ lease \in {"none", "live", "dead", "unconfirmed"}
  BY DEF TypeOK, SessionTypeOK
<1>2. CASE Start
  <2>1. sup' \in SupervisorState BY <1>2 DEF Start
  <2>2. ses' \in SessionState
    <3>1. [NoSession EXCEPT !.at = "claim"] \in SessionState
      BY SessionFields DEF Places
    <3> QED BY <1>1, <1>2, <3>1, SMTT(40) DEF Start
  <2>3. SessionTypeOK' BY <1>1, <1>2, <2>2, OnlySes DEF Start
  <2> QED BY <1>1, <1>2, <2>1, <2>3 DEF Start
<1>3. CASE SessionWait
  <2>1. sup' \in SupervisorState BY <1>1, <1>3 DEF SessionWait
  <2>2. CASE Dropped BY <1>1, <1>3, <2>1, <2>2, DroppedTypes DEF SessionWait
  <2>3. CASE ~Dropped
    <3>1. ses' \in SessionState BY <1>1, <1>3, <2>3, SessionFields DEF SessionWait, Stops
    <3>2. SessionTypeOK' BY <1>1, <1>3, <2>3, <3>1, OnlySes DEF SessionWait
    <3> QED BY <1>1, <1>3, <2>1, <3>2 DEF SessionWait
  <2> QED BY <2>2, <2>3
<1>4. CASE Judge
  <2>1. sup' \in SupervisorState BY <1>1, <1>4, SMTT(40) DEF Judge
  <2>2. ses' \in SessionState BY <1>4, SessionFields DEF Judge
  <2>3. SessionTypeOK' BY <1>1, <1>4, <2>2, OnlySes DEF Judge
  <2> QED BY <1>1, <1>4, <2>1, <2>3 DEF Judge
<1> QED BY <1>2, <1>3, <1>4

LEMMA MainTypes ==
    ASSUME TypeOK, Main \/ Fault
    PROVE  /\ UNCHANGED <<sessionVars, managerVars, sup>>
           /\ main' \in MainState /\ stop' \in BOOLEAN /\ clean' \in BOOLEAN
           /\ lease' \in {"none", "live", "dead", "unconfirmed"} /\ server' \in BOOLEAN
           /\ faults' \in 0..MaxFaults
           /\ lease' = lease \/ (lease' = "dead" /\ lease = "live")
<1>1. /\ main \in MainState /\ stop \in BOOLEAN /\ clean \in BOOLEAN /\ server \in BOOLEAN
      /\ lease \in {"none", "live", "dead", "unconfirmed"} /\ faults \in 0..MaxFaults
  BY DEF TypeOK
<1>2. CASE Signalled
  <2> DEFINE a == IF Sup("ended") THEN "leave" ELSE "await"
  <2>0. a \in {"leave", "await"} OBVIOUS
  <2>1. main' = [at |-> a, ok |-> TRUE] \/ main' = [at |-> "leave", ok |-> FALSE]
    BY <1>2 DEF Signalled
  <2> HIDE DEF a
  <2>2. main' \in MainState
    <3>1. \A x \in {"leave", "await"}, b \in BOOLEAN : [at |-> x, ok |-> b] \in MainState
      BY DEF MainState
    <3>2. [at |-> a, ok |-> TRUE] \in MainState BY <2>0, <3>1
    <3>3. [at |-> "leave", ok |-> FALSE] \in MainState BY <3>1
    <3> QED BY <2>1, <3>2, <3>3
  <2> QED BY <1>1, <1>2, <2>2 DEF Signalled, mainOthers
<1>3. CASE AwaitPoll
  <2>1. main' \in MainState BY <1>1, <1>3 DEF AwaitPoll, MainState
  <2> QED BY <1>1, <1>3, <2>1 DEF AwaitPoll, mainOthers
<1>4. CASE MarkClean
  <2>1. main' \in MainState /\ clean' \in BOOLEAN BY <1>1, <1>4 DEF MarkClean, MainState
  <2> QED BY <1>1, <1>4, <2>1 DEF MarkClean, mainOthers
<1>5. CASE Fault
  <2>1. faults' \in 0..MaxFaults BY <1>1, <1>5 DEF Fault
  <2> QED BY <1>1, <1>5, <2>1 DEF Fault
<1> QED BY <1>2, <1>3, <1>4, <1>5 DEF Main

-----------------------------------------------------------------------------
(* Types and generations are invariant.                                    *)

Typed == TypeOK /\ GenerationCounted

DaemonStep == /\ main.at # "exited"
              /\ \/ \E kind \in Kinds : BeginRequest(kind)
                 \/ FinishRequest \/ RefuseRequest
                 \/ Deciding \/ (Start \/ SessionWait \/ Judge) \/ (Main \/ Fault)

LEMMA DaemonSteps == Next => DaemonStep \/ Session
BY DEF Next, DaemonStep, Supervisor, Deciding

LEMMA NextTyped ==
    ASSUME Typed, Next
    PROVE  Typed'
<1> USE DEF Typed
<1>1. CASE \/ \E kind \in Kinds : BeginRequest(kind)
           \/ FinishRequest \/ RefuseRequest
  BY <1>1, ManagerTypes
<1>2. CASE Deciding
  <2>1. SessionTypeOK' BY <1>2, DecidingTypes, SameSession DEF TypeOK
  <2>2. TypeOK' BY <1>2, <2>1, DecidingTypes DEF TypeOK
  <2>3. GenerationCounted'
    <3>1. st'.gen = st.gen /\ requests' = requests /\ request' \in {request, NoRequest}
      BY <1>2, DecidingTypes
    <3> QED BY <3>1 DEF GenerationCounted
  <2> QED BY <2>2, <2>3
<1>3. CASE Start \/ SessionWait \/ Judge
  <2>1. TypeOK' BY <1>3, HoldingTypes DEF TypeOK, others
  <2> QED BY <1>3, <2>1, HoldingTypes DEF GenerationCounted
<1>4. CASE Main \/ Fault
  <2>1. SessionTypeOK' BY <1>4, MainTypes, SameSession DEF TypeOK
  <2>2. TypeOK' BY <1>4, <2>1, MainTypes DEF TypeOK, managerVars
  <2> QED BY <1>4, <2>2, MainTypes DEF GenerationCounted, managerVars
<1>5. CASE Session
  <2>1. SessionTypeOK' BY <1>5, SessionStepTypes DEF Session, TypeOK
  <2>2. TypeOK' BY <1>5, <2>1 DEF Session, TypeOK, managerVars, daemonVars
  <2> QED BY <1>5, <2>2 DEF Session, GenerationCounted, managerVars
<1> QED BY <1>1, <1>2, <1>3, <1>4, <1>5, DaemonSteps DEF DaemonStep

LEMMA InitTyped == Init => Typed
<1> SUFFICES ASSUME Init PROVE Typed OBVIOUS
<1>1. <<>> \in Seq(Command) /\ Len(<<>>) = 0 OBVIOUS
<1>2. commands \in Seq(Command) /\ Len(commands) =< CommandCap
  BY <1>1 DEF Init, SessionInit, Idle
<1>3. events \in Seq(Command) /\ Len(events) =< EventCap
  BY <1>1 DEF Init, SessionInit, Idle
<1>4. video \in Stream /\ Len(video.queue) =< QueueLimit
  <2>1. video = NoVideo BY DEF Init, SessionInit, Idle
  <2> QED BY <2>1, StreamFields
<1>5. res \in Resources BY SMTT(40) DEF Init, SessionInit, Resources
<1>6. /\ ses \in SessionState /\ cancel \in BOOLEAN /\ pre \in Presentation
      /\ rcv \in ReceiverState /\ contacts \subseteq Slots
  BY SessionFields, PresentationFields, ReceiverFields DEF Init, SessionInit, Idle
<1>7. inputs \in 0..MaxInputs /\ frames \in 0..MaxFrames
  BY DEF Init, SessionInit
<1>8. SessionTypeOK BY <1>2, <1>3, <1>4, <1>5, <1>6, <1>7 DEF SessionTypeOK
<1>9. st \in State /\ st.gen = 0
  <2>1. PICK enabled \in BOOLEAN, auto \in BOOLEAN : st = Loaded(enabled, auto) BY DEF Init
  <2>2. 0 \in 0..MaxRequests OBVIOUS
  <2> QED BY <2>1, <2>2 DEF Loaded, State
<1>10. sup \in SupervisorState
  <2> HIDE DEF State
  <2> QED BY <1>9 DEF Init, SupervisorState
<1>11. main \in MainState BY DEF Init, MainState
<1>12. requests = 0 /\ faults = 0 BY DEF Init
<1>13. /\ unseen \in BOOLEAN /\ request = NoRequest
       /\ lease \in {"none", "live", "dead", "unconfirmed"}
       /\ server \in BOOLEAN /\ stop \in BOOLEAN /\ clean \in BOOLEAN
  BY DEF Init
<1>14. requests \in 0..MaxRequests /\ faults \in 0..MaxFaults BY <1>12
<1>15. TypeOK BY <1>8, <1>9, <1>10, <1>11, <1>13, <1>14 DEF TypeOK
<1> QED BY <1>9, <1>12, <1>13, <1>15 DEF Typed, GenerationCounted

LEMMA StutterTyped ==
    ASSUME Typed, UNCHANGED vars
    PROVE  Typed'
<1>1. SessionTypeOK' BY SameSession DEF Typed, TypeOK, vars
<1>2. TypeOK' BY <1>1 DEF Typed, TypeOK, vars, managerVars, daemonVars
<1> QED BY <1>2 DEF Typed, GenerationCounted, vars, managerVars

-----------------------------------------------------------------------------
(* The lease around the session.                                           *)

Sessions == {"session", "await", "judge"}

(* There is a session only while the supervisor has one, and it judges     *)
(* only a session that is over.                                            *)
OwnedBySupervisor == /\ ses.at # "none" => sup.pc \in Sessions
                     /\ sup.pc = "judge" => ses.at = "done"

(* The handle of the helper is kept as long as there is a session, also    *)
(* when the helper has ended.                                              *)
LeasedThroughout == UsbLease /\ sup.pc \in Sessions => Handle

(* Where in run() the lock and the mux can be held.                        *)
HeldInSession == /\ res.lock => ses.at \notin {"none", "claim", "done"}
                 /\ res.mux = "live" => ses.at \in {"carkit", "live", "join"}

(* The tasks of a session keep nothing when they do not run.               *)
IdleOutside == ses.at \notin {"live", "join"} => Idle

Cover == OwnedBySupervisor /\ LeasedThroughout /\ HeldInSession /\ IdleOutside

LEMMA CoverImplies == Cover => LeaseCoversSession
BY DEF Cover, OwnedBySupervisor, LeasedThroughout, HeldInSession, LeaseCoversSession, Sessions

(* A step of run() that sets up or gives back: the session stays the       *)
(* supervisor's and the resources are held where they can be.              *)
LEMMA SettingUpCovers ==
    ASSUME ses \in SessionState, res \in Resources, SettingUp, HeldInSession
    PROVE  /\ HeldInSession'
           /\ \/ ses' = ses
              \/ /\ ses.at \notin {"none", "done", "live", "join"}
                 /\ ses'.at \notin {"none", "join"}
<1> USE DEF At, Goes, HeldInSession
<1> DEFINE Good == /\ HeldInSession'
                   /\ \/ ses' = ses
                      \/ /\ ses.at \notin {"none", "done", "live", "join"}
                         /\ ses'.at \notin {"none", "join"}
<1>1. ASSUME NEW out, Returns(out, res) \/ Returns(out, Unprofiled(res)),
             ses.at \notin {"none", "done", "live", "join", "carkit"}
      PROVE  Good
  <2>1. ses'.at = "done" /\ ~res'.lock /\ res'.mux = res.mux
    BY <1>1 DEF Returns, Unprofiled, SessionState, Resources
  <2> QED BY <1>1, <2>1
<1>2. CASE Claim
  <2>1. CASE Returns("other", res) BY <1>1, <1>2, <2>1 DEF Claim
  <2> QED BY <1>2, <2>1 DEF Claim, SessionState, Resources
<1>3. CASE Prepare
  <2>1. CASE Returns("other", res)
    BY <1>1, <1>3, <2>1 DEF Prepare, Selected, PrepareEnds
  <2> QED BY <1>3, <2>1 DEF Prepare, Selected, PrepareEnds, SessionState
<1>4. CASE Adding
  <2>1. CASE Returns("other", res) BY <1>1, <1>4, <2>1 DEF Adding
  <2> QED BY <1>4, <2>1 DEF Adding, SessionState, Resources
<1>5. CASE BridgeUp
  <2>1. CASE Returns("other", Unprofiled(res))
    BY <1>1, <1>5, <2>1 DEF BridgeUp, TapOpened, Addressed, Unbridged
  <2> QED BY <1>5, <2>1 DEF BridgeUp, TapOpened, Addressed, Unbridged, SessionState
<1>6. CASE StartMux BY <1>6 DEF StartMux, SessionState, Resources
<1>7. CASE OpenCarkit
  BY <1>7 DEF OpenCarkit, Spawned, MuxDropped, SessionState, Resources
<1>8. CASE CloseBridge
  <2>1. PICK out : Returns(out, Unprofiled(res)) BY <1>8 DEF CloseBridge
  <2> QED BY <1>1, <1>8, <2>1 DEF CloseBridge
<1>9. CASE Reaped BY <1>9 DEF Reaped, Resources
<1> QED BY <1>2, <1>3, <1>4, <1>5, <1>6, <1>7, <1>8, <1>9 DEF SettingUp

LEMMA SessionCovers ==
    ASSUME SessionTypeOK, Cover, SessionStep, UNCHANGED daemonVars
    PROVE  Cover'
<1> USE DEF Cover
<1>1. sup' = sup /\ lease' = lease BY DEF daemonVars
<1>2. ASSUME UNCHANGED <<ses, res>>, Live PROVE Cover'
  BY <1>1, <1>2 DEF OwnedBySupervisor, LeasedThroughout, Handle, HeldInSession, IdleOutside, Live
<1>3. CASE SettingUp
  <2>1. HeldInSession'
        /\ \/ ses' = ses
           \/ /\ ses.at \notin {"none", "done", "live", "join"}
              /\ ses'.at \notin {"none", "join"}
    BY <1>3, SettingUpCovers DEF SessionTypeOK
  <2>2. UNCHANGED innerVars BY <1>3, SettingUpTypes DEF SessionTypeOK
  <2>3. OwnedBySupervisor' BY <1>1, <2>1 DEF OwnedBySupervisor
  <2>4. IdleOutside' BY <2>1, <2>2 DEF IdleOutside, Idle, innerVars
  <2> QED BY <1>1, <2>1, <2>3, <2>4 DEF LeasedThroughout, Handle
<1>4. CASE Leave
  <2>1. ses'.at = "join" /\ ses.at = "live" /\ res' = res
    BY <1>4 DEF Leave, Live, SessionTypeOK, SessionState
  <2> QED BY <1>1, <2>1 DEF OwnedBySupervisor, LeasedThroughout, Handle, HeldInSession, IdleOutside
<1>5. CASE Join
  <2>1. /\ ses'.at = "unbridge" /\ ses.at = "join"
        /\ res'.mux = "none" /\ res'.lock = res.lock
    BY <1>5 DEF Join, At, Goes, SessionTypeOK, SessionState, Resources
  <2>2. Idle' BY <1>5 DEF Join, Reset, Idle
  <2> QED BY <1>1, <2>1, <2>2
      DEF OwnedBySupervisor, LeasedThroughout, Handle, HeldInSession, IdleOutside
<1>6. CASE Control BY <1>2, <1>6, ControlTypes DEF Elsewhere
<1>7. CASE Forward BY <1>2, <1>7, ForwardTypes DEF Inner, Receiving
<1>8. CASE SendEvent BY <1>2, <1>8, SendEventTypes DEF Inner, Receiving
<1>9. CASE Advancing BY <1>2, <1>9, AdvancingTypes DEF Inner, Receiving
<1>10. CASE ReceiverFails BY <1>2, <1>10, ReceiverFailsTypes DEF Inner, Receiving
<1>11. CASE Configure BY <1>2, <1>11, ConfigureTypes DEF Inner, Receiving
<1>12. CASE Publishing BY <1>2, <1>12, PublishTypes DEF Inner, Receiving, Publishing
<1>13. CASE View BY <1>2, <1>13, ViewTypes DEF Inner
<1> QED BY <1>3, <1>4, <1>5, <1>6, <1>7, <1>8, <1>9, <1>10, <1>11, <1>12, <1>13, SessionSteps

LEMMA DecidingCovers ==
    ASSUME TypeOK, Cover, Deciding
    PROVE  Cover'
<1> USE DEF Cover
<1>1. UNCHANGED sessionVars BY DecidingTypes
<1>2. HeldInSession' /\ IdleOutside' /\ ses' = ses
  BY <1>1 DEF HeldInSession, IdleOutside, Idle, sessionVars, innerVars
<1>3. sup \in SupervisorState BY DEF TypeOK
<1>4. ASSUME sup.pc \notin Sessions, sup'.pc \notin Sessions PROVE Cover'
  BY <1>2, <1>4 DEF OwnedBySupervisor, LeasedThroughout, Sessions
<1>5. ASSUME NEW p \in Posts, To(p) PROVE sup'.pc = p
  BY <1>3, <1>5 DEF To, SupervisorState
<1>6. ASSUME Fails PROVE sup'.pc = "end" BY <1>3, <1>6 DEF Fails, SupervisorState
<1> USE DEF Sup, Posts, Sessions
<1>7. CASE SessionDone
  <2>1. /\ sup.pc \in {"session", "await"} /\ sup'.pc = "judge" /\ ses.at = "done"
        /\ lease' = lease
    BY <1>5, <1>7 DEF SessionDone
  <2> QED BY <1>2, <2>1 DEF OwnedBySupervisor, LeasedThroughout, Handle
<1>8. CASE Probed BY <1>4, <1>5, <1>8 DEF Probed
<1>9. CASE Top
  <2>1. To("end") \/ sup'.pc \in {"release", "idle", "pkcheck", "start"}
    BY <1>3, <1>9 DEF Top, SupervisorState
  <2> QED BY <1>4, <1>5, <1>9, <2>1 DEF Top
<1>10. CASE Release BY <1>4, <1>5, <1>6, <1>10 DEF Release
<1>11. CASE IdleWait BY <1>4, <1>5, <1>6, <1>11 DEF IdleWait
<1>12. CASE Pkcheck BY <1>4, <1>5, <1>6, <1>12 DEF Pkcheck
<1>13. CASE Unauthorized BY <1>4, <1>5, <1>13 DEF Unauthorized
<1>14. CASE Pause BY <1>4, <1>5, <1>14 DEF Pause
<1>15. CASE Backoff BY <1>4, <1>5, <1>15 DEF Backoff
<1>16. CASE End
  <2>1. sup.pc = "end" /\ sup'.pc = "ended"
    BY <1>3, <1>5, <1>16 DEF End, SupervisorState
  <2> QED BY <1>4, <2>1
<1> QED BY <1>7, <1>8, <1>9, <1>10, <1>11, <1>12, <1>13, <1>14, <1>15, <1>16 DEF Deciding

LEMMA HoldingCovers ==
    ASSUME TypeOK, Cover, Start \/ SessionWait \/ Judge
    PROVE  Cover'
<1> USE DEF Cover, Sup, Sessions
<1>1. sup \in SupervisorState /\ ses \in SessionState /\ res \in Resources
  BY DEF TypeOK, SessionTypeOK
<1>2. CASE Start
  <2>1. /\ sup.pc = "start" /\ ses.at = "none" /\ UNCHANGED <<res, innerVars>>
    BY <1>2 DEF Start, OwnedBySupervisor
  <2>2. \/ /\ sup'.pc = "session" /\ ses'.at = "claim"
           /\ lease' = IF UsbLease /\ ~Handle THEN "live" ELSE lease
        \/ sup'.pc = "end" /\ ses' = ses
    BY <1>1, <1>2 DEF Start, To, Fails, SupervisorState, NoSession
  <2>3. HeldInSession' BY <2>1, <2>2 DEF HeldInSession
  <2>4. IdleOutside' BY <2>1, <2>2 DEF IdleOutside, Idle, innerVars
  <2>5. OwnedBySupervisor' BY <2>1, <2>2 DEF OwnedBySupervisor
  <2>6. LeasedThroughout' BY <2>2 DEF LeasedThroughout, Handle
  <2> QED BY <2>3, <2>4, <2>5, <2>6
<1>3. CASE SessionWait
  <2>1. sup.pc = "session" /\ lease' = lease BY <1>3 DEF SessionWait
  <2>2. CASE Dropped
    <3>1. /\ ses'.at = "none" /\ ~res'.lock /\ res'.mux # "live"
      BY <1>1, <2>2 DEF Dropped, NoSession, Resources
    <3>2. Idle' BY <2>2 DEF Dropped, Reset, Idle
    <3>3. sup'.pc = "end" \/ (sup'.pc \in {"session", "await"})
      BY <1>1, <1>3 DEF SessionWait, To, Fails, SupervisorState
    <3> QED BY <2>1, <3>1, <3>2, <3>3
        DEF OwnedBySupervisor, LeasedThroughout, Handle, HeldInSession, IdleOutside
  <2>3. CASE ~Dropped
    <3>1. /\ ses'.at = ses.at /\ UNCHANGED <<res, innerVars>>
          /\ sup'.pc \in {"session", "await"}
      BY <1>1, <1>3, <2>3
      DEF SessionWait, Stops, Stays, To, SessionState, SupervisorState
    <3> QED BY <2>1, <3>1
        DEF OwnedBySupervisor, LeasedThroughout, Handle, HeldInSession, IdleOutside, Idle, innerVars
  <2> QED BY <2>2, <2>3
<1>4. CASE Judge
  <2>1. /\ sup.pc = "judge" /\ ses.at = "done" /\ ses'.at = "none"
        /\ UNCHANGED <<res, innerVars>>
    BY <1>4 DEF Judge, Stays, NoSession, OwnedBySupervisor
  <2>2. sup'.pc \in {"end", "top", "pause", "backoff"}
    BY <1>1, <1>4 DEF Judge, To, SupervisorState
  <2> QED BY <2>1, <2>2
      DEF OwnedBySupervisor, LeasedThroughout, HeldInSession, IdleOutside, Idle, innerVars
<1> QED BY <1>2, <1>3, <1>4

LEMMA NextCovers ==
    ASSUME Typed, Cover, Next
    PROVE  Cover'
<1> USE DEF Typed
<1>1. ASSUME UNCHANGED <<sessionVars, sup>>,
             lease' = lease \/ (lease' = "dead" /\ lease = "live")
      PROVE  Cover'
  BY <1>1 DEF Cover, OwnedBySupervisor, LeasedThroughout, Handle, HeldInSession, IdleOutside, Idle,
         sessionVars, innerVars
<1>2. CASE \/ \E kind \in Kinds : BeginRequest(kind)
           \/ FinishRequest \/ RefuseRequest
  BY <1>1, <1>2 DEF BeginRequest, FinishRequest, RefuseRequest, daemonVars
<1>3. CASE Deciding BY <1>3, DecidingCovers
<1>4. CASE Start \/ SessionWait \/ Judge BY <1>4, HoldingCovers
<1>5. CASE Main \/ Fault BY <1>1, <1>5, MainTypes
<1>6. CASE Session BY <1>6, SessionCovers DEF Session, TypeOK
<1> QED BY <1>2, <1>3, <1>4, <1>5, <1>6, DaemonSteps DEF DaemonStep

-----------------------------------------------------------------------------
(* The encoded pictures.                                                   *)

(* The queue holds the newest pictures, without a gap.                     *)
Numbered == /\ Len(video.queue) <= frames
            /\ \A i \in 1..Len(video.queue) :
                   video.queue[i].n + Len(video.queue) = frames + i

(* The newest picture that was taken from the queue for this view.         *)
LastTaken == IF video.flight # NoFrame THEN video.flight.n ELSE video.seen

(* As long as no keyframe is needed the queue starts with one or goes on   *)
(* where the view is.                                                      *)
Chained == /\ video.need => video.queue = <<>>
           /\ ~video.need => \/ video.queue # <<>> /\ video.queue[1].key
                             \/ LastTaken # 0 /\ LastTaken + Len(video.queue) = frames

Viewless == ~video.serving => video.seen = 0 /\ video.flight = NoFrame

Continuous == Numbered /\ Chained /\ Viewless /\ VideoContinuous

LEMMA NoVideoContinuous ==
    ASSUME NEW s, video' = NoVideo \/ video' = [NoVideo EXCEPT !.state = s], frames' \in Nat
    PROVE  Continuous'
<1>1. /\ video'.queue = <<>> /\ video'.need = TRUE /\ video'.flight = NoFrame
      /\ video'.seen = 0
  BY DEF NoVideo
<1>2. Len(video'.queue) = 0 BY <1>1
<1>3. Numbered' BY <1>2 DEF Numbered
<1>4. Chained' BY <1>1 DEF Chained
<1> QED BY <1>1, <1>3, <1>4 DEF Continuous, Viewless, VideoContinuous

LEMMA SameVideo ==
    ASSUME Continuous, UNCHANGED <<video, frames>>
    PROVE  Continuous'
BY DEF Continuous, Numbered, Chained, Viewless, VideoContinuous, LastTaken

LEMMA PublishContinues ==
    ASSUME SessionTypeOK, Continuous, NEW key \in BOOLEAN, Publish(key)
    PROVE  Continuous'
<1> DEFINE v == Overflowed(video)
           fr == [n |-> frames + 1, key |-> key]
<1>1. frames \in Nat /\ frames' = frames + 1 BY DEF SessionTypeOK, Publish
<1>2. /\ video \in Stream /\ video.queue \in Seq(Picture) /\ Len(video.queue) \in Nat
      /\ video.seen \in Nat
  BY LenProperties DEF SessionTypeOK, Stream
<1>3. /\ v \in Stream /\ (v = video \/ (v.queue = <<>> /\ v.need))
      /\ v.serving = video.serving /\ v.flight = video.flight /\ v.seen = video.seen
  BY OverflowedTypes
<1>4. v.need => v.queue = <<>> BY <1>3 DEF Continuous, Chained
<1>5. \/ v.need /\ ~key /\ AskKeyframe(v)
      \/ /\ ~v.need \/ key
         /\ video' = [v EXCEPT !.need = FALSE, !.queue = Append(@, fr)]
  BY DEF Publish
<1>6. fr.n = frames + 1 /\ fr.key = key OBVIOUS
<1>7. v.queue \in Seq(Picture) /\ Len(v.queue) \in Nat BY <1>3, LenProperties DEF Stream
<1> HIDE DEF v, fr
<1>8. CASE v.need /\ ~key /\ AskKeyframe(v)
  <2>1. CASE ReceiverEnds
    <3>1. video' = [NoVideo EXCEPT !.state = "closed"] /\ frames' \in Nat
      BY <1>1, <2>1 DEF ReceiverEnds
    <3> QED BY <3>1, NoVideoContinuous
  <2>2. CASE video' = v
    <3>1. video'.queue = <<>> /\ video'.need BY <1>4, <1>8, <2>2
    <3>2. Len(video'.queue) = 0 BY <3>1
    <3>3. Numbered' BY <1>1, <3>2 DEF Numbered
    <3>4. Chained' BY <3>1 DEF Chained
    <3>5. Viewless' /\ VideoContinuous'
      BY <1>3, <2>2 DEF Continuous, Viewless, VideoContinuous
    <3> QED BY <3>3, <3>4, <3>5 DEF Continuous
  <2> QED BY <1>8, <2>1, <2>2 DEF AskKeyframe
<1>9. CASE /\ ~v.need \/ key
           /\ video' = [v EXCEPT !.need = FALSE, !.queue = Append(@, fr)]
  <2>1. /\ video'.queue = Append(v.queue, fr) /\ video'.need = FALSE
        /\ video'.serving = video.serving /\ video'.flight = video.flight
        /\ video'.seen = video.seen
    BY <1>3, <1>9 DEF Stream
  <2>2. Viewless' /\ VideoContinuous'
    BY <2>1 DEF Continuous, Viewless, VideoContinuous
  <2>3. LastTaken' = LastTaken BY <2>1 DEF LastTaken
  <2>4. /\ Len(video'.queue) = Len(v.queue) + 1 /\ video'.queue # <<>>
        /\ \A i \in 1..Len(v.queue) : video'.queue[i] = v.queue[i]
        /\ video'.queue[Len(v.queue) + 1] = fr
    BY <1>7, <2>1
  <2>5. CASE v.need
    <3>1. Len(v.queue) = 0 /\ key BY <1>4, <1>9, <2>5
    <3>2. Len(video'.queue) = 1 /\ video'.queue[1] = fr BY <2>4, <3>1
    <3>3. Numbered' BY <1>1, <1>6, <3>2 DEF Numbered
    <3>4. Chained' BY <1>6, <2>1, <2>4, <3>1, <3>2 DEF Chained
    <3> QED BY <2>2, <3>3, <3>4 DEF Continuous
  <2>6. CASE ~v.need
    <3>1. v = video /\ ~video.need BY <1>3, <2>6
    <3>2. Numbered'
      <4>1. Len(video'.queue) <= frames'
        BY <1>1, <1>2, <2>4, <3>1 DEF Continuous, Numbered
      <4>2. ASSUME NEW i \in 1..Len(video'.queue)
            PROVE  video'.queue[i].n + Len(video'.queue) = frames' + i
        <5>1. CASE i \in 1..Len(v.queue)
          <6>1. video.queue[i].n + Len(video.queue) = frames + i
            BY <3>1, <5>1 DEF Continuous, Numbered
          <6>2. video.queue[i].n \in Nat
            <7>1. video.queue[i] \in Picture BY <1>2, <3>1, <5>1, ElementOfSeq
            <7> QED BY <7>1 DEF Picture
          <6>3. video'.queue[i].n = video.queue[i].n BY <2>4, <3>1, <5>1
          <6>4. Len(video'.queue) = Len(video.queue) + 1 BY <2>4, <3>1
          <6>5. i \in Nat BY <5>1, <1>7
          <6> HIDE DEF Picture
          <6> QED BY <1>1, <1>2, <6>1, <6>2, <6>3, <6>4, <6>5, SMTT(40)
        <5>2. CASE i = Len(v.queue) + 1 BY <1>1, <1>6, <1>7, <2>4, <5>2
        <5> QED BY <1>7, <2>4, <5>1, <5>2
      <4> QED BY <4>1, <4>2 DEF Numbered
    <3>3. Chained'
      <4>1. CASE video.queue # <<>> /\ video.queue[1].key
        <5>1. 1 \in 1..Len(v.queue) BY <1>2, <3>1, <4>1
        <5> QED BY <2>1, <2>4, <3>1, <4>1, <5>1 DEF Chained
      <4>2. CASE LastTaken # 0 /\ LastTaken + Len(video.queue) = frames
        <5>1. LastTaken \in Nat
          BY <1>2 DEF LastTaken, Stream, Picture
        <5>2. LastTaken' + Len(video'.queue) = frames'
          BY <1>1, <1>2, <2>3, <2>4, <3>1, <4>2, <5>1
        <5> QED BY <2>1, <2>3, <4>2, <5>2 DEF Chained
      <4> QED BY <3>1, <4>1, <4>2 DEF Continuous, Chained
    <3> QED BY <2>2, <3>2, <3>3 DEF Continuous
  <2> QED BY <2>5, <2>6
<1> QED BY <1>5, <1>8, <1>9

LEMMA ViewContinues ==
    ASSUME SessionTypeOK, Continuous, View
    PROVE  Continuous'
<1>1. frames \in Nat /\ frames' = frames BY ViewTypes DEF SessionTypeOK
<1>2. /\ video \in Stream /\ video.queue \in Seq(Picture) /\ Len(video.queue) \in Nat
      /\ video.seen \in Nat /\ video.flight \in Picture
  BY LenProperties DEF SessionTypeOK, Stream
<1>3. LastTaken \in Nat BY <1>2 DEF LastTaken, Picture
<1>4. ASSUME NEW i \in 1..Len(video.queue) PROVE video.queue[i].n \in Nat
  <2>1. video.queue[i] \in Picture BY <1>2, ElementOfSeq
  <2> QED BY <2>1 DEF Picture
<1>5. CASE Serve
  <2>1. /\ video'.serving /\ video'.queue = video.queue /\ video'.need = video.need
        /\ video'.flight = NoFrame /\ video'.seen = 0 /\ video.flight = NoFrame
        /\ video.seen = 0
    BY <1>2, <1>5 DEF Serve, Consumer, Stream, Continuous, Viewless
  <2> QED BY <1>1, <2>1
      DEF Continuous, Numbered, Chained, LastTaken, Viewless, VideoContinuous
<1>6. CASE TakeFrame
  <2>0. Head(video.queue) = video.queue[1] OBVIOUS
  <2>1. /\ video'.flight = video.queue[1] /\ video'.queue = Tail(video.queue)
        /\ video'.need = video.need /\ video'.seen = video.seen
        /\ video'.serving = video.serving
        /\ video.flight = NoFrame /\ video.queue # <<>> /\ video.serving
    <3>1. video' = [video EXCEPT !.flight = Head(video.queue), !.queue = Tail(video.queue)]
      BY <1>6 DEF TakeFrame, Consumer
    <3>2. /\ video'.flight = Head(video.queue) /\ video'.queue = Tail(video.queue)
          /\ video'.need = video.need /\ video'.seen = video.seen
          /\ video'.serving = video.serving
      BY <1>2, <3>1 DEF Stream
    <3> QED BY <1>6, <2>0, <3>2 DEF TakeFrame
  <2>2. ~video.need BY <2>1 DEF Continuous, Chained
  <2>3. 1 \in 1..Len(video.queue) BY <1>2, <2>1, EmptySeq
  <2>4. /\ Len(video'.queue) = Len(video.queue) - 1
        /\ \A i \in 1..Len(video'.queue) : video'.queue[i] = video.queue[i + 1]
    BY <1>2, <2>1, HeadTailProperties
  <2>5. video.queue[1].n + Len(video.queue) = frames + 1 /\ Len(video.queue) <= frames
    BY <2>3 DEF Continuous, Numbered
  <2>6. video.queue[1].n # 0 BY <1>1, <1>2, <1>4, <2>3, <2>5
  <2>7. video'.flight # NoFrame BY <2>1, <2>6 DEF NoFrame
  <2>8. LastTaken' = video.queue[1].n BY <2>1, <2>7 DEF LastTaken
  <2>9. LastTaken' + Len(video'.queue) = frames
    <3>1. video.queue[1].n \in Nat BY <1>4, <2>3
    <3>2. Len(video'.queue) = Len(video.queue) - 1 BY <2>4
    <3> QED BY <1>1, <1>2, <2>5, <2>8, <3>1, <3>2, SMTT(40)
  <2>10. Chained' BY <1>1, <2>1, <2>2, <2>6, <2>8, <2>9 DEF Chained
  <2>11. Numbered'
    <3>1. ASSUME NEW i \in 1..Len(video'.queue)
          PROVE  video'.queue[i].n + Len(video'.queue) = frames' + i
      <4>1. i + 1 \in 1..Len(video.queue) /\ i \in Nat BY <1>2, <2>4
      <4>2. video.queue[i + 1].n + Len(video.queue) = frames + (i + 1)
        BY <4>1 DEF Continuous, Numbered
      <4>3. video'.queue[i].n = video.queue[i + 1].n BY <2>4
      <4>4. video.queue[i + 1].n \in Nat BY <1>4, <4>1
      <4>5. Len(video'.queue) = Len(video.queue) - 1 BY <2>4
      <4>6. PICK m \in Nat : m = video.queue[i + 1].n BY <4>4
      <4>7. m + Len(video.queue) = frames + (i + 1) BY <4>2, <4>6
      <4>8. m + (Len(video.queue) - 1) = frames + i BY <1>1, <1>2, <4>1, <4>7
      <4> QED BY <1>1, <4>3, <4>5, <4>6, <4>8
    <3>2. Len(video'.queue) <= frames' BY <1>1, <1>2, <2>4, <2>5
    <3> QED BY <3>1, <3>2 DEF Numbered
  <2>12. VideoContinuous'
    <3>1. CASE video.queue[1].key BY <2>1, <3>1 DEF VideoContinuous
    <3>2. CASE LastTaken # 0 /\ LastTaken + Len(video.queue) = frames
      <4>1. LastTaken = video.seen BY <2>1 DEF LastTaken
      <4>2. video.queue[1].n = video.seen + 1
        BY <1>1, <1>2, <1>4, <2>3, <2>5, <3>2, <4>1, SMTT(40)
      <4> QED BY <2>1, <3>2, <4>1, <4>2 DEF VideoContinuous
    <3> QED BY <2>2, <3>1, <3>2 DEF Continuous, Chained
  <2>13. Viewless' BY <2>1 DEF Viewless
  <2> QED BY <2>10, <2>11, <2>12, <2>13 DEF Continuous
<1>7. CASE Written
  <2>1. /\ video'.flight = NoFrame /\ video'.seen = video.flight.n
        /\ video'.queue = video.queue /\ video'.need = video.need
        /\ video'.serving = video.serving /\ video.flight # NoFrame
    BY <1>2, <1>7 DEF Written, Consumer, Stream
  <2>2. LastTaken' = LastTaken BY <2>1 DEF LastTaken
  <2>3. video'.serving BY <2>1 DEF Continuous, Viewless
  <2> QED BY <1>1, <2>1, <2>2, <2>3
      DEF Continuous, Numbered, Chained, Viewless, VideoContinuous
<1>8. CASE ConsumerGone
  <2>1. /\ video'.queue = <<>> /\ video'.need /\ video'.flight = NoFrame /\ video'.seen = 0
    BY <1>2, <1>8 DEF ConsumerGone, Consumer, Stream
  <2>2. Len(video'.queue) = 0 BY <2>1
  <2>3. Numbered' BY <1>1, <2>2 DEF Numbered
  <2>4. Chained' BY <2>1 DEF Chained
  <2> QED BY <2>1, <2>3, <2>4 DEF Continuous, Viewless, VideoContinuous
<1> QED BY <1>5, <1>6, <1>7, <1>8 DEF View

LEMMA ResetContinues ==
    ASSUME Reset, frames' \in Nat
    PROVE  Continuous'
BY NoVideoContinuous DEF Reset

LEMMA SessionContinues ==
    ASSUME SessionTypeOK, Continuous, SessionStep
    PROVE  Continuous'
<1>1. frames \in Nat BY DEF SessionTypeOK
<1>2. ASSUME ReceiverEnds, UNCHANGED frames PROVE Continuous'
  BY <1>1, <1>2, NoVideoContinuous DEF ReceiverEnds
<1>3. CASE SettingUp
  BY <1>3, SettingUpTypes, SameVideo DEF SessionTypeOK, innerVars
<1>4. CASE Leave BY <1>4, SameVideo DEF Leave
<1>5. CASE Join BY <1>1, <1>5, ResetContinues DEF Join
<1>6. CASE Control BY <1>6, ControlTypes, SameVideo DEF Elsewhere
<1>7. CASE Forward
  <2>1. UNCHANGED video \/ ReceiverEnds BY <1>7 DEF Forward
  <2> QED BY <1>2, <1>7, <2>1, ForwardTypes, SameVideo
<1>8. CASE SendEvent BY <1>8, SendEventTypes, SameVideo
<1>9. CASE Advancing BY <1>9, AdvancingTypes, SameVideo
<1>10. CASE ReceiverFails BY <1>2, <1>10, ReceiverFailsTypes
<1>11. CASE Configure
  <2>1. /\ video'.queue = video.queue /\ video'.need = video.need
        /\ video'.serving = video.serving /\ video'.flight = video.flight
        /\ video'.seen = video.seen /\ frames' = frames
    BY <1>11 DEF Configure, SessionTypeOK, Stream
  <2> QED BY <2>1 DEF Continuous, Numbered, Chained, LastTaken, Viewless, VideoContinuous
<1>12. CASE Publishing BY <1>12, PublishContinues DEF Publishing
<1>13. CASE View BY <1>13, ViewContinues
<1> QED BY <1>3, <1>4, <1>5, <1>6, <1>7, <1>8, <1>9, <1>10, <1>11, <1>12, <1>13, SessionSteps

LEMMA NextContinues ==
    ASSUME Typed, Continuous, Next
    PROVE  Continuous'
<1> USE DEF Typed
<1>1. ASSUME UNCHANGED sessionVars PROVE Continuous'
  BY <1>1, SameVideo DEF sessionVars, innerVars
<1>2. CASE \/ \E kind \in Kinds : BeginRequest(kind)
           \/ FinishRequest \/ RefuseRequest
  BY <1>1, <1>2 DEF BeginRequest, FinishRequest, RefuseRequest
<1>3. CASE Deciding BY <1>1, <1>3, DecidingTypes
<1>4. CASE Start \/ SessionWait \/ Judge
  <2>1. UNCHANGED <<video, frames>> \/ Dropped
    BY <1>4 DEF Start, SessionWait, Judge, Stays, innerVars
  <2>2. CASE Dropped
    <3>1. frames' \in Nat BY <2>2 DEF Dropped, TypeOK, SessionTypeOK
    <3> QED BY <2>2, <3>1, ResetContinues DEF Dropped
  <2> QED BY <2>1, <2>2, SameVideo
<1>5. CASE Main \/ Fault BY <1>1, <1>5, MainTypes
<1>6. CASE Session BY <1>6, SessionContinues DEF Session, TypeOK
<1> QED BY <1>2, <1>3, <1>4, <1>5, <1>6, DaemonSteps DEF DaemonStep

-----------------------------------------------------------------------------
(* The touches.  A line is what the phone still gets, in order.            *)

Presses(c, s) == c.kind = "touch" /\ c.down /\ c.slot = s
Lifts(c, s) == c.kind = "release" \/ (c.kind = "touch" /\ ~c.down /\ c.slot = s)

(* Slot s is let go: each time it gets pressed, and if the phone holds it  *)
(* already, a lift of it follows in the line.                              *)
PressedAt(w, held, s, k) == IF k = 0 THEN s \in held ELSE Presses(w[k], s)
LetGo(w, held, s) ==
    \A k \in 0..Len(w) : PressedAt(w, held, s, k) => \E j \in k + 1..Len(w) : Lifts(w[j], s)

LEMMA NotBoth == \A c \in Command, s \in Slots : ~(Presses(c, s) /\ Lifts(c, s))
BY DEF Presses, Lifts, Command

(* More reports, none of which presses the slot, change nothing.           *)
LEMMA LongerLine ==
    ASSUME NEW w \in Seq(Command), NEW u \in Seq(Command), NEW held, NEW s,
           Len(w) <= Len(u), \A i \in 1..Len(w) : u[i] = w[i],
           \A i \in Len(w) + 1..Len(u) : ~Presses(u[i], s),
           LetGo(w, held, s)
    PROVE  LetGo(u, held, s)
<1>1. Len(w) \in Nat /\ Len(u) \in Nat BY LenProperties
<1> SUFFICES ASSUME NEW k \in 0..Len(u), PressedAt(u, held, s, k)
             PROVE  \E j \in k + 1..Len(u) : Lifts(u[j], s)
  BY DEF LetGo
<1>2. k <= Len(w)
  <2> SUFFICES ASSUME k > Len(w) PROVE FALSE BY <1>1
  <2>1. k \in Len(w) + 1..Len(u) /\ k # 0 BY <1>1
  <2> QED BY <2>1 DEF PressedAt
<1>3. PressedAt(w, held, s, k) BY <1>1, <1>2 DEF PressedAt
<1>4. k \in 0..Len(w) BY <1>1, <1>2
<1>5. PICK j \in k + 1..Len(w) : Lifts(w[j], s) BY <1>3, <1>4 DEF LetGo
<1>6. j \in k + 1..Len(u) /\ j \in 1..Len(w) BY <1>1, <1>4
<1> QED BY <1>5, <1>6

(* A lift at the end lets go whatever was before.                          *)
LEMMA LiftedLine ==
    ASSUME NEW u \in Seq(Command), NEW held, NEW s \in Slots, u # <<>>, Lifts(u[Len(u)], s)
    PROVE  LetGo(u, held, s)
<1>1. Len(u) \in Nat /\ Len(u) # 0 BY EmptySeq, LenProperties
<1>2. u[Len(u)] \in Command BY <1>1, ElementOfSeq
<1> SUFFICES ASSUME NEW k \in 0..Len(u), PressedAt(u, held, s, k)
             PROVE  \E j \in k + 1..Len(u) : Lifts(u[j], s)
  BY DEF LetGo
<1>3. k # Len(u) BY <1>1, <1>2, NotBoth DEF PressedAt
<1>4. Len(u) \in k + 1..Len(u) BY <1>1, <1>3
<1> QED BY <1>4

(* A report that neither presses nor lifts the slot comes in between.      *)
LEMMA InsertedLine ==
    ASSUME NEW w \in Seq(Command), NEW u \in Seq(Command), NEW held, NEW s,
           NEW m \in 1..Len(w) + 1, Len(u) = Len(w) + 1,
           \A i \in 1..m - 1 : u[i] = w[i], \A i \in m..Len(w) : u[i + 1] = w[i],
           ~Presses(u[m], s),
           LetGo(w, held, s)
    PROVE  LetGo(u, held, s)
<1>1. Len(w) \in Nat BY LenProperties
<1> SUFFICES ASSUME NEW k \in 0..Len(u), PressedAt(u, held, s, k)
             PROVE  \E j \in k + 1..Len(u) : Lifts(u[j], s)
  BY DEF LetGo
<1>2. CASE k < m
  <2>1. k \in 0..Len(w) /\ PressedAt(w, held, s, k) BY <1>1, <1>2 DEF PressedAt
  <2>2. PICK j \in k + 1..Len(w) : Lifts(w[j], s) BY <2>1 DEF LetGo
  <2>3. CASE j < m
    <3>1. j \in k + 1..Len(u) /\ j \in 1..m - 1 BY <1>1, <2>1, <2>3
    <3> QED BY <2>2, <3>1
  <2>4. CASE j >= m
    <3>1. j + 1 \in k + 1..Len(u) /\ j \in m..Len(w) BY <1>1, <2>1, <2>4
    <3> QED BY <2>2, <3>1
  <2> QED BY <1>1, <2>1, <2>3, <2>4
<1>3. CASE k = m BY <1>3 DEF PressedAt
<1>4. CASE k > m
  <2>1. k - 1 \in m..Len(w) /\ k - 1 \in 0..Len(w) /\ k - 1 # 0 /\ k # 0 BY <1>1, <1>4
  <2>2. u[k] = w[k - 1]
    <3>1. u[(k - 1) + 1] = w[k - 1] BY <2>1
    <3> QED BY <2>1, <3>1
  <2>3. PressedAt(w, held, s, k - 1) BY <2>1, <2>2 DEF PressedAt
  <2>4. PICK j \in (k - 1) + 1..Len(w) : Lifts(w[j], s) BY <2>1, <2>3 DEF LetGo
  <2>5. j + 1 \in k + 1..Len(u) /\ j \in m..Len(w) BY <1>1, <1>4, <2>1
  <2> QED BY <2>4, <2>5
<1> QED BY <1>1, <1>2, <1>3, <1>4

(* A report is dropped that does not lift the slot, or before which it is  *)
(* not pressed.                                                            *)
LEMMA DroppedLine ==
    ASSUME NEW w \in Seq(Command), NEW u \in Seq(Command), NEW held, NEW s,
           NEW m \in 1..Len(w), Len(u) = Len(w) - 1,
           \A i \in 1..m - 1 : u[i] = w[i], \A i \in m..Len(u) : u[i] = w[i + 1],
           \/ ~Lifts(w[m], s)
           \/ s \notin held /\ \A i \in 1..m - 1 : ~Presses(w[i], s),
           LetGo(w, held, s)
    PROVE  LetGo(u, held, s)
<1>1. Len(w) \in Nat BY LenProperties
<1> SUFFICES ASSUME NEW k \in 0..Len(u), PressedAt(u, held, s, k)
             PROVE  \E j \in k + 1..Len(u) : Lifts(u[j], s)
  BY DEF LetGo
<1>2. CASE k < m
  <2>1. k \in 0..Len(w) /\ PressedAt(w, held, s, k) BY <1>1, <1>2 DEF PressedAt
  <2>2. PICK j \in k + 1..Len(w) : Lifts(w[j], s) BY <2>1 DEF LetGo
  <2>3. ~Lifts(w[m], s)
    <3> SUFFICES ASSUME s \notin held, \A i \in 1..m - 1 : ~Presses(w[i], s) PROVE FALSE
      OBVIOUS
    <3>1. k # 0 BY <2>1 DEF PressedAt
    <3>2. k \in 1..m - 1 BY <1>1, <1>2, <3>1
    <3> QED BY <2>1, <3>1, <3>2 DEF PressedAt
  <2>4. j # m BY <2>2, <2>3
  <2>5. CASE j < m
    <3>1. j \in k + 1..Len(u) /\ j \in 1..m - 1 BY <1>1, <2>1, <2>5
    <3> QED BY <2>2, <3>1
  <2>6. CASE j > m
    <3>1. j - 1 \in k + 1..Len(u) /\ j - 1 \in m..Len(u) BY <1>1, <1>2, <2>1, <2>6
    <3>2. u[j - 1] = w[j]
      <4>1. u[j - 1] = w[(j - 1) + 1] BY <3>1
      <4> QED BY <3>1, <4>1
    <3> QED BY <2>2, <3>1, <3>2
  <2> QED BY <1>1, <2>1, <2>4, <2>5, <2>6
<1>3. CASE k >= m
  <2>1. k + 1 \in 0..Len(w) /\ k \in m..Len(u) /\ k # 0 /\ k + 1 # 0 BY <1>1, <1>3
  <2>2. PressedAt(w, held, s, k + 1) BY <2>1 DEF PressedAt
  <2>3. PICK j \in (k + 1) + 1..Len(w) : Lifts(w[j], s) BY <2>1, <2>2 DEF LetGo
  <2>4. j - 1 \in k + 1..Len(u) /\ j - 1 \in m..Len(u) BY <1>1, <1>3, <2>1
  <2>5. u[j - 1] = w[j]
    <3>1. u[j - 1] = w[(j - 1) + 1] BY <2>4
    <3> QED BY <2>4, <3>1
  <2> QED BY <2>3, <2>4, <2>5
<1> QED BY <1>1, <1>2, <1>3

(* The phone gets the first report.                                        *)
LEMMA DeliveredLine ==
    ASSUME NEW w \in Seq(Command), NEW u \in Seq(Command), NEW held, NEW s \in Slots,
           w # <<>>, Len(u) = Len(w) - 1, \A i \in 1..Len(u) : u[i] = w[i + 1],
           LetGo(w, held, s)
    PROVE  LetGo(u, Pressed(held, w[1]), s)
<1>1. Len(w) \in Nat /\ Len(w) # 0 BY EmptySeq, LenProperties
<1>2. w[1] \in Command BY <1>1, ElementOfSeq
<1> SUFFICES ASSUME NEW k \in 0..Len(u), PressedAt(u, Pressed(held, w[1]), s, k)
             PROVE  \E j \in k + 1..Len(u) : Lifts(u[j], s)
  BY DEF LetGo
<1>3. ASSUME NEW j \in k + 2..Len(w), Lifts(w[j], s)
      PROVE  \E i \in k + 1..Len(u) : Lifts(u[i], s)
  <2>1. j - 1 \in k + 1..Len(u) /\ j - 1 \in 1..Len(u) BY <1>1
  <2>2. u[j - 1] = w[j]
    <3>1. u[j - 1] = w[(j - 1) + 1] BY <2>1
    <3> QED BY <2>1, <3>1
  <2> QED BY <1>3, <2>1, <2>2
<1>4. CASE k = 0
  <2>1. s \in Pressed(held, w[1]) BY <1>4 DEF PressedAt
  <2>2. Presses(w[1], s) \/ (s \in held /\ ~Lifts(w[1], s))
    BY <1>2, <2>1 DEF Pressed, Presses, Lifts, Command
  <2>3. CASE Presses(w[1], s)
    <3>1. PressedAt(w, held, s, 1) /\ 1 \in 0..Len(w) BY <1>1, <2>3 DEF PressedAt
    <3>2. PICK j \in 1 + 1..Len(w) : Lifts(w[j], s) BY <3>1 DEF LetGo
    <3> QED BY <1>3, <1>4, <3>2
  <2>4. CASE s \in held /\ ~Lifts(w[1], s)
    <3>1. PressedAt(w, held, s, 0) /\ 0 \in 0..Len(w) BY <1>1, <2>4 DEF PressedAt
    <3>2. PICK j \in 0 + 1..Len(w) : Lifts(w[j], s) BY <3>1 DEF LetGo
    <3>3. j # 1 BY <2>4, <3>2
    <3>4. j \in k + 2..Len(w) BY <1>1, <1>4, <3>3
    <3> QED BY <1>3, <3>2, <3>4
  <2> QED BY <2>2, <2>3, <2>4
<1>5. CASE k # 0
  <2>1. k + 1 \in 0..Len(w) /\ k \in 1..Len(u) /\ k + 1 # 0 BY <1>1, <1>5
  <2>2. PressedAt(w, held, s, k + 1) BY <1>5, <2>1 DEF PressedAt
  <2>3. PICK j \in (k + 1) + 1..Len(w) : Lifts(w[j], s) BY <2>1, <2>2 DEF LetGo
  <2>4. j \in k + 2..Len(w) BY <1>1, <2>1
  <2> QED BY <1>3, <2>3, <2>4
<1> QED BY <1>4, <1>5

-----------------------------------------------------------------------------
(* The touches of a session.                                               *)

Line == events \o commands
Owned == {pre.pointers[p] : p \in Pointers}

(* What no pointer holds is let go.                                        *)
UnownedLetGo ==
    Receiving /\ ~cancel => \A s \in Slots : s \notin Owned => LetGo(Line, contacts, s)

(* Before RECORD nothing that touches has got past the command queue.      *)
NothingSent ==
    Receiving /\ ~rcv.active =>
        contacts = {} /\ \A i \in 1..Len(events) : events[i].kind = "event"

Touching == UnownedLetGo /\ NothingSent

LEMMA LineFacts ==
    ASSUME NEW e \in Seq(Command), NEW q \in Seq(Command)
    PROVE  /\ e \o q \in Seq(Command) /\ Len(e \o q) = Len(e) + Len(q)
           /\ Len(e) \in Nat /\ Len(q) \in Nat
           /\ \A i \in 1..Len(e) : (e \o q)[i] = e[i]
           /\ \A i \in 1..Len(q) : (e \o q)[Len(e) + i] = q[i]
<1>1. /\ e \o q \in Seq(Command) /\ Len(e \o q) = Len(e) + Len(q)
      /\ \A i \in 1..Len(e) + Len(q) :
             (e \o q)[i] = IF i <= Len(e) THEN e[i] ELSE q[i - Len(e)]
  BY ConcatProperties
<1>2. Len(e) \in Nat /\ Len(q) \in Nat BY LenProperties
<1>3. \A i \in 1..Len(e) : (e \o q)[i] = e[i] BY <1>1, <1>2
<1>4. ASSUME NEW i \in 1..Len(q) PROVE (e \o q)[Len(e) + i] = q[i]
  <2>1. Len(e) + i \in 1..Len(e) + Len(q) /\ ~(Len(e) + i <= Len(e)) /\ (Len(e) + i) - Len(e) = i
    BY <1>2
  <2> QED BY <1>1, <2>1
<1> QED BY <1>1, <1>2, <1>3, <1>4

(* A command that does not press the slot joins the queue.                 *)
LEMMA PushedLine ==
    ASSUME NEW e \in Seq(Command), NEW q \in Seq(Command), NEW c \in Command,
           NEW held, NEW s \in Slots, ~Presses(c, s),
           LetGo(e \o q, held, s) \/ Lifts(c, s)
    PROVE  LetGo(e \o Append(q, c), held, s)
<1> DEFINE w == e \o q
           u == e \o Append(q, c)
<1>1. /\ Append(q, c) \in Seq(Command) /\ Len(Append(q, c)) = Len(q) + 1
      /\ \A i \in 1..Len(q) : Append(q, c)[i] = q[i]
      /\ Append(q, c)[Len(q) + 1] = c
  BY AppendProperties
<1>2. /\ w \in Seq(Command) /\ Len(w) = Len(e) + Len(q) /\ Len(e) \in Nat /\ Len(q) \in Nat
      /\ \A i \in 1..Len(e) : w[i] = e[i]
      /\ \A i \in 1..Len(q) : w[Len(e) + i] = q[i]
  BY LineFacts
<1>3. /\ u \in Seq(Command) /\ Len(u) = Len(e) + Len(q) + 1
      /\ \A i \in 1..Len(e) : u[i] = e[i]
      /\ \A i \in 1..Len(q) + 1 : u[Len(e) + i] = Append(q, c)[i]
  BY <1>1, <1>2, LineFacts
<1> HIDE DEF w, u
<1>4. u[Len(u)] = c
  <2>1. Len(q) + 1 \in 1..Len(q) + 1 /\ Len(u) = Len(e) + (Len(q) + 1) BY <1>2, <1>3
  <2> QED BY <1>1, <1>3, <2>1
<1>5. CASE Lifts(c, s)
  <2>1. u # <<>> BY <1>2, <1>3, EmptySeq
  <2> QED BY <1>3, <1>4, <1>5, <2>1, LiftedLine DEF u
<1>6. CASE LetGo(w, held, s)
  <2>1. Len(w) <= Len(u) /\ Len(w) + 1 = Len(u) /\ Len(w) \in Nat BY <1>2, <1>3
  <2>2. ASSUME NEW i \in 1..Len(w) PROVE u[i] = w[i]
    <3>1. CASE i <= Len(e)
      <4>1. i \in 1..Len(e) BY <1>2, <3>1
      <4> QED BY <1>2, <1>3, <4>1
    <3>2. CASE i > Len(e)
      <4>1. i - Len(e) \in 1..Len(q) /\ i - Len(e) \in 1..Len(q) + 1
            /\ i = Len(e) + (i - Len(e))
        BY <1>2, <3>2
      <4>2. w[Len(e) + (i - Len(e))] = q[i - Len(e)] BY <1>2, <4>1
      <4>3. u[Len(e) + (i - Len(e))] = q[i - Len(e)] BY <1>1, <1>3, <4>1
      <4> QED BY <4>1, <4>2, <4>3
    <3> QED BY <1>2, <3>1, <3>2
  <2>3. ASSUME NEW i \in Len(w) + 1..Len(u) PROVE ~Presses(u[i], s)
    <3>1. i = Len(u) BY <2>1
    <3> QED BY <1>4, <3>1
  <2>4. LetGo(u, held, s) BY <1>2, <1>3, <1>6, <2>1, <2>2, <2>3, LongerLine
  <2> QED BY <2>4 DEF u
<1> QED BY <1>5, <1>6 DEF w

LEMMA SameTouching ==
    ASSUME Touching, UNCHANGED <<ses, cancel, pre, commands, rcv, events, contacts>>
    PROVE  Touching'
BY DEF Touching, UnownedLetGo, NothingSent, Receiving, Live, Owned, Line, LetGo, PressedAt

LEMMA EventValues ==
    /\ \A k \in {"event", "policy"}, s \in Slots : ~Presses(Simple(k), s)
    /\ \A s \in Slots : /\ ~Presses(Simple("release"), s) /\ Lifts(Simple("release"), s)
                        /\ Lifts(Touch(s, FALSE), s)
                        /\ \A r \in Slots : ~Presses(Touch(r, FALSE), s)
                        /\ \A r \in Slots : Presses(Touch(r, TRUE), s) => r = s
BY DEF Presses, Lifts, Simple, Touch

(* A handler that pushes one command: what no pointer holds afterwards was *)
(* let go already and is not pressed again, or the command lifts it.       *)
LEMMA PushTouches ==
    ASSUME SessionTypeOK, Touching, Elsewhere, Live, ~cancel,
           NEW c \in Command, Push(c),
           \A s \in Slots : s \notin Owned' => /\ ~Presses(c, s)
                                               /\ s \in Owned => Lifts(c, s)
    PROVE  Touching'
<1>1. events \in Seq(Command) /\ commands \in Seq(Command) BY DEF SessionTypeOK
<1>2. NothingSent' BY DEF Touching, NothingSent, Elsewhere, Receiving, Live
<1>3. ASSUME Receiving', ~cancel', NEW s \in Slots, s \notin Owned'
      PROVE  LetGo(Line', contacts', s)
  <2>1. Receiving BY <1>3 DEF Receiving, Live, Elsewhere
  <2>2. LetGo(events \o commands, contacts, s) \/ Lifts(c, s)
    BY <1>3, <2>1 DEF Touching, UnownedLetGo, Line
  <2>3. LetGo(events \o Append(commands, c), contacts, s)
    BY <1>1, <1>3, <2>2, PushedLine
  <2> QED BY <2>3 DEF Push, Elsewhere, Line
<1> QED BY <1>2, <1>3 DEF Touching, UnownedLetGo

LEMMA TerminalTouches ==
    ASSUME SessionTypeOK, Touching, Elsewhere, Live, ~cancel,
           NEW c \in Command, NEW after, terminal_command(c, after),
           \A s \in Slots : s \notin {after.pointers[p] : p \in Pointers} =>
               /\ ~Presses(c, s)
               /\ s \in Owned => Lifts(c, s)
    PROVE  Touching'
<1>1. CASE Push(c) /\ pre' = after
  <2>1. Owned' = {after.pointers[p] : p \in Pointers} BY <1>1 DEF Owned
  <2> QED BY <1>1, <2>1, PushTouches
<1>2. CASE cancel' = TRUE
  <2>1. NothingSent' BY DEF Touching, NothingSent, Elsewhere, Receiving, Live
  <2> QED BY <1>2, <2>1 DEF Touching, UnownedLetGo
<1> QED BY <1>1, <1>2 DEF terminal_command

LEMMA ControlTouches ==
    ASSUME SessionTypeOK, Touching, Control
    PROVE  Touching'
<1>1. /\ pre \in Presentation /\ pre.pointers \in [Pointers -> Slots \cup {Unheld}]
      /\ events \in Seq(Command) /\ commands \in Seq(Command)
  BY DEF SessionTypeOK, Presentation
<1>2. ASSUME Request PROVE Elsewhere /\ Live /\ ~cancel BY <1>2 DEF Request, Elsewhere
<1>3. ASSUME Elsewhere, Live, UNCHANGED <<cancel, commands>>, Owned' = Owned PROVE Touching'
  BY <1>3 DEF Elsewhere, Touching, UnownedLetGo, NothingSent, Receiving, Live, Line, LetGo, PressedAt
<1>4. CASE Activate
  <2> DEFINE asked == IF HasAudio /\ rcv.stage \notin Unconnected THEN 2 ELSE 1
             more == [i \in 1..asked |-> Simple("event")]
  <2>1. asked \in {1, 2} OBVIOUS
  <2>2. /\ Request /\ Room(asked) /\ UNCHANGED cancel /\ commands' = commands \o more
        /\ pre' = [pre EXCEPT !.active = TRUE, !.visible = TRUE]
    BY <1>4 DEF Activate
  <2> HIDE DEF asked
  <2>3. /\ commands' \in Seq(Command) /\ Len(commands') = Len(commands) + asked
        /\ \A i \in 1..Len(commands) : commands'[i] = commands[i]
        /\ \A i \in Len(commands) + 1..Len(commands') : commands'[i] = Simple("event")
    BY <2>1, <2>2, ActivateQueue
  <2> HIDE DEF more
  <2>4. Owned' = Owned
    <3>1. pre'.pointers = pre.pointers BY <1>1, <2>2 DEF Presentation
    <3> QED BY <3>1 DEF Owned
  <2> DEFINE w == events \o commands
             u == events \o commands'
  <2>5. /\ w \in Seq(Command) /\ Len(w) = Len(events) + Len(commands)
        /\ Len(events) \in Nat /\ Len(commands) \in Nat
        /\ \A i \in 1..Len(events) : w[i] = events[i]
        /\ \A i \in 1..Len(commands) : w[Len(events) + i] = commands[i]
    BY <1>1, LineFacts
  <2>6. /\ u \in Seq(Command) /\ Len(u) = Len(events) + Len(commands')
        /\ \A i \in 1..Len(events) : u[i] = events[i]
        /\ \A i \in 1..Len(commands') : u[Len(events) + i] = commands'[i]
    BY <1>1, <2>3, LineFacts
  <2> HIDE DEF w, u
  <2>7. ASSUME NEW i \in 1..Len(w) PROVE u[i] = w[i]
    <3>1. CASE i <= Len(events)
      <4>1. i \in 1..Len(events) BY <2>5, <3>1
      <4> QED BY <2>5, <2>6, <4>1
    <3>2. CASE i > Len(events)
      <4>1. /\ i - Len(events) \in 1..Len(commands) /\ i - Len(events) \in 1..Len(commands')
            /\ i = Len(events) + (i - Len(events))
        BY <2>1, <2>3, <2>5, <3>2
      <4>2. w[Len(events) + (i - Len(events))] = commands[i - Len(events)] BY <2>5, <4>1
      <4>3. u[Len(events) + (i - Len(events))] = commands[i - Len(events)]
        BY <2>3, <2>6, <4>1
      <4> QED BY <4>1, <4>2, <4>3
    <3> QED BY <2>5, <3>1, <3>2
  <2>8. ASSUME NEW i \in Len(w) + 1..Len(u) PROVE u[i] = Simple("event")
    <3>1. /\ i - Len(events) \in Len(commands) + 1..Len(commands')
          /\ i - Len(events) \in 1..Len(commands') /\ i = Len(events) + (i - Len(events))
      BY <2>1, <2>3, <2>5, <2>6
    <3>2. u[Len(events) + (i - Len(events))] = commands'[i - Len(events)] BY <2>6, <3>1
    <3> QED BY <2>3, <3>1, <3>2
  <2>9. Len(w) <= Len(u) BY <2>1, <2>3, <2>5, <2>6
  <2>10. ASSUME NEW s \in Slots, LetGo(w, contacts, s) PROVE LetGo(u, contacts, s)
    <3>1. \A i \in Len(w) + 1..Len(u) : ~Presses(u[i], s) BY <2>8, EventValues
    <3> QED BY <2>5, <2>6, <2>7, <2>9, <2>10, <3>1, LongerLine
  <2>11. Elsewhere /\ Live BY <1>2, <2>2
  <2>12. Line = w /\ Line' = u BY <2>11 DEF Line, w, u, Elsewhere
  <2> QED BY <2>2, <2>4, <2>10, <2>11, <2>12
      DEF Elsewhere, Touching, UnownedLetGo, NothingSent, Receiving, Live
<1>5. ASSUME NEW k \in {"event", "policy"}, Request, Push(Simple(k)), Owned' = Owned
      PROVE  Touching'
  BY <1>2, <1>5, PushTouches, CommandValues, EventValues
<1>6. CASE Show
  <2>1. pre'.pointers = pre.pointers BY <1>1, <1>6 DEF Show, Presentation
  <2>2. Owned' = Owned BY <2>1 DEF Owned
  <2> QED BY <1>2, <1>3, <1>5, <1>6, <2>2 DEF Show
<1>7. CASE Hide
  <2>1. Simple("release") \in Command BY CommandValues
  <2> QED BY <1>2, <1>7, <2>1, EventValues, TerminalTouches DEF Hide
<1>8. CASE CancelTouch
  <2>1. Simple("release") \in Command BY CommandValues
  <2> QED BY <1>2, <1>8, <2>1, EventValues, TerminalTouches DEF CancelTouch
<1>9. CASE Policy
  <2>1. Owned' = Owned BY <1>9 DEF Policy, Owned
  <2> QED BY <1>5, <1>9, <2>1 DEF Policy
<1>10. CASE Disconnect
  <2>1. NothingSent'
    BY <1>10 DEF Disconnect, Touching, NothingSent, Receiving, Live
  <2> QED BY <1>10, <2>1 DEF Disconnect, Touching, UnownedLetGo
<1>11. ASSUME NEW p \in Pointers, Down(p) PROVE Touching'
  <2> DEFINE low == CHOOSE s \in FreeSlots : \A t \in FreeSlots : s =< t
  <2>1. Request /\ ~Held(p) /\ Push(Touch(low, TRUE)) /\ pre' = [pre EXCEPT !.pointers[p] = low]
    BY <1>11 DEF Down
  <2>2. low \in Slots
    <3>3. low \in FreeSlots BY <1>11, LowestFree DEF Down
    <3> QED BY <3>3 DEF FreeSlots
  <2> HIDE DEF low
  <2>3. Owned' = {IF q = p THEN low ELSE pre.pointers[q] : q \in Pointers}
    BY <1>1, <2>1 DEF Owned, Presentation
  <2>4. low \in Owned' BY <2>3
  <2>5. ASSUME NEW s \in Slots, s \in Owned PROVE s \in Owned'
    <3>1. PICK q \in Pointers : s = pre.pointers[q] BY <2>5 DEF Owned
    <3>2. q # p BY <2>1, <3>1 DEF Held, Slots, Unheld
    <3> QED BY <2>3, <3>1, <3>2
  <2>6. Touch(low, TRUE) \in Command BY <2>2, CommandValues
  <2>7. \A s \in Slots : s \notin Owned' => ~Presses(Touch(low, TRUE), s)
    BY <2>2, <2>4, EventValues
  <2> QED BY <1>2, <2>1, <2>5, <2>6, <2>7, PushTouches
<1>12. ASSUME NEW p \in Pointers, Held(p) PROVE pre.pointers[p] \in Slots
  BY <1>1, <1>12 DEF Held
<1>13. ASSUME NEW p \in Pointers, Move(p) PROVE Touching'
  <2>1. pre.pointers[p] \in Slots /\ pre.pointers[p] \in Owned
    BY <1>12, <1>13 DEF Move, Owned
  <2>2. Owned' = Owned BY <1>13 DEF Move, Owned
  <2>3. Touch(pre.pointers[p], TRUE) \in Command BY <2>1, CommandValues
  <2>4. \A s \in Slots : s \notin Owned' => ~Presses(Touch(pre.pointers[p], TRUE), s)
    BY <2>1, <2>2, EventValues
  <2> QED BY <1>2, <1>13, <2>2, <2>3, <2>4, PushTouches DEF Move
<1>14. ASSUME NEW p \in Pointers, Up(p) PROVE Touching'
  <2> DEFINE after == [pre EXCEPT !.pointers[p] = Unheld]
             r == pre.pointers[p]
  <2>1. r \in Slots BY <1>12, <1>14 DEF Up
  <2>2. Touch(r, FALSE) \in Command BY <2>1, CommandValues
  <2>3. {after.pointers[q] : q \in Pointers}
            = {IF q = p THEN Unheld ELSE pre.pointers[q] : q \in Pointers}
    BY <1>1 DEF Presentation
  <2>4. ASSUME NEW s \in Slots, s \notin {after.pointers[q] : q \in Pointers}, s \in Owned
        PROVE  Lifts(Touch(r, FALSE), s)
    <3>1. PICK q \in Pointers : s = pre.pointers[q] BY <2>4 DEF Owned
    <3>2. q = p BY <2>3, <2>4, <3>1
    <3> QED BY <2>1, <3>1, <3>2, EventValues
  <2>5. Request /\ terminal_command(Touch(r, FALSE), after) BY <1>14 DEF Up
  <2>6. \A s \in Slots : ~Presses(Touch(r, FALSE), s) BY <2>1, EventValues
  <2> HIDE DEF after, r
  <2> QED BY <1>2, <2>2, <2>4, <2>5, <2>6, TerminalTouches
<1> QED BY <1>4, <1>6, <1>7, <1>8, <1>9, <1>10, <1>11, <1>13, <1>14 DEF Control

LEMMA ReceiverEndsTouches ==
    ASSUME SessionTypeOK, ReceiverEnds
    PROVE  Touching'
<1>1. rcv'.ended BY DEF SessionTypeOK, ReceiverEnds, ReceiverState
<1> QED BY <1>1 DEF Touching, UnownedLetGo, NothingSent, Receiving

LEMMA ForwardTouches ==
    ASSUME SessionTypeOK, Touching, Forward
    PROVE  Touching'
<1>1. events \in Seq(Command) /\ commands \in Seq(Command) BY DEF SessionTypeOK
<1>2. /\ Receiving /\ Inner /\ UNCHANGED contacts
      /\ commands # <<>> /\ commands' = Tail(commands)
  BY DEF Forward
<1>3. /\ Head(commands) \in Command /\ Head(commands) = commands[1]
      /\ commands' \in Seq(Command) /\ Len(commands') = Len(commands) - 1
      /\ \A i \in 1..Len(commands') : commands'[i] = commands[i + 1]
  BY <1>1, <1>2, HeadTailProperties
<1> DEFINE w == events \o commands
           u == events' \o commands'
<1>4. /\ w \in Seq(Command) /\ Len(w) = Len(events) + Len(commands)
      /\ Len(events) \in Nat /\ Len(commands) \in Nat
      /\ \A i \in 1..Len(events) : w[i] = events[i]
      /\ \A i \in 1..Len(commands) : w[Len(events) + i] = commands[i]
  BY <1>1, LineFacts
<1>5. Len(commands) # 0 BY <1>1, <1>2, EmptySeq
<1>6. w = Line /\ u = Line' BY DEF Line
<1>7. w[Len(events) + 1] = commands[1]
  <2>1. 1 \in 1..Len(commands) BY <1>4, <1>5
  <2> HIDE DEF w
  <2> QED BY <1>4, <2>1
<1>8. CASE /\ Head(commands).kind = "policy" \/ ~rcv.active
           /\ UNCHANGED <<events, rcv, video>>
  <2>1. NothingSent' BY <1>2, <1>8 DEF Touching, NothingSent, Inner, Receiving, Live
  <2>2. /\ u \in Seq(Command) /\ Len(u) = Len(events) + Len(commands')
        /\ \A i \in 1..Len(events) : u[i] = events[i]
        /\ \A i \in 1..Len(commands') : u[Len(events) + i] = commands'[i]
    BY <1>1, <1>3, <1>8, LineFacts, ZenonT(60)
  <2> HIDE DEF w, u
  <2> DEFINE m == Len(events) + 1
  <2>3. m \in 1..Len(w) /\ Len(u) = Len(w) - 1 BY <1>3, <1>4, <1>5, <2>2
  <2>4. \A i \in 1..m - 1 : u[i] = w[i] BY <1>4, <2>2
  <2>5. ASSUME NEW i \in m..Len(u) PROVE u[i] = w[i + 1]
    <3> DEFINE j == i - Len(events)
    <3>1. /\ j \in 1..Len(commands') /\ j + 1 \in 1..Len(commands)
          /\ i = Len(events) + j /\ i + 1 = Len(events) + (j + 1)
      BY <1>3, <1>4, <1>5, <2>2
    <3> HIDE DEF j
    <3>2. u[Len(events) + j] = commands'[j] /\ w[Len(events) + (j + 1)] = commands[j + 1]
      BY <1>4, <2>2, <3>1
    <3> QED BY <1>3, <3>1, <3>2
  <2>6. ASSUME NEW s \in Slots, LetGo(w, contacts, s) PROVE LetGo(u, contacts, s)
    <3>1. \/ ~Lifts(w[m], s)
          \/ s \notin contacts /\ \A i \in 1..m - 1 : ~Presses(w[i], s)
      <4>1. CASE Head(commands).kind = "policy"
        BY <1>3, <1>7, <4>1 DEF Lifts
      <4>2. CASE ~rcv.active
        <5>1. contacts = {} /\ \A i \in 1..Len(events) : events[i].kind = "event"
          BY <1>2, <4>2 DEF Touching, NothingSent
        <5>2. \A i \in 1..m - 1 : ~Presses(w[i], s) BY <1>4, <5>1 DEF Presses
        <5> QED BY <5>1, <5>2
      <4> QED BY <1>8, <4>1, <4>2
    <3> HIDE DEF m
    <3> QED BY <1>4, <2>2, <2>3, <2>4, <2>5, <2>6, <3>1, DroppedLine
  <2> QED BY <1>2, <1>6, <2>1, <2>6 DEF Touching, UnownedLetGo, Inner, Owned
<1>9. CASE /\ rcv.active /\ Len(events) < EventCap
           /\ events' = Append(events, Head(commands))
           /\ UNCHANGED <<rcv, video>>
  <2>1. NothingSent' BY <1>9 DEF NothingSent
  <2>2. /\ events' \in Seq(Command) /\ Len(events') = Len(events) + 1
        /\ \A i \in 1..Len(events) : events'[i] = events[i]
        /\ events'[Len(events) + 1] = commands[1]
    BY <1>1, <1>3, <1>9, AppendProperties
  <2>3. /\ u \in Seq(Command) /\ Len(u) = Len(events') + Len(commands')
        /\ \A i \in 1..Len(events') : u[i] = events'[i]
        /\ \A i \in 1..Len(commands') : u[Len(events') + i] = commands'[i]
    BY <1>3, <2>2, LineFacts
  <2> HIDE DEF w, u
  <2>4. Len(u) = Len(w) /\ Len(w) \in Nat BY <1>3, <1>4, <2>2, <2>3
  <2>5. ASSUME NEW i \in 1..Len(w) PROVE u[i] = w[i]
    <3>1. CASE i <= Len(events)
      <4>1. i \in 1..Len(events) /\ i \in 1..Len(events') BY <1>4, <2>2, <3>1
      <4> QED BY <1>4, <2>2, <2>3, <4>1
    <3>2. CASE i = Len(events) + 1
      <4>1. i \in 1..Len(events') BY <1>4, <2>2, <3>2
      <4> QED BY <1>7, <2>2, <2>3, <3>2, <4>1
    <3>3. CASE i > Len(events) + 1
      <4> DEFINE j == i - Len(events')
      <4>1. /\ j \in 1..Len(commands') /\ j + 1 \in 1..Len(commands)
            /\ i = Len(events') + j /\ i = Len(events) + (j + 1)
        BY <1>3, <1>4, <1>5, <2>2, <3>3
      <4> HIDE DEF j
      <4>2. u[Len(events') + j] = commands'[j] /\ w[Len(events) + (j + 1)] = commands[j + 1]
        BY <1>4, <2>3, <4>1
      <4> QED BY <1>3, <4>1, <4>2
    <3> QED BY <1>4, <3>1, <3>2, <3>3
  <2>6. ASSUME NEW s \in Slots, LetGo(w, contacts, s) PROVE LetGo(u, contacts, s)
    <3>1. /\ Len(w) <= Len(u)
          /\ \A i \in Len(w) + 1..Len(u) : ~Presses(u[i], s)
      BY <2>4
    <3> QED BY <1>4, <2>3, <2>5, <2>6, <3>1, LongerLine
  <2> QED BY <1>2, <1>6, <1>9, <2>1, <2>6 DEF Touching, UnownedLetGo, Inner, Owned, Receiving, Live
<1>10. CASE ReceiverEnds BY <1>10, ReceiverEndsTouches
<1> QED BY <1>8, <1>9, <1>10 DEF Forward

LEMMA SendEventTouches ==
    ASSUME SessionTypeOK, Touching, SendEvent
    PROVE  Touching'
<1>1. events \in Seq(Command) /\ commands \in Seq(Command) BY DEF SessionTypeOK
<1>2. /\ Receiving /\ Inner /\ UNCHANGED <<commands, rcv>> /\ events # <<>>
      /\ events' = Tail(events) /\ contacts' = Pressed(contacts, Head(events))
  BY DEF SendEvent, Setup
<1>3. /\ Head(events) \in Command /\ Head(events) = events[1]
      /\ events' \in Seq(Command) /\ Len(events') = Len(events) - 1
      /\ \A i \in 1..Len(events') : events'[i] = events[i + 1]
  BY <1>1, <1>2, HeadTailProperties
<1>4. Len(events) \in Nat /\ Len(events) # 0 BY <1>1, <1>2, EmptySeq, LenProperties
<1>5. NothingSent'
  <2> SUFFICES ASSUME ~rcv.active
               PROVE  contacts' = {} /\ \A i \in 1..Len(events') : events'[i].kind = "event"
    BY <1>2 DEF NothingSent
  <2>1. contacts = {} /\ \A i \in 1..Len(events) : events[i].kind = "event"
    BY <1>2 DEF Touching, NothingSent
  <2>2. 1 \in 1..Len(events) /\ Head(events).kind = "event" BY <1>3, <1>4, <2>1
  <2>3. contacts' = {} BY <1>2, <2>1, <2>2 DEF Pressed
  <2>4. \A i \in 1..Len(events') : events'[i].kind = "event"
    <3>1. \A i \in 1..Len(events') : i + 1 \in 1..Len(events) BY <1>3, <1>4
    <3> QED BY <1>3, <2>1, <3>1
  <2> QED BY <2>3, <2>4
<1> DEFINE w == events \o commands
           u == events' \o commands
<1>6. /\ w \in Seq(Command) /\ Len(w) = Len(events) + Len(commands)
      /\ Len(commands) \in Nat
      /\ \A i \in 1..Len(events) : w[i] = events[i]
      /\ \A i \in 1..Len(commands) : w[Len(events) + i] = commands[i]
  BY <1>1, LineFacts
<1>7. /\ u \in Seq(Command) /\ Len(u) = Len(events') + Len(commands)
      /\ \A i \in 1..Len(events') : u[i] = events'[i]
      /\ \A i \in 1..Len(commands) : u[Len(events') + i] = commands[i]
  BY <1>1, <1>3, LineFacts
<1>8. w = Line /\ u = Line' BY <1>2 DEF Line
<1> HIDE DEF w, u
<1>9. w # <<>> /\ Len(u) = Len(w) - 1 /\ w[1] = Head(events)
  <2>1. 1 \in 1..Len(events) BY <1>4
  <2> QED BY <1>3, <1>4, <1>6, <1>7, <2>1, EmptySeq
<1>10. ASSUME NEW i \in 1..Len(u) PROVE u[i] = w[i + 1]
  <2>1. CASE i <= Len(events')
    <3>1. i \in 1..Len(events') /\ i + 1 \in 1..Len(events) BY <1>3, <1>4, <2>1
    <3> QED BY <1>3, <1>6, <1>7, <3>1
  <2>2. CASE i > Len(events')
    <3> DEFINE j == i - Len(events')
    <3>1. j \in 1..Len(commands) /\ i = Len(events') + j /\ i + 1 = Len(events) + j
      BY <1>3, <1>4, <1>6, <1>7, <2>2
    <3> HIDE DEF j
    <3> QED BY <1>6, <1>7, <3>1
  <2> QED BY <1>3, <1>4, <2>1, <2>2
<1>11. ASSUME NEW s \in Slots, LetGo(w, contacts, s) PROVE LetGo(u, contacts', s)
  BY <1>2, <1>6, <1>7, <1>9, <1>10, <1>11, DeliveredLine
<1>12. UNCHANGED <<cancel, pre>> BY <1>2 DEF Inner
<1>13. Owned' = Owned BY <1>12 DEF Owned
<1> QED BY <1>2, <1>5, <1>8, <1>11, <1>12, <1>13 DEF Touching, UnownedLetGo

(* screen asks for a keyframe in front of the commands that wait.          *)
LEMMA EventTouches ==
    ASSUME SessionTypeOK, Touching, Inner, UNCHANGED <<commands, contacts, rcv>>, Receiving,
           events' = Append(events, Simple("event"))
    PROVE  Touching'
<1>1. events \in Seq(Command) /\ commands \in Seq(Command) BY DEF SessionTypeOK
<1>2. /\ events' \in Seq(Command) /\ Len(events') = Len(events) + 1
      /\ \A i \in 1..Len(events) : events'[i] = events[i]
      /\ events'[Len(events) + 1] = Simple("event")
  BY <1>1, AppendProperties, CommandValues
<1> DEFINE w == events \o commands
           u == events' \o commands
           m == Len(events) + 1
<1>3. /\ w \in Seq(Command) /\ Len(w) = Len(events) + Len(commands)
      /\ Len(events) \in Nat /\ Len(commands) \in Nat
      /\ \A i \in 1..Len(events) : w[i] = events[i]
      /\ \A i \in 1..Len(commands) : w[Len(events) + i] = commands[i]
  BY <1>1, LineFacts
<1>4. /\ u \in Seq(Command) /\ Len(u) = Len(events') + Len(commands)
      /\ \A i \in 1..Len(events') : u[i] = events'[i]
      /\ \A i \in 1..Len(commands) : u[Len(events') + i] = commands[i]
  BY <1>1, <1>2, LineFacts
<1>5. w = Line /\ u = Line' BY DEF Line
<1> HIDE DEF w, u
<1>6. NothingSent'
  <2> SUFFICES ASSUME ~rcv.active
               PROVE  contacts = {} /\ \A i \in 1..Len(events') : events'[i].kind = "event"
    BY DEF NothingSent
  <2>1. contacts = {} /\ \A i \in 1..Len(events) : events[i].kind = "event"
    BY DEF Touching, NothingSent
  <2>2. Simple("event").kind = "event" BY DEF Simple
  <2>3. ASSUME NEW i \in 1..Len(events') PROVE events'[i].kind = "event"
    <3>1. i \in 1..Len(events) \/ i = Len(events) + 1 BY <1>2, <1>3
    <3> QED BY <1>2, <2>1, <2>2, <3>1
  <2> QED BY <2>1, <2>3
<1>7. m \in 1..Len(w) + 1 /\ Len(u) = Len(w) + 1 BY <1>2, <1>3, <1>4
<1>8. \A i \in 1..m - 1 : u[i] = w[i]
  <2>1. \A i \in 1..m - 1 : i \in 1..Len(events) /\ i \in 1..Len(events') BY <1>2, <1>3
  <2> QED BY <1>2, <1>3, <1>4, <2>1
<1>9. ASSUME NEW i \in m..Len(w) PROVE u[i + 1] = w[i]
  <2> DEFINE j == i - Len(events)
  <2>1. j \in 1..Len(commands) /\ i = Len(events) + j /\ i + 1 = Len(events') + j
    BY <1>2, <1>3
  <2> HIDE DEF j
  <2> QED BY <1>3, <1>4, <2>1
<1>10. u[m] = Simple("event")
  <2>1. m \in 1..Len(events') BY <1>2, <1>3
  <2> QED BY <1>2, <1>4, <2>1
<1>11. \A s \in Slots : ~Presses(u[m], s) BY <1>10, EventValues
<1> HIDE DEF m
<1>12. ASSUME NEW s \in Slots, LetGo(w, contacts, s) PROVE LetGo(u, contacts, s)
  BY <1>3, <1>4, <1>7, <1>8, <1>9, <1>11, <1>12, InsertedLine
<1>13. UNCHANGED <<cancel, pre>> BY DEF Inner
<1>14. Owned' = Owned BY <1>13 DEF Owned
<1> QED BY <1>5, <1>6, <1>12, <1>13, <1>14 DEF Touching, UnownedLetGo

LEMMA IdleTouches ==
    ASSUME Idle'
    PROVE  Touching'
<1>1. Line' = <<>> /\ contacts' = {} /\ events' = <<>> BY DEF Idle, Line
<1>2. \A s : LetGo(Line', contacts', s) BY <1>1 DEF LetGo, PressedAt
<1> QED BY <1>1, <1>2 DEF Touching, UnownedLetGo, NothingSent

LEMMA SessionTouches ==
    ASSUME SessionTypeOK, Touching, IdleOutside, SessionStep
    PROVE  Touching'
<1>1. CASE SettingUp
  <2>1. UNCHANGED innerVars BY <1>1, SettingUpTypes DEF SessionTypeOK
  <2>2. CASE Live
    <3>1. ses' = ses
      BY <1>1, <2>2 DEF SettingUp, Live, At, Claim, Prepare, Selected, PrepareEnds, Adding,
         BridgeUp, TapOpened, Addressed, Unbridged, StartMux, OpenCarkit, CloseBridge, Reaped
    <3> QED BY <2>1, <3>1, SameTouching DEF innerVars
  <2>3. CASE ses.at = "join"
    <3>1. ses' = ses
      BY <1>1, <2>3 DEF SettingUp, Live, At, Claim, Prepare, Selected, PrepareEnds, Adding,
         BridgeUp, TapOpened, Addressed, Unbridged, StartMux, OpenCarkit, CloseBridge, Reaped
    <3> QED BY <2>1, <3>1, SameTouching DEF innerVars
  <2>4. CASE ses.at \notin {"live", "join"}
    <3>1. Idle' BY <2>1, <2>4 DEF IdleOutside, Idle, innerVars
    <3> QED BY <3>1, IdleTouches
  <2> QED BY <2>2, <2>3, <2>4 DEF Live
<1>2. CASE Leave
  <2>1. ses'.at = "join" BY <1>2 DEF Leave, SessionTypeOK, SessionState
  <2> QED BY <2>1 DEF Touching, UnownedLetGo, NothingSent, Receiving, Live
<1>3. CASE Join
  <2>1. Idle' BY <1>3 DEF Join, Reset, Idle
  <2> QED BY <2>1, IdleTouches
<1>4. CASE Control BY <1>4, ControlTouches
<1>5. CASE Forward BY <1>5, ForwardTouches
<1>6. CASE SendEvent BY <1>6, SendEventTouches
<1>7. CASE Advancing
  <2>1. /\ Receiving /\ Inner /\ UNCHANGED <<commands, events, contacts>>
        /\ rcv.active => rcv'.active
        /\ rcv'.ended = rcv.ended
    BY <1>7, AdvancingTypes
  <2>2. NothingSent' BY <2>1 DEF Touching, NothingSent, Inner, Receiving, Live
  <2>3. UnownedLetGo'
    BY <2>1 DEF Touching, UnownedLetGo, Inner, Receiving, Live, Owned, Line, LetGo, PressedAt
  <2> QED BY <2>2, <2>3 DEF Touching
<1>8. CASE ReceiverFails BY <1>8, ReceiverEndsTouches DEF ReceiverFails
<1>9. CASE Configure BY <1>9, SameTouching DEF Configure, Inner
<1>10. ASSUME NEW key \in BOOLEAN, Publish(key) PROVE Touching'
  <2>1. Receiving /\ Inner /\ UNCHANGED <<commands, contacts>> BY <1>10 DEF Publish
  <2>2. \/ UNCHANGED <<events, rcv>> \/ ReceiverEnds
        \/ events' = Append(events, Simple("event")) /\ UNCHANGED rcv
    BY <1>10 DEF Publish, AskKeyframe
  <2>3. CASE UNCHANGED <<events, rcv>> BY <2>1, <2>3, SameTouching DEF Inner
  <2>4. CASE ReceiverEnds BY <2>4, ReceiverEndsTouches
  <2>5. CASE events' = Append(events, Simple("event")) /\ UNCHANGED rcv
    BY <2>1, <2>5, EventTouches
  <2> QED BY <2>2, <2>3, <2>4, <2>5
<1>11. CASE View BY <1>11, ViewTypes, SameTouching DEF Inner
<1> QED BY <1>1, <1>2, <1>3, <1>4, <1>5, <1>6, <1>7, <1>8, <1>9, <1>10, <1>11, SessionSteps
    DEF Publishing

LEMMA NextTouches ==
    ASSUME Typed, Cover, Touching, Next
    PROVE  Touching'
<1> USE DEF Typed
<1>1. ASSUME UNCHANGED sessionVars PROVE Touching'
  BY <1>1, SameTouching DEF sessionVars, innerVars
<1>2. CASE \/ \E kind \in Kinds : BeginRequest(kind)
           \/ FinishRequest \/ RefuseRequest
  BY <1>1, <1>2 DEF BeginRequest, FinishRequest, RefuseRequest
<1>3. CASE Deciding BY <1>1, <1>3, DecidingTypes
<1>4. CASE Start \/ SessionWait \/ Judge
  <2>1. CASE Dropped
    <3>1. Idle' BY <2>1 DEF Dropped, Reset, Idle
    <3> QED BY <3>1, IdleTouches
  <2>2. CASE Start \/ Judge
    <3>1. ses.at \in {"none", "done"} /\ UNCHANGED innerVars
      BY <2>2 DEF Start, Judge, Stays, Cover, OwnedBySupervisor, Sessions, Sup
    <3>2. Idle' BY <3>1 DEF Cover, IdleOutside, Idle, innerVars
    <3> QED BY <3>2, IdleTouches
  <2>3. CASE SessionWait /\ ~Dropped
    <3>1. UNCHANGED innerVars /\ ses'.at = ses.at
      BY <2>3 DEF SessionWait, Stays, Stops, TypeOK, SessionTypeOK, SessionState
    <3> QED BY <3>1 DEF innerVars, Touching, UnownedLetGo, NothingSent, Receiving, Live, Owned,
               Line, LetGo, PressedAt
  <2> QED BY <1>4, <2>1, <2>2, <2>3
<1>5. CASE Main \/ Fault BY <1>1, <1>5, MainTypes
<1>6. CASE Session BY <1>6, SessionTouches DEF Session, TypeOK, Cover
<1> QED BY <1>2, <1>3, <1>4, <1>5, <1>6, DaemonSteps DEF DaemonStep

-----------------------------------------------------------------------------
(* What the phone holds once it has the whole line: Eventually is defined, *)
(* and what it ends with was not let go.  Both by the least number that    *)
(* would be a counterexample.                                              *)

LEMMA Least ==
    ASSUME NEW S \in SUBSET Nat, S # {}
    PROVE  \E m \in S : \A n \in S : m =< n
<1> DEFINE R == {rs \in Nat \X Nat : rs[1] < rs[2]}
<1>1. IsWellFoundedOn(R, Nat) BY NatLessThanWellFounded DEF OpToRel
<1> HIDE DEF R
<1>2. PICK m \in S : \A n \in S : ~(<<n, m>> \in R) BY <1>1, WFMin, Zenon
<1> USE DEF R
<1>3. \A n \in S : ~(n < m) BY <1>2
<1> QED BY <1>3

Reach == CommandCap + EventCap
After(f, n) == IF n = 0 THEN contacts ELSE Pressed(f[n - 1], Line[n])

LEMMA EventuallyDefined ==
    \A n \in 0..Reach : Eventually[n] = After(Eventually, n)
<1> DEFINE Upto(k) == \E f : f = [n \in 0..k |-> After(f, n)]
           Bad == {k \in Nat : ~Upto(k)}
<1>1. Upto(0)
  <2> DEFINE f == [n \in 0..0 |-> contacts]
  <2>1. \A n \in 0..0 : contacts = After(f, n) BY DEF After
  <2>2. f = [n \in 0..0 |-> After(f, n)] BY <2>1
  <2> QED BY <2>2
<1>2. ASSUME NEW k \in Nat, Upto(k) PROVE Upto(k + 1)
  <2>1. PICK f : f = [n \in 0..k |-> After(f, n)] BY <1>2
  <2> DEFINE x == Pressed(f[k], Line[k + 1])
             g == [n \in 0..k + 1 |-> IF n = k + 1 THEN x ELSE f[n]]
  <2>2. ASSUME NEW n \in 0..k + 1 PROVE g[n] = After(g, n)
    <3>1. CASE n = k + 1
      <4>1. n # 0 /\ n - 1 = k /\ k \in 0..k + 1 /\ k # k + 1 BY <3>1
      <4>2. g[k] = f[k] /\ g[n] = x BY <3>1, <4>1
      <4> HIDE DEF g
      <4> QED BY <3>1, <4>1, <4>2 DEF After
    <3>2. CASE n # k + 1 /\ n # 0
      <4>1. /\ n \in 0..k /\ n - 1 \in 0..k + 1 /\ n - 1 # k + 1
        BY <3>2
      <4>2. g[n] = f[n] /\ g[n - 1] = f[n - 1] BY <3>2, <4>1
      <4>3. f[n] = After(f, n) BY <2>1, <4>1
      <4> HIDE DEF g
      <4> QED BY <3>2, <4>2, <4>3 DEF After
    <3>3. CASE n = 0
      <4>1. 0 \in 0..k /\ 0 # k + 1 /\ 0 \in 0..k + 1 OBVIOUS
      <4>2. g[0] = f[0] BY <4>1
      <4>3. f[0] = After(f, 0) BY <2>1, <4>1
      <4> HIDE DEF g
      <4> QED BY <3>3, <4>2, <4>3 DEF After
    <3> QED BY <3>1, <3>2, <3>3
  <2>3. g = [n \in 0..k + 1 |-> g[n]] OBVIOUS
  <2> HIDE DEF g
  <2>4. g = [n \in 0..k + 1 |-> After(g, n)] BY <2>2, <2>3
  <2> QED BY <2>4
<1> HIDE DEF Upto
<1>3. Bad = {}
  <2> SUFFICES ASSUME Bad # {} PROVE FALSE OBVIOUS
  <2>1. PICK m \in Bad : \A n \in Bad : m =< n
    <3>1. Bad \in SUBSET Nat OBVIOUS
    <3> HIDE DEF Bad
    <3> QED BY <3>1, Least
  <2>2. m # 0 /\ m \in Nat /\ m - 1 \in Nat BY <1>1, <2>1
  <2>3. Upto(m - 1)
    <3>1. m - 1 \notin Bad BY <2>1, <2>2
    <3> QED BY <2>2, <3>1
  <2>4. Upto((m - 1) + 1) BY <1>2, <2>2, <2>3
  <2>5. (m - 1) + 1 = m BY <2>2
  <2> QED BY <2>1, <2>4, <2>5
<1>4. Reach \in Nat BY DEF Reach
<1>5. Upto(Reach) BY <1>3, <1>4
<1>6. \E f : f = [n \in 0..Reach |-> After(f, n)] BY <1>5 DEF Upto
<1>7. Eventually = CHOOSE f : f = [n \in 0..Reach |-> After(f, n)]
  BY DEF Eventually, After, Reach, Line
<1>8. Eventually = [n \in 0..Reach |-> After(Eventually, n)]
  BY <1>6, <1>7, Zenon
<1> QED BY <1>8

LEMMA LetGoIsReleased ==
    ASSUME SessionTypeOK, NEW s \in Slots, LetGo(Line, contacts, s)
    PROVE  s \notin Eventually[Len(Line)]
<1>1. /\ Line \in Seq(Command) /\ Len(Line) = Len(events) + Len(commands)
      /\ Len(events) \in Nat /\ Len(commands) \in Nat
      /\ Len(events) =< EventCap /\ Len(commands) =< CommandCap
  BY LineFacts DEF SessionTypeOK, Line
<1>2. Len(Line) \in Nat /\ Len(Line) <= Reach /\ Reach \in Nat BY <1>1 DEF Reach
<1>3. \A n \in 0..Len(Line) : Eventually[n] = After(Eventually, n)
  BY <1>2, EventuallyDefined
<1> DEFINE Traced(n) == s \in Eventually[n] =>
               \E k \in 0..n : /\ PressedAt(Line, contacts, s, k)
                               /\ \A j \in k + 1..n : ~Lifts(Line[j], s)
           Bad == {n \in 0..Len(Line) : ~Traced(n)}
<1>4. Traced(0)
  <2> SUFFICES ASSUME s \in Eventually[0]
               PROVE  \E k \in 0..0 : /\ PressedAt(Line, contacts, s, k)
                                      /\ \A j \in k + 1..0 : ~Lifts(Line[j], s)
    OBVIOUS
  <2>1. 0 \in 0..Len(Line) BY <1>2
  <2>2. s \in contacts BY <1>3, <2>1 DEF After
  <2>3. PressedAt(Line, contacts, s, 0) BY <2>2 DEF PressedAt
  <2>4. \A j \in 0 + 1..0 : ~Lifts(Line[j], s) OBVIOUS
  <2>5. 0 \in 0..0 OBVIOUS
  <2> QED BY <2>3, <2>4, <2>5
<1>5. ASSUME NEW n \in 1..Len(Line), Traced(n - 1) PROVE Traced(n)
  <2> SUFFICES ASSUME s \in Eventually[n]
               PROVE  \E k \in 0..n : /\ PressedAt(Line, contacts, s, k)
                                      /\ \A j \in k + 1..n : ~Lifts(Line[j], s)
    OBVIOUS
  <2>1. n \in 0..Len(Line) /\ n # 0 /\ n \in Nat /\ n - 1 \in Nat BY <1>2
  <2>2. s \in Pressed(Eventually[n - 1], Line[n]) BY <1>3, <2>1 DEF After
  <2>3. Line[n] \in Command BY <1>1, ElementOfSeq
  <2>4. Presses(Line[n], s) \/ (s \in Eventually[n - 1] /\ ~Lifts(Line[n], s))
    BY <2>2, <2>3 DEF Pressed, Presses, Lifts, Command
  <2>5. CASE Presses(Line[n], s)
    <3>1. PressedAt(Line, contacts, s, n) BY <2>1, <2>5 DEF PressedAt
    <3>2. \A j \in n + 1..n : ~Lifts(Line[j], s) BY <2>1
    <3>3. n \in 0..n BY <2>1
    <3> QED BY <3>1, <3>2, <3>3
  <2>6. CASE s \in Eventually[n - 1] /\ ~Lifts(Line[n], s)
    <3>1. PICK k \in 0..n - 1 : /\ PressedAt(Line, contacts, s, k)
                                /\ \A j \in k + 1..n - 1 : ~Lifts(Line[j], s)
      BY <1>5, <2>6
    <3>2. ASSUME NEW j \in k + 1..n PROVE ~Lifts(Line[j], s)
      <4>1. j \in k + 1..n - 1 \/ j = n BY <2>1
      <4> QED BY <2>6, <3>1, <4>1
    <3>3. k \in 0..n BY <2>1
    <3> QED BY <3>1, <3>2, <3>3
  <2> QED BY <2>4, <2>5, <2>6
<1> HIDE DEF Traced
<1>6. Bad = {}
  <2> SUFFICES ASSUME Bad # {} PROVE FALSE OBVIOUS
  <2>1. PICK m \in Bad : \A n \in Bad : m =< n
    <3>1. Bad \in SUBSET Nat OBVIOUS
    <3> HIDE DEF Bad
    <3> QED BY <3>1, Least
  <2>2. m \in 1..Len(Line) /\ m - 1 \in 0..Len(Line) BY <1>2, <1>4, <2>1
  <2>3. Traced(m - 1)
    <3>1. m - 1 \notin Bad BY <2>1, <2>2
    <3> QED BY <2>2, <3>1
  <2>4. Traced(m) BY <1>5, <2>2, <2>3
  <2> QED BY <2>1, <2>4
<1>7. Traced(Len(Line))
  <2>1. Len(Line) \in 0..Len(Line) BY <1>2
  <2> QED BY <1>6, <2>1
<1> SUFFICES ASSUME s \in Eventually[Len(Line)] PROVE FALSE OBVIOUS
<1>8. PICK k \in 0..Len(Line) : /\ PressedAt(Line, contacts, s, k)
                                /\ \A j \in k + 1..Len(Line) : ~Lifts(Line[j], s)
  BY <1>7 DEF Traced
<1> QED BY <1>8 DEF LetGo

LEMMA EventuallyTypes ==
    ASSUME SessionTypeOK
    PROVE  Eventually[Len(Line)] \subseteq Slots
<1>1. /\ Line \in Seq(Command) /\ Len(Line) = Len(events) + Len(commands)
      /\ Len(events) \in Nat /\ Len(commands) \in Nat
      /\ Len(events) =< EventCap /\ Len(commands) =< CommandCap
  BY LineFacts DEF SessionTypeOK, Line
<1>2. Len(Line) \in Nat /\ Len(Line) <= Reach /\ Reach \in Nat BY <1>1 DEF Reach
<1>3. \A n \in 0..Len(Line) : Eventually[n] = After(Eventually, n)
  BY <1>2, EventuallyDefined
<1> DEFINE Bad == {n \in 0..Len(Line) : Eventually[n] \notin SUBSET Slots}
<1>4. Bad = {}
  <2> SUFFICES ASSUME Bad # {} PROVE FALSE OBVIOUS
  <2>1. PICK m \in Bad : \A n \in Bad : m =< n
    <3>1. Bad \in SUBSET Nat OBVIOUS
    <3> HIDE DEF Bad
    <3> QED BY <3>1, Least
  <2>2. m \in 0..Len(Line) /\ m \in Nat /\ Eventually[m] = After(Eventually, m)
    BY <1>2, <1>3, <2>1
  <2>3. CASE m = 0 BY <2>1, <2>2, <2>3 DEF After, SessionTypeOK
  <2>4. CASE m # 0
    <3>1. m - 1 \in 0..Len(Line) /\ m \in 1..Len(Line) BY <1>2, <2>2, <2>4
    <3>2. m - 1 \notin Bad BY <2>1, <2>2
    <3>3. Eventually[m - 1] \in SUBSET Slots BY <3>1, <3>2
    <3>4. Line[m] \in Command BY <1>1, <3>1, ElementOfSeq
    <3>5. Eventually[m] \in SUBSET Slots BY <2>2, <2>4, <3>3, <3>4, PressedTypes DEF After
    <3> QED BY <2>1, <3>5
  <2> QED BY <2>3, <2>4
<1>5. Len(Line) \in 0..Len(Line) BY <1>2
<1> QED BY <1>4, <1>5

LEMMA TouchingImplies == SessionTypeOK /\ Touching => NoStuckTouch
<1> SUFFICES ASSUME SessionTypeOK, Touching, Receiving, ~cancel,
                    NEW s \in Eventually[Len(events) + Len(commands)]
             PROVE  s \in Owned
  BY DEF NoStuckTouch, Owned
<1>1. Len(Line) = Len(events) + Len(commands) BY LineFacts DEF SessionTypeOK, Line
<1>2. s \in Slots BY <1>1, EventuallyTypes
<1>3. ~LetGo(Line, contacts, s) BY <1>1, <1>2, LetGoIsReleased
<1> QED BY <1>2, <1>3 DEF Touching, UnownedLetGo

-----------------------------------------------------------------------------
(* The inductive invariant and the theorems.                               *)

IInv == Typed /\ Cover /\ Continuous /\ Touching

LEMMA InitIInv == Init => IInv
<1> SUFFICES ASSUME Init PROVE IInv OBVIOUS
<1>1. Typed BY InitTyped
<1>2. Idle BY DEF Init, SessionInit
<1>3. Cover
  <2>1. ses.at = "none" /\ ~res.lock /\ res.mux = "none" BY DEF Init, SessionInit, NoSession
  <2>2. sup.pc = "probe" BY DEF Init
  <2> QED BY <1>2, <2>1, <2>2
      DEF Cover, OwnedBySupervisor, LeasedThroughout, HeldInSession, IdleOutside, Sessions
<1>4. Continuous
  <2>1. /\ video.queue = <<>> /\ video.need /\ video.flight = NoFrame /\ video.seen = 0
    BY <1>2 DEF Idle, NoVideo
  <2>2. Len(video.queue) = 0 /\ frames = 0 BY <2>1 DEF Init, SessionInit
  <2>3. Numbered BY <2>2 DEF Numbered
  <2>4. Chained BY <2>1 DEF Chained
  <2> QED BY <2>1, <2>3, <2>4 DEF Continuous, Viewless, VideoContinuous
<1>5. Touching
  <2>1. ~Live BY DEF Init, SessionInit, NoSession, Live
  <2> QED BY <2>1 DEF Touching, UnownedLetGo, NothingSent, Receiving
<1> QED BY <1>1, <1>3, <1>4, <1>5 DEF IInv

LEMMA NextIInv == IInv /\ [Next]_vars => IInv'
<1> SUFFICES ASSUME IInv, [Next]_vars PROVE IInv' OBVIOUS
<1> USE DEF IInv
<1>1. CASE Next BY <1>1, NextTyped, NextCovers, NextContinues, NextTouches
<1>2. CASE UNCHANGED vars
  <2>1. Typed' BY <1>2, StutterTyped
  <2>2. Cover'
    BY <1>2 DEF vars, sessionVars, innerVars, daemonVars, Cover, OwnedBySupervisor,
       LeasedThroughout, Handle, HeldInSession, IdleOutside, Idle
  <2>3. Continuous' BY <1>2, SameVideo DEF vars, sessionVars, innerVars
  <2>4. Touching' BY <1>2, SameTouching DEF vars, sessionVars, innerVars
  <2> QED BY <2>1, <2>2, <2>3, <2>4
<1> QED BY <1>1, <1>2

(* The state described by the invariant is kept by every step of the       *)
(* daemon (argo-carplayd.rs, wired_runtime.rs, receiver.rs, media.rs).     *)
THEOREM CarPlayInvariance == Spec => []IInv
BY InitIInv, NextIInv, PTL DEF Spec

(* The records, queues and counters of the daemon stay in their ranges:    *)
(* both command queues and the picture queue stay within their limits, and *)
(* a generation is changed only by a request (runtime_control.rs, media.rs *)
(* and management.rs).                                                     *)
THEOREM CarPlayTypeCorrect == Spec => []TypeOK
<1>1. IInv => TypeOK BY DEF IInv, Typed
<1> QED BY <1>1, CarPlayInvariance, PTL

(* The USB configuration lease covers every session: it is there before a  *)
(* session claims anything and as long as one holds the lock or the mux,   *)
(* also when the helper, the settings service or a signal ends it          *)
(* (argo-carplayd.rs, usb_lease.rs).                                       *)
THEOREM LeaseBeforeSession == Spec => []LeaseCoversSession
<1>1. IInv => LeaseCoversSession BY CoverImplies DEF IInv
<1> QED BY <1>1, CarPlayInvariance, PTL

(* The decoder is never handed a delta picture without its predecessor,    *)
(* for every length of the queue, however often it overflows and views     *)
(* come and go (media.rs).                                                 *)
THEOREM PicturesInOrder == Spec => []VideoContinuous
<1>1. IInv => VideoContinuous BY DEF IInv, Continuous
<1> QED BY <1>1, CarPlayInvariance, PTL

(* No contact outlives its pointer: what the phone will hold to be pressed *)
(* once both queues are empty is held by a pointer of the shell, for every *)
(* length of the queues (runtime_control.rs, receiver.rs).                 *)
THEOREM TouchReleased == Spec => []NoStuckTouch
<1>1. IInv => NoStuckTouch BY TouchingImplies DEF IInv, Typed, TypeOK
<1> QED BY <1>1, CarPlayInvariance, PTL

-----------------------------------------------------------------------------
(* The reports: the two queues implement one channel.                      *)

LEMMA ReportsInit == Init => Reports!Init
BY DEF Init, SessionInit, NoSession, Reports!Init, Receiving, Live
One(c) == IF IsReport(c) THEN <<c>> ELSE <<>>
Kept(q, f, n) == IF n = 0 THEN <<>> ELSE f[n - 1] \o One(q[n])

(* The recursion of OnlyReports has a solution, and on any prefix just one.*)
LEMMA KeptDefined ==
    ASSUME NEW q \in Seq(Command)
    PROVE  \E f : /\ f = [n \in 0..Len(q) |-> Kept(q, f, n)]
                  /\ OnlyReports(q) = f[Len(q)]
<1> DEFINE Upto(k) == \E f : f = [n \in 0..k |-> Kept(q, f, n)]
           Bad == {k \in Nat : ~Upto(k)}
<1>0. Len(q) \in Nat BY LenProperties
<1>1. Upto(0)
  <2> DEFINE f == [n \in 0..0 |-> <<>>]
  <2>1. \A n \in 0..0 : <<>> = Kept(q, f, n) BY DEF Kept
  <2>2. f = [n \in 0..0 |-> Kept(q, f, n)] BY <2>1
  <2> QED BY <2>2
<1>2. ASSUME NEW k \in Nat, Upto(k) PROVE Upto(k + 1)
  <2>1. PICK f : f = [n \in 0..k |-> Kept(q, f, n)] BY <1>2
  <2> DEFINE x == f[k] \o One(q[k + 1])
             g == [n \in 0..k + 1 |-> IF n = k + 1 THEN x ELSE f[n]]
  <2>2. ASSUME NEW n \in 0..k + 1 PROVE g[n] = Kept(q, g, n)
    <3>1. CASE n = k + 1
      <4>1. n # 0 /\ n - 1 = k /\ k \in 0..k + 1 /\ k # k + 1 BY <3>1
      <4>2. g[k] = f[k] /\ g[n] = x BY <3>1, <4>1
      <4> HIDE DEF g
      <4> QED BY <3>1, <4>1, <4>2 DEF Kept
    <3>2. CASE n # k + 1 /\ n # 0
      <4>1. n \in 0..k /\ n - 1 \in 0..k + 1 /\ n - 1 # k + 1 BY <3>2
      <4>2. g[n] = f[n] /\ g[n - 1] = f[n - 1] BY <3>2, <4>1
      <4>3. f[n] = Kept(q, f, n) BY <2>1, <4>1
      <4> HIDE DEF g
      <4> QED BY <3>2, <4>2, <4>3 DEF Kept
    <3>3. CASE n = 0
      <4>1. 0 \in 0..k /\ 0 # k + 1 /\ 0 \in 0..k + 1 OBVIOUS
      <4>2. g[0] = f[0] BY <4>1
      <4>3. f[0] = Kept(q, f, 0) BY <2>1, <4>1
      <4> HIDE DEF g
      <4> QED BY <3>3, <4>2, <4>3 DEF Kept
    <3> QED BY <3>1, <3>2, <3>3
  <2>3. g = [n \in 0..k + 1 |-> g[n]] OBVIOUS
  <2> HIDE DEF g
  <2>4. g = [n \in 0..k + 1 |-> Kept(q, g, n)] BY <2>2, <2>3
  <2> QED BY <2>4
<1> HIDE DEF Upto
<1>3. Bad = {}
  <2> SUFFICES ASSUME Bad # {} PROVE FALSE OBVIOUS
  <2>1. PICK m \in Bad : \A n \in Bad : m =< n
    <3>1. Bad \in SUBSET Nat OBVIOUS
    <3> HIDE DEF Bad
    <3> QED BY <3>1, Least
  <2>2. m # 0 /\ m \in Nat /\ m - 1 \in Nat BY <1>1, <2>1
  <2>3. Upto(m - 1)
    <3>1. m - 1 \notin Bad BY <2>1, <2>2
    <3> QED BY <2>2, <3>1
  <2>4. Upto((m - 1) + 1) BY <1>2, <2>2, <2>3
  <2>5. (m - 1) + 1 = m BY <2>2
  <2> QED BY <2>1, <2>4, <2>5
<1>4. Upto(Len(q)) BY <1>0, <1>3
<1>5. \E f : f = [n \in 0..Len(q) |-> Kept(q, f, n)] BY <1>4 DEF Upto
<1> DEFINE h == CHOOSE f : f = [n \in 0..Len(q) |-> Kept(q, f, n)]
<1>6. h = [n \in 0..Len(q) |-> Kept(q, h, n)] BY <1>5, Zenon
<1>7. OnlyReports(q) = h[Len(q)] BY DEF OnlyReports, Kept, One
<1> HIDE DEF h
<1> QED BY <1>6, <1>7, Zenon

LEMMA KeptUnique ==
    ASSUME NEW q \in Seq(Command), NEW u \in Seq(Command), Len(q) <= Len(u),
           \A i \in 1..Len(q) : u[i] = q[i],
           NEW f, \A n \in 0..Len(q) : f[n] = Kept(q, f, n),
           NEW g, \A n \in 0..Len(u) : g[n] = Kept(u, g, n)
    PROVE  f[Len(q)] = g[Len(q)]
<1>0. Len(q) \in Nat /\ Len(u) \in Nat BY LenProperties
<1> DEFINE Bad == {n \in 0..Len(q) : f[n] # g[n]}
<1>1. Bad = {}
  <2> SUFFICES ASSUME Bad # {} PROVE FALSE OBVIOUS
  <2>1. PICK n \in Bad : \A j \in Bad : n =< j
    <3>1. Bad \in SUBSET Nat OBVIOUS
    <3> HIDE DEF Bad
    <3> QED BY <3>1, Least
  <2>2. n \in 0..Len(q) /\ n \in 0..Len(u) /\ n \in Nat BY <1>0, <2>1
  <2>3. f[n] = Kept(q, f, n) /\ g[n] = Kept(u, g, n) BY <2>2
  <2>4. n # 0 BY <2>1, <2>3 DEF Kept
  <2>5. n - 1 \in 0..Len(q) /\ n \in 1..Len(q) /\ ~(n =< n - 1) BY <1>0, <2>2, <2>4
  <2>6. f[n - 1] = g[n - 1] BY <2>1, <2>5
  <2>7. u[n] = q[n] BY <2>5
  <2> QED BY <2>1, <2>3, <2>4, <2>6, <2>7 DEF Kept
<1>2. Len(q) \in 0..Len(q) BY <1>0
<1> QED BY <1>1, <1>2

LEMMA ReportsAppend ==
    ASSUME NEW q \in Seq(Command), NEW c \in Command
    PROVE  OnlyReports(Append(q, c)) = OnlyReports(q) \o One(c)
<1> DEFINE u == Append(q, c)
<1>1. /\ u \in Seq(Command) /\ Len(u) = Len(q) + 1 /\ u[Len(q) + 1] = c
      /\ \A i \in 1..Len(q) : u[i] = q[i]
  BY AppendProperties
<1>2. Len(q) \in Nat BY LenProperties
<1> HIDE DEF u
<1>3. PICK f : /\ f = [n \in 0..Len(q) |-> Kept(q, f, n)]
               /\ OnlyReports(q) = f[Len(q)]
  BY KeptDefined
<1>4. PICK g : /\ g = [n \in 0..Len(u) |-> Kept(u, g, n)]
               /\ OnlyReports(u) = g[Len(u)]
  BY <1>1, KeptDefined
<1>5. f[Len(q)] = g[Len(q)]
  <2>1. Len(q) <= Len(u) BY <1>1, <1>2
  <2>2. \A n \in 0..Len(q) : f[n] = Kept(q, f, n) BY <1>3
  <2>3. \A n \in 0..Len(u) : g[n] = Kept(u, g, n) BY <1>4
  <2>4. u \in Seq(Command) BY <1>1
  <2>5. \A i \in 1..Len(q) : u[i] = q[i] BY <1>1
  <2>6. \A x, y \in Seq(Command) : \A a, b :
            /\ Len(x) <= Len(y)
            /\ \A i \in 1..Len(x) : y[i] = x[i]
            /\ \A n \in 0..Len(x) : a[n] = Kept(x, a, n)
            /\ \A n \in 0..Len(y) : b[n] = Kept(y, b, n)
            => a[Len(x)] = b[Len(x)]
    BY KeptUnique
  <2> QED BY <2>1, <2>2, <2>3, <2>4, <2>5, <2>6
<1>6. g[Len(u)] = Kept(u, g, Len(u))
  <2>1. Len(u) \in 0..Len(u) BY <1>1, <1>2
  <2> QED BY <1>4, <2>1
<1>7. Len(u) # 0 /\ Len(u) - 1 = Len(q) BY <1>1, <1>2
<1>8. Kept(u, g, Len(u)) = g[Len(q)] \o One(c) BY <1>1, <1>7 DEF Kept
<1> QED BY <1>3, <1>4, <1>5, <1>6, <1>8 DEF u

LEMMA ReportsEmpty == OnlyReports(<<>>) = <<>>
<1>1. <<>> \in Seq(Command) /\ Len(<<>>) = 0 BY EmptySeq
<1>2. PICK f : /\ f = [n \in 0..0 |-> Kept(<<>>, f, n)] /\ OnlyReports(<<>>) = f[0]
  BY <1>1, KeptDefined
<1>3. f[0] = Kept(<<>>, f, 0)
  <2>1. 0 \in 0..0 OBVIOUS
  <2> QED BY <1>2, <2>1
<1> QED BY <1>2, <1>3 DEF Kept

LEMMA ReportsTypes ==
    ASSUME NEW q \in Seq(Command)
    PROVE  OnlyReports(q) \in Seq(Command)
<1> DEFINE Bad == {n \in Nat : \E u \in Seq(Command) : /\ Len(u) = n
                                                      /\ OnlyReports(u) \notin Seq(Command)}
<1>1. Bad = {}
  <2> SUFFICES ASSUME Bad # {} PROVE FALSE OBVIOUS
  <2>1. PICK m \in Bad : \A n \in Bad : m =< n
    <3>1. Bad \in SUBSET Nat OBVIOUS
    <3> HIDE DEF Bad
    <3> QED BY <3>1, Least
  <2>2. PICK u \in Seq(Command) : Len(u) = m /\ OnlyReports(u) \notin Seq(Command) BY <2>1
  <2>3. u # <<>> BY <2>2, ReportsEmpty, EmptySeq
  <2>4. PICK v \in Seq(Command), c \in Command : u = Append(v, c)
    BY <2>3, SequenceEmptyOrAppend
  <2>5. Len(u) = Len(v) + 1 /\ Len(v) \in Nat BY <2>4, AppendProperties, LenProperties
  <2>6. ~(m =< Len(v)) BY <2>2, <2>5
  <2>7. OnlyReports(v) \in Seq(Command) BY <2>1, <2>5, <2>6
  <2>8. One(c) \in Seq(Command) BY DEF One
  <2>9. OnlyReports(u) = OnlyReports(v) \o One(c) BY <2>4, ReportsAppend
  <2> HIDE DEF Bad
  <2> QED BY <2>2, <2>7, <2>8, <2>9, ConcatProperties
<1>2. Len(q) \in Nat BY LenProperties
<1> QED BY <1>1, <1>2

LEMMA ReportsConcat ==
    ASSUME NEW e \in Seq(Command), NEW q \in Seq(Command)
    PROVE  OnlyReports(e \o q) = OnlyReports(e) \o OnlyReports(q)
<1> DEFINE Splits(u) == OnlyReports(e \o u) = OnlyReports(e) \o OnlyReports(u)
           Bad == {n \in Nat : \E u \in Seq(Command) : Len(u) = n /\ ~Splits(u)}
<1>1. OnlyReports(e) \in Seq(Command) BY ReportsTypes
<1>2. Splits(<<>>)
  <2>1. e \o <<>> = e /\ OnlyReports(e) \o <<>> = OnlyReports(e) BY <1>1, ConcatEmptySeq
  <2> QED BY <2>1, ReportsEmpty
<1>3. ASSUME NEW v \in Seq(Command), NEW c \in Command, Splits(v)
      PROVE  Splits(Append(v, c))
  <2>1. One(c) \in Seq(Command) /\ <<c>> \in Seq(Command) BY DEF One
  <2>2. Append(v, c) = v \o <<c>> BY AppendIsConcat
  <2>3. e \o v \in Seq(Command) BY ConcatProperties
  <2>4. e \o Append(v, c) = Append(e \o v, c)
    <3>1. e \o (v \o <<c>>) = (e \o v) \o <<c>> BY <2>1, ConcatAssociative
    <3>2. Append(e \o v, c) = (e \o v) \o <<c>> BY <2>3, AppendIsConcat
    <3> QED BY <2>2, <3>1, <3>2
  <2>5. OnlyReports(e \o Append(v, c)) = OnlyReports(e \o v) \o One(c)
    BY <2>3, <2>4, ReportsAppend
  <2>6. OnlyReports(Append(v, c)) = OnlyReports(v) \o One(c) BY ReportsAppend
  <2>7. OnlyReports(v) \in Seq(Command) BY ReportsTypes
  <2>8. (OnlyReports(e) \o OnlyReports(v)) \o One(c)
            = OnlyReports(e) \o (OnlyReports(v) \o One(c))
    <3>1. \A a, b, d \in Seq(Command) : (a \o b) \o d = a \o (b \o d)
      BY ConcatAssociative, SMTT(40)
    <3>2. One(c) \in Seq(Command) BY <2>1
    <3> QED BY <1>1, <2>7, <3>1, <3>2, ZenonT(60)
  <2> QED BY <1>3, <2>5, <2>6, <2>8
<1> HIDE DEF Splits
<1>4. Bad = {}
  <2> SUFFICES ASSUME Bad # {} PROVE FALSE OBVIOUS
  <2>1. PICK m \in Bad : \A n \in Bad : m =< n
    <3>1. Bad \in SUBSET Nat OBVIOUS
    <3> HIDE DEF Bad
    <3> QED BY <3>1, Least
  <2>2. PICK u \in Seq(Command) : Len(u) = m /\ ~Splits(u) BY <2>1
  <2>3. u # <<>> BY <1>2, <2>2
  <2>4. PICK v \in Seq(Command), c \in Command : u = Append(v, c)
    BY <2>3, SequenceEmptyOrAppend
  <2>5. Len(u) = Len(v) + 1 /\ Len(v) \in Nat BY <2>4, AppendProperties, LenProperties
  <2>6. ~(m =< Len(v)) BY <2>2, <2>5
  <2>7. Splits(v) BY <2>1, <2>5, <2>6
  <2> QED BY <1>3, <2>2, <2>4, <2>7
<1>5. Len(q) \in Nat BY LenProperties
<1>6. Splits(q) BY <1>4, <1>5
<1> QED BY <1>6 DEF Splits

LEMMA ReportsNone ==
    ASSUME NEW q \in Seq(Command), \A i \in 1..Len(q) : ~IsReport(q[i])
    PROVE  OnlyReports(q) = <<>>
<1> DEFINE Plain(u) == \A i \in 1..Len(u) : ~IsReport(u[i])
           Bad == {n \in Nat : \E u \in Seq(Command) : /\ Len(u) = n /\ Plain(u)
                                                      /\ OnlyReports(u) # <<>>}
<1>1. Bad = {}
  <2> SUFFICES ASSUME Bad # {} PROVE FALSE OBVIOUS
  <2>1. PICK m \in Bad : \A n \in Bad : m =< n
    <3>1. Bad \in SUBSET Nat OBVIOUS
    <3> HIDE DEF Bad
    <3> QED BY <3>1, Least
  <2>2. PICK u \in Seq(Command) : Len(u) = m /\ Plain(u) /\ OnlyReports(u) # <<>> BY <2>1
  <2>3. u # <<>> BY <2>2, ReportsEmpty
  <2>4. PICK v \in Seq(Command), c \in Command : u = Append(v, c)
    BY <2>3, SequenceEmptyOrAppend
  <2>5. /\ Len(u) = Len(v) + 1 /\ Len(v) \in Nat
        /\ \A i \in 1..Len(v) : u[i] = v[i]
        /\ u[Len(v) + 1] = c
    BY <2>4, AppendProperties, LenProperties
  <2>6. ~(m =< Len(v)) BY <2>2, <2>5
  <2>7. Plain(v)
    <3>1. \A i \in 1..Len(v) : i \in 1..Len(u) BY <2>5
    <3> QED BY <2>2, <2>5, <3>1
  <2>8. ~IsReport(c)
    <3>1. Len(v) + 1 \in 1..Len(u) BY <2>5
    <3> QED BY <2>2, <2>5, <3>1
  <2> HIDE DEF Plain
  <2>9. OnlyReports(v) = <<>> BY <2>1, <2>5, <2>6, <2>7
  <2>10. OnlyReports(u) = <<>> \o <<>> BY <2>4, <2>8, <2>9, ReportsAppend DEF One
  <2>11. <<>> \in Seq(Command) BY EmptySeq
  <2>12. <<>> \o <<>> = <<>> BY <2>11, ConcatEmptySeq
  <2> QED BY <2>2, <2>10, <2>12
<1>2. Len(q) \in Nat BY LenProperties
<1> QED BY <1>1, <1>2

LEMMA ReportsAlone == \A c \in Command : OnlyReports(<<c>>) = One(c)
<1> SUFFICES ASSUME NEW c \in Command PROVE OnlyReports(<<c>>) = One(c) OBVIOUS
<1>1. <<>> \in Seq(Command) /\ One(c) \in Seq(Command) BY EmptySeq DEF One
<1>2. OnlyReports(Append(<<>>, c)) = <<>> \o One(c) BY <1>1, ReportsAppend, ReportsEmpty
<1>3. <<>> \o One(c) = One(c) BY <1>1, ConcatEmptySeq
<1>4. Append(<<>>, c) = <<c>> OBVIOUS
<1> QED BY <1>2, <1>3, <1>4

LEMMA HeadAndTail ==
    ASSUME NEW S, NEW q \in Seq(S), q # <<>>
    PROVE  q = <<Head(q)>> \o Tail(q)
<1>1. Head(q) \in S /\ Tail(q) \in Seq(S) /\ Len(Tail(q)) = Len(q) - 1
      /\ \A i \in 1..Len(Tail(q)) : Tail(q)[i] = q[i + 1]
  BY HeadTailProperties
<1>2. Len(q) \in Nat /\ Len(q) # 0 BY EmptySeq, LenProperties
<1> DEFINE h == <<Head(q)>>
           r == h \o Tail(q)
<1>3. h \in Seq(S) /\ Len(h) = 1 /\ h[1] = Head(q) BY <1>1
<1>4. Head(q) = q[1] OBVIOUS
<1> HIDE DEF h
<1>5. /\ r \in Seq(S) /\ Len(r) = Len(h) + Len(Tail(q))
      /\ \A i \in 1..Len(h) + Len(Tail(q)) :
             r[i] = IF i <= Len(h) THEN h[i] ELSE Tail(q)[i - Len(h)]
  BY <1>1, <1>3, ConcatProperties
<1> HIDE DEF r
<1>6. Len(r) = Len(q) BY <1>1, <1>2, <1>3, <1>5
<1>7. ASSUME NEW i \in 1..Len(q) PROVE r[i] = q[i]
  <2>1. r[i] = IF i <= 1 THEN h[i] ELSE Tail(q)[i - 1] BY <1>3, <1>5, <1>6, <1>7
  <2>2. CASE i = 1 BY <1>3, <1>4, <2>1, <2>2
  <2>3. CASE i # 1
    <3>1. i - 1 \in 1..Len(Tail(q)) /\ ~(i <= 1) /\ (i - 1) + 1 = i BY <1>1, <1>2, <2>3
    <3>2. Tail(q)[i - 1] = q[(i - 1) + 1] BY <1>1, <3>1
    <3> QED BY <2>1, <3>1, <3>2
  <2> QED BY <2>2, <2>3
<1>8. r = q BY <1>5, <1>6, <1>7, SeqEqual
<1> QED BY <1>8 DEF r, h

LEMMA ReportsHead ==
    ASSUME NEW q \in Seq(Command), q # <<>>
    PROVE  OnlyReports(q) = One(Head(q)) \o OnlyReports(Tail(q))
<1>1. Head(q) \in Command /\ Tail(q) \in Seq(Command) BY HeadTailProperties
<1>2. <<Head(q)>> \in Seq(Command) BY <1>1
<1>3. q = <<Head(q)>> \o Tail(q) BY HeadAndTail
<1>4. OnlyReports(<<Head(q)>> \o Tail(q)) = OnlyReports(<<Head(q)>>) \o OnlyReports(Tail(q))
  BY <1>1, <1>2, ReportsConcat
<1> QED BY <1>1, <1>3, <1>4, ReportsAlone

(* What the steps of the queues do to the reports on their way.            *)
LEMMA ReportsMove ==
    ASSUME NEW e \in Seq(Command), NEW q \in Seq(Command)
    PROVE  /\ \A c \in Command :
                 /\ OnlyReports(e \o Append(q, c)) = OnlyReports(e \o q) \o One(c)
                 /\ ~IsReport(c) => OnlyReports(Append(e, c) \o q) = OnlyReports(e \o q)
           /\ e # <<>> =>
                 OnlyReports(e \o q) = One(Head(e)) \o OnlyReports(Tail(e) \o q)
           /\ q # <<>> =>
                 /\ OnlyReports(Append(e, Head(q)) \o Tail(q)) = OnlyReports(e \o q)
                 /\ OnlyReports(e) = <<>> =>
                        OnlyReports(e \o q) = One(Head(q)) \o OnlyReports(e \o Tail(q))
<1> DEFINE R(s) == OnlyReports(s)
<1>1. R(e) \in Seq(Command) /\ R(q) \in Seq(Command) BY ReportsTypes
<1>2. R(e \o q) = R(e) \o R(q) BY ReportsConcat
<1>3. \A a, b, d \in Seq(Command) : (a \o b) \o d = a \o (b \o d) BY ConcatAssociative
<1>4. \A a \in Seq(Command) : <<>> \o a = a /\ a \o <<>> = a BY ConcatEmptySeq
<1>5. \A c \in Command : One(c) \in Seq(Command) BY DEF One
<1> HIDE DEF R
<1>6. ASSUME NEW c \in Command
      PROVE  OnlyReports(e \o Append(q, c)) = OnlyReports(e \o q) \o One(c)
  <2>1. Append(q, c) \in Seq(Command) BY AppendProperties
  <2>2. R(e \o Append(q, c)) = R(e) \o R(Append(q, c)) BY <2>1, ReportsConcat DEF R
  <2>3. R(Append(q, c)) = R(q) \o One(c) BY ReportsAppend DEF R
  <2>4. R(e) \o (R(q) \o One(c)) = (R(e) \o R(q)) \o One(c)
    <3>1. One(c) \in Seq(Command) BY <1>5
    <3> QED BY <1>1, <1>3, <3>1, ZenonT(60)
  <2>5. R(e \o Append(q, c)) = R(e \o q) \o One(c) BY <1>2, <2>2, <2>3, <2>4
  <2> QED BY <2>5 DEF R
<1>7. ASSUME NEW c \in Command, ~IsReport(c)
      PROVE  OnlyReports(Append(e, c) \o q) = OnlyReports(e \o q)
  <2>1. Append(e, c) \in Seq(Command) BY AppendProperties
  <2>2. R(Append(e, c) \o q) = R(Append(e, c)) \o R(q) BY <2>1, ReportsConcat DEF R
  <2>3. R(Append(e, c)) = R(e) \o One(c) BY ReportsAppend DEF R
  <2>4. One(c) = <<>> BY <1>7 DEF One
  <2>5. R(Append(e, c)) = R(e) BY <1>1, <1>4, <2>3, <2>4
  <2> QED BY <1>2, <2>2, <2>5 DEF R
<1>8. ASSUME e # <<>> PROVE OnlyReports(e \o q) = One(Head(e)) \o OnlyReports(Tail(e) \o q)
  <2>1. Head(e) \in Command /\ Tail(e) \in Seq(Command) BY <1>8, HeadTailProperties
  <2>2. R(e) = One(Head(e)) \o R(Tail(e)) BY <1>8, ReportsHead DEF R
  <2>3. R(Tail(e) \o q) = R(Tail(e)) \o R(q) BY <2>1, ReportsConcat DEF R
  <2>4. R(Tail(e)) \in Seq(Command) BY <2>1, ReportsTypes DEF R
  <2>5. One(Head(e)) \in Seq(Command) BY <1>5, <2>1
  <2>6. (One(Head(e)) \o R(Tail(e))) \o R(q) = One(Head(e)) \o (R(Tail(e)) \o R(q))
    BY <1>1, <1>3, <2>4, <2>5, ZenonT(60)
  <2>7. R(e \o q) = One(Head(e)) \o R(Tail(e) \o q) BY <1>2, <2>2, <2>3, <2>6
  <2> QED BY <2>7 DEF R
<1>9. ASSUME q # <<>>
      PROVE  /\ OnlyReports(Append(e, Head(q)) \o Tail(q)) = OnlyReports(e \o q)
             /\ OnlyReports(e) = <<>> =>
                    OnlyReports(e \o q) = One(Head(q)) \o OnlyReports(e \o Tail(q))
  <2> DEFINE h == Head(q)
             t == Tail(q)
  <2>1. h \in Command /\ t \in Seq(Command) BY <1>9, HeadTailProperties
  <2>2. R(q) = One(h) \o R(t) BY <1>9, ReportsHead DEF R
  <2> HIDE DEF h, t
  <2>3. Append(e, h) \in Seq(Command) BY <2>1, AppendProperties
  <2>4. R(Append(e, h) \o t) = R(Append(e, h)) \o R(t) BY <2>1, <2>3, ReportsConcat DEF R
  <2>5. R(Append(e, h)) = R(e) \o One(h) BY <2>1, ReportsAppend DEF R
  <2>6. R(t) \in Seq(Command) /\ One(h) \in Seq(Command) BY <1>5, <2>1, ReportsTypes DEF R
  <2>7. (R(e) \o One(h)) \o R(t) = R(e) \o (One(h) \o R(t)) BY <1>1, <1>3, <2>6, ZenonT(60)
  <2>8. R(Append(e, h) \o t) = R(e \o q) BY <1>2, <2>2, <2>4, <2>5, <2>7
  <2>9. ASSUME R(e) = <<>> PROVE R(e \o q) = One(h) \o R(e \o t)
    <3>1. R(e \o t) = R(e) \o R(t) BY <2>1, ReportsConcat DEF R
    <3>2. R(e \o t) = R(t) BY <1>4, <2>6, <2>9, <3>1
    <3>3. R(e \o q) = R(q) BY <1>1, <1>2, <1>4, <2>9
    <3> QED BY <2>2, <3>2, <3>3
  <2> QED BY <2>8, <2>9 DEF R, h, t
<1> QED BY <1>6, <1>7, <1>8, <1>9

(* The steps of the channel, in the state of the daemon.                   *)
Channelled == [Reports!Next]_(Reports!vars)
Reported == OnlyReports(events \o commands)

LEMMA Unheard ==
    ASSUME Receiving' = Receiving,
           Receiving => (rcv'.active = rcv.active) /\ contacts' = contacts
                        /\ Reported' = Reported
    PROVE  Channelled
BY DEF Channelled, Reports!vars, Reported

LEMMA Broken ==
    ASSUME ~Receiving'
    PROVE  Channelled
<1>1. CASE Receiving BY <1>1 DEF Channelled, Reports!Next, Reports!Break
<1>2. CASE ~Receiving
  <2>1. /\ Receiving' = Receiving
        /\ (Receiving /\ rcv.active)' = (Receiving /\ rcv.active)
    BY <1>2 DEF Receiving, Live
  <2> QED BY <1>2, <2>1 DEF Channelled, Reports!vars
<1> QED BY <1>1, <1>2

LEMMA Opened ==
    ASSUME ~Receiving, Idle'
    PROVE  Channelled
<1>1. /\ ~rcv'.active /\ contacts' = {} /\ events' = <<>> /\ commands' = <<>>
  BY DEF Idle, NoReceiver
<1>2. <<>> \in Seq(Command) /\ <<>> \o <<>> = <<>> OBVIOUS
<1>3. Reported' = <<>> BY <1>1, <1>2, ReportsEmpty DEF Reported
<1>4. CASE Receiving'
  BY <1>1, <1>3, <1>4 DEF Channelled, Reports!Next, Reports!Open, Reported
<1> QED BY <1>4, Broken

LEMMA Heard ==
    ASSUME Receiving, Receiving', ~rcv.active, rcv'.active, contacts' = contacts,
           Reported' = Reported
    PROVE  Channelled
BY DEF Channelled, Reports!Next, Reports!Record, Reported

LEMMA Accepting ==
    ASSUME SessionTypeOK, Receiving' = Receiving, NEW c \in Command, Push(c),
           UNCHANGED <<rcv, events, contacts>>
    PROVE  Channelled
<1>1. events \in Seq(Command) /\ commands \in Seq(Command) BY DEF SessionTypeOK
<1>2. Reported' = Reported \o One(c) BY <1>1, ReportsMove DEF Push, Reported
<1>3. Reported \in Seq(Command) BY <1>1, ConcatProperties, ReportsTypes DEF Reported
<1>4. CASE ~Receiving BY <1>4, Broken
<1>5. CASE Receiving /\ IsReport(c)
  <2>1. Reported' = Append(Reported, c) BY <1>2, <1>3, <1>5, AppendIsConcat DEF One
  <2>2. Reports!Accept(c) BY <1>5, <2>1 DEF Reports!Accept, Reported
  <2>3. c \in {d \in Command : IsReport(d)} BY <1>5
  <2> QED BY <2>2, <2>3 DEF Channelled, Reports!Next
<1>6. CASE ~IsReport(c)
  <2>1. Reported' = Reported BY <1>2, <1>3, <1>6, ConcatEmptySeq DEF One
  <2> QED BY <2>1, Unheard
<1> QED BY <1>4, <1>5, <1>6

LEMMA Gone ==
    ASSUME NEW c \in Command, NEW s \in Seq(Command)
    PROVE  LET p == One(c) \o s IN
           /\ IsReport(c) => p # <<>> /\ Head(p) = c /\ Tail(p) = s
           /\ ~IsReport(c) => p = s
<1>1. CASE IsReport(c)
  <2>1. <<c>> \o s # <<>> /\ Head(<<c>> \o s) = c /\ Tail(<<c>> \o s) = s OBVIOUS
  <2> QED BY <1>1, <2>1 DEF One
<1>2. CASE ~IsReport(c) BY <1>2, ConcatEmptySeq DEF One
<1> QED BY <1>1, <1>2

LEMMA ForwardReports ==
    ASSUME SessionTypeOK, Touching, Forward
    PROVE  Channelled
<1> DEFINE h == Head(commands)
           t == Tail(commands)
<1>1. /\ events \in Seq(Command) /\ commands \in Seq(Command) /\ commands # <<>>
      /\ Receiving /\ commands' = t
      /\ UNCHANGED <<ses, contacts>>
  BY DEF SessionTypeOK, Forward, Inner
<1>2. h \in Command /\ t \in Seq(Command) BY <1>1, HeadTailProperties
<1>3. CASE ReceiverEnds
  <2>1. ~Receiving' BY <1>3 DEF ReceiverEnds, Receiving, SessionTypeOK, ReceiverState
  <2> QED BY <2>1, Broken
<1>4. CASE rcv.active /\ events' = Append(events, h) /\ UNCHANGED rcv
  <2>1. Reported' = Reported BY <1>1, <1>4, ReportsMove DEF Reported
  <2>2. Receiving' = Receiving BY <1>1, <1>4 DEF Receiving, Live
  <2> QED BY <1>1, <1>4, <2>1, <2>2, Unheard
<1>5. CASE h.kind = "policy" /\ rcv.active /\ UNCHANGED <<events, rcv>>
  <2>1. ~IsReport(h) BY <1>5 DEF IsReport
  <2>2. Reported' = Reported
    <3>1. Reported = OnlyReports(Append(events, h) \o t) BY <1>1, ReportsMove DEF Reported
    <3>2. OnlyReports(Append(events, h) \o t) = OnlyReports(events \o t)
      BY <1>1, <1>2, <2>1, ReportsMove
    <3> QED BY <1>1, <1>5, <3>1, <3>2 DEF Reported
  <2>3. Receiving' = Receiving BY <1>1, <1>5 DEF Receiving, Live
  <2> QED BY <1>1, <1>5, <2>2, <2>3, Unheard
<1>6. CASE ~rcv.active /\ UNCHANGED <<events, rcv>>
  <2>1. OnlyReports(events) = <<>>
    <3>1. \A i \in 1..Len(events) : ~IsReport(events[i])
      BY <1>1, <1>6 DEF Touching, NothingSent, IsReport
    <3> QED BY <1>1, <3>1, ReportsNone
  <2>2. Reported = One(h) \o Reported'
    BY <1>1, <1>6, <2>1, ReportsMove DEF Reported
  <2>3. Reported' \in Seq(Command)
    BY <1>1, <1>2, <1>6, ConcatProperties, ReportsTypes DEF Reported
  <2>4. Receiving' = Receiving BY <1>1, <1>6 DEF Receiving, Live
  <2> HIDE DEF h, t
  <2>5. CASE IsReport(h)
    <3>1. Reported # <<>> /\ Reported' = Tail(Reported) BY <1>2, <2>2, <2>3, <2>5, Gone
    <3>2. Reports!Discard BY <1>1, <1>6, <2>4, <3>1 DEF Reports!Discard, Reported
    <3> QED BY <3>2 DEF Channelled, Reports!Next
  <2>6. CASE ~IsReport(h)
    <3>1. Reported' = Reported BY <1>2, <2>2, <2>3, <2>6, Gone
    <3> QED BY <1>1, <1>6, <2>4, <3>1, Unheard
  <2> QED BY <2>5, <2>6
<1> QED BY <1>3, <1>4, <1>5, <1>6 DEF Forward

LEMMA SendEventReports ==
    ASSUME SessionTypeOK, Touching, SendEvent
    PROVE  Channelled
<1> DEFINE h == Head(events)
           t == Tail(events)
<1>1. /\ events \in Seq(Command) /\ commands \in Seq(Command) /\ events # <<>>
      /\ Receiving /\ events' = t /\ contacts' = Pressed(contacts, h)
      /\ UNCHANGED <<ses, rcv, commands>>
  BY DEF SessionTypeOK, SendEvent, Setup, Inner
<1>2. h \in Command /\ t \in Seq(Command) BY <1>1, HeadTailProperties
<1>3. Reported = One(h) \o Reported' BY <1>1, ReportsMove DEF Reported
<1>4. Reported' \in Seq(Command) BY <1>1, <1>2, ConcatProperties, ReportsTypes DEF Reported
<1>5. Receiving' = Receiving BY <1>1 DEF Receiving, Live
<1>6. IsReport(h) => rcv.active
  <2>1. Len(events) \in Nat /\ Len(events) # 0 /\ h = events[1]
    BY <1>1, EmptySeq, LenProperties
  <2>2. 1 \in 1..Len(events) BY <2>1
  <2> QED BY <1>1, <2>1, <2>2 DEF Touching, NothingSent, IsReport
<1> HIDE DEF h, t
<1>7. CASE IsReport(h)
  <2>1. Reported # <<>> /\ Head(Reported) = h /\ Reported' = Tail(Reported)
    BY <1>2, <1>3, <1>4, <1>7, Gone
  <2>2. Reports!Deliver BY <1>1, <1>5, <1>6, <1>7, <2>1 DEF Reports!Deliver, Reported
  <2> QED BY <2>2 DEF Channelled, Reports!Next
<1>8. CASE ~IsReport(h)
  <2>1. Reported' = Reported BY <1>2, <1>3, <1>4, <1>8, Gone
  <2>2. contacts' = contacts BY <1>1, <1>8 DEF Pressed, IsReport
  <2> QED BY <1>1, <1>5, <2>1, <2>2, Unheard
<1> QED BY <1>7, <1>8

LEMMA ControlReports ==
    ASSUME SessionTypeOK, Control
    PROVE  Channelled
<1>1. /\ events \in Seq(Command) /\ commands \in Seq(Command)
      /\ pre.pointers \in [Pointers -> Slots \cup {Unheld}]
  BY DEF SessionTypeOK, Presentation
<1>2. UNCHANGED <<ses, rcv, events, contacts>> /\ Receiving' = Receiving
  BY DEF Control, Activate, Show, Hide, CancelTouch, Policy, Disconnect, Down, Move, Up,
     Request, Receiving, Live
<1>3. CASE UNCHANGED commands BY <1>2, <1>3, Unheard DEF Reported
<1>4. ASSUME NEW c \in Command, Push(c) PROVE Channelled BY <1>2, <1>4, Accepting
<1>5. ASSUME NEW c \in Command, NEW after, terminal_command(c, after) PROVE Channelled
  BY <1>3, <1>4, <1>5 DEF terminal_command
<1>6. CASE Activate
  <2> DEFINE asked == IF HasAudio /\ rcv.stage \notin Unconnected THEN 2 ELSE 1
             more == [i \in 1..asked |-> Simple("event")]
  <2>1. asked \in {1, 2} /\ Room(asked) /\ commands' = commands \o more
    BY <1>6 DEF Activate
  <2> HIDE DEF asked
  <2>2. more \in [1..asked -> Command] BY CommandValues
  <2>3. more \in Seq(Command) BY <2>1, <2>2, SeqDef
  <2>4. \A i \in 1..Len(more) : ~IsReport(more[i])
    <3>1. DOMAIN more = 1..asked /\ DOMAIN more = 1..Len(more) BY <2>3, LenProperties
    <3>2. \A i \in 1..asked : more[i] = Simple("event") OBVIOUS
    <3>3. ~IsReport(Simple("event")) BY DEF IsReport, Simple
    <3> HIDE DEF more
    <3> QED BY <3>1, <3>2, <3>3
  <2> HIDE DEF more
  <2>5. OnlyReports(more) = <<>> BY <2>3, <2>4, ReportsNone
  <2> DEFINE w == events \o commands
  <2>6. w \in Seq(Command) BY <1>1, ConcatProperties
  <2>7. events \o commands' = w \o more
    <3>1. \A a, b, d \in Seq(Command) : (a \o b) \o d = a \o (b \o d) BY ConcatAssociative
    <3> QED BY <1>1, <2>1, <2>3, <3>1
  <2>8. Reported = OnlyReports(w) /\ Reported' = OnlyReports(w \o more)
    BY <1>2, <2>7 DEF Reported
  <2> HIDE DEF w
  <2>9. OnlyReports(w) \in Seq(Command) BY <2>6, ReportsTypes
  <2>10. OnlyReports(w \o more) = OnlyReports(w) \o <<>> BY <2>3, <2>5, <2>6, ReportsConcat
  <2>11. OnlyReports(w) \o <<>> = OnlyReports(w) BY <2>9, ConcatEmptySeq
  <2> QED BY <1>2, <2>8, <2>10, <2>11, Unheard
<1>7. CASE Show \/ Policy BY <1>3, <1>4, <1>7, CommandValues DEF Show, Policy
<1>8. CASE Hide \/ CancelTouch BY <1>5, <1>8, CommandValues DEF Hide, CancelTouch
<1>9. CASE Disconnect BY <1>3, <1>4, <1>9, CommandValues DEF Disconnect, Push
<1>10. ASSUME NEW p \in Pointers, Down(p) PROVE Channelled
  <2> DEFINE low == CHOOSE s \in FreeSlots : \A t \in FreeSlots : s =< t
  <2>1. Push(Touch(low, TRUE)) BY <1>10 DEF Down
  <2>2. low \in Slots
    <3>1. low \in FreeSlots BY <1>10, LowestFree DEF Down
    <3> QED BY <3>1 DEF FreeSlots
  <2> HIDE DEF low
  <2> QED BY <1>4, <2>1, <2>2, CommandValues
<1>11. ASSUME NEW p \in Pointers, Move(p) \/ Up(p) PROVE Channelled
  <2>1. pre.pointers[p] \in Slots BY <1>1, <1>11 DEF Move, Up, Held
  <2>2. \A b \in BOOLEAN : Touch(pre.pointers[p], b) \in Command BY <2>1, CommandValues
  <2> QED BY <1>4, <1>5, <1>11, <2>2 DEF Move, Up
<1> QED BY <1>6, <1>7, <1>8, <1>9, <1>10, <1>11 DEF Control

LEMMA SameReports ==
    ASSUME UNCHANGED <<commands, rcv, events, contacts>>, Live' = Live
    PROVE  Channelled
<1>1. Receiving' = Receiving /\ Reported' = Reported BY DEF Receiving, Reported, Live
<1> QED BY <1>1, Unheard

LEMMA SessionReports ==
    ASSUME SessionTypeOK, Touching, IdleOutside, SessionStep
    PROVE  Channelled
<1> USE DEF Live
<1>1. CASE SettingUp
  <2>1. UNCHANGED innerVars BY <1>1, SettingUpTypes DEF SessionTypeOK
  <2>2. CASE ses.at \in {"live", "join"}
    <3>1. ses' = ses
      BY <1>1, <2>2 DEF SettingUp, At, Claim, Prepare, Selected, PrepareEnds, Adding,
         BridgeUp, TapOpened, Addressed, Unbridged, StartMux, OpenCarkit, CloseBridge, Reaped
    <3> QED BY <2>1, <3>1, SameReports DEF innerVars
  <2>3. CASE ses.at \notin {"live", "join"}
    <3>1. Idle' BY <2>1, <2>3 DEF IdleOutside, Idle, innerVars
    <3> QED BY <2>3, <3>1, Opened DEF Receiving
  <2> QED BY <2>2, <2>3
<1>2. CASE Leave
  <2>1. ses'.at = "join" BY <1>2 DEF Leave, SessionTypeOK, SessionState
  <2> QED BY <2>1, Broken DEF Receiving
<1>3. CASE Join
  <2>1. ~Receiving BY <1>3 DEF Join, At, Receiving
  <2>2. Idle' BY <1>3 DEF Join, Reset, Idle
  <2> QED BY <2>1, <2>2, Opened
<1>4. CASE Control BY <1>4, ControlReports
<1>5. CASE Forward BY <1>5, ForwardReports
<1>6. CASE SendEvent BY <1>6, SendEventReports
<1>7. CASE Advancing
  <2>1. /\ Receiving /\ UNCHANGED <<ses, commands, events, contacts>>
        /\ rcv.active => rcv'.active
        /\ rcv'.ended = rcv.ended
    BY <1>7, AdvancingTypes DEF Inner
  <2>2. rcv.active \in BOOLEAN /\ rcv'.active \in BOOLEAN
    BY <1>7, AdvancingTypes DEF SessionTypeOK, ReceiverState
  <2>3. Receiving' = Receiving /\ Reported' = Reported BY <2>1 DEF Receiving, Reported
  <2>4. CASE rcv'.active = rcv.active BY <2>1, <2>3, <2>4, Unheard
  <2>5. CASE ~rcv.active /\ rcv'.active BY <2>1, <2>3, <2>5, Heard
  <2> QED BY <2>1, <2>2, <2>4, <2>5
<1>8. ASSUME ReceiverEnds PROVE Channelled
  <2>1. ~Receiving' BY <1>8 DEF ReceiverEnds, Receiving, SessionTypeOK, ReceiverState
  <2> QED BY <2>1, Broken
<1>9. CASE ReceiverFails BY <1>8, <1>9 DEF ReceiverFails
<1>10. CASE Configure BY <1>10, SameReports DEF Configure, Inner
<1>11. ASSUME NEW key \in BOOLEAN, Publish(key) PROVE Channelled
  <2>1. Inner /\ UNCHANGED <<commands, contacts>> BY <1>11 DEF Publish
  <2>2. \/ UNCHANGED <<events, rcv>> \/ ReceiverEnds
        \/ events' = Append(events, Simple("event")) /\ UNCHANGED rcv
    BY <1>11 DEF Publish, AskKeyframe
  <2>3. CASE UNCHANGED <<events, rcv>> BY <2>1, <2>3, SameReports DEF Inner
  <2>4. CASE ReceiverEnds BY <1>8, <2>4
  <2>5. CASE events' = Append(events, Simple("event")) /\ UNCHANGED rcv
    <3>1. ~IsReport(Simple("event")) /\ Simple("event") \in Command
      BY CommandValues DEF IsReport, Simple
    <3>2. events \in Seq(Command) /\ commands \in Seq(Command) BY DEF SessionTypeOK
    <3>3. Reported' = Reported BY <2>1, <2>5, <3>1, <3>2, ReportsMove DEF Reported
    <3>4. Receiving' = Receiving BY <2>1, <2>5 DEF Inner, Receiving
    <3> QED BY <2>1, <2>5, <3>3, <3>4, Unheard
  <2> QED BY <2>2, <2>3, <2>4, <2>5
<1>12. CASE View BY <1>12, ViewTypes, SameReports DEF Inner
<1> QED BY <1>1, <1>2, <1>3, <1>4, <1>5, <1>6, <1>7, <1>9, <1>10, <1>11, <1>12, SessionSteps
    DEF Publishing

LEMMA NextReports ==
    ASSUME IInv, Next
    PROVE  Channelled
<1> USE DEF IInv, Typed
<1>1. ASSUME UNCHANGED sessionVars PROVE Channelled
  BY <1>1, SameReports DEF sessionVars, innerVars, Live
<1>2. CASE \/ \E kind \in Kinds : BeginRequest(kind)
           \/ FinishRequest \/ RefuseRequest
  BY <1>1, <1>2 DEF BeginRequest, FinishRequest, RefuseRequest
<1>3. CASE Deciding BY <1>1, <1>3, DecidingTypes
<1>4. CASE Start \/ SessionWait \/ Judge
  <2>1. CASE Dropped
    <3>1. ses'.at = "none" BY <2>1 DEF Dropped, NoSession
    <3> QED BY <3>1, Broken DEF Receiving, Live
  <2>2. CASE Start \/ Judge
    <3>1. ses.at \in {"none", "done"} /\ UNCHANGED innerVars
      BY <2>2 DEF Start, Judge, Stays, Cover, OwnedBySupervisor, Sessions, Sup
    <3>2. Idle' BY <3>1 DEF Cover, IdleOutside, Idle, innerVars
    <3> QED BY <3>1, <3>2, Opened DEF Receiving, Live
  <2>3. CASE SessionWait /\ ~Dropped
    <3>1. UNCHANGED innerVars /\ ses'.at = ses.at
      BY <2>3 DEF SessionWait, Stays, Stops, TypeOK, SessionTypeOK, SessionState
    <3> QED BY <3>1, SameReports DEF innerVars, Live
  <2> QED BY <1>4, <2>1, <2>2, <2>3
<1>5. CASE Main \/ Fault BY <1>1, <1>5, MainTypes
<1>6. CASE Session BY <1>6, SessionReports DEF Session, TypeOK, Cover
<1> QED BY <1>2, <1>3, <1>4, <1>5, <1>6, DaemonSteps DEF DaemonStep

(* The two queues, the receiver and the event channel implement the one    *)
(* channel of ReportChannel: every report the control socket accepted      *)
(* takes effect at the phone once and in order, none is lost after RECORD, *)
(* unless the receiver ends; for every length of both queues               *)
(* (runtime_control.rs, receiver.rs).                                      *)
THEOREM ReportsArrive == Spec => ReportsDelivered
<1>1. IInv /\ [Next]_vars => [Reports!Next]_(Reports!vars)
  <2> SUFFICES ASSUME IInv, [Next]_vars PROVE Channelled BY DEF Channelled
  <2>1. CASE Next BY <2>1, NextReports
  <2>2. CASE UNCHANGED vars
    BY <2>2, SameReports DEF vars, sessionVars, innerVars, Live
  <2> QED BY <2>1, <2>2
<1> QED BY <1>1, ReportsInit, CarPlayInvariance, PTL DEF Spec, ReportsDelivered, Reports!Spec
=============================================================================
