----------------------------- MODULE AaSession ------------------------------
(***************************************************************************)
(* The Android Auto session engine of argo-projectiond: the service        *)
(* channels (aa_channels.rs Channels::handle), the session loop            *)
(* (aa_session.rs run_engine) that turns their effects into native media   *)
(* and into the published snapshot, the host's command broadcast           *)
(* (host_control.rs), the receive watchdog (liveness.rs), the readiness    *)
(* latch (readiness.rs) and the acknowledged entertainment gate.           *)
(*                                                                         *)
(* The phone is external and may send any message at any time.  A message  *)
(* is handled in one step; a failed write ends the session at any moment.  *)
(* TLS records, framing, metadata, touch, sensors and the microphone are   *)
(* left out, and a malformed message of any kind is BadMessage.            *)
(***************************************************************************)
EXTENDS Naturals, Sequences, FiniteSets

CONSTANTS Transports,      \* transports in use, among wired and wireless
          Audio,           \* audio channels in use, among 4, 5 and 6
          CommandCapacity, \* broadcast::channel(64) in the code
          MaxPending,      \* MAX_PENDING = 8 pings in the code
          MaxCommands,     \* bound on host commands
          MaxReturns,      \* bound on explicit phone exits
          MaxSessions,     \* bound on sessions
          MaxGates         \* bound on gate requests, where music is external

ASSUME AaAssumption ==
    /\ Transports \subseteq {"wired", "wireless"}
    /\ Audio \subseteq {4, 5, 6} /\ 4 \in Audio
    /\ CommandCapacity \in Nat \ {0}
    /\ MaxPending \in Nat \ {0}
    /\ MaxCommands \in Nat /\ MaxReturns \in Nat /\ MaxSessions \in Nat
    /\ MaxGates \in Nat

VARIABLES
    pc,      \* where the session task is
    ch,      \* Channels
    eng,     \* transport, awaiting_video, streaming, media_gain, failed
    live,    \* Liveness and Readiness, time abstracted to "stale"
    audio,   \* SessionMedia.audio: the gain of each open playback
    cmds,    \* the broadcast receiver of the loop
    gate,    \* entertainment (generation, audible), the receiver, the ack
    pub,     \* the session part of ProjectionRuntimeSnapshot
    phone,   \* has the phone gone silent?
    used,    \* sessions begun and commands sent so far
    aux      \* history: the last host activation and what followed it

aaVars == <<pc, ch, eng, live, audio, cmds, gate, pub, phone, used, aux>>

Video   == 3
Streams == {Video} \cup Audio
Sound   == {"none", "silent", "audible"}

(* Activate and Visibility(true), Visibility(false), Disconnect, and Gain  *)
(* (zero or not) of a stream.                                              *)
Commands == [k : {"show", "hide", "disconnect"}, c : {0}, v : {FALSE}]
            \cup [k : {"gain"}, c : Audio, v : BOOLEAN]

NoChannels == [discovered |-> FALSE, open |-> {}, setup |-> {},
               started |-> {}, requested |-> TRUE]
NoEngine   == [awaiting |-> FALSE, streaming |-> FALSE, gain |-> TRUE,
               failed |-> FALSE, transport |-> "none"]
NoLiveness == [established |-> FALSE, stale |-> FALSE, ping |-> FALSE,
               pending |-> 0]
NoAudio    == [c \in Audio |-> "none"]
NoCommands == [queue |-> <<>>, lagged |-> FALSE]
NoSession  == [st |-> "none", video |-> "none", audio |-> {}, rev |-> 0,
               ret |-> 0]
NoHistory  == [asked |-> FALSE, fresh |-> TRUE, since |-> 0]

Discovery == [discovered : BOOLEAN, open : SUBSET Streams, setup : SUBSET Streams,
              started : SUBSET Streams, requested : BOOLEAN]
Activity  == [established : BOOLEAN, stale : BOOLEAN, ping : BOOLEAN,
              pending : 0 .. MaxPending]
Receiver  == [queue : Seq(Commands), lagged : BOOLEAN]
Gate      == [gen : Nat, audible : BOOLEAN, seen : Nat, ack : Nat]
EngineState ==
    [awaiting : BOOLEAN, streaming : BOOLEAN, gain : BOOLEAN, failed : BOOLEAN,
     transport : Transports \cup {"none"}]
Published ==
    [st : {"none", "connecting", "streaming", "suspended", "failed"},
     video : {"none", "hidden", "visible"}, audio : SUBSET Audio, rev : Nat,
     ret : 0 .. MaxReturns]

(* Every variable of the session keeps its type, and the receiver never    *)
(* holds more commands than the broadcast channel.                         *)
AaTypeOK ==
    /\ pc \in {"none", "tls", "loop", "closing"}
    /\ ch \in Discovery
    /\ eng \in EngineState
    /\ live \in Activity
    /\ audio \in [Audio -> Sound]
    /\ cmds \in Receiver /\ Len(cmds.queue) <= CommandCapacity
    /\ gate \in Gate
    /\ pub \in Published
    /\ phone \in {"alive", "silent"}
    /\ used \in [sessions : 0 .. MaxSessions, commands : 0 .. MaxCommands]
    /\ aux \in [asked : BOOLEAN, fresh : BOOLEAN, since : Nat]

AaInit ==
    /\ pc = "none" /\ ch = NoChannels /\ eng = NoEngine
    /\ live = NoLiveness /\ audio = NoAudio /\ cmds = NoCommands
    /\ gate = [gen |-> 0, audible |-> TRUE, seen |-> 0, ack |-> 0]
    /\ pub = NoSession
    /\ phone = "alive"
    /\ used = [sessions |-> 0, commands |-> 0]
    /\ aux = NoHistory

-----------------------------------------------------------------------------
(* transport.wireless()                                                    *)
Wireless == eng.transport = "wireless"

(* The owner of the session (usb_runtime.rs, wireless.rs).                 *)

BeginSession(t) ==
    /\ pc = "none" /\ used.sessions < MaxSessions
    /\ pc' = "tls"
    /\ used' = [used EXCEPT !.sessions = @ + 1]
    /\ pub' = [NoSession EXCEPT !.st = "connecting"]
    /\ phone' = "alive"
    /\ eng' = [NoEngine EXCEPT !.transport = t]
    /\ UNCHANGED <<ch, live, audio, cmds, gate, aux>>

(* The engine returns; what the session published stays until it closes.   *)
EndSession(failed) ==
    /\ pc' = "closing"
    /\ eng' = [eng EXCEPT !.failed = failed]
    /\ cmds' = NoCommands
    /\ UNCHANGED <<ch, live, audio, gate, pub, phone, used, aux>>

(* publish_failure, before or after the media is closed.                   *)
PublishFailure ==
    /\ pc = "closing" /\ eng.failed /\ pub.st # "failed"
    /\ pub' = [pub EXCEPT !.st = "failed", !.video = "none", !.audio = {}]
    /\ UNCHANGED <<pc, ch, eng, live, audio, cmds, gate, phone, used, aux>>

(* SessionMedia::close, then the snapshot: a failed wired session stays    *)
(* published as failed until the phone leaves.                             *)
CloseSession ==
    /\ pc = "closing"
    /\ pc' = "none"
    /\ ch' = NoChannels /\ eng' = NoEngine /\ live' = NoLiveness
    /\ audio' = NoAudio /\ aux' = NoHistory
    /\ pub' = IF eng.failed /\ ~Wireless
              THEN [NoSession EXCEPT !.st = "failed"] ELSE NoSession
    /\ UNCHANGED <<cmds, gate, phone, used>>

ForgetFailed ==
    /\ pc = "none" /\ pub.st = "failed"
    /\ pub' = NoSession
    /\ UNCHANGED <<pc, ch, eng, live, audio, cmds, gate, phone, used, aux>>

-----------------------------------------------------------------------------
(* The handshake.  Commands are received, and the gate is acknowledged,    *)
(* from its end on.                                                        *)

TlsEstablished ==
    /\ pc = "tls" /\ phone = "alive"
    /\ pc' = "loop"
    /\ cmds' = NoCommands
    /\ gate' = [gate EXCEPT !.seen = gate.gen, !.ack = gate.gen]
    /\ UNCHANGED <<ch, eng, live, audio, pub, phone, used, aux>>

TlsFails == pc = "tls" /\ EndSession(TRUE)

-----------------------------------------------------------------------------
(* Messages of the phone.                                                  *)

(* The watchdog future is polled before the engine.                        *)
Expired == Wireless /\ live.established /\ live.stale
Running == pc = "loop" /\ ~Expired
Receive == Running /\ phone = "alive"

(* liveness.valid: a validated effect renews an armed watchdog.            *)
Valid == live' = [live EXCEPT !.stale = FALSE]

(* liveness.request                                                        *)
Pinged(l) == [l EXCEPT !.pending = IF @ < MaxPending THEN @ + 1 ELSE @]

(* Mutant: a stream start shows video although fresh data is awaited.      *)
ShownAtOnce(p, v) ==
    [p EXCEPT !.st = IF v THEN "streaming" ELSE "suspended",
              !.video = IF v THEN "visible" ELSE "hidden"]

(* Effect::Video                                                           *)
Shown(p, v) ==
    LET visible == v /\ ~eng.awaiting
    IN  [p EXCEPT !.st = IF visible THEN "streaming" ELSE "suspended",
                  !.video = IF visible THEN "visible" ELSE "hidden"]

(* Mutant: the presentation revision is not advanced.                      *)
set_visibility_only(p, v) ==
    IF p.video = "none" THEN p
    ELSE [p EXCEPT !.st = IF v THEN "streaming" ELSE "suspended",
                   !.video = IF v THEN "visible" ELSE "hidden"]

(* set_visibility: only once a video state has been published.             *)
set_visibility(p, v) ==
    IF p.video = "none" THEN p
    ELSE [p EXCEPT !.rev = @ + 1,
                   !.st = IF v THEN "streaming" ELSE "suspended",
                   !.video = IF v THEN "visible" ELSE "hidden"]

Discover ==
    /\ Receive
    /\ ch' = [ch EXCEPT !.discovered = TRUE]
    /\ live' = Pinged([live EXCEPT !.stale = FALSE, !.ping = TRUE])
    /\ UNCHANGED <<pc, eng, audio, cmds, gate, pub, phone, used, aux>>

OpenChannel(c) ==
    /\ Receive
    /\ ch' = [ch EXCEPT !.open = IF ch.discovered THEN @ \cup {c} ELSE @]
    /\ Valid
    /\ UNCHANGED <<pc, eng, audio, cmds, gate, pub, phone, used, aux>>

SetupStream(c) ==
    /\ Receive /\ c \in ch.open
    /\ ch' = [ch EXCEPT !.setup = @ \cup {c}]
    /\ Valid
    /\ UNCHANGED <<pc, eng, audio, cmds, gate, pub, phone, used, aux>>

(* AV START on the video channel is what establishes a session.            *)
StartVideo ==
    /\ Receive /\ Video \in ch.open \cap ch.setup
    /\ ch' = [ch EXCEPT !.started = @ \cup {Video}]
    /\ live' = [live EXCEPT !.established = TRUE, !.stale = FALSE]
    /\ eng' = [eng EXCEPT !.streaming = TRUE]
    /\ pub' = Shown(pub, ch.requested)
    /\ UNCHANGED <<pc, audio, cmds, gate, phone, used, aux>>

(* Mutant: the gate is left out of the gain.                               *)
LoudnessUngated(gain, c) == IF gain THEN "audible" ELSE "silent"

Loudness(gain, c) ==
    IF gain /\ (c = 4 => gate.audible) THEN "audible" ELSE "silent"

StartAudio(c) ==
    /\ Receive /\ c \in ch.open \cap ch.setup
    /\ ch' = [ch EXCEPT !.started = @ \cup {c}]
    /\ audio' = [audio EXCEPT ![c] = Loudness(c = 4 => eng.gain, c)]
    /\ pub' = [pub EXCEPT !.audio = @ \cup {c}]
    /\ Valid
    /\ UNCHANGED <<pc, eng, cmds, gate, phone, used, aux>>

StopVideo ==
    /\ Receive /\ Video \in ch.open
    /\ ch' = [ch EXCEPT !.started = @ \ {Video}]
    /\ eng' = [eng EXCEPT !.streaming = TRUE]
    /\ pub' = Shown(pub, FALSE)
    /\ Valid
    /\ UNCHANGED <<pc, audio, cmds, gate, phone, used, aux>>

(* Mutant: the stream is not removed from the started ones.                *)
StopPlayback(c) ==
    /\ Receive /\ c \in ch.open
    /\ audio' = [audio EXCEPT ![c] = "none"]
    /\ pub' = [pub EXCEPT !.audio = @ \ {c}]
    /\ Valid
    /\ UNCHANGED <<pc, ch, eng, cmds, gate, phone, used, aux>>

StopAudio(c) ==
    /\ Receive /\ c \in ch.open
    /\ ch' = [ch EXCEPT !.started = @ \ {c}]
    /\ audio' = [audio EXCEPT ![c] = "none"]
    /\ pub' = [pub EXCEPT !.audio = @ \ {c}]
    /\ Valid
    /\ UNCHANGED <<pc, eng, cmds, gate, phone, used, aux>>

(* Focus request: projected (1), native (2), anything else (0).  Only an   *)
(* explicit 2 is a request to return to the host.                          *)
FocusRequest(mode) ==
    LET requested == ch.requested /\ mode # 2
    IN  /\ Receive /\ Video \in ch.open
        /\ mode = 2 => pub.ret < MaxReturns
        /\ ch' = [ch EXCEPT !.requested = requested]
        /\ eng' = [eng EXCEPT !.streaming = TRUE,
                              !.awaiting = IF mode = 2 THEN FALSE ELSE @]
        /\ pub' = LET p == Shown(pub, mode = 1 /\ requested)
                  IN  IF mode = 2 THEN [p EXCEPT !.ret = @ + 1] ELSE p
        /\ Valid
        /\ UNCHANGED <<pc, audio, cmds, gate, phone, used, aux>>

VideoData ==
    /\ Receive /\ Video \in ch.started
    /\ eng' = [eng EXCEPT !.awaiting = FALSE]
    /\ pub' = IF eng.awaiting THEN set_visibility(pub, TRUE) ELSE pub
    /\ aux' = [aux EXCEPT !.fresh = TRUE]
    /\ Valid
    /\ UNCHANGED <<pc, ch, audio, cmds, gate, phone, used>>

AudioData(c) ==
    /\ Receive /\ c \in ch.started
    /\ IF audio[c] = "none" THEN EndSession(TRUE)
       ELSE /\ Valid
            /\ UNCHANGED <<pc, ch, eng, audio, cmds, gate, pub, phone, used,
                           aux>>

(* A response to one of the pending pings.                                 *)
PingResponse ==
    /\ Receive /\ live.pending > 0
    /\ live' = [live EXCEPT !.pending = @ - 1, !.stale = FALSE]
    /\ UNCHANGED <<pc, ch, eng, audio, cmds, gate, pub, phone, used, aux>>

Bye == Receive /\ EndSession(FALSE)

(* A message that Channels::handle refuses: media before its stream start, *)
(* an unopened channel, a start before its setup, plaintext, bad framing.  *)
BadMessage == Receive /\ EndSession(TRUE)

-----------------------------------------------------------------------------
(* The other branches of the loop.                                         *)

Command(m) ==
    CASE m.k = "show" ->
           /\ ch' = [ch EXCEPT !.requested = TRUE]
           /\ eng' = [eng EXCEPT !.awaiting = TRUE]
           /\ pub' = set_visibility(pub, FALSE)
           /\ aux' = [asked |-> TRUE, fresh |-> FALSE, since |-> pub.rev]
           /\ audio' = audio
      [] m.k = "hide" ->
           /\ ch' = [ch EXCEPT !.requested = FALSE]
           /\ eng' = [eng EXCEPT !.awaiting = FALSE]
           /\ pub' = set_visibility(pub, FALSE)
           /\ UNCHANGED <<audio, aux>>
      [] m.k = "gain" ->
           /\ eng' = [eng EXCEPT !.gain = IF m.c = 4 THEN m.v ELSE @]
           /\ audio' = [audio EXCEPT ![m.c] = IF @ = "none" THEN @
                                              ELSE Loudness(m.v, m.c)]
           /\ UNCHANGED <<ch, pub, aux>>

(* Mutant: a lagged receiver waits instead of failing.                     *)
RecvCommandLagging ==
    /\ Running
    /\ ~cmds.lagged /\ cmds.queue # <<>>
    /\ IF Head(cmds.queue).k = "disconnect" THEN EndSession(FALSE)
       ELSE /\ cmds' = [cmds EXCEPT !.queue = Tail(@)]
            /\ Command(Head(cmds.queue))
            /\ UNCHANGED <<pc, live, gate, phone, used>>

RecvCommand ==
    /\ Running
    /\ \/ /\ cmds.lagged
          /\ EndSession(TRUE)
       \/ /\ ~cmds.lagged /\ cmds.queue # <<>>
          /\ IF Head(cmds.queue).k = "disconnect" THEN EndSession(FALSE)
             ELSE /\ cmds' = [cmds EXCEPT !.queue = Tail(@)]
                  /\ Command(Head(cmds.queue))
                  /\ UNCHANGED <<pc, live, gate, phone, used>>

(* Mutant: the generation is acknowledged without applying the gain.       *)
GateAcknowledged ==
    /\ Running /\ gate.seen # gate.gen
    /\ gate' = [gate EXCEPT !.seen = gate.gen, !.ack = gate.gen]
    /\ UNCHANGED <<pc, ch, eng, live, audio, cmds, pub, phone, used, aux>>

(* entertainment.changed(): the gain is applied before the acknowledgement.*)
GateChanged ==
    /\ Running /\ gate.seen # gate.gen
    /\ audio' = [audio EXCEPT ![4] = IF @ = "none" THEN @
                                     ELSE Loudness(eng.gain, 4)]
    /\ gate' = [gate EXCEPT !.seen = gate.gen, !.ack = gate.gen]
    /\ UNCHANGED <<pc, ch, eng, live, cmds, pub, phone, used, aux>>

SendPing ==
    /\ Running /\ live.ping
    /\ live' = Pinged(live)
    /\ UNCHANGED <<pc, ch, eng, audio, cmds, gate, pub, phone, used, aux>>

SetupTimeout == Running /\ ~eng.streaming /\ EndSession(TRUE)

(* A failed read or write, a closed transport, a failed playback.          *)
EngineFails == Running /\ EndSession(TRUE)

(* Ten seconds without valid inbound activity, once established.           *)
TimePasses ==
    /\ pc = "loop" /\ live.established /\ ~live.stale
    /\ live' = [live EXCEPT !.stale = TRUE]
    /\ UNCHANGED <<pc, ch, eng, audio, cmds, gate, pub, phone, used, aux>>

Watchdog == pc = "loop" /\ Expired /\ EndSession(TRUE)

(* Mutant: a focus request disarms the deadline, as it does SetupTimeout.  *)
SetupDeadlineFocus ==
    /\ Wireless /\ pc \in {"tls", "loop"} /\ ~eng.streaming
    /\ EndSession(TRUE)

(* readiness.setup_deadline, around the whole wireless operation.          *)
SetupDeadline ==
    /\ Wireless /\ pc \in {"tls", "loop"} /\ ~live.established
    /\ EndSession(TRUE)

-----------------------------------------------------------------------------

(* The host sends a command; with no receiver it is discarded, and a full  *)
(* channel makes the receiver lag.  The phone may fall silent.             *)
HostSends(c) ==
    /\ used.commands < MaxCommands
    /\ used' = [used EXCEPT !.commands = @ + 1]
    /\ cmds' = CASE pc # "loop" -> cmds
                 [] pc = "loop" /\ Len(cmds.queue) < CommandCapacity ->
                      [cmds EXCEPT !.queue = Append(@, c)]
                 [] OTHER -> [cmds EXCEPT !.lagged = TRUE]
    /\ UNCHANGED <<pc, ch, eng, live, audio, gate, pub, phone, aux>>

(* The music controller closes or opens the gate.                          *)
GateRequest(audible) ==
    /\ gate.gen < MaxGates
    /\ gate' = [gate EXCEPT !.gen = @ + 1, !.audible = audible]
    /\ UNCHANGED <<pc, ch, eng, live, audio, cmds, pub, phone, used, aux>>

PhoneSilent ==
    /\ phone = "alive"
    /\ phone' = "silent"
    /\ UNCHANGED <<pc, ch, eng, live, audio, cmds, gate, pub, used, aux>>

-----------------------------------------------------------------------------
Owner == \/ PublishFailure \/ CloseSession \/ ForgetFailed
         \/ \E t \in Transports : BeginSession(t)

Phone == \/ Discover \/ StartVideo \/ StopVideo \/ VideoData
         \/ PingResponse \/ Bye \/ BadMessage \/ PhoneSilent
         \/ \E c \in Streams : OpenChannel(c) \/ SetupStream(c)
         \/ \E c \in Audio : StartAudio(c) \/ StopAudio(c) \/ AudioData(c)
         \/ \E mode \in 0 .. 2 : FocusRequest(mode)

Engine == \/ TlsEstablished \/ TlsFails \/ RecvCommand \/ GateChanged
          \/ SendPing \/ SetupTimeout \/ EngineFails \/ Watchdog
          \/ SetupDeadline

AaStep == \/ Owner \/ Phone \/ Engine \/ TimePasses
          \/ \E c \in Commands : HostSends(c)

AaNext == AaStep \/ \E audible \in BOOLEAN : GateRequest(audible)

AaSpec == AaInit /\ [][AaNext]_aaVars

(***************************************************************************)
(* Fairness.  The branches of the loop's select are polled in random       *)
(* order, so a command or gate change that stays ready is taken although   *)
(* the phone keeps sending: strong fairness.  The handshake (20 s), the    *)
(* video setup (45 s) and the wireless setup (180 s) have timers, the      *)
(* watchdog is polled first, and ten seconds pass while a phone is silent. *)
(* Closing is awaited by the owner.                                        *)
(***************************************************************************)
AaFairness ==
    /\ WF_aaVars(TlsFails)
    /\ SF_aaVars(RecvCommand)
    /\ SF_aaVars(GateChanged)
    /\ WF_aaVars(SetupTimeout)
    /\ WF_aaVars(SetupDeadline)
    /\ WF_aaVars(phone = "silent" /\ TimePasses)
    /\ WF_aaVars(Watchdog)
    /\ WF_aaVars(CloseSession)

AaFairSpec == AaSpec /\ AaFairness

-----------------------------------------------------------------------------
(* Properties.                                                             *)

(* "Explicit host/phone return remains in effect until a host activation": *)
(* the snapshot shows video only with the host's permission, and after an  *)
(* activation only once new video data has arrived, in whatever order      *)
(* commands, focus requests, stream starts, stops and data come.           *)
VisibleAllowed ==
    pub.video = "visible" => ch.requested /\ ~eng.awaiting /\ aux.fresh

(* "Home waits for a newer visible revision": video shown after a host     *)
(* activation carries a later presentation revision than the snapshot the  *)
(* activation was applied to, also if it came before any video state.      *)
VisibleIsNewer ==
    aux.asked /\ pub.video = "visible" => pub.rev > aux.since

(* Every started audio stream has a playback, so valid audio data never    *)
(* ends the session as "AA audio without playback".                        *)
StreamsHavePlayback ==
    pc = "loop" => \A c \in Audio : c \in ch.started <=> audio[c] # "none"

(* The gate is acknowledged only when it is in force: once a closed gate's *)
(* generation is acknowledged, media playback is silent, for streams that  *)
(* were open and for streams that start later.                             *)
GateSilences ==
    pc = "loop" /\ gate.ack = gate.gen /\ ~gate.audible
        => audio[4] # "audible"

(* A wireless session whose phone falls silent ends, whether it had        *)
(* started video, only asked for focus, or not even opened a channel.      *)
SilentPeerEnds ==
    (Wireless /\ pc = "loop" /\ phone = "silent") ~> (pc = "none")

(* A host command is executed or the session ends: a hide is never lost,   *)
(* not even when the broadcast overflows.                                  *)
CommandsExecuted ==
    (pc = "loop" /\ (cmds.lagged \/ cmds.queue # <<>>))
        ~> (pc # "loop" \/ cmds.queue = <<>>)
=============================================================================
