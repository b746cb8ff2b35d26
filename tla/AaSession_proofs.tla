--------------------------- MODULE AaSession_proofs ---------------------------
(***************************************************************************)
(* What the published video, the playbacks and the media gate of a session *)
(* rest on, for every set of audio channels, capacity of the broadcast and *)
(* bound.  The lemmas about a step are used again by MusicSource_proofs.   *)
(***************************************************************************)
EXTENDS AaSession, TLAPS

USE AaAssumption

(* Between sessions, and until the handshake ends, nothing of a session is *)
(* left.                                                                   *)
NothingLeft ==
    pc \in {"none", "tls"} =>
        /\ ch = NoChannels /\ aux = NoHistory /\ audio = NoAudio
        /\ pub.video = "none" /\ ~eng.awaiting

(* Fresh data is awaited only on behalf of an activation.                  *)
AwaitingRequested == eng.awaiting => ch.requested

(* A video stream that has started has published a video state, so that    *)
(* its first data raises the revision.                                     *)
StartedPublished == pc = "loop" /\ Video \in ch.started => pub.video # "none"

(* Permission without awaiting means that the activation was answered: by  *)
(* data, and by a later revision.                                          *)
Answered ==
    /\ aux.since <= pub.rev
    /\ ch.requested /\ ~eng.awaiting
         => aux.fresh /\ (aux.asked => pub.rev > aux.since)

VisiblePermitted == pub.video = "visible" => ch.requested /\ ~eng.awaiting

(* A started stream and its playback go together, also while closing.      *)
Playbacks == \A c \in Audio : c \in ch.started <=> audio[c] # "none"

(* An acknowledged gate is in force; nothing is acknowledged early.        *)
GateApplied ==
    /\ gate.ack <= gate.gen
    /\ gate.ack = gate.gen /\ audio[4] # "none"
         => (audio[4] = "audible" <=> eng.gain /\ gate.audible)

AaInv == /\ AaTypeOK /\ NothingLeft /\ AwaitingRequested /\ StartedPublished
         /\ Answered /\ VisiblePermitted /\ Playbacks /\ GateApplied

-----------------------------------------------------------------------------
(* Lemmas about the state.                                                 *)

(* Updating a field of the channels, of the engine or of the watchdog.     *)
LEMMA SessionFields ==
    /\ \A c \in Discovery, s \in SUBSET Streams :
          /\ [c EXCEPT !.open = s] \in Discovery
          /\ [c EXCEPT !.setup = s] \in Discovery
          /\ [c EXCEPT !.started = s] \in Discovery
    /\ \A c \in Discovery, b \in BOOLEAN :
          [c EXCEPT !.discovered = b] \in Discovery /\ [c EXCEPT !.requested = b] \in Discovery
    /\ \A e \in EngineState, b \in BOOLEAN :
          /\ [e EXCEPT !.awaiting = b] \in EngineState
          /\ [e EXCEPT !.streaming = b] \in EngineState
          /\ [e EXCEPT !.gain = b] \in EngineState
          /\ [e EXCEPT !.failed = b] \in EngineState
    /\ \A l \in Activity, b \in BOOLEAN :
          /\ [l EXCEPT !.established = b] \in Activity
          /\ [l EXCEPT !.stale = b] \in Activity
          /\ [l EXCEPT !.ping = b] \in Activity
    /\ \A l \in Activity : Pinged(l) \in Activity
<1>1. \A c \in Discovery, s \in SUBSET Streams :
          /\ [c EXCEPT !.open = s] \in Discovery
          /\ [c EXCEPT !.setup = s] \in Discovery
          /\ [c EXCEPT !.started = s] \in Discovery
  BY DEF Discovery
<1>2. \A c \in Discovery, b \in BOOLEAN :
          [c EXCEPT !.discovered = b] \in Discovery /\ [c EXCEPT !.requested = b] \in Discovery
  BY DEF Discovery
<1>3. \A e \in EngineState, b \in BOOLEAN :
          /\ [e EXCEPT !.awaiting = b] \in EngineState
          /\ [e EXCEPT !.streaming = b] \in EngineState
          /\ [e EXCEPT !.gain = b] \in EngineState
          /\ [e EXCEPT !.failed = b] \in EngineState
  BY DEF EngineState
<1>4. \A l \in Activity, b \in BOOLEAN :
          /\ [l EXCEPT !.established = b] \in Activity
          /\ [l EXCEPT !.stale = b] \in Activity
          /\ [l EXCEPT !.ping = b] \in Activity
  BY DEF Activity
<1>5. \A l \in Activity : Pinged(l) \in Activity
  BY DEF Activity, Pinged
<1> QED
  BY <1>1, <1>2, <1>3, <1>4, <1>5

(* Updating a field of the snapshot, of the receiver or of the gate.       *)
LEMMA OutputFields ==
    /\ \A p \in Published, s \in SUBSET Audio : [p EXCEPT !.audio = s] \in Published
    /\ \A p \in Published, n \in 0..MaxReturns : [p EXCEPT !.ret = n] \in Published
    /\ \A p \in Published, v \in BOOLEAN :
          Shown(p, v) \in Published /\ set_visibility(p, v) \in Published
    /\ \A r \in Receiver, q \in Seq(Commands) : [r EXCEPT !.queue = q] \in Receiver
    /\ \A r \in Receiver : [r EXCEPT !.lagged = TRUE] \in Receiver
    /\ \A g \in Gate, n \in Nat : [g EXCEPT !.seen = n, !.ack = n] \in Gate
    /\ \A g \in Gate, b \in BOOLEAN : [g EXCEPT !.gen = @ + 1, !.audible = b] \in Gate
<1>1. \A p \in Published, s \in SUBSET Audio : [p EXCEPT !.audio = s] \in Published
  BY DEF Published
<1>2. \A p \in Published, n \in 0..MaxReturns : [p EXCEPT !.ret = n] \in Published
  BY DEF Published
<1>3. \A p \in Published, v \in BOOLEAN : Shown(p, v) \in Published
  BY DEF Published, Shown
<1>4. \A p \in Published, v \in BOOLEAN : set_visibility(p, v) \in Published
  <2>1. \A p \in Published, n \in Nat : [p EXCEPT !.rev = n] \in Published
    BY DEF Published
  <2>2. \A p \in Published, x \in {"streaming", "suspended"} : [p EXCEPT !.st = x] \in Published
    BY DEF Published
  <2>3. \A p \in Published, x \in {"hidden", "visible"} : [p EXCEPT !.video = x] \in Published
    BY DEF Published
  <2>4. \A p \in Published : p.rev + 1 \in Nat
    BY DEF Published
  <2> QED
    BY <2>1, <2>2, <2>3, <2>4 DEF set_visibility
<1>5. \A r \in Receiver, q \in Seq(Commands) : [r EXCEPT !.queue = q] \in Receiver
  BY DEF Receiver
<1>6. \A r \in Receiver : [r EXCEPT !.lagged = TRUE] \in Receiver
  BY DEF Receiver
<1>7. \A g \in Gate, n \in Nat : [g EXCEPT !.seen = n, !.ack = n] \in Gate
  BY DEF Gate
<1>8. \A g \in Gate, b \in BOOLEAN : [g EXCEPT !.gen = @ + 1, !.audible = b] \in Gate
  <2>1. \A g \in Gate, n \in Nat : [g EXCEPT !.gen = n] \in Gate
    BY DEF Gate
  <2>2. \A g \in Gate, b \in BOOLEAN : [g EXCEPT !.audible = b] \in Gate
    BY DEF Gate
  <2>3. \A g \in Gate : g.gen + 1 \in Nat
    BY DEF Gate
  <2> QED
    BY <2>1, <2>2, <2>3
<1> QED
  BY <1>1, <1>2, <1>3, <1>4, <1>5, <1>6, <1>7, <1>8

(* The session's variables at rest have their types.                       *)
LEMMA RestTyped ==
    /\ NoChannels \in Discovery /\ NoLiveness \in Activity
    /\ NoAudio \in [Audio -> Sound] /\ NoCommands \in Receiver /\ Len(NoCommands.queue) = 0
    /\ NoSession \in Published /\ NoEngine \in EngineState
    /\ NoHistory \in [asked : BOOLEAN, fresh : BOOLEAN, since : Nat]
    /\ [NoSession EXCEPT !.st = "connecting"] \in Published
    /\ [NoSession EXCEPT !.st = "failed"] \in Published
    /\ \A t \in Transports : [NoEngine EXCEPT !.transport = t] \in EngineState
<1>1. NoChannels \in Discovery /\ NoLiveness \in Activity
  BY DEF NoChannels, NoLiveness, Discovery, Activity
<1>2. NoAudio \in [Audio -> Sound]
  BY DEF NoAudio, Sound
<1>3. NoCommands \in Receiver /\ Len(NoCommands.queue) = 0
  BY DEF NoCommands, Receiver
<1>4. /\ NoSession \in Published
      /\ [NoSession EXCEPT !.st = "connecting"] \in Published
      /\ [NoSession EXCEPT !.st = "failed"] \in Published
  BY DEF NoSession, Published
<1>5. NoEngine \in EngineState /\ \A t \in Transports : [NoEngine EXCEPT !.transport = t] \in EngineState
  BY DEF NoEngine, EngineState
<1>6. NoHistory \in [asked : BOOLEAN, fresh : BOOLEAN, since : Nat]
  BY DEF NoHistory
<1> QED
  BY <1>1, <1>2, <1>3, <1>4, <1>5, <1>6

(* The engine returns: everything but the receiver and the verdict stays.  *)
LEMMA EndTyped ==
    ASSUME AaTypeOK, NEW failed \in BOOLEAN, EndSession(failed)
    PROVE  AaTypeOK'
<1>1. eng' \in EngineState
  BY SessionFields DEF AaTypeOK, EndSession
<1> QED
  BY <1>1, RestTyped DEF AaTypeOK, EndSession

(* What a command may be, and what it does to the types.                   *)
LEMMA CommandKinds ==
    ASSUME NEW m \in Commands, m.k # "disconnect"
    PROVE  m.k \in {"show", "hide", "gain"} /\ (m.k = "gain" => m.c \in Audio /\ m.v \in BOOLEAN)
BY DEF Commands

LEMMA CommandTyped ==
    ASSUME AaTypeOK, NEW m \in Commands, m.k # "disconnect", Command(m)
    PROVE  /\ ch' \in Discovery /\ eng' \in EngineState /\ pub' \in Published
           /\ audio' \in [Audio -> Sound]
           /\ aux' \in [asked : BOOLEAN, fresh : BOOLEAN, since : Nat]
<1> USE DEF AaTypeOK
<1>1. pub.rev \in Nat
  BY DEF Published
<1>2. CASE m.k = "show"
  <2>1. /\ ch' = [ch EXCEPT !.requested = TRUE] /\ eng' = [eng EXCEPT !.awaiting = TRUE]
        /\ pub' = set_visibility(pub, FALSE) /\ audio' = audio
        /\ aux' = [asked |-> TRUE, fresh |-> FALSE, since |-> pub.rev]
    BY <1>2 DEF Command
  <2> QED
    BY <1>1, <2>1, SessionFields, OutputFields
<1>3. CASE m.k = "hide"
  <2>1. /\ ch' = [ch EXCEPT !.requested = FALSE] /\ eng' = [eng EXCEPT !.awaiting = FALSE]
        /\ pub' = set_visibility(pub, FALSE) /\ audio' = audio /\ aux' = aux
    BY <1>3 DEF Command
  <2> QED
    BY <2>1, SessionFields, OutputFields
<1>4. CASE m.k = "gain"
  <2>1. m.c \in Audio /\ m.v \in BOOLEAN
    BY <1>4, CommandKinds
  <2>2. eng.gain \in BOOLEAN
    BY DEF EngineState
  <2>3. ch' = ch /\ pub' = pub /\ aux' = aux
        /\ eng' = [eng EXCEPT !.gain = IF m.c = 4 THEN m.v ELSE @]
        /\ audio' = [audio EXCEPT ![m.c] = IF @ = "none" THEN @ ELSE Loudness(m.v, m.c)]
    BY <1>4 DEF Command
  <2>4. eng' \in EngineState
    BY <2>1, <2>2, <2>3, SessionFields
  <2>5. audio' \in [Audio -> Sound]
    BY <2>1, <2>3 DEF Loudness, Sound
  <2> QED
    BY <2>3, <2>4, <2>5
<1> QED
  BY <1>2, <1>3, <1>4, CommandKinds

-----------------------------------------------------------------------------
(* The steps by what they do.                                              *)

(* The engine returns, out of the handshake or the loop.                   *)
Returns == pc \in {"tls", "loop"} /\ \E failed \in BOOLEAN : EndSession(failed)

(* A command other than disconnect is taken and executed.                  *)
Executes ==
    /\ pc = "loop" /\ cmds.queue # <<>>
    /\ \E m \in Commands : m.k # "disconnect" /\ Command(m)
    /\ cmds' = [cmds EXCEPT !.queue = Tail(@)]
    /\ UNCHANGED <<pc, live, gate, phone, used>>

(* Only the watchdog and the pings are touched.                            *)
Quiet ==
    /\ live' \in Activity
    /\ UNCHANGED <<pc, ch, eng, audio, cmds, gate, pub, phone, used, aux>>

(* The music controller's request, whatever limits their number.           *)
Requests(audible) ==
    /\ gate' = [gate EXCEPT !.gen = @ + 1, !.audible = audible]
    /\ UNCHANGED <<pc, ch, eng, live, audio, cmds, pub, phone, used, aux>>

(* The messages that only open or set up a stream, or say goodnight.       *)
Prepares ==
    \/ Discover \/ PhoneSilent
    \/ \E c \in Streams : OpenChannel(c) \/ SetupStream(c)
    \/ \E c \in Commands : HostSends(c)

LEMMA AaSteps ==
    ASSUME AaTypeOK, AaStep
    PROVE  \/ Returns \/ Executes \/ Quiet \/ Prepares
           \/ PublishFailure \/ CloseSession \/ ForgetFailed
           \/ \E t \in Transports : BeginSession(t)
           \/ TlsEstablished \/ StartVideo \/ StopVideo \/ VideoData \/ GateChanged
           \/ \E c \in Audio : StartAudio(c) \/ StopAudio(c)
           \/ \E mode \in 0..2 : FocusRequest(mode)
<1> USE DEF AaTypeOK
<1>1. CASE TlsFails \/ SetupTimeout \/ EngineFails \/ SetupDeadline
  BY <1>1 DEF Returns, TlsFails, SetupTimeout, EngineFails, SetupDeadline, Running
<1>2. CASE Watchdog \/ Bye \/ BadMessage
  BY <1>2 DEF Returns, Watchdog, Bye, BadMessage, Receive, Running
<1>3. CASE RecvCommand
  <2>1. pc = "loop"
    BY <1>3 DEF RecvCommand, Running
  <2>2. CASE cmds.lagged
    BY <1>3, <2>1, <2>2 DEF RecvCommand, Returns
  <2>3. CASE ~cmds.lagged
    <3>1. cmds.queue # <<>> /\ Head(cmds.queue) \in Commands
      <4>1. cmds.queue # <<>>
        BY <1>3, <2>3 DEF RecvCommand
      <4>2. cmds.queue \in Seq(Commands)
        BY DEF Receiver
      <4> QED
        BY <4>1, <4>2
    <3>2. CASE Head(cmds.queue).k = "disconnect"
      BY <1>3, <2>1, <2>3, <3>2 DEF RecvCommand, Returns
    <3>3. CASE Head(cmds.queue).k # "disconnect"
      BY <1>3, <2>1, <2>3, <3>1, <3>3 DEF RecvCommand, Executes
    <3> QED
      BY <3>2, <3>3
  <2> QED
    BY <2>2, <2>3
<1>4. CASE \E c \in Audio : AudioData(c)
  <2>1. [live EXCEPT !.stale = FALSE] \in Activity
    BY SessionFields
  <2> QED
    BY <1>4, <2>1 DEF AudioData, Returns, Receive, Running, Quiet, Valid
<1>5. CASE PingResponse
  <2>1. live' \in Activity
    <3>1. live.pending - 1 \in 0..MaxPending
      BY <1>5 DEF PingResponse, Activity
    <3>2. \A l \in Activity, n \in 0..MaxPending : [l EXCEPT !.pending = n] \in Activity
      BY DEF Activity
    <3> QED
      BY <1>5, <3>1, <3>2, SessionFields DEF PingResponse
  <2> QED
    BY <1>5, <2>1 DEF PingResponse, Quiet
<1>6. CASE SendPing \/ TimePasses
  BY <1>6, SessionFields, ZenonT(60) DEF SendPing, TimePasses, Quiet
<1> QED
  BY <1>1, <1>2, <1>3, <1>4, <1>5, <1>6 DEF AaStep, Owner, Phone, Engine, Prepares

(* What Returns leaves as it was.                                          *)
LEMMA ReturnsKeep ==
    ASSUME AaTypeOK, Returns
    PROVE  /\ AaTypeOK' /\ pc' = "closing" /\ pc \in {"tls", "loop"}
           /\ UNCHANGED <<ch, live, audio, gate, pub, phone, used, aux>>
           /\ eng'.awaiting = eng.awaiting /\ eng'.gain = eng.gain
<1>1. PICK failed \in BOOLEAN : EndSession(failed)
  BY DEF Returns
<1>2. AaTypeOK'
  BY <1>1, EndTyped
<1>3. eng'.awaiting = eng.awaiting /\ eng'.gain = eng.gain
  BY <1>1 DEF EndSession, AaTypeOK, EngineState
<1> QED
  BY <1>1, <1>2, <1>3 DEF EndSession, Returns

(* Messages that only prepare: what they leave as it was.                  *)
LEMMA PreparesKeep ==
    ASSUME AaTypeOK, Prepares
    PROVE  /\ AaTypeOK'
           /\ ch'.requested = ch.requested /\ ch'.started = ch.started
           /\ pc \in {"none", "tls"} => ch' = ch
           /\ UNCHANGED <<pc, eng, audio, gate, pub, aux>>
<1> USE DEF AaTypeOK
<1>1. CASE PhoneSilent
  BY <1>1 DEF PhoneSilent
<1>2. CASE Discover
  <2>1. ch' \in Discovery
    BY <1>2, SessionFields DEF Discover
  <2>2. live' \in Activity
    BY <1>2, SessionFields DEF Discover
  <2>3. ch'.requested = ch.requested /\ ch'.started = ch.started
    BY <1>2 DEF Discover, Discovery
  <2> QED
    BY <1>2, <2>1, <2>2, <2>3 DEF Discover, Receive, Running
<1>3. CASE \E c \in Streams : OpenChannel(c) \/ SetupStream(c)
  <2>1. PICK c \in Streams : OpenChannel(c) \/ SetupStream(c)
    BY <1>3
  <2>2. ch.open \cup {c} \in SUBSET Streams /\ ch.setup \cup {c} \in SUBSET Streams
        /\ ch.open \in SUBSET Streams
    BY DEF Discovery
  <2>3. ch' \in Discovery /\ live' \in Activity
    <3>1. live' = [live EXCEPT !.stale = FALSE]
          /\ (\/ ch' = [ch EXCEPT !.open = ch.open \cup {c}]
              \/ ch' = [ch EXCEPT !.open = ch.open]
              \/ ch' = [ch EXCEPT !.setup = ch.setup \cup {c}])
      BY <2>1 DEF OpenChannel, SetupStream, Valid
    <3> QED
      <4>1. live' \in Activity
        BY <3>1, SessionFields
      <4>2. [ch EXCEPT !.open = ch.open \cup {c}] \in Discovery
        BY <2>2, SessionFields
      <4>3. [ch EXCEPT !.open = ch.open] \in Discovery
        BY <2>2, SessionFields
      <4>4. [ch EXCEPT !.setup = ch.setup \cup {c}] \in Discovery
        BY <2>2, SessionFields
      <4> QED
        BY <3>1, <4>1, <4>2, <4>3, <4>4
  <2>4. ch'.requested = ch.requested /\ ch'.started = ch.started
    BY <2>1 DEF OpenChannel, SetupStream, Discovery
  <2> QED
    BY <2>1, <2>3, <2>4 DEF OpenChannel, SetupStream, Receive, Running
<1>4. CASE \E c \in Commands : HostSends(c)
  <2>1. PICK c \in Commands : HostSends(c)
    BY <1>4
  <2>2. cmds.queue \in Seq(Commands) /\ Append(cmds.queue, c) \in Seq(Commands)
        /\ Len(Append(cmds.queue, c)) = Len(cmds.queue) + 1
    BY DEF Receiver
  <2>3. cmds' \in {cmds, [cmds EXCEPT !.lagged = TRUE]}
        \/ (Len(cmds.queue) < CommandCapacity
            /\ cmds' = [cmds EXCEPT !.queue = Append(cmds.queue, c)])
    BY <2>1 DEF HostSends
  <2>4. cmds' \in Receiver
    <3>1. [cmds EXCEPT !.lagged = TRUE] \in Receiver
      BY OutputFields
    <3>2. [cmds EXCEPT !.queue = Append(cmds.queue, c)] \in Receiver
      BY <2>2, OutputFields
    <3> QED
      BY <2>3, <3>1, <3>2
  <2>5. Len(cmds'.queue) <= CommandCapacity
    BY <2>2, <2>3 DEF Receiver
  <2>6. used' \in [sessions : 0 .. MaxSessions, commands : 0 .. MaxCommands]
    BY <2>1 DEF HostSends
  <2> QED
    BY <2>1, <2>4, <2>5, <2>6 DEF HostSends
<1> QED
  BY <1>1, <1>2, <1>3, <1>4 DEF Prepares

-----------------------------------------------------------------------------
(* Every step keeps the types.                                             *)

LEMMA AaStepTyped ==
    ASSUME AaTypeOK, AaStep
    PROVE  AaTypeOK'
<1> USE DEF AaTypeOK
<1>1. CASE Returns \/ Prepares
  BY <1>1, ReturnsKeep, PreparesKeep
<1>2. CASE Executes
  <2>1. PICK m \in Commands : m.k # "disconnect" /\ Command(m)
    BY <1>2 DEF Executes
  <2>2. /\ ch' \in Discovery /\ eng' \in EngineState /\ pub' \in Published
        /\ audio' \in [Audio -> Sound]
        /\ aux' \in [asked : BOOLEAN, fresh : BOOLEAN, since : Nat]
    BY <2>1, CommandTyped
  <2>3. cmds.queue \in Seq(Commands) /\ cmds.queue # <<>>
    BY <1>2 DEF Executes, Receiver
  <2>4. Tail(cmds.queue) \in Seq(Commands) /\ Len(Tail(cmds.queue)) = Len(cmds.queue) - 1
    BY <2>3
  <2>5. cmds' = [cmds EXCEPT !.queue = Tail(cmds.queue)]
    BY <1>2 DEF Executes
  <2>6. cmds' \in Receiver
    BY <2>4, <2>5, OutputFields
  <2>7. Len(cmds'.queue) <= CommandCapacity
    <3>1. cmds'.queue = Tail(cmds.queue)
      BY <2>5 DEF Receiver
    <3>2. Len(cmds.queue) \in Nat
      BY <2>3
    <3> QED
      BY <2>4, <3>1, <3>2
  <2> QED
    BY <1>2, <2>2, <2>6, <2>7 DEF Executes
<1>3. CASE Quiet
  BY <1>3 DEF Quiet
<1>4. CASE PublishFailure
  <2>1. pub' \in Published
    BY <1>4 DEF PublishFailure, Published
  <2> QED
    BY <1>4, <2>1 DEF PublishFailure
<1>5. CASE CloseSession \/ ForgetFailed
  BY <1>5, RestTyped DEF CloseSession, ForgetFailed
<1>6. CASE \E t \in Transports : BeginSession(t)
  BY <1>6, RestTyped DEF BeginSession
<1>7. CASE TlsEstablished
  <2>1. gate' \in Gate
    <3>1. gate.gen \in Nat
      BY DEF Gate
    <3> QED
      BY <1>7, <3>1, OutputFields DEF TlsEstablished
  <2> QED
    BY <1>7, <2>1, RestTyped DEF TlsEstablished
<1>8. CASE StartVideo \/ StopVideo
  <2>1. ch.started \cup {Video} \in SUBSET Streams /\ ch.started \ {Video} \in SUBSET Streams
        /\ ch.requested \in BOOLEAN
    BY DEF Discovery, Streams
  <2>2. ch' \in {[ch EXCEPT !.started = ch.started \cup {Video}],
                 [ch EXCEPT !.started = ch.started \ {Video}]}
    BY <1>8 DEF StartVideo, StopVideo
  <2>3. ch' \in Discovery
    <3>1. [ch EXCEPT !.started = ch.started \cup {Video}] \in Discovery
      BY <2>1, SessionFields
    <3>2. [ch EXCEPT !.started = ch.started \ {Video}] \in Discovery
      BY <2>1, SessionFields
    <3> QED
      BY <2>2, <3>1, <3>2
  <2>4. eng' = [eng EXCEPT !.streaming = TRUE]
        /\ pub' \in {Shown(pub, ch.requested), Shown(pub, FALSE)}
    BY <1>8 DEF StartVideo, StopVideo
  <2>5. eng' \in EngineState /\ pub' \in Published
    <3>1. Shown(pub, ch.requested) \in Published /\ Shown(pub, FALSE) \in Published
      BY <2>1, OutputFields
    <3>2. [eng EXCEPT !.streaming = TRUE] \in EngineState
      BY SessionFields
    <3> QED
      BY <2>4, <3>1, <3>2
  <2>6. live' \in {[live EXCEPT !.established = TRUE, !.stale = FALSE], [live EXCEPT !.stale = FALSE]}
    BY <1>8 DEF StartVideo, StopVideo, Valid
  <2>7. [live EXCEPT !.established = TRUE] \in Activity
    BY SessionFields
  <2>8. live' \in Activity
    <3>1. [live EXCEPT !.established = TRUE, !.stale = FALSE] \in Activity
      BY <2>7, SessionFields
    <3>2. [live EXCEPT !.stale = FALSE] \in Activity
      BY SessionFields
    <3> QED
      BY <2>6, <3>1, <3>2
  <2> QED
    BY <1>8, <2>3, <2>5, <2>8 DEF StartVideo, StopVideo
<1>9. CASE VideoData
  <2>1. eng' \in EngineState /\ live' \in Activity
    BY <1>9, SessionFields DEF VideoData, Valid
  <2>2. pub' \in Published
    BY <1>9, OutputFields DEF VideoData
  <2> QED
    BY <1>9, <2>1, <2>2 DEF VideoData
<1>10. CASE \E c \in Audio : StartAudio(c) \/ StopAudio(c)
  <2>1. PICK c \in Audio : StartAudio(c) \/ StopAudio(c)
    BY <1>10
  <2>2. ch.started \cup {c} \in SUBSET Streams /\ ch.started \ {c} \in SUBSET Streams
        /\ pub.audio \cup {c} \in SUBSET Audio /\ pub.audio \ {c} \in SUBSET Audio
    BY DEF Discovery, Streams, Published
  <2>3. ch' \in {[ch EXCEPT !.started = ch.started \cup {c}], [ch EXCEPT !.started = ch.started \ {c}]}
        /\ pub' \in {[pub EXCEPT !.audio = pub.audio \cup {c}], [pub EXCEPT !.audio = pub.audio \ {c}]}
        /\ live' = [live EXCEPT !.stale = FALSE]
    BY <2>1 DEF StartAudio, StopAudio, Valid
  <2>4. ch' \in Discovery
    <3>1. [ch EXCEPT !.started = ch.started \cup {c}] \in Discovery
      BY <2>2, SessionFields
    <3>2. [ch EXCEPT !.started = ch.started \ {c}] \in Discovery
      BY <2>2, SessionFields
    <3> QED
      BY <2>3, <3>1, <3>2
  <2>5. pub' \in Published
    <3>1. [pub EXCEPT !.audio = pub.audio \cup {c}] \in Published
      BY <2>2, OutputFields
    <3>2. [pub EXCEPT !.audio = pub.audio \ {c}] \in Published
      BY <2>2, OutputFields
    <3> QED
      BY <2>3, <3>1, <3>2
  <2>6. live' \in Activity
    BY <2>3, SessionFields
  <2>7. audio' \in [Audio -> Sound]
    BY <2>1 DEF StartAudio, StopAudio, Loudness, Sound
  <2> QED
    BY <2>1, <2>4, <2>5, <2>6, <2>7 DEF StartAudio, StopAudio
<1>11. CASE \E mode \in 0..2 : FocusRequest(mode)
  <2>1. PICK mode \in 0..2 : FocusRequest(mode)
    BY <1>11
  <2> DEFINE requested == ch.requested /\ mode # 2
             p == Shown(pub, mode = 1 /\ requested)
  <2>2. ch' = [ch EXCEPT !.requested = requested] /\ requested \in BOOLEAN
    BY <2>1 DEF FocusRequest, Discovery
  <2>3. eng' = [eng EXCEPT !.streaming = TRUE, !.awaiting = IF mode = 2 THEN FALSE ELSE @]
        /\ live' = [live EXCEPT !.stale = FALSE]
    BY <2>1 DEF FocusRequest, Valid
  <2>4. [eng EXCEPT !.streaming = TRUE] \in EngineState /\ eng.awaiting \in BOOLEAN
    BY SessionFields DEF EngineState
  <2>5. p \in Published
    BY <2>2, OutputFields
  <2>6. p.ret = pub.ret
    BY DEF Shown, Published
  <2>7. pub' = IF mode = 2 THEN [p EXCEPT !.ret = @ + 1] ELSE p
    BY <2>1 DEF FocusRequest
  <2> HIDE DEF requested, p
  <2>8. ch' \in Discovery /\ live' \in Activity
    BY <2>2, <2>3, SessionFields
  <2>9. eng' \in EngineState
    <3>1. eng' = [eng EXCEPT !.streaming = TRUE, !.awaiting = IF mode = 2 THEN FALSE ELSE eng.awaiting]
      BY <2>3 DEF EngineState
    <3> QED
      BY <2>4, <3>1, SessionFields
  <2>10. pub' \in Published
    <3>1. mode = 2 => pub.ret + 1 \in 0..MaxReturns
      BY <2>1 DEF FocusRequest, Published
    <3> QED
      BY <2>5, <2>6, <2>7, <3>1, OutputFields
  <2> QED
    BY <2>1, <2>8, <2>9, <2>10 DEF FocusRequest
<1>12. CASE GateChanged
  <2>1. gate.gen \in Nat
    BY DEF Gate
  <2>2. gate' \in Gate
    BY <1>12, <2>1, OutputFields DEF GateChanged
  <2>3. audio' \in [Audio -> Sound]
    BY <1>12 DEF GateChanged, Loudness, Sound
  <2> QED
    BY <1>12, <2>2, <2>3 DEF GateChanged
<1> QED
  BY <1>1, <1>2, <1>3, <1>4, <1>5, <1>6, <1>7, <1>8, <1>9, <1>10, <1>11, <1>12, AaSteps

-----------------------------------------------------------------------------
(* Every step keeps the invariant.                                         *)

(* What a command does to the fields the invariant speaks of.              *)
LEMMA CommandEffect ==
    ASSUME AaTypeOK, NEW m \in Commands, m.k # "disconnect", Command(m)
    PROVE  /\ ch'.started = ch.started
           /\ pub'.video # "visible" \/ pub'.video = pub.video
           /\ pub'.video = "none" <=> pub.video = "none"
           /\ \/ /\ ch'.requested /\ eng'.awaiting /\ pub'.video # "visible"
                 /\ pub'.rev >= pub.rev /\ aux'.since = pub.rev
                 /\ audio' = audio /\ eng'.gain = eng.gain
              \/ /\ ~ch'.requested /\ ~eng'.awaiting /\ pub'.video # "visible"
                 /\ pub'.rev >= pub.rev /\ aux' = aux
                 /\ audio' = audio /\ eng'.gain = eng.gain
              \/ /\ ch' = ch /\ pub' = pub /\ aux' = aux /\ eng'.awaiting = eng.awaiting
                 /\ \A c \in Audio : audio'[c] = "none" <=> audio[c] = "none"
                 /\ \/ audio'[4] = audio[4] /\ eng'.gain = eng.gain
                    \/ audio[4] # "none" /\ audio'[4] = Loudness(eng'.gain, 4)
                    \/ audio[4] = "none" /\ audio'[4] = "none"
<1> USE DEF AaTypeOK
<1>1. /\ set_visibility(pub, FALSE).video # "visible"
      /\ set_visibility(pub, FALSE).video = "none" <=> pub.video = "none"
      /\ set_visibility(pub, FALSE).rev >= pub.rev
  BY DEF set_visibility, Published
<1>2. CASE m.k = "show"
  <2>1. /\ ch' = [ch EXCEPT !.requested = TRUE] /\ eng' = [eng EXCEPT !.awaiting = TRUE]
        /\ pub' = set_visibility(pub, FALSE) /\ audio' = audio
        /\ aux' = [asked |-> TRUE, fresh |-> FALSE, since |-> pub.rev]
    BY <1>2 DEF Command
  <2>2. ch'.started = ch.started /\ ch'.requested
    BY <2>1 DEF Discovery
  <2>3. eng'.awaiting /\ eng'.gain = eng.gain
    BY <2>1 DEF EngineState
  <2> QED
    BY <1>1, <2>1, <2>2, <2>3
<1>3. CASE m.k = "hide"
  <2>1. /\ ch' = [ch EXCEPT !.requested = FALSE] /\ eng' = [eng EXCEPT !.awaiting = FALSE]
        /\ pub' = set_visibility(pub, FALSE) /\ audio' = audio /\ aux' = aux
    BY <1>3 DEF Command
  <2>2. ch'.started = ch.started /\ ~ch'.requested
    BY <2>1 DEF Discovery
  <2>3. ~eng'.awaiting /\ eng'.gain = eng.gain
    BY <2>1 DEF EngineState
  <2> QED
    BY <1>1, <2>1, <2>2, <2>3
<1>4. CASE m.k = "gain"
  <2>1. m.c \in Audio /\ m.v \in BOOLEAN
    BY <1>4, CommandKinds
  <2>2. ch' = ch /\ pub' = pub /\ aux' = aux
        /\ eng' = [eng EXCEPT !.gain = IF m.c = 4 THEN m.v ELSE @]
        /\ audio' = [audio EXCEPT ![m.c] = IF @ = "none" THEN @ ELSE Loudness(m.v, m.c)]
    BY <1>4 DEF Command
  <2>3. eng'.awaiting = eng.awaiting /\ eng'.gain = IF m.c = 4 THEN m.v ELSE eng.gain
    BY <2>2 DEF EngineState
  <2>4. \A c \in Audio : audio'[c] = IF c = m.c /\ audio[c] # "none" THEN Loudness(m.v, c)
                                     ELSE audio[c]
    BY <2>1, <2>2
  <2>5. \A c \in Audio, v \in BOOLEAN : Loudness(v, c) # "none"
    BY DEF Loudness
  <2>6. \A c \in Audio : audio'[c] = "none" <=> audio[c] = "none"
    BY <2>1, <2>4, <2>5
  <2>7. \/ audio'[4] = audio[4] /\ eng'.gain = eng.gain
        \/ audio[4] # "none" /\ audio'[4] = Loudness(eng'.gain, 4)
        \/ audio[4] = "none" /\ audio'[4] = "none"
    BY <2>1, <2>3, <2>4
  <2> QED
    BY <2>2, <2>3, <2>6, <2>7
<1> QED
  BY <1>2, <1>3, <1>4, CommandKinds

(* The published video of a stream start, stop or focus request.           *)
LEMMA ShownEffect ==
    ASSUME AaTypeOK, NEW v \in BOOLEAN
    PROVE  /\ Shown(pub, v).video = IF v /\ ~eng.awaiting THEN "visible" ELSE "hidden"
           /\ Shown(pub, v).rev = pub.rev /\ Shown(pub, v).ret = pub.ret
BY DEF Shown, AaTypeOK, Published

(* A focus request, by the fields.                                         *)
LEMMA FocusEffect ==
    ASSUME AaTypeOK, NEW mode \in 0..2, FocusRequest(mode)
    PROVE  /\ pc' = pc /\ audio' = audio /\ gate' = gate /\ aux' = aux
           /\ ch'.started = ch.started /\ eng'.gain = eng.gain /\ pub'.rev = pub.rev
           /\ ch'.requested = (ch.requested /\ mode # 2)
           /\ eng'.awaiting = (eng.awaiting /\ mode # 2)
           /\ pub'.video = IF mode = 1 /\ ch.requested /\ ~eng.awaiting
                           THEN "visible" ELSE "hidden"
<1> DEFINE requested == ch.requested /\ mode # 2
           v == mode = 1 /\ requested
           p == Shown(pub, v)
<1> USE DEF AaTypeOK
<1>1. /\ ch' = [ch EXCEPT !.requested = requested]
      /\ eng' = [eng EXCEPT !.streaming = TRUE, !.awaiting = IF mode = 2 THEN FALSE ELSE @]
      /\ pub' = (IF mode = 2 THEN [p EXCEPT !.ret = @ + 1] ELSE p)
      /\ UNCHANGED <<pc, audio, gate, aux>>
  BY DEF FocusRequest
<1>2. ch'.started = ch.started /\ ch'.requested = requested
  BY <1>1 DEF Discovery
<1>3. eng'.gain = eng.gain /\ eng'.awaiting = IF mode = 2 THEN FALSE ELSE eng.awaiting
  BY <1>1 DEF EngineState
<1>4. eng.awaiting \in BOOLEAN
  BY DEF EngineState
<1>5. p \in Published /\ p.rev = pub.rev
      /\ p.video = IF v /\ ~eng.awaiting THEN "visible" ELSE "hidden"
  BY OutputFields, ShownEffect
<1>6. pub'.rev = p.rev /\ pub'.video = p.video
  <2> HIDE DEF p
  <2> QED
    BY <1>1, <1>5 DEF Published
<1>7. v <=> mode = 1 /\ ch.requested
  OBVIOUS
<1>8. pub'.video = IF mode = 1 /\ ch.requested /\ ~eng.awaiting THEN "visible" ELSE "hidden"
  <2> HIDE DEF v, p
  <2> QED
    BY <1>5, <1>6, <1>7
<1>9. eng'.awaiting = (eng.awaiting /\ mode # 2)
  BY <1>3, <1>4
<1>10. ch'.requested = (ch.requested /\ mode # 2)
  BY <1>2
<1>11. pub'.rev = pub.rev
  BY <1>5, <1>6
<1>12. pc' = pc /\ audio' = audio /\ gate' = gate /\ aux' = aux
  BY <1>1
<1> QED
  BY <1>2, <1>3, <1>8, <1>9, <1>10, <1>11, <1>12

(* The fields of a stream start and stop.                                  *)
LEMMA VideoEffect ==
    ASSUME AaTypeOK, StartVideo \/ StopVideo \/ VideoData
    PROVE  /\ pc = "loop" /\ pc' = pc /\ audio' = audio /\ gate' = gate
           /\ ch'.requested = ch.requested /\ eng'.gain = eng.gain
           /\ \A c \in Audio : c \in ch'.started <=> c \in ch.started
           /\ StartVideo \/ StopVideo =>
                /\ aux' = aux /\ eng'.awaiting = eng.awaiting /\ pub'.rev = pub.rev
                /\ pub'.video \in {"visible", "hidden"}
                /\ pub'.video = "visible" => ch.requested /\ ~eng.awaiting
           /\ VideoData =>
                /\ Video \in ch.started /\ ~eng'.awaiting
                /\ aux'.fresh /\ aux'.asked = aux.asked /\ aux'.since = aux.since
                /\ ~eng.awaiting => pub' = pub
                /\ eng.awaiting /\ pub.video # "none"
                     => pub'.rev = pub.rev + 1 /\ pub'.video = "visible"
                /\ pub.video = "none" => pub' = pub
<1> USE DEF AaTypeOK
<1>1. pc = "loop" /\ pc' = pc /\ audio' = audio /\ gate' = gate
  BY DEF StartVideo, StopVideo, VideoData, Receive, Running
<1>2. ch'.requested = ch.requested /\ \A c \in Audio : c \in ch'.started <=> c \in ch.started
  <2>1. ch' = ch \/ ch' = [ch EXCEPT !.started = ch.started \cup {Video}]
        \/ ch' = [ch EXCEPT !.started = ch.started \ {Video}]
    BY DEF StartVideo, StopVideo, VideoData
  <2>2. ch'.requested = ch.requested
    BY <2>1 DEF Discovery
  <2>3. ch'.started \in {ch.started, ch.started \cup {Video}, ch.started \ {Video}}
    BY <2>1 DEF Discovery
  <2> QED
    BY <2>2, <2>3 DEF Video
<1>3. eng'.gain = eng.gain
  BY DEF StartVideo, StopVideo, VideoData, EngineState
<1>4. ASSUME StartVideo \/ StopVideo
      PROVE  /\ aux' = aux /\ eng'.awaiting = eng.awaiting /\ pub'.rev = pub.rev
             /\ pub'.video \in {"visible", "hidden"}
             /\ pub'.video = "visible" => ch.requested /\ ~eng.awaiting
  <2>1. ch.requested \in BOOLEAN
    BY DEF Discovery
  <2>2. pub' = Shown(pub, ch.requested) \/ pub' = Shown(pub, FALSE)
    BY <1>4 DEF StartVideo, StopVideo
  <2>3. aux' = aux /\ eng'.awaiting = eng.awaiting
    BY <1>4 DEF StartVideo, StopVideo, EngineState
  <2> QED
    BY <2>1, <2>2, <2>3, ShownEffect
<1>5. ASSUME VideoData
      PROVE  /\ Video \in ch.started /\ ~eng'.awaiting
             /\ aux'.fresh /\ aux'.asked = aux.asked /\ aux'.since = aux.since
             /\ ~eng.awaiting => pub' = pub
             /\ eng.awaiting /\ pub.video # "none"
                  => pub'.rev = pub.rev + 1 /\ pub'.video = "visible"
             /\ pub.video = "none" => pub' = pub
  BY <1>5 DEF VideoData, EngineState, Published, set_visibility
<1> QED
  BY <1>1, <1>2, <1>3, <1>4, <1>5

LEMMA AudioEffect ==
    ASSUME AaTypeOK, NEW c \in Audio, StartAudio(c) \/ StopAudio(c)
    PROVE  /\ pc = "loop" /\ pc' = pc /\ eng' = eng /\ gate' = gate /\ aux' = aux
           /\ ch'.requested = ch.requested
           /\ Video \in ch'.started <=> Video \in ch.started
           /\ pub'.video = pub.video /\ pub'.rev = pub.rev
           /\ \A e \in Audio : (e \in ch'.started <=> audio'[e] # "none")
                               \/ (e # c /\ audio'[e] = audio[e]
                                   /\ (e \in ch'.started <=> e \in ch.started))
           /\ \/ audio'[4] = audio[4] \/ audio'[4] = "none"
              \/ audio'[4] = Loudness(eng.gain, 4)
<1> USE DEF AaTypeOK
<1>1. pc = "loop" /\ pc' = pc /\ eng' = eng /\ gate' = gate /\ aux' = aux
  BY DEF StartAudio, StopAudio, Receive, Running
<1>2. /\ ch'.requested = ch.requested
      /\ Video \in ch'.started <=> Video \in ch.started
  BY DEF StartAudio, StopAudio, Discovery, Video
<1>3. pub'.video = pub.video /\ pub'.rev = pub.rev
  BY DEF StartAudio, StopAudio, Published
<1>4. \/ /\ ch'.started = ch.started \cup {c}
         /\ audio' = [audio EXCEPT ![c] = Loudness(c = 4 => eng.gain, c)]
      \/ /\ ch'.started = ch.started \ {c}
         /\ audio' = [audio EXCEPT ![c] = "none"]
  BY DEF StartAudio, StopAudio, Discovery
<1>5. \A v \in BOOLEAN : Loudness(v, c) # "none"
  BY DEF Loudness
<1>6. \A e \in Audio : (e \in ch'.started <=> audio'[e] # "none")
                       \/ (e # c /\ audio'[e] = audio[e]
                           /\ (e \in ch'.started <=> e \in ch.started))
  BY <1>4, <1>5
<1>7. \/ audio'[4] = audio[4] \/ audio'[4] = "none"
      \/ audio'[4] = Loudness(eng.gain, 4)
  BY <1>4 DEF Loudness
<1> QED
  BY <1>1, <1>2, <1>3, <1>6, <1>7

(* The published video.                                                    *)
VideoInv == /\ AwaitingRequested /\ StartedPublished /\ Answered /\ VisiblePermitted

LEMMA AaKeepsVideo ==
    ASSUME AaInv, AaStep
    PROVE  NothingLeft' /\ VideoInv'
<1> USE DEF AaInv, VideoInv, NothingLeft, AwaitingRequested, StartedPublished, Answered,
            VisiblePermitted
<1>1. CASE Returns
  BY <1>1, ReturnsKeep
<1>2. CASE Prepares
  <2>1. pub.rev \in Nat
    BY DEF AaTypeOK, Published
  <2> QED
    BY <1>2, <2>1, PreparesKeep
<1>3. CASE Executes
  <2>1. PICK m \in Commands : m.k # "disconnect" /\ Command(m)
    BY <1>3 DEF Executes
  <2>2. pc = "loop" /\ pc' = pc
    BY <1>3 DEF Executes
  <2>3. pub.rev \in Nat /\ pub'.rev \in Nat /\ aux.since \in Nat
    BY AaStepTyped DEF AaTypeOK, Published
  <2> QED
    BY <2>1, <2>2, <2>3, CommandEffect
<1>4. CASE Quiet
  BY <1>4 DEF Quiet
<1>5. CASE PublishFailure
  <2>1. pub'.rev = pub.rev /\ pub'.video = "none"
    BY <1>5 DEF PublishFailure, AaTypeOK, Published
  <2> QED
    BY <1>5, <2>1 DEF PublishFailure
<1>6. CASE CloseSession \/ ForgetFailed \/ \E t \in Transports : BeginSession(t)
  <2>1. pub'.video = "none" /\ pub'.rev = 0
    BY <1>6 DEF CloseSession, ForgetFailed, BeginSession, NoSession
  <2>2. pc' \in {"none", "tls"} /\ ch' = NoChannels /\ aux' = NoHistory /\ audio' = NoAudio
    BY <1>6 DEF CloseSession, ForgetFailed, BeginSession
  <2>3. ~eng'.awaiting
    BY <1>6 DEF CloseSession, ForgetFailed, BeginSession, NoEngine
  <2> QED
    BY <2>1, <2>2, <2>3 DEF NoChannels, NoHistory
<1>7. CASE TlsEstablished
  BY <1>7 DEF TlsEstablished, NoChannels
<1>8. CASE StartVideo \/ StopVideo \/ VideoData
  <2>1. pub.rev \in Nat /\ aux.since \in Nat
    BY DEF AaTypeOK, Published
  <2>2. eng.awaiting \in BOOLEAN
    BY DEF AaTypeOK, EngineState
  <2>3. CASE StartVideo \/ StopVideo
    BY <2>1, <2>2, <2>3, VideoEffect
  <2>4. CASE VideoData
    <3>1. pub.video # "none"
      BY <2>4, VideoEffect
    <3> QED
      BY <2>1, <2>2, <2>4, <3>1, VideoEffect
  <2> QED
    BY <1>8, <2>3, <2>4
<1>9. CASE \E c \in Audio : StartAudio(c) \/ StopAudio(c)
  BY <1>9, AudioEffect
<1>10. CASE \E mode \in 0..2 : FocusRequest(mode)
  <2>1. PICK mode \in 0..2 : FocusRequest(mode)
    BY <1>10
  <2>2. pc = "loop"
    BY <2>1 DEF FocusRequest, Receive, Running
  <2>3. /\ pc' = pc /\ audio' = audio /\ aux' = aux /\ ch'.started = ch.started
        /\ pub'.rev = pub.rev /\ pub'.video # "none"
        /\ ch'.requested <=> ch.requested /\ mode # 2
        /\ eng'.awaiting <=> eng.awaiting /\ mode # 2
    BY <2>1, FocusEffect
  <2>4. pub'.video = "visible" => mode = 1 /\ ch.requested /\ ~eng.awaiting
    BY <2>1, FocusEffect
  <2>5. AwaitingRequested' /\ StartedPublished' /\ NothingLeft'
    BY <2>2, <2>3
  <2>6. Answered'
    BY <2>3
  <2>7. VisiblePermitted'
    BY <2>3, <2>4
  <2> QED
    BY <2>5, <2>6, <2>7
<1>11. CASE GateChanged
  BY <1>11 DEF GateChanged, Running
<1> QED
  BY <1>1, <1>2, <1>3, <1>4, <1>5, <1>6, <1>7, <1>8, <1>9, <1>10, <1>11, AaSteps

(* The playbacks and the gate.                                             *)
LEMMA AaKeepsPlaybacks ==
    ASSUME AaInv, AaStep
    PROVE  Playbacks'
<1> USE DEF AaInv, Playbacks
<1>1. CASE Returns \/ Prepares
  BY <1>1, ReturnsKeep, PreparesKeep
<1>2. CASE Executes
  BY <1>2, CommandEffect DEF Executes
<1>3. CASE Quiet \/ PublishFailure \/ GateChanged
  <2>1. CASE Quiet \/ PublishFailure
    BY <2>1 DEF Quiet, PublishFailure
  <2>2. CASE GateChanged
    BY <2>2 DEF GateChanged, Loudness, AaTypeOK
  <2> QED
    BY <1>3, <2>1, <2>2
<1>4. CASE CloseSession
  BY <1>4 DEF CloseSession, NoChannels, NoAudio
<1>5. CASE ForgetFailed \/ TlsEstablished \/ \E t \in Transports : BeginSession(t)
  BY <1>5 DEF ForgetFailed, TlsEstablished, BeginSession
<1>6. CASE StartVideo \/ StopVideo \/ VideoData
  BY <1>6, VideoEffect
<1>7. CASE \E c \in Audio : StartAudio(c) \/ StopAudio(c)
  BY <1>7, AudioEffect
<1>8. CASE \E mode \in 0..2 : FocusRequest(mode)
  BY <1>8, FocusEffect
<1> QED
  BY <1>1, <1>2, <1>3, <1>4, <1>5, <1>6, <1>7, <1>8, AaSteps

LEMMA AaKeepsGate ==
    ASSUME AaInv, AaStep
    PROVE  GateApplied' /\ gate'.gen = gate.gen /\ gate'.audible = gate.audible
<1> USE DEF AaInv, GateApplied
<1>1. \A v \in BOOLEAN : Loudness(v, 4) = IF v /\ gate.audible THEN "audible" ELSE "silent"
  BY DEF Loudness
<1>2. eng.gain \in BOOLEAN /\ eng'.gain \in BOOLEAN
  BY AaStepTyped DEF AaTypeOK, EngineState
<1>3. CASE Returns \/ Prepares
  BY <1>3, ReturnsKeep, PreparesKeep
<1>4. CASE Executes
  <2>1. gate' = gate
    BY <1>4 DEF Executes
  <2>2. PICK m \in Commands : m.k # "disconnect" /\ Command(m)
    BY <1>4 DEF Executes
  <2>3. \/ audio'[4] = audio[4] /\ eng'.gain = eng.gain
        \/ audio'[4] = Loudness(eng'.gain, 4)
        \/ audio'[4] = "none"
    BY <2>2, CommandEffect
  <2> QED
    BY <1>1, <1>2, <2>1, <2>3
<1>5. CASE Quiet \/ PublishFailure \/ ForgetFailed
  BY <1>5 DEF Quiet, PublishFailure, ForgetFailed
<1>6. CASE CloseSession
  BY <1>6 DEF CloseSession, NoAudio
<1>7. CASE \E t \in Transports : BeginSession(t)
  BY <1>7 DEF BeginSession, NothingLeft, NoAudio
<1>8. CASE TlsEstablished
  <2>1. audio'[4] = "none"
    BY <1>8 DEF TlsEstablished, NothingLeft, NoAudio
  <2>2. gate' = [gate EXCEPT !.seen = gate.gen, !.ack = gate.gen]
    BY <1>8 DEF TlsEstablished
  <2> QED
    BY <2>1, <2>2 DEF AaTypeOK, Gate
<1>9. CASE StartVideo \/ StopVideo \/ VideoData
  BY <1>9, VideoEffect
<1>10. CASE \E c \in Audio : StartAudio(c) \/ StopAudio(c)
  <2>1. PICK c \in Audio : StartAudio(c) \/ StopAudio(c)
    BY <1>10
  <2>2. gate' = gate /\ eng' = eng
        /\ (audio'[4] = audio[4] \/ audio'[4] = "none" \/ audio'[4] = Loudness(eng.gain, 4))
    BY <2>1, AudioEffect
  <2> QED
    BY <1>1, <1>2, <2>2
<1>11. CASE \E mode \in 0..2 : FocusRequest(mode)
  BY <1>11, FocusEffect
<1>12. CASE GateChanged
  <2>1. /\ audio' = [audio EXCEPT ![4] = IF @ = "none" THEN @ ELSE Loudness(eng.gain, 4)]
        /\ gate' = [gate EXCEPT !.seen = gate.gen, !.ack = gate.gen] /\ eng' = eng
    BY <1>12 DEF GateChanged
  <2>2. audio'[4] = "none" \/ audio'[4] = Loudness(eng.gain, 4)
    BY <2>1 DEF AaTypeOK
  <2>3. gate'.gen = gate.gen /\ gate'.audible = gate.audible /\ gate'.ack = gate.gen
        /\ gate.gen \in Nat
    BY <2>1 DEF AaTypeOK, Gate
  <2> QED
    BY <1>1, <1>2, <2>1, <2>2, <2>3
<1> QED
  BY <1>3, <1>4, <1>5, <1>6, <1>7, <1>8, <1>9, <1>10, <1>11, <1>12, AaSteps

(* The gate is requested: nothing is acknowledged for the new generation.  *)
LEMMA RequestKeeps ==
    ASSUME AaInv, NEW audible \in BOOLEAN, Requests(audible)
    PROVE  AaInv'
<1>1. gate' \in Gate
  BY OutputFields DEF AaInv, AaTypeOK, Requests
<1>2. AaTypeOK'
  BY <1>1 DEF AaInv, AaTypeOK, Requests
<1>3. gate'.gen = gate.gen + 1 /\ gate'.ack = gate.ack /\ gate.gen \in Nat /\ gate.ack \in Nat
  BY DEF AaInv, AaTypeOK, Requests, Gate
<1>4. GateApplied'
  BY <1>3 DEF AaInv, GateApplied
<1> QED
  BY <1>2, <1>4 DEF AaInv, Requests, NothingLeft, AwaitingRequested, StartedPublished,
     Answered, VisiblePermitted, Playbacks

LEMMA AaStepKeeps ==
    ASSUME AaInv, AaStep
    PROVE  AaInv'
BY AaStepTyped, AaKeepsVideo, AaKeepsPlaybacks, AaKeepsGate DEF AaInv, VideoInv

LEMMA AaStutters ==
    ASSUME AaInv, UNCHANGED aaVars
    PROVE  AaInv'
BY DEF AaInv, AaTypeOK, aaVars, NothingLeft, AwaitingRequested, StartedPublished,
   Answered, VisiblePermitted, Playbacks, GateApplied

LEMMA AaInitially == AaInit => AaInv
<1> SUFFICES ASSUME AaInit PROVE AaInv
  OBVIOUS
<1> USE DEF AaInit
<1>1. AaTypeOK
  <2>1. gate \in Gate
    BY DEF Gate
  <2> QED
    BY <2>1, RestTyped DEF AaTypeOK
<1>2. NothingLeft /\ AwaitingRequested /\ StartedPublished /\ Answered /\ VisiblePermitted
  BY DEF NothingLeft, AwaitingRequested, StartedPublished, Answered, VisiblePermitted,
         NoSession, NoEngine, NoChannels, NoHistory
<1>3. Playbacks /\ GateApplied
  BY DEF Playbacks, GateApplied, NoChannels, NoAudio
<1> QED
  BY <1>1, <1>2, <1>3 DEF AaInv

-----------------------------------------------------------------------------
(* Theorems.                                                               *)

(* AaInv is an invariant of the session engine, whatever the phone sends   *)
(* and the host commands, in any order.                                    *)
THEOREM AaInvariance == AaSpec => []AaInv
<1>1. AaInit => AaInv
  BY AaInitially
<1>2. AaInv /\ [AaNext]_aaVars => AaInv'
  <2> SUFFICES ASSUME AaInv, [AaNext]_aaVars PROVE AaInv'
    OBVIOUS
  <2>1. CASE AaStep
    BY <2>1, AaStepKeeps
  <2>2. CASE \E audible \in BOOLEAN : GateRequest(audible)
    BY <2>2, RequestKeeps DEF GateRequest, Requests
  <2>3. CASE UNCHANGED aaVars
    BY <2>3, AaStutters
  <2> QED
    BY <2>1, <2>2, <2>3 DEF AaNext
<1> QED
  BY <1>1, <1>2, PTL DEF AaSpec

(* The session's variables keep their types, and the broadcast receiver    *)
(* never holds more than its capacity (host_control.rs).                   *)
THEOREM AaTypeCorrect == AaSpec => []AaTypeOK
<1>1. AaInv => AaTypeOK
  BY DEF AaInv
<1> QED
  BY <1>1, AaInvariance, PTL

(* Video is published as visible only with the host's permission and, after*)
(* an activation, only once new data has arrived (run_engine).             *)
THEOREM ShownAsAllowed == AaSpec => []VisibleAllowed
<1>1. AaInv => VisibleAllowed
  BY DEF AaInv, VisibleAllowed, VisiblePermitted, Answered
<1> QED
  BY <1>1, AaInvariance, PTL

(* Visible video has a later revision than the activation it answers, so   *)
(* the host that waits for a newer one is never shown an old one.          *)
THEOREM ShownIsNewer == AaSpec => []VisibleIsNewer
<1>1. AaInv => VisibleIsNewer
  BY DEF AaInv, VisibleIsNewer, VisiblePermitted, Answered
<1> QED
  BY <1>1, AaInvariance, PTL

(* In the loop, a stream is started exactly if it has a playback: valid    *)
(* audio data never ends the session.                                      *)
THEOREM PlaybackOfStreams == AaSpec => []StreamsHavePlayback
<1>1. AaInv => StreamsHavePlayback
  BY DEF AaInv, StreamsHavePlayback, Playbacks
<1> QED
  BY <1>1, AaInvariance, PTL

(* Valid audio data does not end the session: an action property, from the *)
(* playbacks.                                                              *)
THEOREM DataKeepsSession ==
    AaSpec => [][\A c \in Audio : AudioData(c) => pc' = pc]_aaVars
<1>1. AaInv => (\A c \in Audio : AudioData(c) => pc' = pc)
  BY DEF AaInv, Playbacks, AudioData
<1>2. AaInv /\ [AaNext]_aaVars => [\A c \in Audio : AudioData(c) => pc' = pc]_aaVars
  BY <1>1
<1> QED
  BY <1>2, AaInvariance, PTL DEF AaSpec

===============================================================================
