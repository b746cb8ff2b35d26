-------------------------- MODULE MusicSource_proofs --------------------------
(***************************************************************************)
(* Break before make, for every set of channels and every number of        *)
(* selections, sessions and commands: the Bluetooth links and the media    *)
(* channel of Android Auto are never audible together.  The session's part *)
(* of the invariant comes from AaSession_proofs.                           *)
(***************************************************************************)
EXTENDS MusicSource, AaSession_proofs

USE AaAssumption, MusicAssumption

(* The last request of the gate is in force in a running session.          *)
InForce == pc = "loop" => gate.ack = gate.gen

(* Whatever may carry Bluetooth audio, or is about to, rests on a closed   *)
(* gate that is in force: audio channel 4 is not audible.                  *)
Carried == links \/ music.at \in {"route", "linked"} \/ music.selected = "bluetooth"

BluetoothGated == Carried => ~gate.audible /\ InForce /\ audio[4] # "audible"

(* The same of the projection, with the gate open.                         *)
ProjectionOpen == music.selected = "projection" => ~links /\ gate.audible /\ InForce

(* The controller waits for the generation it has requested, of the target *)
(* it has.                                                                 *)
GateAwaited ==
    music.at = "gate" => /\ music.gen = gate.gen /\ ~links
                         /\ gate.audible <=> music.target = "projection"

(* Nothing is selected during a selection and its cleanup.                 *)
NothingSelected == music.at # "idle" => music.selected = "none"

(* A session that exists is published.                                     *)
SessionPublished == pub.st = "none" => pc = "none"

IInv == /\ TypeOK /\ AaInv /\ BluetoothGated /\ ProjectionOpen /\ GateAwaited
        /\ NothingSelected /\ SessionPublished

-----------------------------------------------------------------------------
(* Lemmas about the controller.                                            *)

(* Updating a field of the controller's state.                             *)
LEMMA MusicFields ==
    /\ \A m \in MusicState, p \in {"idle", "silence", "gate", "route", "linked", "failing"} :
          [m EXCEPT !.at = p] \in MusicState
    /\ \A m \in MusicState, t \in Sources : [m EXCEPT !.target = t] \in MusicState
    /\ \A m \in MusicState, s \in Sources \cup {"none"} : [m EXCEPT !.selected = s] \in MusicState
    /\ \A m \in MusicState, n \in Nat : [m EXCEPT !.gen = n] \in MusicState
    /\ \A m \in MusicState, b \in BOOLEAN :
          [m EXCEPT !.source = b] \in MusicState /\ [m EXCEPT !.same = b] \in MusicState
    /\ \A m \in MusicState : Unselected(m) \in MusicState
<1>1. \A m \in MusicState, p \in {"idle", "silence", "gate", "route", "linked", "failing"} :
          [m EXCEPT !.at = p] \in MusicState
  BY DEF MusicState
<1>2. \A m \in MusicState, t \in Sources : [m EXCEPT !.target = t] \in MusicState
  BY DEF MusicState
<1>3. \A m \in MusicState, s \in Sources \cup {"none"} : [m EXCEPT !.selected = s] \in MusicState
  BY DEF MusicState
<1>4. \A m \in MusicState, n \in Nat : [m EXCEPT !.gen = n] \in MusicState
  BY DEF MusicState
<1>5. \A m \in MusicState, b \in BOOLEAN :
          [m EXCEPT !.source = b] \in MusicState /\ [m EXCEPT !.same = b] \in MusicState
  BY DEF MusicState
<1>6. \A m \in MusicState : Unselected(m) \in MusicState
  BY DEF MusicState, Unselected
<1> QED
  BY <1>1, <1>2, <1>3, <1>4, <1>5, <1>6

(* The steps that leave session and gate alone, by what they do to the     *)
(* selection and the links.                                                *)
Controls == Music /\ ~gate_projection

LEMMA ControlsTyped ==
    ASSUME TypeOK, Controls
    PROVE  music' \in MusicState /\ links' \in BOOLEAN /\ selects' \in 0..MaxSelects
           /\ UNCHANGED <<session, gate>>
<1> USE DEF TypeOK
<1> DEFINE Goal == /\ music' \in MusicState /\ links' \in BOOLEAN /\ selects' \in 0..MaxSelects
                   /\ UNCHANGED <<session, gate>>
<1>1. \A m \in MusicState : Silence(m) => music' \in MusicState /\ links' \in BOOLEAN
  BY MusicFields DEF Silence, SilenceOk, SilenceFail
<1>2. CASE \E t \in Sources : Select(t)
  <2>1. PICK t \in Sources : Select(t)
    BY <1>2
  <2>2. music' = [music EXCEPT !.at = "silence", !.target = t, !.selected = "none", !.same = FALSE]
    BY <2>1 DEF Select
  <2>3. [music EXCEPT !.at = "silence"] \in MusicState
    BY MusicFields
  <2>4. [music EXCEPT !.at = "silence", !.target = t] \in MusicState
    BY <2>3, MusicFields
  <2>5. [music EXCEPT !.at = "silence", !.target = t, !.selected = "none"] \in MusicState
    BY <2>4, MusicFields
  <2>6. music' \in MusicState
    BY <2>2, <2>5, MusicFields
  <2>7. selects' \in 0..MaxSelects
    BY <2>1 DEF Select
  <2> QED
    BY <2>1, <2>6, <2>7 DEF Select
<1>3. CASE GateConfirmed
  <2>1. [music EXCEPT !.at = "idle"] \in MusicState /\ [music EXCEPT !.at = "route"] \in MusicState
    BY MusicFields
  <2>2. [music EXCEPT !.at = "idle", !.selected = "projection"] \in MusicState
    BY <2>1, MusicFields DEF Sources
  <2> QED
    BY <1>3, <2>1, <2>2 DEF GateConfirmed
<1>4. CASE RouteLinked \/ SelectFails
  <2>1. [music EXCEPT !.at = "linked"] \in MusicState /\ [music EXCEPT !.at = "failing"] \in MusicState
    BY MusicFields
  <2> QED
    BY <1>4, <2>1 DEF RouteLinked, SelectFails
<1>5. CASE RouteDone
  <2>1. [music EXCEPT !.at = "idle"] \in MusicState
    BY MusicFields
  <2>2. [music EXCEPT !.at = "idle", !.selected = "bluetooth"] \in MusicState
    BY <2>1, MusicFields DEF Sources
  <2>3. [music EXCEPT !.at = "idle", !.selected = "bluetooth", !.same = TRUE] \in MusicState
    BY <2>2, MusicFields
  <2> QED
    BY <1>5, <2>3 DEF RouteDone
<1>6. CASE SelectCleanup
  <2>1. [music EXCEPT !.at = "idle"] \in MusicState
    BY MusicFields
  <2> QED
    BY <1>1, <1>6, <2>1 DEF SelectCleanup
<1>7. CASE SelectRefused
  BY <1>1, <1>7 DEF SelectRefused
<1>8. CASE PlayerAppears
  <2>1. [music EXCEPT !.source = TRUE] \in MusicState
    BY MusicFields
  <2>2. [music EXCEPT !.source = TRUE, !.same = FALSE] \in MusicState
    BY <2>1, MusicFields
  <2> QED
    BY <1>8, <2>2 DEF PlayerAppears
<1>9. CASE PlayerRemoved
  <2>1. [music EXCEPT !.source = FALSE] \in MusicState
    BY MusicFields
  <2> QED
    BY <1>1, <1>9, <2>1 DEF PlayerRemoved
<1>10. CASE Refresh
  <2>1. [music EXCEPT !.selected = "none"] \in MusicState
    BY MusicFields
  <2>2. music.source \in BOOLEAN
    BY DEF MusicState
  <2>3. \A found \in BOOLEAN : [music EXCEPT !.selected = "none", !.source = found] \in MusicState
    BY <2>1, MusicFields
  <2>4. CASE links' = TRUE /\ music' = music
    BY <1>10, <2>4 DEF Refresh
  <2>5. CASE Silence(music)
    BY <1>1, <1>10, <2>5 DEF Refresh
  <2>6. CASE \E found \in {music.source, FALSE} :
                Retire([music EXCEPT !.selected = "none", !.source = found])
    <3>1. PICK found \in {music.source, FALSE} :
             Retire([music EXCEPT !.selected = "none", !.source = found])
      BY <2>6
    <3> DEFINE m == [music EXCEPT !.selected = "none", !.source = found]
    <3>2. m \in MusicState
      BY <2>2, <2>3
    <3>3. links' \in BOOLEAN /\ (music' = m \/ music' = [m EXCEPT !.selected = "none"])
      BY <3>1 DEF Retire, SilenceOk
    <3> HIDE DEF m
    <3>4. music' \in MusicState
      BY <3>2, <3>3, MusicFields
    <3> QED
      BY <1>10, <3>3, <3>4 DEF Refresh
  <2> QED
    BY <1>10, <2>4, <2>5, <2>6 DEF Refresh
<1>11. CASE MusicGain
  BY <1>11 DEF MusicGain
<1>12. CASE MusicConnect \/ Disconnect
  <2>1. [music EXCEPT !.source = FALSE] \in MusicState
    BY MusicFields
  <2>2. Unselected([music EXCEPT !.source = FALSE]) \in MusicState
    BY <2>1, MusicFields
  <2>3. music' \in MusicState /\ links' \in BOOLEAN
    <3> DEFINE m == Unselected([music EXCEPT !.source = FALSE])
    <3>1. SilenceOk(m) \/ SilenceFail(m) \/ SilenceFail(music)
      BY <1>12 DEF MusicConnect, Disconnect, Silence
    <3> HIDE DEF m
    <3>2. m \in MusicState
      BY <2>2 DEF m
    <3> QED
      BY <1>1, <3>1, <3>2 DEF Silence
  <2> QED
    BY <1>12, <2>3 DEF MusicConnect, Disconnect
<1> QED
  BY <1>2, <1>3, <1>4, <1>5, <1>6, <1>7, <1>8, <1>9, <1>10, <1>11, <1>12 DEF Controls, Music

(* Their effect on the selection and the links: selecting, step by step,   *)
(* and everything else, which makes no links but for Bluetooth.            *)
LEMMA ControlsEffect ==
    ASSUME TypeOK, Controls
    PROVE  \/ /\ music'.at \in {"silence", "failing"} /\ links' = links
              /\ music'.selected = "none" \/ (music.at # "idle" /\ music'.selected = music.selected)
           \/ /\ music.at = "gate" /\ links' = links
              /\ gate.ack >= music.gen \/ pub.st = "none"
              /\ \/ /\ music.target = "projection" /\ music'.at = "idle"
                    /\ music'.selected = "projection"
                 \/ /\ music.target = "bluetooth" /\ music'.at = "route"
                    /\ music'.selected = music.selected
           \/ /\ music.at = "route" /\ music'.at = "linked"
              /\ music'.selected = music.selected
           \/ /\ music.at = "linked" /\ music'.at = "idle" /\ links' = links
              /\ music'.selected = "bluetooth"
           \/ /\ music'.at = "idle" /\ music'.selected \in {music.selected, "none"}
              /\ links' => links \/ music.selected = "bluetooth"
<1> USE DEF TypeOK
<1> DEFINE Other == /\ music'.at = "idle" /\ music'.selected \in {music.selected, "none"}
                    /\ links' => links \/ music.selected = "bluetooth"
<1>1. \A m \in MusicState : Silence(m) =>
          /\ music'.at = m.at /\ music'.selected \in {m.selected, "none"} /\ (links' => links)
  <2>1. \A m \in MusicState :
           Unselected(m).at = m.at /\ Unselected(m).selected \in {m.selected, "none"}
    BY DEF Unselected, MusicState
  <2>2. ASSUME NEW m \in MusicState, Silence(m)
        PROVE  music'.at = m.at /\ music'.selected \in {m.selected, "none"} /\ (links' => links)
    <3>1. music' = m \/ music' = Unselected(m)
      BY <2>2 DEF Silence, SilenceOk, SilenceFail
    <3>2. links' => links
      BY <2>2 DEF Silence, SilenceOk, SilenceFail
    <3> QED
      BY <2>1, <2>2, <3>1, <3>2
  <2> QED
    BY <2>2
<1>2. CASE \E t \in Sources : Select(t)
  BY <1>2 DEF Select, MusicState
<1>3. CASE GateConfirmed
  BY <1>3 DEF GateConfirmed, MusicState, Sources
<1>4. CASE SelectFails
  BY <1>4 DEF SelectFails, MusicState
<1>5. CASE RouteLinked
  BY <1>5 DEF RouteLinked, MusicState
<1>6. CASE RouteDone
  BY <1>6 DEF RouteDone, MusicState
<1>7. CASE SelectCleanup
  <2> DEFINE m == [music EXCEPT !.at = "idle"]
  <2>1. m \in MusicState
    BY MusicFields
  <2>2. m.at = "idle" /\ m.selected = music.selected
    BY DEF MusicState
  <2>3. Silence(m)
    BY <1>7 DEF SelectCleanup
  <2> HIDE DEF m
  <2>4. Other
    BY <1>1, <2>1, <2>2, <2>3
  <2> QED
    BY <2>4
<1>8. CASE SelectRefused
  <2>1. Other
    BY <1>1, <1>8 DEF SelectRefused, Idle
  <2> QED
    BY <2>1
<1>9. CASE PlayerAppears
  <2>1. Other
    BY <1>9 DEF PlayerAppears, Idle, MusicState
  <2> QED
    BY <2>1
<1>10. CASE PlayerRemoved
  <2> DEFINE m == [music EXCEPT !.source = FALSE]
  <2>1. m \in MusicState
    BY MusicFields
  <2>2. m.at = music.at /\ m.selected = music.selected
    BY DEF MusicState
  <2>3. Silence(m) /\ music.at = "idle"
    BY <1>10 DEF PlayerRemoved, Idle
  <2> HIDE DEF m
  <2>4. Other
    BY <1>1, <2>1, <2>2, <2>3
  <2> QED
    BY <2>4
<1>11. CASE Refresh
  <2>1. music.at = "idle" /\ music.selected = "bluetooth"
    BY <1>11 DEF Refresh, Idle
  <2>2. music'.at = "idle" /\ music'.selected \in {music.selected, "none"}
    <3>1. CASE music' = music
      BY <2>1, <3>1
    <3>2. CASE Silence(music)
      BY <1>1, <2>1, <3>2
    <3>3. CASE \E found \in {music.source, FALSE} :
                  Retire([music EXCEPT !.selected = "none", !.source = found])
      BY <2>1, <3>3 DEF Retire, SilenceOk, MusicState
    <3> QED
      BY <1>11, <3>1, <3>2, <3>3 DEF Refresh
  <2>3. Other
    BY <2>1, <2>2
  <2> QED
    BY <2>3
<1>12. CASE MusicGain
  <2>1. Other
    BY <1>12 DEF MusicGain, Idle
  <2> QED
    BY <2>1
<1>13. CASE MusicConnect \/ Disconnect
  <2> DEFINE m == Unselected([music EXCEPT !.source = FALSE])
  <2>1. m \in MusicState
    BY MusicFields
  <2>2. m.at = music.at /\ m.selected \in {music.selected, "none"}
    BY DEF MusicState, Unselected
  <2>3. music.at = "idle" /\ (SilenceOk(m) \/ SilenceFail(m) \/ SilenceFail(music))
    BY <1>13 DEF MusicConnect, Disconnect, Silence, Idle
  <2> HIDE DEF m
  <2>4. Other
    BY <1>1, <2>1, <2>2, <2>3 DEF Silence
  <2> QED
    BY <2>4
<1> QED
  BY <1>2, <1>3, <1>4, <1>5, <1>6, <1>7, <1>8, <1>9, <1>10, <1>11, <1>12, <1>13
  DEF Controls, Music

-----------------------------------------------------------------------------
(* Every step keeps the invariant.                                         *)

(* A session leaves a closed or open gate in force, and a silenced channel *)
(* silent.                                                                 *)
LEMMA AaLeavesGate ==
    ASSUME AaInv, SessionPublished, AaStep
    PROVE  /\ InForce => InForce'
           /\ SessionPublished'
           /\ ~gate.audible /\ InForce /\ audio[4] # "audible" => audio'[4] # "audible"
<1>1. gate'.gen = gate.gen /\ gate'.audible = gate.audible
  BY AaKeepsGate
<1>2. AaInv'
  BY AaStepKeeps
<1>3. gate'.ack = gate.ack \/ gate'.ack = gate.gen
  BY AaSteps, ReturnsKeep, PreparesKeep, VideoEffect, AudioEffect, FocusEffect
  DEF AaInv, AaTypeOK, Gate, Executes, Quiet, PublishFailure, CloseSession, ForgetFailed,
      BeginSession, TlsEstablished, GateChanged
<1>4. pc' = "loop" => pc = "loop" \/ (TlsEstablished /\ gate'.ack = gate.gen)
  BY AaSteps, ReturnsKeep, PreparesKeep, VideoEffect, AudioEffect, FocusEffect
  DEF AaInv, AaTypeOK, Gate, Executes, Quiet, PublishFailure, CloseSession, ForgetFailed,
      BeginSession, TlsEstablished, GateChanged
<1>5. InForce => InForce'
  BY <1>1, <1>3, <1>4 DEF InForce
<1>6. SessionPublished'
  <2> USE DEF SessionPublished
  <2>1. CASE Returns \/ Prepares \/ Quiet
    BY <2>1, ReturnsKeep, PreparesKeep DEF Quiet, AaInv
  <2>2. CASE Executes
    <3>1. \A v \in BOOLEAN : pub.st # "none" => set_visibility(pub, v).st # "none"
      BY DEF set_visibility, AaInv, AaTypeOK, Published
    <3>2. pc = "loop"
      BY <2>2 DEF Executes
    <3>3. PICK m \in Commands : m.k # "disconnect" /\ Command(m)
      BY <2>2 DEF Executes
    <3>4. pub' = pub \/ pub' = set_visibility(pub, FALSE)
      BY <3>3, CommandKinds DEF Command
    <3> QED
      BY <3>1, <3>2, <3>4
  <2>3. CASE PublishFailure \/ CloseSession \/ ForgetFailed
    BY <2>3 DEF PublishFailure, CloseSession, ForgetFailed, AaInv, AaTypeOK, Published
  <2>4. CASE \E t \in Transports : BeginSession(t)
    BY <2>4 DEF BeginSession, NoSession
  <2>5. CASE TlsEstablished \/ GateChanged
    BY <2>5 DEF TlsEstablished, GateChanged
  <2>6. CASE StartVideo \/ StopVideo \/ VideoData
    <3>1. \A v \in BOOLEAN : /\ Shown(pub, v).st # "none"
                             /\ pub.st # "none" => set_visibility(pub, v).st # "none"
      BY DEF Shown, set_visibility, AaInv, AaTypeOK, Published
    <3>2. pc = "loop" /\ ch.requested \in BOOLEAN
      BY <2>6, VideoEffect DEF AaInv, AaTypeOK, Discovery
    <3>3. pub' \in {pub, Shown(pub, ch.requested), Shown(pub, FALSE), set_visibility(pub, TRUE)}
      BY <2>6 DEF StartVideo, StopVideo, VideoData
    <3> QED
      BY <3>1, <3>2, <3>3
  <2>7. CASE \E c \in Audio : StartAudio(c) \/ StopAudio(c)
    <3>1. pub'.st = pub.st /\ pc' = pc
      BY <2>7 DEF StartAudio, StopAudio, AaInv, AaTypeOK, Published
    <3> QED
      BY <3>1
  <2>8. CASE \E mode \in 0..2 : FocusRequest(mode)
    <3>1. PICK mode \in 0..2 : FocusRequest(mode)
      BY <2>8
    <3> DEFINE v == mode = 1 /\ ch.requested /\ mode # 2
               p == Shown(pub, v)
    <3>2. pub' = IF mode = 2 THEN [p EXCEPT !.ret = @ + 1] ELSE p
      BY <3>1 DEF FocusRequest
    <3>3. p.st # "none" /\ p \in Published
      <4>1. pub \in Published /\ v \in BOOLEAN
        BY DEF AaInv, AaTypeOK
      <4>2. p \in Published
        BY <4>1, OutputFields
      <4>3. p.st # "none"
        BY <4>1 DEF Shown, Published
      <4> QED
        BY <4>2, <4>3
    <3> HIDE DEF p
    <3>4. pub'.st # "none"
      BY <3>2, <3>3 DEF Published
    <3> QED
      BY <3>4
  <2> QED
    BY <2>1, <2>2, <2>3, <2>4, <2>5, <2>6, <2>7, <2>8, AaSteps DEF AaInv
<1>7. ASSUME ~gate.audible, InForce, audio[4] # "audible"
      PROVE  audio'[4] # "audible"
  <2>1. pc' = "closing" => audio' = audio
    BY AaSteps, ReturnsKeep, PreparesKeep, VideoEffect, AudioEffect, FocusEffect
    DEF AaInv, Executes, Quiet, PublishFailure, CloseSession, ForgetFailed,
        BeginSession, TlsEstablished, GateChanged, Running, FocusRequest, Receive
  <2>2. pc' \in {"none", "tls"} => audio'[4] = "none"
    BY <1>2 DEF AaInv, NothingLeft, NoAudio
  <2>3. pc' = "loop" => audio'[4] # "audible"
    BY <1>1, <1>2, <1>5, <1>7 DEF AaInv, GateApplied, InForce
  <2> QED
    BY <1>2, <1>7, <2>1, <2>2, <2>3 DEF AaInv, AaTypeOK
<1> QED
  BY <1>5, <1>6, <1>7

(* A step of the session.                                                  *)
LEMMA SessionKeeps ==
    ASSUME IInv, AaStep, UNCHANGED <<music, links, selects>>
    PROVE  IInv'
<1> USE DEF IInv
<1>1. AaInv'
  BY AaStepKeeps
<1>2. TypeOK'
  BY <1>1 DEF AaInv, TypeOK
<1>3. gate'.gen = gate.gen /\ gate'.audible = gate.audible
  BY AaKeepsGate
<1>4. SessionPublished'
  BY AaLeavesGate
<1>5. BluetoothGated' /\ ProjectionOpen'
  BY <1>3, AaLeavesGate DEF BluetoothGated, ProjectionOpen, Carried
<1>6. GateAwaited' /\ NothingSelected'
  BY <1>3 DEF GateAwaited, NothingSelected
<1> QED
  BY <1>1, <1>2, <1>4, <1>5, <1>6

(* A request of the gate: the old links are gone.                          *)
LEMMA GateRequestKeeps ==
    ASSUME IInv, gate_projection
    PROVE  IInv'
<1> USE DEF IInv
<1> DEFINE audible == music.target = "projection"
<1>1. Requests(audible)
  BY DEF gate_projection, session, Requests
<1>2. AaInv'
  BY <1>1, RequestKeeps
<1>3. gate.gen \in Nat /\ gate'.gen = gate.gen + 1 /\ gate'.audible = audible
  BY <1>1 DEF Requests, AaInv, AaTypeOK, Gate
<1>4. music' = [music EXCEPT !.at = "gate", !.gen = gate.gen + 1] /\ links' = FALSE
      /\ selects' = selects /\ music.at = "silence"
  BY DEF gate_projection
<1>5. music' \in MusicState
  <2>1. [music EXCEPT !.at = "gate"] \in MusicState
    BY MusicFields DEF TypeOK
  <2>2. [music EXCEPT !.at = "gate", !.gen = gate.gen + 1] \in MusicState
    <3>1. gate.gen + 1 \in Nat
      BY <1>3
    <3> QED
      BY <2>1, <3>1, MusicFields
  <2> QED
    BY <1>4, <2>2
<1>6. music'.at = "gate" /\ music'.gen = gate.gen + 1 /\ music'.target = music.target
      /\ music'.selected = music.selected
  BY <1>4 DEF TypeOK, MusicState
<1>7. music.selected = "none"
  BY <1>4 DEF NothingSelected
<1>8. TypeOK'
  BY <1>2, <1>4, <1>5 DEF TypeOK, AaInv
<1>9. BluetoothGated' /\ ProjectionOpen' /\ GateAwaited' /\ NothingSelected'
  BY <1>3, <1>4, <1>6, <1>7
  DEF BluetoothGated, ProjectionOpen, GateAwaited, NothingSelected, Carried
<1>10. SessionPublished'
  BY DEF gate_projection, session, SessionPublished
<1> QED
  BY <1>2, <1>8, <1>9, <1>10

(* Every other step of the controller.                                     *)
LEMMA ControlsKeep ==
    ASSUME IInv, Controls
    PROVE  IInv'
<1> USE DEF IInv
<1>1. /\ music' \in MusicState /\ links' \in BOOLEAN /\ selects' \in 0..MaxSelects
      /\ UNCHANGED <<session, gate>>
  BY ControlsTyped
<1>2. UNCHANGED aaVars
  BY <1>1 DEF session, aaVars
<1>3. AaInv' /\ TypeOK'
  BY <1>1, <1>2, AaStutters DEF AaInv, TypeOK
<1>4. SessionPublished' /\ InForce' = InForce /\ audio' = audio /\ gate' = gate
  BY <1>1 DEF session, SessionPublished, InForce
<1>5. ASSUME music.at = "gate", gate.ack >= music.gen \/ pub.st = "none"
      PROVE  InForce /\ (~gate.audible => audio[4] # "audible")
  <2>1. music.gen = gate.gen /\ gate.ack \in Nat /\ gate.gen \in Nat /\ gate.ack <= gate.gen
    BY <1>5 DEF GateAwaited, AaInv, AaTypeOK, Gate, GateApplied
  <2>2. CASE pub.st = "none"
    BY <2>2 DEF InForce, SessionPublished, AaInv, NothingLeft, NoAudio
  <2>3. CASE gate.ack >= music.gen
    BY <2>1, <2>3 DEF InForce, AaInv, GateApplied
  <2> QED
    BY <1>5, <2>2, <2>3
<1> USE DEF BluetoothGated, ProjectionOpen, GateAwaited, NothingSelected, Carried
<1>6. CASE /\ music'.at \in {"silence", "failing"} /\ links' = links
           /\ music'.selected = "none" \/ (music.at # "idle" /\ music'.selected = music.selected)
  BY <1>1, <1>3, <1>4, <1>6
<1>7. CASE /\ music.at = "gate" /\ links' = links
           /\ gate.ack >= music.gen \/ pub.st = "none"
           /\ \/ /\ music.target = "projection" /\ music'.at = "idle"
                 /\ music'.selected = "projection"
              \/ /\ music.target = "bluetooth" /\ music'.at = "route"
                 /\ music'.selected = music.selected
  <2>1. InForce /\ (~gate.audible => audio[4] # "audible")
    BY <1>5, <1>7
  <2>2. ~links /\ (gate.audible <=> music.target = "projection") /\ music.selected = "none"
    BY <1>7
  <2> QED
    BY <1>3, <1>4, <1>7, <2>1, <2>2
<1>8. CASE /\ music.at = "route" /\ music'.at = "linked"
           /\ music'.selected = music.selected
  BY <1>1, <1>3, <1>4, <1>8
<1>9. CASE /\ music.at = "linked" /\ music'.at = "idle" /\ links' = links
           /\ music'.selected = "bluetooth"
  BY <1>3, <1>4, <1>9
<1>10. CASE /\ music'.at = "idle" /\ music'.selected \in {music.selected, "none"}
            /\ links' => links \/ music.selected = "bluetooth"
  BY <1>3, <1>4, <1>10
<1> QED
  BY <1>6, <1>7, <1>8, <1>9, <1>10, ControlsEffect DEF TypeOK

LEMMA Initially == Init => IInv
<1> SUFFICES ASSUME Init PROVE IInv
  OBVIOUS
<1> USE DEF Init
<1>1. AaInv
  BY AaInitially
<1>2. TypeOK
  <2>1. music \in MusicState
    BY DEF MusicState, Sources
  <2>2. selects \in 0..MaxSelects
    BY DEF MusicAssumption
  <2>3. links \in BOOLEAN
    OBVIOUS
  <2> QED
    BY <1>1, <2>1, <2>2, <2>3 DEF TypeOK, AaInv
<1>3. SessionPublished /\ InForce /\ gate.audible
  BY DEF AaInit, SessionPublished, NoSession, InForce
<1> QED
  BY <1>1, <1>2, <1>3 DEF IInv, BluetoothGated, ProjectionOpen, GateAwaited, NothingSelected,
     Carried

-----------------------------------------------------------------------------
(* Theorems.                                                               *)

(* IInv is an invariant of the source switch with a session.               *)
THEOREM MusicInvariance == Spec => []IInv
<1>1. Init => IInv
  BY Initially
<1>2. IInv /\ [Next]_vars => IInv'
  <2> SUFFICES ASSUME IInv, [Next]_vars PROVE IInv'
    OBVIOUS
  <2>1. CASE gate_projection
    BY <2>1, GateRequestKeeps
  <2>2. CASE Controls
    BY <2>2, ControlsKeep
  <2>3. CASE AaStep /\ UNCHANGED <<music, links, selects>>
    BY <2>3, SessionKeeps
  <2>4. CASE UNCHANGED vars
    <3>1. AaInv'
      BY <2>4, AaStutters DEF IInv, vars
    <3> QED
      BY <2>4, <3>1 DEF IInv, AaInv, vars, aaVars, TypeOK, BluetoothGated, ProjectionOpen,
         GateAwaited, NothingSelected, Carried, SessionPublished, InForce
  <2> QED
    BY <2>1, <2>2, <2>3, <2>4 DEF Next, Controls
<1> QED
  BY <1>1, <1>2, PTL DEF Spec

(* Bluetooth links and Android Auto media are never audible together, over *)
(* every interleaving of selection, failure, cleanup and session.          *)
THEOREM NeverBoth == Spec => []NoOverlap
<1>1. IInv => NoOverlap
  BY DEF IInv, NoOverlap, BluetoothGated, Carried
<1> QED
  BY <1>1, MusicInvariance, PTL

(* A gate is acknowledged only when it is in force (GateChanged in         *)
(* run_engine applies the gain before it acknowledges).                    *)
THEOREM GateInForce == Spec => []GateSilences
<1>1. IInv => GateSilences
  BY DEF IInv, AaInv, GateSilences, GateApplied
<1> QED
  BY <1>1, MusicInvariance, PTL

(* A confirmed selection is the one that is heard.                         *)
THEOREM SelectionHeard == Spec => []SelectionApplied
<1>1. IInv => SelectionApplied
  <2> SUFFICES ASSUME IInv PROVE SelectionApplied
    OBVIOUS
  <2>1. music.selected = "bluetooth" => audio[4] # "audible"
    BY DEF IInv, BluetoothGated, Carried
  <2>2. music.selected = "projection" => ~links
    BY DEF IInv, ProjectionOpen
  <2>3. music.selected = "projection" /\ pc = "loop" /\ audio[4] # "none"
           => (audio[4] = "audible" <=> eng.gain)
    BY DEF IInv, ProjectionOpen, InForce, AaInv, GateApplied
  <2> QED
    BY <2>1, <2>2, <2>3 DEF SelectionApplied
<1> QED
  BY <1>1, MusicInvariance, PTL

===============================================================================
