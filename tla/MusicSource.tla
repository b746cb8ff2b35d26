---------------------------- MODULE MusicSource -----------------------------
(***************************************************************************)
(* The entertainment source switch of connectivity/music.rs, composed with *)
(* the Android Auto session: musicSelect breaks the old source before it   *)
(* makes the new one, closing or opening the session's media gate and      *)
(* waiting for its acknowledgement, and owns the PipeWire links that make  *)
(* the Bluetooth phone audible.                                            *)
(*                                                                         *)
(* PipeWire and BlueZ are external: retiring the links may fail and leave  *)
(* them, and the player comes and goes.  Metadata, gain values and profile *)
(* connection attempts are left out.                                       *)
(***************************************************************************)
EXTENDS AaSession

CONSTANT MaxSelects  \* bound on musicSelect requests

ASSUME MusicAssumption == MaxSelects \in Nat

VARIABLES music,    \* the controller and its selection
          links,    \* do owned links carry Bluetooth audio?
          selects   \* requests so far

vars == <<aaVars, music, links, selects>>

Sources == {"projection", "bluetooth"}

MusicState ==
    [at : {"idle", "silence", "gate", "route", "linked", "failing"},
     target : Sources, selected : Sources \cup {"none"}, gen : Nat,
     source : BOOLEAN, same : BOOLEAN]

(* The music controller's state, selection and links keep their types.     *)
TypeOK ==
    /\ AaTypeOK
    /\ music \in MusicState
    /\ links \in BOOLEAN
    /\ selects \in 0 .. MaxSelects

Init ==
    /\ AaInit
    /\ music = [at |-> "idle", target |-> "projection",
                selected |-> "projection", gen |-> 0, source |-> FALSE,
                same |-> FALSE]
    /\ links = FALSE
    /\ selects = 0

session == <<pc, ch, eng, live, audio, cmds, pub, phone, used, aux>>

Idle == music.at = "idle"

Unselected(m) == [m EXCEPT !.selected = IF @ = "bluetooth"
                                        THEN "none" ELSE @]

(* silence(): on failure a Bluetooth selection is given up and the links   *)
(* may or may not be gone.                                                 *)
SilenceOk(m)   == links' = FALSE /\ music' = m
SilenceFail(m) == /\ links' \in {links, FALSE}
                  /\ music' = Unselected(m)
Silence(m)     == SilenceOk(m) \/ SilenceFail(m)

(* musicSelect of another source; the selection is cleared first.  A       *)
(* player that reappeared is another source (same: it is the selected one).*)
Select(t) ==
    /\ Idle /\ selects < MaxSelects
    /\ music.selected # t \/ (t = "bluetooth" /\ ~music.same)
    /\ t = "bluetooth" => music.source
    /\ music' = [music EXCEPT !.at = "silence", !.target = t,
                              !.selected = "none", !.same = FALSE]
    /\ selects' = selects + 1
    /\ UNCHANGED <<session, gate, links>>

(* The old links are retired, then gate_projection publishes its request.  *)
gate_projection ==
    /\ music.at = "silence"
    /\ links' = FALSE
    /\ gate' = [gate EXCEPT !.gen = @ + 1,
                            !.audible = (music.target = "projection")]
    /\ music' = [music EXCEPT !.at = "gate", !.gen = gate.gen + 1]
    /\ UNCHANGED <<session, selects>>

(* Mutant: the selection goes on without the acknowledgement.              *)
GateUnconfirmed ==
    /\ music.at = "gate"
    /\ music' = IF music.target = "projection"
                THEN [music EXCEPT !.at = "idle", !.selected = "projection"]
                ELSE [music EXCEPT !.at = "route"]
    /\ UNCHANGED <<session, gate, links, selects>>

(* Acknowledged, or there is no session whose audio could play.            *)
GateConfirmed ==
    /\ music.at = "gate"
    /\ gate.ack >= music.gen \/ pub.st = "none"
    /\ music' = IF music.target = "projection"
                THEN [music EXCEPT !.at = "idle", !.selected = "projection"]
                ELSE [music EXCEPT !.at = "route"]
    /\ UNCHANGED <<session, gate, links, selects>>

RouteLinked ==
    /\ music.at = "route"
    /\ links' = TRUE
    /\ music' = [music EXCEPT !.at = "linked"]
    /\ UNCHANGED <<session, gate, selects>>

RouteDone ==
    /\ music.at = "linked"
    /\ music' = [music EXCEPT !.at = "idle", !.selected = "bluetooth",
                              !.same = TRUE]
    /\ UNCHANGED <<session, gate, links, selects>>

(* Any step fails, times out (6 s for the gate, 15 s overall) or is        *)
(* cancelled; with nothing selected the links are retired once more.       *)
SelectFails ==
    /\ music.at \in {"silence", "gate", "route", "linked"}
    /\ music' = [music EXCEPT !.at = "failing"]
    /\ UNCHANGED <<session, gate, links, selects>>

SelectCleanup ==
    /\ music.at = "failing"
    /\ Silence([music EXCEPT !.at = "idle"])
    /\ UNCHANGED <<session, gate, selects>>

(* A select of a source that is gone is refused; with nothing selected the *)
(* links are retired here too.                                             *)
SelectRefused ==
    /\ Idle /\ music.selected = "none" /\ links
    /\ Silence(music)
    /\ UNCHANGED <<session, gate, selects>>

(* silence() after a step that may have made links.                        *)
Retire(m) == \/ SilenceOk(m)
             \/ links' \in BOOLEAN /\ music' = [m EXCEPT !.selected = "none"]

(* The one second tick: the player appears; a selected Bluetooth source is *)
(* routed again, waits for its receiver without links, or is lost.         *)
PlayerAppears ==
    /\ Idle /\ ~music.source
    /\ music' = [music EXCEPT !.source = TRUE, !.same = FALSE]
    /\ UNCHANGED <<session, gate, links, selects>>

Refresh ==
    /\ Idle /\ music.selected = "bluetooth"
    /\ \/ music.source /\ links' = TRUE /\ UNCHANGED music
       \/ music.source /\ Silence(music)
       \/ \E found \in {music.source, FALSE} :
            Retire([music EXCEPT !.selected = "none", !.source = found])
    /\ UNCHANGED <<session, gate, selects>>

(* musicGain routes a selected source again; a failure changes nothing     *)
(* else, so any part of the links may be in place.                         *)
MusicGain ==
    /\ Idle /\ music.source /\ music.selected = "bluetooth"
    /\ links' \in BOOLEAN
    /\ UNCHANGED <<session, gate, music, selects>>

PlayerRemoved ==
    /\ Idle /\ music.source
    /\ Silence([music EXCEPT !.source = FALSE])
    /\ UNCHANGED <<session, gate, selects>>

(* musicConnect: the old phone's links first, then its source.             *)
MusicConnect ==
    /\ Idle
    /\ \/ SilenceOk(Unselected([music EXCEPT !.source = FALSE]))
       \/ SilenceFail(music)
    /\ UNCHANGED <<session, gate, selects>>

(* musicDisconnect, Forget and client closure (cancel.changed).            *)
Disconnect ==
    /\ Idle
    /\ Silence(Unselected([music EXCEPT !.source = FALSE]))
    /\ UNCHANGED <<session, gate, selects>>

Music == \/ \E t \in Sources : Select(t)
         \/ gate_projection \/ GateConfirmed \/ RouteLinked \/ RouteDone
         \/ SelectFails \/ SelectCleanup \/ SelectRefused
         \/ PlayerAppears \/ PlayerRemoved \/ Refresh
         \/ MusicGain \/ MusicConnect \/ Disconnect

Next == Music \/ (AaStep /\ UNCHANGED <<music, links, selects>>)

Spec == Init /\ [][Next]_vars

-----------------------------------------------------------------------------
(* Properties.                                                             *)

(* Bluetooth links and Android Auto media are never audible together, in   *)
(* whatever order selection, its failures and cancellation, link cleanup   *)
(* errors, session starts and ends, stream starts and gain commands come.  *)
NoOverlap == links => audio[4] # "audible"

(* "Source selection waits for native application of the audio change      *)
(* before confirming it": a confirmed Bluetooth selection means the media  *)
(* channel is gated; a confirmed projection selection means the links are  *)
(* retired and the media channel plays at the gain the host asked for.     *)
SelectionApplied ==
    /\ music.selected = "bluetooth" => audio[4] # "audible"
    /\ music.selected = "projection" =>
         /\ ~links
         /\ pc = "loop" /\ audio[4] # "none"
              => (audio[4] = "audible" <=> eng.gain)
=============================================================================
