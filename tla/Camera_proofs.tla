----------------------------- MODULE Camera_proofs -----------------------------
(***************************************************************************)
(* The frame ring is a sequence lock: why no reader ever submits halves of *)
(* two frames, and why a valid ring is the picture of a running capture of *)
(* the published role, for every depth of the ring and every number of     *)
(* roles, frames, commands and faults.                                     *)
(***************************************************************************)
EXTENDS Camera, TLAPS

USE CameraAssumption

Writing == {"guard", "top", "bottom", "even", "latest", "valid"}

(* What the writer has done to its slot, by where it is.                   *)
SlotWritten ==
    /\ d.pc \in Writing => d.seq # 0
    /\ d.pc = "guard" => \A i \in Slots : ring.slot[i].guard < 2 * d.seq - 1
    /\ d.pc \in {"top", "bottom", "even"} => Written.guard = 2 * d.seq - 1
    /\ d.pc \in {"bottom", "even"} => Written.a = d.seq
    /\ d.pc = "even" => Written.b = d.seq
    /\ d.pc = "valid" => ring.latest = d.seq

(* No guard and no published frame is ahead of the writer.                 *)
NotAhead == /\ ring.latest <= d.seq
            /\ \A i \in Slots : ring.slot[i].guard <= 2 * d.seq

(* A slot with an even guard holds both halves of that frame.              *)
SlotWhole == \A i \in Slots : \A q \in Frames :
                ring.slot[i].guard = 2 * q => ring.slot[i].a = q /\ ring.slot[i].b = q

(* The reader's copy: its slot's guard never falls, and as long as it is   *)
(* the one that was read first, what was copied is of that frame.          *)
CopyWhole ==
    /\ view.pc \in {"guard", "top", "bottom", "again", "valid", "submit"} => view.seq # 0
    /\ view.pc \in {"top", "bottom", "again"} => Mine.guard >= 2 * view.seq
    /\ view.pc \in {"bottom", "again"} /\ Mine.guard = 2 * view.seq => view.a = view.seq
    /\ view.pc = "again" /\ Mine.guard = 2 * view.seq => view.b = view.seq
    /\ view.pc \in {"valid", "submit"} => view.a = view.seq /\ view.b = view.seq

(* The role that is published is the one selected, and the frame that is   *)
(* written was captured from it.                                           *)
RolePublished ==
    /\ d.capture => d.sel # NoRole /\ d.pc # "role"
    /\ d.pc = "role" => d.sel # NoRole /\ ~ring.valid
    /\ d.sel # NoRole /\ d.pc \notin {"role", "dead"} => ring.role = d.sel
    /\ d.pc \in Writing => d.capture /\ of[d.seq] = d.sel

IInv == /\ TypeOK /\ SlotWritten /\ NotAhead /\ SlotWhole /\ CopyWhole
        /\ RolePublished /\ ValidIsLive /\ NotTorn

-----------------------------------------------------------------------------
(* Updating a field of the daemon, of the view and of the surroundings.    *)

LEMMA DaemonFields ==
    /\ \A c \in Daemon, p \in DaemonPlaces : [c EXCEPT !.pc = p] \in Daemon
    /\ \A c \in Daemon, r \in Roles \cup {NoRole} : [c EXCEPT !.sel = r] \in Daemon
    /\ \A c \in Daemon, b \in BOOLEAN : /\ [c EXCEPT !.capture = b] \in Daemon
                                        /\ [c EXCEPT !.due = b] \in Daemon
    /\ \A c \in Daemon, s \in CaptureStates : [c EXCEPT !.state = s] \in Daemon
    /\ \A c \in Daemon, s \in SUBSET Roles : [c EXCEPT !.devices = s] \in Daemon
    /\ \A c \in Daemon, n \in Frames : [c EXCEPT !.seq = n] \in Daemon
    /\ \A c \in Daemon, n \in 0..2 : [c EXCEPT !.since = n] \in Daemon
    /\ \A c \in Daemon, n \in 0..Retries : [c EXCEPT !.retries = n] \in Daemon
    /\ \A c \in Daemon, t \in {"none", "set", "now"} : [c EXCEPT !.retry_at = t] \in Daemon
<1>1. \A c \in Daemon, p \in DaemonPlaces : [c EXCEPT !.pc = p] \in Daemon
  BY DEF Daemon
<1>2. \A c \in Daemon, r \in Roles \cup {NoRole} : [c EXCEPT !.sel = r] \in Daemon
  BY DEF Daemon
<1>3. \A c \in Daemon, b \in BOOLEAN : /\ [c EXCEPT !.capture = b] \in Daemon
                                       /\ [c EXCEPT !.due = b] \in Daemon
  BY DEF Daemon
<1>4. \A c \in Daemon, s \in CaptureStates : [c EXCEPT !.state = s] \in Daemon
  BY DEF Daemon
<1>5. \A c \in Daemon, s \in SUBSET Roles : [c EXCEPT !.devices = s] \in Daemon
  BY DEF Daemon
<1>6. \A c \in Daemon, n \in Frames : [c EXCEPT !.seq = n] \in Daemon
  BY DEF Daemon
<1>7. \A c \in Daemon, n \in 0..2 : [c EXCEPT !.since = n] \in Daemon
  BY DEF Daemon
<1>8. \A c \in Daemon, n \in 0..Retries : [c EXCEPT !.retries = n] \in Daemon
  BY DEF Daemon
<1>9. \A c \in Daemon, t \in {"none", "set", "now"} : [c EXCEPT !.retry_at = t] \in Daemon
  BY DEF Daemon
<1> QED
  BY <1>1, <1>2, <1>3, <1>4, <1>5, <1>6, <1>7, <1>8, <1>9

LEMMA ViewFields ==
    /\ \A v \in View, p \in ViewPlaces : [v EXCEPT !.pc = p] \in View
    /\ \A v \in View, c \in {"none", "asked", "served"} : [v EXCEPT !.conn = c] \in View
    /\ \A v \in View, n \in Frames : /\ [v EXCEPT !.seq = n] \in View
                                     /\ [v EXCEPT !.a = n] \in View
                                     /\ [v EXCEPT !.b = n] \in View
                                     /\ [v EXCEPT !.last = n] \in View
    /\ \A v \in View, b \in BOOLEAN : /\ [v EXCEPT !.old = b] \in View
                                      /\ [v EXCEPT !.black = b] \in View
<1>1. \A v \in View, p \in ViewPlaces : [v EXCEPT !.pc = p] \in View
  BY DEF View
<1>2. \A v \in View, c \in {"none", "asked", "served"} : [v EXCEPT !.conn = c] \in View
  BY DEF View
<1>3. \A v \in View, n \in Frames : /\ [v EXCEPT !.seq = n] \in View
                                    /\ [v EXCEPT !.a = n] \in View
                                    /\ [v EXCEPT !.b = n] \in View
                                    /\ [v EXCEPT !.last = n] \in View
  BY DEF View
<1>4. \A v \in View, b \in BOOLEAN : /\ [v EXCEPT !.old = b] \in View
                                     /\ [v EXCEPT !.black = b] \in View
  BY DEF View
<1> QED
  BY <1>1, <1>2, <1>3, <1>4

LEMMA RingFields ==
    /\ \A r \in Ring, b \in BOOLEAN : [r EXCEPT !.valid = b] \in Ring
    /\ \A r \in Ring, x \in Roles \cup {NoRole} : [r EXCEPT !.role = x] \in Ring
    /\ \A r \in Ring, n \in Frames : [r EXCEPT !.latest = n] \in Ring
    /\ \A r \in Ring, f \in [Slots -> SlotState] : [r EXCEPT !.slot = f] \in Ring
    /\ \A s \in SlotState : /\ \A n \in 0..2 * MaxFrames : [s EXCEPT !.guard = n] \in SlotState
                            /\ \A n \in Frames : /\ [s EXCEPT !.a = n] \in SlotState
                                                 /\ [s EXCEPT !.b = n] \in SlotState
                            /\ \A b \in BOOLEAN : [s EXCEPT !.old = b] \in SlotState
<1>1. \A r \in Ring, b \in BOOLEAN : [r EXCEPT !.valid = b] \in Ring
  BY DEF Ring
<1>2. \A r \in Ring, x \in Roles \cup {NoRole} : [r EXCEPT !.role = x] \in Ring
  BY DEF Ring
<1>3. \A r \in Ring, n \in Frames : [r EXCEPT !.latest = n] \in Ring
  BY DEF Ring
<1>4. \A r \in Ring, f \in [Slots -> SlotState] : [r EXCEPT !.slot = f] \in Ring
  BY DEF Ring
<1>5. \A s \in SlotState : /\ \A n \in 0..2 * MaxFrames : [s EXCEPT !.guard = n] \in SlotState
                           /\ \A n \in Frames : /\ [s EXCEPT !.a = n] \in SlotState
                                                /\ [s EXCEPT !.b = n] \in SlotState
                           /\ \A b \in BOOLEAN : [s EXCEPT !.old = b] \in SlotState
  BY DEF SlotState
<1> QED
  BY <1>1, <1>2, <1>3, <1>4, <1>5

(* The bounds on the environment.                                          *)
LEMMA EnvTyped ==
    ASSUME TypeOK
    PROVE  /\ Faulty => env' \in Surroundings
           /\ Command => Counted \in Surroundings
           /\ Command /\ env.faults < MaxFaults =>
                [Counted EXCEPT !.faults = env.faults + 1] \in Surroundings
           /\ Counted.faults = env.faults
<1> USE DEF TypeOK
<1>1. \A e \in Surroundings : /\ \A n \in 0..MaxCommands : [e EXCEPT !.commands = n] \in Surroundings
                              /\ \A n \in 0..MaxFaults : [e EXCEPT !.faults = n] \in Surroundings
  BY DEF Surroundings
<1>2. env.faults < MaxFaults => env.faults + 1 \in 0..MaxFaults
  BY DEF Surroundings
<1>3. env.commands < MaxCommands => env.commands + 1 \in 0..MaxCommands
  BY DEF Surroundings
<1>4. Faulty => env' = [env EXCEPT !.faults = env.faults + 1] /\ env.faults < MaxFaults
  BY DEF Faulty, Surroundings
<1>5. Counted = [env EXCEPT !.commands = env.commands + 1]
  BY DEF Counted, Surroundings
<1>6. Command => Counted \in Surroundings
  BY <1>1, <1>3, <1>5 DEF Command
<1>7. Counted.faults = env.faults
  BY <1>5 DEF Surroundings
<1> QED
  BY <1>1, <1>2, <1>4, <1>6, <1>7

(* Health::new and Health::failed.                                         *)
LEMMA FreshTyped ==
    ASSUME NEW c \in Daemon
    PROVE  /\ Fresh(c) \in Daemon /\ Fresh(c).pc = c.pc /\ Fresh(c).seq = c.seq
           /\ Fresh(c).sel = c.sel /\ Fresh(c).capture = c.capture
<1>1. [c EXCEPT !.since = 0] \in Daemon
  <2>1. 0 \in 0..2
    OBVIOUS
  <2> QED
    BY <2>1, DaemonFields
<1>2. [c EXCEPT !.since = 0, !.retries = 0] \in Daemon
  <2>1. 0 \in 0..Retries
    BY DEF CameraAssumption
  <2> QED
    BY <1>1, <2>1, DaemonFields
<1>3. Fresh(c) \in Daemon
  BY <1>2, DaemonFields DEF Fresh
<1> QED
  BY <1>3 DEF Fresh, Daemon

LEMMA FailedTyped ==
    ASSUME NEW c \in Daemon, NEW again \in CaptureStates
    PROVE  LET f == Failed(c, again)
           IN  f \in Daemon /\ f.pc = c.pc /\ f.seq = c.seq /\ f.sel = c.sel /\ f.capture = c.capture
<1>1. CASE c.retries >= Retries
  <2>1. Failed(c, again) = [c EXCEPT !.state = "failed"]
    BY <1>1 DEF Failed
  <2>2. Failed(c, again) \in Daemon
    BY <2>1, DaemonFields DEF CaptureStates
  <2> QED
    BY <2>1, <2>2 DEF Daemon
<1>2. CASE ~(c.retries >= Retries)
  <2>1. Failed(c, again) = [c EXCEPT !.retries = c.retries + 1, !.retry_at = "set", !.state = again]
    BY <1>2 DEF Failed, Daemon
  <2>2. c.retries + 1 \in 0..Retries
    BY <1>2 DEF Daemon, CameraAssumption
  <2>3. [c EXCEPT !.retries = c.retries + 1] \in Daemon
    BY <2>2, DaemonFields
  <2>4. [c EXCEPT !.retries = c.retries + 1, !.retry_at = "set"] \in Daemon
    BY <2>3, DaemonFields
  <2>5. Failed(c, again) \in Daemon
    <3>1. [c EXCEPT !.retries = c.retries + 1, !.retry_at = "set", !.state = again] \in Daemon
      BY <2>4, DaemonFields
    <3> QED
      BY <2>1, <3>1
  <2> QED
    BY <2>1, <2>5 DEF Daemon
<1> QED
  BY <1>1, <1>2

(* Every frame from the first has a slot.                                  *)
LEMMA SlotRange == \A s \in Frames : s # 0 => Slot(s) \in Slots
BY DEF Frames, Slot, Slots, CameraAssumption

-----------------------------------------------------------------------------
(* The steps of the loop outside Ring::write, by what they do.             *)

(* The daemon ends.                                                        *)
Dies == d'.pc = "dead" /\ ~d'.capture

(* The capture stays as it is, or there is none.                           *)
GoesOn == /\ d'.sel = d.sel /\ d'.capture = d.capture
          /\ d'.pc = d.pc \/ {d.pc, d'.pc} \cap (Writing \cup {"role", "dead"}) = {}
          /\ ring'.valid => ring.valid
          /\ ring'.role = ring.role

(* The capture is stopped.                                                 *)
Ends == /\ d'.sel \in {d.sel, NoRole} /\ ~d'.capture
        /\ {d.pc, d'.pc} \cap (Writing \cup {"role", "dead"}) = {}
        /\ ~ring'.valid /\ ring'.role = ring.role

(* Another role is selected, then published.                               *)
Selects == d'.pc = "role" /\ d'.sel \in Roles /\ ~d'.capture /\ ~ring'.valid

Publishes == /\ d.pc = "role" /\ d'.pc = "poll" /\ d'.sel = d.sel /\ d'.capture = d.capture
             /\ ring'.role = d.sel /\ ring'.valid = ring.valid

(* A capture starts.                                                       *)
Begins == /\ d.pc = "capture" /\ d'.pc = "frame" /\ d'.sel = d.sel /\ d.sel \in Roles
          /\ ~d.capture /\ ring' = ring

(* The frames and their sequence numbers are left alone.                   *)
SameFrames == /\ d' \in Daemon /\ d'.seq = d.seq
              /\ ring' \in Ring /\ ring'.latest = ring.latest /\ ring'.slot = ring.slot
              /\ of' = of /\ env' \in Surroundings

Rests == SameFrames /\ (Dies \/ GoesOn \/ Ends \/ Selects \/ Publishes \/ Begins)

LEMMA Invalidated ==
    ASSUME TypeOK
    PROVE  /\ Invalid \in Ring /\ ~Invalid.valid /\ Invalid.role = ring.role
           /\ Invalid.latest = ring.latest /\ Invalid.slot = ring.slot
<1>1. Invalid \in Ring
  BY RingFields DEF TypeOK, Invalid
<1> QED
  BY <1>1 DEF TypeOK, Invalid, Ring

(* capture.take() and stop(), applied to what the loop has made of d.      *)
LEMMA StoppedTyped ==
    ASSUME TypeOK, NEW c \in Daemon, NEW next \in DaemonPlaces, c.seq = d.seq, c.sel = d.sel,
           Stopped(c, next)
    PROVE  /\ d' \in Daemon /\ d'.seq = d.seq /\ d'.sel = d.sel /\ ~d'.capture
           /\ d'.pc \in {next, "dead"} /\ env' \in Surroundings
<1>1. [c EXCEPT !.capture = FALSE] \in Daemon
  BY DaemonFields
<1>2. /\ [c EXCEPT !.capture = FALSE, !.pc = next] \in Daemon
      /\ [c EXCEPT !.capture = FALSE, !.pc = "dead"] \in Daemon
  BY <1>1, DaemonFields DEF DaemonPlaces
<1>3. CASE d' = [c EXCEPT !.capture = FALSE, !.pc = next] /\ UNCHANGED env
  BY <1>2, <1>3 DEF TypeOK, Daemon
<1>4. CASE Faulty /\ d' = [c EXCEPT !.capture = FALSE, !.pc = "dead"]
  <2>1. env' \in Surroundings
    BY <1>4, EnvTyped
  <2> QED
    BY <1>2, <1>4, <2>1 DEF Daemon
<1> QED
  BY <1>3, <1>4 DEF Stopped

(* The commands of the owner, and the end of the daemon.                   *)
LEMMA CommandRests ==
    ASSUME TypeOK,
           \/ Stop("poll") \/ Stop("dead") \/ OwnerGone \/ Killed \/ StartRole
           \/ \E r \in Roles : Start(r)
    PROVE  Rests
<1> USE DEF TypeOK
<1>1. [d EXCEPT !.capture = FALSE] \in Daemon
  BY DaemonFields
<1>2. [d EXCEPT !.capture = FALSE, !.pc = "dead"] \in Daemon
      /\ [d EXCEPT !.capture = FALSE, !.pc = "dead"].pc = "dead"
      /\ ~[d EXCEPT !.capture = FALSE, !.pc = "dead"].capture
      /\ [d EXCEPT !.capture = FALSE, !.pc = "dead"].seq = d.seq
  <2>1. [d EXCEPT !.capture = FALSE, !.pc = "dead"] \in Daemon
    BY <1>1, DaemonFields DEF DaemonPlaces
  <2> QED
    BY <2>1 DEF Daemon
<1>3. CASE \E next \in {"poll", "dead"} : Stop(next)
  <2>1. PICK next \in {"poll", "dead"} : Stop(next)
    BY <1>3
  <2>2. ring' = Invalid /\ of' = of /\ d.pc = "poll" /\ Command
    BY <2>1 DEF Stop, Command
  <2>3. CASE d' = [Fresh(d) EXCEPT !.capture = FALSE, !.sel = NoRole, !.state = "idle", !.pc = next]
             /\ env' = Counted
    <3>1. [Fresh(d) EXCEPT !.capture = FALSE] \in Daemon
      BY FreshTyped, DaemonFields
    <3>2. [Fresh(d) EXCEPT !.capture = FALSE, !.sel = NoRole] \in Daemon
      BY <3>1, DaemonFields
    <3>3. [Fresh(d) EXCEPT !.capture = FALSE, !.sel = NoRole, !.state = "idle"] \in Daemon
      BY <3>2, DaemonFields DEF CaptureStates
    <3>4. [Fresh(d) EXCEPT !.capture = FALSE, !.sel = NoRole, !.state = "idle", !.pc = next] \in Daemon
      BY <3>3, DaemonFields DEF DaemonPlaces
    <3>5. d'.seq = Fresh(d).seq /\ ~d'.capture /\ d'.sel = NoRole /\ d'.pc = next
      BY <2>3, FreshTyped DEF Daemon
    <3>6. SameFrames
      BY <2>2, <2>3, <3>4, <3>5, FreshTyped, EnvTyped, Invalidated DEF SameFrames
    <3> QED
      BY <2>1, <2>2, <3>5, <3>6, Invalidated DEF Rests, Ends, Dies, Writing
  <2>4. CASE d' = [d EXCEPT !.capture = FALSE, !.pc = "dead"] /\ env.faults < MaxFaults
             /\ env' = [Counted EXCEPT !.faults = env.faults + 1]
    BY <1>2, <2>2, <2>4, EnvTyped, Invalidated DEF Rests, SameFrames, Dies
  <2> QED
    BY <2>1, <2>3, <2>4, EnvTyped DEF Stop
<1>4. CASE \E r \in Roles : Start(r)
  <2>1. PICK r \in Roles : Start(r)
    BY <1>4
  <2>2. ring' = Invalid /\ of' = of /\ Command
    BY <2>1 DEF Start, Command
  <2>3. CASE d' = [d EXCEPT !.capture = FALSE, !.sel = r, !.pc = "role"] /\ env' = Counted
    <3>1. [d EXCEPT !.capture = FALSE, !.sel = r] \in Daemon
      BY <1>1, DaemonFields
    <3>2. d' \in Daemon
      BY <2>3, <3>1, DaemonFields DEF DaemonPlaces
    <3>3. d'.seq = d.seq /\ ~d'.capture /\ d'.sel = r /\ d'.pc = "role"
      BY <2>3 DEF Daemon
    <3> QED
      BY <2>2, <2>3, <3>2, <3>3, EnvTyped, Invalidated DEF Rests, SameFrames, Selects
  <2>4. CASE d' = [d EXCEPT !.capture = FALSE, !.pc = "dead"] /\ env.faults < MaxFaults
             /\ env' = [Counted EXCEPT !.faults = env.faults + 1]
    BY <1>2, <2>2, <2>4, EnvTyped, Invalidated DEF Rests, SameFrames, Dies
  <2> QED
    BY <2>1, <2>3, <2>4, EnvTyped DEF Start
<1>5. CASE OwnerGone \/ Killed
  <2>1. d' = [d EXCEPT !.capture = FALSE, !.pc = "dead"] /\ ring' \in {ring, Invalid} /\ of' = of
    BY <1>5 DEF OwnerGone, Killed
  <2>2. env' \in Surroundings
    BY <1>5, EnvTyped DEF OwnerGone, Killed
  <2> QED
    BY <1>2, <2>1, <2>2, Invalidated DEF Rests, SameFrames, Dies
<1>6. CASE StartRole
  <2>1. d' = [Fresh(d) EXCEPT !.retry_at = "now", !.state = "starting", !.due = TRUE, !.pc = "poll"]
        /\ ring' = [ring EXCEPT !.role = d.sel] /\ d.pc = "role" /\ UNCHANGED <<of, env>>
    BY <1>6 DEF StartRole
  <2>2. [Fresh(d) EXCEPT !.retry_at = "now"] \in Daemon
    BY FreshTyped, DaemonFields
  <2>3. [Fresh(d) EXCEPT !.retry_at = "now", !.state = "starting"] \in Daemon
    BY <2>2, DaemonFields DEF CaptureStates
  <2>4. [Fresh(d) EXCEPT !.retry_at = "now", !.state = "starting", !.due = TRUE] \in Daemon
    BY <2>3, DaemonFields
  <2>5. d' \in Daemon
    BY <2>1, <2>4, DaemonFields DEF DaemonPlaces
  <2>6. d'.seq = d.seq /\ d'.sel = d.sel /\ d'.capture = d.capture /\ d'.pc = "poll"
    BY <2>1, FreshTyped DEF Daemon
  <2>7. ring' \in Ring
    BY <2>1, RingFields DEF Daemon
  <2>8. ring'.role = d.sel /\ ring'.valid = ring.valid /\ ring'.latest = ring.latest
        /\ ring'.slot = ring.slot
    BY <2>1 DEF Ring
  <2> QED
    BY <2>1, <2>5, <2>6, <2>7, <2>8 DEF Rests, SameFrames, Publishes
<1> QED
  BY <1>3, <1>4, <1>5, <1>6

(* The loop, its timers and the cameras.                                   *)
LEMMA LoopRests ==
    ASSUME TypeOK,
           \/ Polled \/ Lost \/ Seen \/ Capturing \/ NotRetrying \/ NoCapture \/ NoFrame
           \/ Restart \/ RetryDue \/ Plug
    PROVE  Rests
<1> USE DEF TypeOK
<1>1. ASSUME ring' \in {ring, Invalid}, d' \in Daemon, of' = of, env' \in Surroundings,
             d'.seq = d.seq, d'.sel = d.sel, d'.capture = d.capture,
             d'.pc = d.pc \/ {d.pc, d'.pc} \cap (Writing \cup {"role", "dead"}) = {}
      PROVE  Rests
  BY <1>1, Invalidated DEF Rests, SameFrames, GoesOn
<1>2. ASSUME ring' = Invalid, of' = of, d.pc \in {"inventory", "frame"},
             NEW c \in Daemon, NEW next \in {"poll", "capture"}, c.seq = d.seq, c.sel = d.sel,
             Stopped(c, next)
      PROVE  Rests
  <2>1. /\ d' \in Daemon /\ d'.seq = d.seq /\ d'.sel = d.sel /\ ~d'.capture
        /\ d'.pc \in {next, "dead"} /\ env' \in Surroundings
    BY <1>2, StoppedTyped DEF DaemonPlaces
  <2> QED
    BY <1>2, <2>1, Invalidated DEF Rests, SameFrames, Dies, Ends, Writing
<1>3. ASSUME NEW p \in {"poll", "inventory", "capture", "frame"},
             d.pc \in {"poll", "inventory", "capture", "frame"},
             ring' \in {ring, Invalid}, of' = of, env' \in Surroundings,
             NEW c \in Daemon, c.seq = d.seq, c.sel = d.sel, c.capture = d.capture, c.pc = p, d' = c
      PROVE  Rests
  BY <1>1, <1>3 DEF Writing
<1>4. CASE Polled \/ NotRetrying \/ NoCapture
  <2>1. /\ \E p \in {"poll", "inventory", "capture", "frame"} : d' = [d EXCEPT !.pc = p]
        /\ d.pc \in {"poll", "inventory", "capture", "frame"}
        /\ ring' = ring /\ of' = of /\ env' = env
    BY <1>4 DEF Polled, NotRetrying, NoCapture
  <2>2. PICK p \in {"poll", "inventory", "capture", "frame"} : d' = [d EXCEPT !.pc = p]
    BY <2>1
  <2>3. d' \in Daemon
    BY <2>2, DaemonFields DEF DaemonPlaces
  <2>4. d'.seq = d.seq /\ d'.sel = d.sel /\ d'.capture = d.capture /\ d'.pc = p
    BY <2>2 DEF Daemon
  <2> QED
    BY <1>3, <2>1, <2>3, <2>4
<1>5. ASSUME NEW now \in Enumerated
      PROVE  now \in SUBSET Roles
  BY <1>5 DEF Enumerated, Daemon, Surroundings
<1>6. CASE Lost
  <2>1. PICK now \in Enumerated :
            Stopped([d EXCEPT !.devices = now, !.due = FALSE, !.state = "disconnected",
                              !.retry_at = "none"], "capture")
    BY <1>6 DEF Lost
  <2> DEFINE c == [d EXCEPT !.devices = now, !.due = FALSE, !.state = "disconnected",
                            !.retry_at = "none"]
  <2>2. [d EXCEPT !.devices = now] \in Daemon
    BY <1>5, DaemonFields
  <2>3. [d EXCEPT !.devices = now, !.due = FALSE] \in Daemon
    BY <2>2, DaemonFields
  <2>4. [d EXCEPT !.devices = now, !.due = FALSE, !.state = "disconnected"] \in Daemon
    BY <2>3, DaemonFields DEF CaptureStates
  <2>5. c \in Daemon
    BY <2>4, DaemonFields
  <2>6. c.seq = d.seq /\ c.sel = d.sel
    BY DEF Daemon
  <2>7. Stopped(c, "capture")
    BY <2>1
  <2> HIDE DEF c
  <2>8. ring' = Invalid /\ of' = of /\ d.pc \in {"inventory", "frame"}
    BY <1>6 DEF Lost
  <2> QED
    BY <1>2, <2>5, <2>6, <2>7, <2>8
<1>7. CASE Seen
  <2>1. PICK now \in Enumerated :
            LET c == [d EXCEPT !.devices = now, !.due = FALSE, !.pc = "capture"]
            IN d' = IF d.state = "disconnected"
                    THEN [Fresh(c) EXCEPT !.retry_at = "now", !.state = "starting"] ELSE c
    BY <1>7 DEF Seen
  <2> DEFINE c == [d EXCEPT !.devices = now, !.due = FALSE, !.pc = "capture"]
  <2>2. [d EXCEPT !.devices = now] \in Daemon
    BY <1>5, DaemonFields
  <2>3. [d EXCEPT !.devices = now, !.due = FALSE] \in Daemon
    BY <2>2, DaemonFields
  <2>4. c \in Daemon
    BY <2>3, DaemonFields DEF DaemonPlaces
  <2>5. c.seq = d.seq /\ c.sel = d.sel /\ c.capture = d.capture /\ c.pc = "capture"
    BY DEF Daemon
  <2>6. d' = c \/ d' = [Fresh(c) EXCEPT !.retry_at = "now", !.state = "starting"]
    BY <2>1
  <2> HIDE DEF c
  <2>7. [Fresh(c) EXCEPT !.retry_at = "now"] \in Daemon
    BY <2>4, FreshTyped, DaemonFields
  <2>8. [Fresh(c) EXCEPT !.retry_at = "now", !.state = "starting"] \in Daemon
    BY <2>7, DaemonFields DEF CaptureStates
  <2>9. d' \in Daemon
    BY <2>4, <2>6, <2>8
  <2>10. d'.seq = d.seq /\ d'.sel = d.sel /\ d'.capture = d.capture /\ d'.pc = "capture"
    BY <2>4, <2>5, <2>6, FreshTyped, ZenonT(60) DEF Daemon
  <2>11. ring' = ring /\ of' = of /\ env' = env /\ d.pc = "inventory"
    BY <1>7 DEF Seen
  <2> QED
    BY <1>3, <2>9, <2>10, <2>11
<1>8. CASE Capturing
  <2> DEFINE c == [d EXCEPT !.pc = "frame", !.retry_at = "none"]
  <2>1. [d EXCEPT !.pc = "frame"] \in Daemon
    BY DaemonFields DEF DaemonPlaces
  <2>2. c \in Daemon
    BY <2>1, DaemonFields
  <2>3. c.seq = d.seq /\ c.sel = d.sel /\ c.capture = d.capture /\ c.pc = "frame"
    BY DEF Daemon
  <2>4. d.pc = "capture" /\ ring' = ring /\ of' = of /\ Retrying
        /\ (Started(c) \/ NotStarted(c) \/ Unlisted(c))
    BY <1>8 DEF Capturing
  <2> HIDE DEF c
  <2>5. CASE Started(c)
    <3>1. d' = [c EXCEPT !.capture = TRUE, !.since = 0, !.state = "starting"] /\ env' = env
          /\ d.sel \in d.devices
      BY <2>5 DEF Started
    <3>2. [c EXCEPT !.capture = TRUE] \in Daemon
      BY <2>2, DaemonFields
    <3>3. [c EXCEPT !.capture = TRUE, !.since = 0] \in Daemon
      <4>1. 0 \in 0..2
        OBVIOUS
      <4> QED
        BY <3>2, <4>1, DaemonFields
    <3>4. d' \in Daemon
      BY <3>1, <3>3, DaemonFields DEF CaptureStates
    <3>5. d'.seq = d.seq /\ d'.sel = d.sel /\ d'.pc = "frame"
      BY <2>2, <2>3, <3>1 DEF Daemon
    <3>6. d.sel \in Roles
      BY <3>1 DEF Daemon
    <3> QED
      BY <2>4, <3>1, <3>4, <3>5, <3>6 DEF Rests, SameFrames, Begins, Retrying
  <2>6. CASE NotStarted(c)
    <3>1. d' = Failed(c, "starting") /\ (env' = env \/ Faulty)
      BY <2>6 DEF NotStarted
    <3>2. env' \in Surroundings
      BY <3>1, EnvTyped
    <3>3. d' \in Daemon /\ d'.pc = "frame" /\ d'.seq = d.seq /\ d'.sel = d.sel
          /\ d'.capture = d.capture
      BY <2>2, <2>3, <3>1, FailedTyped DEF CaptureStates
    <3> QED
      BY <1>3, <2>4, <3>2, <3>3
  <2>7. CASE Unlisted(c)
    <3>1. d' = [c EXCEPT !.state = "disconnected"] /\ env' = env
      BY <2>7 DEF Unlisted
    <3>2. d' \in Daemon
      BY <2>2, <3>1, DaemonFields DEF CaptureStates
    <3>3. d'.pc = "frame" /\ d'.seq = d.seq /\ d'.sel = d.sel /\ d'.capture = d.capture
      BY <2>2, <2>3, <3>1 DEF Daemon
    <3> QED
      BY <1>3, <2>4, <3>1, <3>2, <3>3
  <2> QED
    BY <2>4, <2>5, <2>6, <2>7
<1>9. CASE NoFrame
  <2>1. \/ d' = [d EXCEPT !.pc = "poll"] /\ ring' = ring
        \/ d' = [d EXCEPT !.pc = "poll", !.state = "stale"] /\ ring' = Invalid
    BY <1>9 DEF NoFrame
  <2>2. d.pc = "frame" /\ of' = of /\ env' = env
    BY <1>9 DEF NoFrame
  <2>3. [d EXCEPT !.pc = "poll"] \in Daemon
    BY DaemonFields DEF DaemonPlaces
  <2>4. [d EXCEPT !.pc = "poll", !.state = "stale"] \in Daemon
    BY <2>3, DaemonFields DEF CaptureStates
  <2>5. d'.pc = "poll" /\ d'.seq = d.seq /\ d'.sel = d.sel /\ d'.capture = d.capture
    BY <2>1 DEF Daemon
  <2>6. d' \in Daemon /\ ring' \in {ring, Invalid}
    BY <2>1, <2>3, <2>4
  <2> QED
    BY <1>3, <2>2, <2>5, <2>6
<1>10. CASE Restart
  <2> DEFINE c == Failed(d, "stale")
  <2>1. c \in Daemon /\ c.seq = d.seq /\ c.sel = d.sel
    BY FailedTyped DEF CaptureStates
  <2>2. d.pc = "frame" /\ ring' = Invalid /\ of' = of
    BY <1>10 DEF Restart
  <2>3. \/ Stopped(c, "poll")
        \/ Faulty /\ d' = [c EXCEPT !.since = 2, !.capture = FALSE, !.pc = "poll"]
    BY <1>10 DEF Restart
  <2> HIDE DEF c
  <2>4. CASE Stopped(c, "poll")
    BY <1>2, <2>1, <2>2, <2>4
  <2>5. CASE Faulty /\ d' = [c EXCEPT !.since = 2, !.capture = FALSE, !.pc = "poll"]
    <3>1. 2 \in 0..2
      OBVIOUS
    <3>2. [c EXCEPT !.since = 2] \in Daemon
      BY <2>1, <3>1, DaemonFields
    <3>3. [c EXCEPT !.since = 2, !.capture = FALSE] \in Daemon
      BY <3>2, DaemonFields
    <3>4. d' \in Daemon
      BY <2>5, <3>3, DaemonFields DEF DaemonPlaces
    <3>5. d'.seq = d.seq /\ d'.sel = d.sel /\ ~d'.capture /\ d'.pc = "poll"
      BY <2>1, <2>5 DEF Daemon
    <3> QED
      BY <2>2, <2>5, <3>4, <3>5, EnvTyped, Invalidated DEF Rests, SameFrames, Ends, Writing
  <2> QED
    BY <2>3, <2>4, <2>5
<1>11. CASE RetryDue
  <2>1. d' = [d EXCEPT !.retry_at = "now"] /\ ring' = ring /\ of' = of /\ env' = env
    BY <1>11 DEF RetryDue
  <2>2. d' \in Daemon
    BY <2>1, DaemonFields
  <2>3. d'.pc = d.pc /\ d'.seq = d.seq /\ d'.sel = d.sel /\ d'.capture = d.capture
    BY <2>1 DEF Daemon
  <2> QED
    BY <1>1, <2>1, <2>2, <2>3
<1>12. CASE Plug
  <2>1. PICK r \in Roles :
            env' = [env EXCEPT !.faults = @ + 1,
                               !.present = IF r \in @ THEN @ \ {r} ELSE @ \cup {r}]
    BY <1>12 DEF Plug
  <2>2. env.faults + 1 \in 0..MaxFaults
    <3>1. env.faults < MaxFaults
      BY <1>12 DEF Plug
    <3> QED
      BY <3>1 DEF Surroundings, CameraAssumption
  <2>3. env' \in Surroundings
    BY <2>1, <2>2 DEF Surroundings
  <2> QED
    BY <1>1, <1>12, <2>3 DEF Plug
<1> QED
  BY <1>4, <1>6, <1>7, <1>8, <1>9, <1>10, <1>11, <1>12

LEMMA RestKeeps ==
    ASSUME IInv, Rests, UNCHANGED <<view, screen>>
    PROVE  IInv'
<1> USE DEF IInv
<1>1. TypeOK' /\ NotTorn'
  BY DEF TypeOK, Rests, SameFrames, NotTorn
<1>2. d'.pc \in Writing => d'.pc = d.pc /\ d'.sel = d.sel /\ d'.capture = d.capture
  BY DEF Rests, Dies, GoesOn, Ends, Selects, Publishes, Begins, Writing
<1>3. SlotWritten'
  BY <1>2 DEF Rests, SameFrames, SlotWritten, Written, Writing
<1>4. NotAhead' /\ SlotWhole' /\ CopyWhole'
  BY DEF Rests, SameFrames, NotAhead, SlotWhole, CopyWhole, Mine
<1>5. RolePublished'
  <2> USE DEF RolePublished
  <2>1. d'.pc \in Writing => d'.capture /\ of'[d'.seq] = d'.sel
    BY <1>2 DEF Rests, SameFrames
  <2>2. CASE Dies
    BY <2>1, <2>2 DEF Dies
  <2>3. CASE GoesOn
    BY <2>1, <2>3 DEF GoesOn
  <2>4. CASE Ends
    BY <2>1, <2>4 DEF Ends
  <2>5. CASE Selects
    BY <2>1, <2>5 DEF Selects, CameraAssumption
  <2>6. CASE Publishes
    BY <2>1, <2>6 DEF Publishes
  <2>7. CASE Begins
    BY <2>1, <2>7 DEF Begins, CameraAssumption
  <2> QED
    BY <2>2, <2>3, <2>4, <2>5, <2>6, <2>7 DEF Rests
<1>6. ValidIsLive'
  <2> USE DEF ValidIsLive, Alive
  <2>1. of' = of /\ ring'.latest = ring.latest
    BY DEF Rests, SameFrames
  <2>2. CASE Dies \/ Ends \/ Selects
    BY <2>2 DEF Dies, Ends, Selects
  <2>3. CASE GoesOn
    BY <2>1, <2>3 DEF GoesOn
  <2>4. CASE Publishes
    BY <2>4 DEF Publishes, RolePublished
  <2>5. CASE Begins
    BY <2>5 DEF Begins
  <2> QED
    BY <2>2, <2>3, <2>4, <2>5 DEF Rests
<1> QED
  BY <1>1, <1>3, <1>4, <1>5, <1>6

-----------------------------------------------------------------------------
(* Ring::write.                                                            *)

GuardsRise == \A i \in Slots : ring'.slot[i].guard >= ring.slot[i].guard

(* The copy the reader holds does not become torn when guards only rise    *)
(* and a frame is complete before its guard is even.                       *)
LEMMA CopySurvives ==
    ASSUME TypeOK, CopyWhole, view' = view,
           \A i \in Slots : /\ ring'.slot[i].guard \in Nat
                            /\ ring'.slot[i].guard >= ring.slot[i].guard
    PROVE  CopyWhole'
<1>1. view.seq \in Frames /\ (view.seq # 0 => Slot(view.seq) \in Slots)
  BY SlotRange DEF TypeOK, View
<1>2. \A i \in Slots : ring.slot[i].guard \in Nat
  BY DEF TypeOK, Ring, SlotState
<1>3. view.seq \in Nat
  BY <1>1 DEF Frames
<1> QED
  BY <1>1, <1>2, <1>3 DEF CopyWhole, Mine

(* A store to the slot that is written.                                    *)
LEMMA StoreTyped ==
    ASSUME TypeOK, SlotWritten, NEW pc \in Writing, NEW next \in Writing, NEW slot \in SlotState,
           Write(pc, next, slot)
    PROVE  /\ d' \in Daemon /\ d'.pc = next /\ d'.seq = d.seq /\ d'.sel = d.sel
           /\ d'.capture = d.capture /\ d.pc = pc
           /\ ring' \in Ring /\ ring'.valid = ring.valid /\ ring'.role = ring.role
           /\ ring'.latest = ring.latest
           /\ Slot(d.seq) \in Slots
           /\ ring'.slot = [ring.slot EXCEPT ![Slot(d.seq)] = slot]
           /\ ring.slot \in [Slots -> SlotState]
           /\ UNCHANGED <<of, view, screen, env>>
<1> USE DEF TypeOK, Write
<1>1. d' \in Daemon
  BY DaemonFields DEF DaemonPlaces, Writing
<1>2. d'.pc = next /\ d'.seq = d.seq /\ d'.sel = d.sel /\ d'.capture = d.capture
  BY DEF Daemon
<1>3. ring.slot \in [Slots -> SlotState]
  BY DEF Ring
<1>4. Slot(d.seq) \in Slots
  <2>1. d.seq \in Frames /\ d.seq # 0
    BY DEF Daemon, SlotWritten
  <2> QED
    BY <2>1, SlotRange
<1>5. ring' = [ring EXCEPT !.slot = [ring.slot EXCEPT ![Slot(d.seq)] = slot]]
  BY DEF Ring
<1>6. [ring.slot EXCEPT ![Slot(d.seq)] = slot] \in [Slots -> SlotState]
  BY <1>3
<1>7. ring' \in Ring
  BY <1>5, <1>6, RingFields, ZenonT(60)
<1>8. /\ ring'.valid = ring.valid /\ ring'.role = ring.role /\ ring'.latest = ring.latest
      /\ ring'.slot = [ring.slot EXCEPT ![Slot(d.seq)] = slot]
  BY <1>5 DEF Ring
<1> QED
  BY <1>1, <1>2, <1>3, <1>4, <1>7, <1>8

(* The numbers in the daemon and in a slot.                                *)
LEMMA Numbers ==
    ASSUME TypeOK
    PROVE  /\ d.seq \in Nat /\ d.seq <= MaxFrames /\ ring.latest \in Nat /\ MaxFrames \in Nat
           /\ \A i \in Slots : /\ ring.slot[i].guard \in Nat /\ ring.slot[i] \in SlotState
                               /\ ring.slot[i].a \in Nat /\ ring.slot[i].b \in Nat
BY DEF TypeOK, Daemon, Ring, SlotState, Frames, CameraAssumption

(* What a store keeps, whatever it stores.                                 *)
LEMMA StoreKeeps ==
    ASSUME IInv, NEW pc \in Writing, NEW next \in Writing, NEW slot \in SlotState,
           Write(pc, next, slot), slot.guard >= Written.guard, slot.guard <= 2 * d.seq,
           \A q \in Frames : slot.guard = 2 * q => slot.a = q /\ slot.b = q,
           SlotWritten'
    PROVE  IInv' /\ GuardsRise
<1> USE DEF IInv
<1>1. \A i \in Slots : /\ ring'.slot[i] = IF i = Slot(d.seq) THEN slot ELSE ring.slot[i]
                       /\ ring'.slot[i].guard \in Nat
                       /\ ring'.slot[i].guard >= ring.slot[i].guard
  <2>1. \A i \in Slots : ring'.slot[i] = IF i = Slot(d.seq) THEN slot ELSE ring.slot[i]
    BY StoreTyped, ZenonT(60)
  <2>2. slot.guard \in Nat
    BY DEF SlotState
  <2>3. Written = ring.slot[Slot(d.seq)]
    BY DEF Written
  <2> QED
    BY <2>1, <2>2, <2>3, Numbers
<1>2. CopyWhole'
  BY <1>1, StoreTyped, CopySurvives
<1>3. TypeOK' /\ NotTorn'
  BY StoreTyped DEF TypeOK, NotTorn
<1>4. NotAhead'
  BY <1>1, StoreTyped DEF NotAhead
<1>5. SlotWhole'
  BY <1>1 DEF SlotWhole
<1>6. RolePublished' /\ ValidIsLive'
  BY StoreTyped, ZenonT(60) DEF RolePublished, ValidIsLive, Alive, Writing
<1>7. GuardsRise
  BY <1>1 DEF GuardsRise
<1> QED
  BY <1>2, <1>3, <1>4, <1>5, <1>6, <1>7

(* The guard becomes odd, the halves are stored, the guard becomes even.   *)
LEMMA StoresKeep ==
    ASSUME IInv, WriteGuard \/ WriteTop \/ WriteBottom \/ WriteEven
    PROVE  IInv' /\ GuardsRise
<1> USE DEF IInv
<1> DEFINE here == Slot(d.seq)
<1>1. /\ Written \in SlotState /\ Written.guard \in Nat
      /\ d.pc \in Writing => here \in Slots
    <2>1. d.seq \in Frames
      BY DEF TypeOK, Daemon
    <2>2. ring.slot \in [Slots -> SlotState]
      BY DEF TypeOK, Ring
    <2>3. d.pc \in Writing => here \in Slots
      BY <2>1, SlotRange DEF SlotWritten
    <2>4. d.pc \in Writing
      BY DEF WriteGuard, WriteTop, WriteBottom, WriteEven, Write, Writing
    <2>5. Written \in SlotState
      BY <2>2, <2>3, <2>4 DEF Written
    <2> QED
      BY <2>3, <2>5 DEF SlotState
<1>2. d.seq \in Nat /\ d.seq <= MaxFrames /\ d.seq \in Frames
  BY Numbers DEF Frames
<1>3. CASE WriteGuard
  <2> DEFINE slot == [Written EXCEPT !.guard = 2 * d.seq - 1]
  <2>1. Write("guard", "top", slot) /\ d.pc = "guard"
    BY <1>3 DEF WriteGuard, Write
  <2>2. d.seq # 0 /\ Written.guard < 2 * d.seq - 1
    BY <1>1, <2>1 DEF SlotWritten, Written, Writing
  <2>3. 2 * d.seq - 1 \in 0..2 * MaxFrames
    BY <1>2, <2>2, Numbers
  <2>4. slot \in SlotState
    BY <1>1, <2>3, RingFields
  <2>5. slot.guard = 2 * d.seq - 1
    BY <1>1 DEF SlotState
  <2>6. \A q \in Frames : slot.guard # 2 * q
    BY <1>2, <2>5 DEF Frames
  <2> HIDE DEF slot
  <2>7. "guard" \in Writing /\ "top" \in Writing
    BY DEF Writing
  <2>8. SlotWritten'
    <3>1. /\ d'.pc = "top" /\ d'.seq = d.seq /\ here \in Slots
          /\ ring'.slot = [ring.slot EXCEPT ![here] = slot] /\ ring.slot \in [Slots -> SlotState]
      BY <2>1, <2>4, <2>7, StoreTyped
    <3>2. Written' = slot
      BY <3>1 DEF Written
    <3> QED
      BY <2>2, <2>5, <3>1, <3>2 DEF SlotWritten
  <2> QED
    BY <1>1, <1>2, <2>1, <2>2, <2>4, <2>5, <2>6, <2>7, <2>8, StoreKeeps
<1>4. CASE WriteTop
  <2> DEFINE slot == [Written EXCEPT !.a = d.seq, !.old = FALSE]
  <2>1. Write("top", "bottom", slot) /\ d.pc = "top"
    BY <1>4 DEF WriteTop, Write
  <2>2. d.seq # 0 /\ Written.guard = 2 * d.seq - 1
    BY <2>1 DEF SlotWritten, Writing
  <2>3. [Written EXCEPT !.a = d.seq] \in SlotState
    BY <1>1, <1>2, RingFields
  <2>4. slot \in SlotState
    BY <2>3, RingFields
  <2>5. slot.guard = Written.guard /\ slot.a = d.seq
    BY <1>1 DEF SlotState
  <2>6. \A q \in Frames : slot.guard # 2 * q
    BY <1>2, <2>2, <2>5 DEF Frames
  <2> HIDE DEF slot
  <2>7. "top" \in Writing /\ "bottom" \in Writing
    BY DEF Writing
  <2>8. SlotWritten'
    <3>1. /\ d'.pc = "bottom" /\ d'.seq = d.seq /\ here \in Slots
          /\ ring'.slot = [ring.slot EXCEPT ![here] = slot] /\ ring.slot \in [Slots -> SlotState]
      BY <2>1, <2>4, <2>7, StoreTyped
    <3>2. Written' = slot
      BY <3>1 DEF Written
    <3> QED
      BY <2>2, <2>5, <3>1, <3>2 DEF SlotWritten
  <2> QED
    BY <1>1, <1>2, <2>1, <2>2, <2>4, <2>5, <2>6, <2>7, <2>8, StoreKeeps
<1>5. CASE WriteBottom
  <2> DEFINE slot == [Written EXCEPT !.b = d.seq]
  <2>1. Write("bottom", "even", slot) /\ d.pc = "bottom"
    BY <1>5 DEF WriteBottom, Write
  <2>2. d.seq # 0 /\ Written.guard = 2 * d.seq - 1 /\ Written.a = d.seq
    BY <2>1 DEF SlotWritten, Writing
  <2>4. slot \in SlotState
    BY <1>1, <1>2, RingFields
  <2>5. slot.guard = Written.guard /\ slot.a = Written.a /\ slot.b = d.seq
    BY <1>1 DEF SlotState
  <2>6. \A q \in Frames : slot.guard # 2 * q
    BY <1>2, <2>2, <2>5 DEF Frames
  <2> HIDE DEF slot
  <2>7. "bottom" \in Writing /\ "even" \in Writing
    BY DEF Writing
  <2>8. SlotWritten'
    <3>1. /\ d'.pc = "even" /\ d'.seq = d.seq /\ here \in Slots
          /\ ring'.slot = [ring.slot EXCEPT ![here] = slot] /\ ring.slot \in [Slots -> SlotState]
      BY <2>1, <2>4, <2>7, StoreTyped
    <3>2. Written' = slot
      BY <3>1 DEF Written
    <3> QED
      BY <2>2, <2>5, <3>1, <3>2 DEF SlotWritten
  <2> QED
    BY <1>1, <1>2, <2>1, <2>2, <2>4, <2>5, <2>6, <2>7, <2>8, StoreKeeps
<1>6. CASE WriteEven
  <2> DEFINE slot == [Written EXCEPT !.guard = 2 * d.seq]
  <2>1. Write("even", "latest", slot) /\ d.pc = "even"
    BY <1>6 DEF WriteEven, Write
  <2>2. d.seq # 0 /\ Written.guard = 2 * d.seq - 1 /\ Written.a = d.seq /\ Written.b = d.seq
    BY <2>1 DEF SlotWritten, Writing
  <2>3. 2 * d.seq \in 0..2 * MaxFrames
    BY <1>2, Numbers
  <2>4. slot \in SlotState
    BY <1>1, <2>3, RingFields
  <2>5. slot.guard = 2 * d.seq /\ slot.a = d.seq /\ slot.b = d.seq
    BY <1>1, <2>2 DEF SlotState
  <2>6. \A q \in Frames : slot.guard = 2 * q => slot.a = q /\ slot.b = q
    BY <1>2, <2>5 DEF Frames
  <2> HIDE DEF slot
  <2>7. "even" \in Writing /\ "latest" \in Writing
    BY DEF Writing
  <2>8. SlotWritten'
    <3>1. d'.pc = "latest" /\ d'.seq = d.seq
      BY <2>1, <2>4, <2>7, StoreTyped
    <3> QED
      BY <2>2, <3>1 DEF SlotWritten
  <2> QED
    BY <1>1, <1>2, <2>1, <2>2, <2>4, <2>5, <2>6, <2>7, <2>8, StoreKeeps
<1> QED
  BY <1>3, <1>4, <1>5, <1>6

(* A sample is pulled; the frame is announced; the ring becomes valid.     *)
LEMMA AnnouncementKeeps ==
    ASSUME IInv, Pulled \/ WriteLatest \/ WriteValid
    PROVE  IInv'
<1> USE DEF IInv
<1>1. CASE Pulled
  <2>1. /\ d.pc = "frame" /\ d.capture /\ d.seq < MaxFrames /\ ring' = ring
        /\ d' = [d EXCEPT !.seq = d.seq + 1, !.pc = "guard"]
        /\ of' = [of EXCEPT ![d.seq + 1] = d.sel] /\ UNCHANGED <<view, screen, env>>
    BY <1>1 DEF Pulled, TypeOK, Daemon
  <2>2. d.seq + 1 \in Frames
    BY <2>1, Numbers DEF Frames
  <2>3. [d EXCEPT !.seq = d.seq + 1] \in Daemon
    BY <2>2, DaemonFields DEF TypeOK
  <2>4. d' \in Daemon
    BY <2>1, <2>3, DaemonFields DEF DaemonPlaces
  <2>5. d'.pc = "guard" /\ d'.seq = d.seq + 1 /\ d'.sel = d.sel /\ d'.capture = d.capture
    BY <2>1 DEF TypeOK, Daemon
  <2>6. d.sel \in Roles \cup {NoRole}
    BY DEF TypeOK, Daemon
  <2>7. of' \in [Frames -> Roles \cup {NoRole}] /\ of'[d.seq + 1] = d.sel
        /\ of'[ring.latest] = of[ring.latest]
    <3>1. ring.latest # d.seq + 1 /\ ring.latest \in Frames
      BY Numbers DEF NotAhead, TypeOK, Ring
    <3>2. of \in [Frames -> Roles \cup {NoRole}]
      BY DEF TypeOK
    <3> QED
      BY <2>1, <2>2, <2>6, <3>1, <3>2
  <2>8. SlotWritten' /\ NotAhead'
    <3>1. d'.seq # 0 /\ ring.latest <= d'.seq
      BY <2>5, Numbers DEF NotAhead
    <3>2. \A i \in Slots : ring.slot[i].guard < 2 * d'.seq - 1 /\ ring.slot[i].guard <= 2 * d'.seq
      BY <2>5, Numbers DEF NotAhead
    <3> QED
      BY <2>1, <2>5, <3>1, <3>2 DEF SlotWritten, NotAhead
  <2>9. TypeOK' /\ SlotWhole' /\ CopyWhole' /\ NotTorn'
    BY <2>1, <2>4, <2>7 DEF TypeOK, SlotWhole, CopyWhole, Mine, NotTorn
  <2>10. RolePublished' /\ ValidIsLive'
    BY <2>1, <2>5, <2>7 DEF RolePublished, ValidIsLive, Alive
  <2> QED
    BY <2>8, <2>9, <2>10
<1>2. CASE WriteLatest
  <2>1. /\ d.pc = "latest" /\ ring' = [ring EXCEPT !.latest = d.seq]
        /\ d' = [d EXCEPT !.pc = "valid"] /\ UNCHANGED <<of, view, screen, env>>
    BY <1>2 DEF WriteLatest
  <2>2. d' \in Daemon
    BY <2>1, DaemonFields DEF DaemonPlaces, TypeOK
  <2>3. d'.pc = "valid" /\ d'.seq = d.seq /\ d'.sel = d.sel /\ d'.capture = d.capture
    BY <2>1 DEF TypeOK, Daemon
  <2>4. ring' \in Ring
    <3>1. d.seq \in Frames
      BY DEF TypeOK, Daemon
    <3> QED
      BY <2>1, <3>1, RingFields DEF TypeOK
  <2>5. ring'.valid = ring.valid /\ ring'.role = ring.role /\ ring'.latest = d.seq
        /\ ring'.slot = ring.slot
    BY <2>1 DEF TypeOK, Ring
  <2>6. SlotWritten' /\ NotAhead'
    BY <2>1, <2>3, <2>5, Numbers DEF SlotWritten, NotAhead, Writing
  <2>7. TypeOK' /\ SlotWhole' /\ CopyWhole' /\ NotTorn'
    BY <2>1, <2>2, <2>4, <2>5 DEF TypeOK, SlotWhole, CopyWhole, Mine, NotTorn
  <2>8. RolePublished' /\ ValidIsLive'
    BY <2>1, <2>3, <2>5 DEF RolePublished, ValidIsLive, Alive, Writing
  <2> QED
    BY <2>6, <2>7, <2>8
<1>3. CASE WriteValid
  <2>1. /\ d.pc = "valid" /\ ring' = [ring EXCEPT !.valid = TRUE]
        /\ d' = [d EXCEPT !.pc = "poll", !.since = 0, !.state = "streaming"]
        /\ UNCHANGED <<of, view, screen, env>>
    BY <1>3 DEF WriteValid
  <2>2. d' \in Daemon
    <3>1. [d EXCEPT !.pc = "poll"] \in Daemon
      BY DaemonFields DEF DaemonPlaces, TypeOK
    <3>2. [d EXCEPT !.pc = "poll", !.since = 0] \in Daemon
      <4>1. 0 \in 0..2
        OBVIOUS
      <4> QED
        BY <3>1, <4>1, DaemonFields
    <3> QED
      BY <2>1, <3>2, DaemonFields DEF CaptureStates
  <2>3. d'.pc = "poll" /\ d'.seq = d.seq /\ d'.sel = d.sel /\ d'.capture = d.capture
    BY <2>1 DEF TypeOK, Daemon
  <2>4. ring' \in Ring
    BY <2>1, RingFields DEF TypeOK
  <2>5. ring'.role = ring.role /\ ring'.latest = ring.latest /\ ring'.slot = ring.slot
    BY <2>1 DEF TypeOK, Ring
  <2>6. SlotWritten' /\ NotAhead'
    BY <2>3, <2>5 DEF SlotWritten, NotAhead, Writing
  <2>7. TypeOK' /\ SlotWhole' /\ CopyWhole' /\ NotTorn'
    BY <2>1, <2>2, <2>4, <2>5 DEF TypeOK, SlotWhole, CopyWhole, Mine, NotTorn
  <2>8. RolePublished' /\ ValidIsLive'
    BY <2>1, <2>3, <2>5 DEF RolePublished, ValidIsLive, Alive, Writing, SlotWritten
  <2> QED
    BY <2>6, <2>7, <2>8
<1> QED
  BY <1>1, <1>2, <1>3

-----------------------------------------------------------------------------
(* The view, and time.                                                     *)

Copying == {"guard", "top", "bottom", "again", "valid", "submit"}

(* The view leaves the daemon and the ring alone.                          *)
LEMMA ViewOnly ==
    ASSUME IInv, UNCHANGED <<d, ring, of>>, env' \in Surroundings, view' \in View,
           screen' \in Picture, CopyWhole', NotTorn'
    PROVE  IInv'
<1> USE DEF IInv
<1>1. TypeOK'
  BY DEF TypeOK
<1>2. SlotWritten' /\ NotAhead' /\ SlotWhole'
  BY DEF SlotWritten, NotAhead, SlotWhole, Written
<1>3. RolePublished' /\ ValidIsLive'
  BY DEF RolePublished, ValidIsLive, Alive
<1> QED
  BY <1>1, <1>2, <1>3

(* The copy is given up, or there is none.                                 *)
LEMMA NoCopy ==
    ASSUME IInv, UNCHANGED <<d, ring, of>>, env' \in Surroundings, view' \in View,
           view'.pc \notin Copying, screen' \in {screen, NoPicture}
    PROVE  IInv'
<1>1. CopyWhole'
  BY DEF CopyWhole, Copying
<1>2. NoPicture \in Picture
  BY DEF NoPicture, Picture, Frames, CameraAssumption
<1>3. NotTorn'
  BY DEF NotTorn, NoPicture, IInv
<1>4. screen' \in Picture
  BY <1>2 DEF IInv, TypeOK
<1> QED
  BY <1>1, <1>3, <1>4, ViewOnly

LEMMA Moved ==
    ASSUME TypeOK, NEW p \in ViewPlaces
    PROVE  /\ At(p) \in View /\ At(p).pc = p /\ At(p).seq = view.seq
           /\ At(p).a = view.a /\ At(p).b = view.b
           /\ Again \in View /\ Again.pc = "poll"
<1>1. At(p) \in View
  BY ViewFields DEF TypeOK, At
<1>2. Again \in View
  <2>1. 0 \in Frames
    BY DEF Frames, CameraAssumption
  <2>2. [view EXCEPT !.pc = "poll"] \in View
    BY ViewFields DEF TypeOK, ViewPlaces
  <2>3. [view EXCEPT !.pc = "poll", !.seq = 0] \in View
    BY <2>1, <2>2, ViewFields
  <2>4. [view EXCEPT !.pc = "poll", !.seq = 0, !.a = 0] \in View
    BY <2>1, <2>3, ViewFields
  <2> QED
    BY <2>1, <2>4, ViewFields DEF Again
<1>3. At(p).pc = p /\ At(p).seq = view.seq /\ At(p).a = view.a /\ At(p).b = view.b
  BY DEF TypeOK, At, View
<1>4. Again.pc = "poll"
  BY DEF TypeOK, Again, View
<1> QED
  BY <1>1, <1>2, <1>3, <1>4

(* The steps of the reader: what it has seen of the guard bounds what it   *)
(* can have copied.                                                        *)
LEMMA ReadKeeps ==
    ASSUME IInv,
           \/ ReadValid \/ ReadRole \/ ReadLatest \/ ReadGuard \/ ReadTop \/ ReadBottom
           \/ ReadAgain \/ ReadStillValid
    PROVE  IInv'
<1> USE DEF IInv
<1>1. /\ view \in View /\ env \in Surroundings /\ screen \in Picture
      /\ view.seq \in Nat /\ view.a \in Frames /\ view.b \in Frames /\ view.seq \in Frames
      /\ ring.latest \in Frames
  BY DEF TypeOK, View, Ring, Frames
<1>2. /\ UNCHANGED <<d, ring, of, screen, env>>
      /\ UNCHANGED <<d, ring, of>> /\ env' \in Surroundings /\ screen' \in Picture /\ NotTorn'
  BY <1>1 DEF ReadValid, ReadRole, ReadLatest, ReadGuard, ReadTop, ReadBottom, ReadAgain,
     ReadStillValid, Read, NotTorn
<1>3. CASE view' = At("none") \/ view' = At("role") \/ view' = At("latest")
  <2>1. view' \in View /\ view'.pc \notin Copying
    BY <1>3, Moved DEF ViewPlaces, Copying
  <2> QED
    BY <1>2, <2>1, NoCopy
<1>4. view.seq # 0 => /\ Slot(view.seq) \in Slots /\ Mine \in SlotState
                      /\ Mine.a \in Frames /\ Mine.b \in Frames /\ Mine.guard \in Nat
                      /\ (Mine.guard = 2 * view.seq => Mine.a = view.seq /\ Mine.b = view.seq)
  <2> SUFFICES ASSUME view.seq # 0
               PROVE  /\ Slot(view.seq) \in Slots /\ Mine \in SlotState
                      /\ Mine.a \in Frames /\ Mine.b \in Frames /\ Mine.guard \in Nat
                      /\ (Mine.guard = 2 * view.seq => Mine.a = view.seq /\ Mine.b = view.seq)
    OBVIOUS
  <2>1. Slot(view.seq) \in Slots
    BY <1>1, SlotRange
  <2>2. Mine \in SlotState
    BY <2>1, Numbers DEF Mine
  <2>3. Mine.a \in Frames /\ Mine.b \in Frames /\ Mine.guard \in Nat
    BY <2>2 DEF SlotState
  <2>4. Mine.guard = 2 * view.seq => Mine.a = view.seq /\ Mine.b = view.seq
    BY <1>1, <2>1 DEF SlotWhole, Mine
  <2> QED
    BY <2>1, <2>2, <2>3, <2>4
<1>5. CASE ReadValid \/ ReadRole
  BY <1>3, <1>5 DEF ReadValid, ReadRole, Read, Else
<1>6. CASE ReadLatest
  <2>1. CASE ring.latest = 0
    BY <1>3, <1>6, <2>1 DEF ReadLatest, Read, Else
  <2>2. CASE ring.latest # 0
    <3>1. view' = [At("guard") EXCEPT !.seq = ring.latest]
      BY <1>6, <2>2 DEF ReadLatest, Read, Else
    <3>2. view' \in View
      BY <1>1, <3>1, Moved, ViewFields DEF ViewPlaces
    <3>3. view'.pc = "guard" /\ view'.seq = ring.latest
      BY <3>1, Moved DEF ViewPlaces, View
    <3>4. CopyWhole'
      BY <2>2, <3>3 DEF CopyWhole
    <3> QED
      BY <1>2, <3>2, <3>4, ViewOnly
  <2> QED
    BY <2>1, <2>2
<1>7. CASE ReadGuard
  <2>1. CASE ~(Mine.guard = 2 * view.seq)
    BY <1>3, <1>7, <2>1 DEF ReadGuard, Read, Else
  <2>2. CASE Mine.guard = 2 * view.seq
    <3>1. view' = At("top") /\ view.pc = "guard"
      BY <1>7, <2>2 DEF ReadGuard, Read, Else
    <3>2. view' \in View /\ view'.pc = "top" /\ view'.seq = view.seq
      BY <3>1, Moved DEF ViewPlaces
    <3>3. Mine' = Mine
      BY <1>2, <3>2 DEF Mine
    <3>4. CopyWhole'
      BY <1>1, <2>2, <3>1, <3>2, <3>3 DEF CopyWhole
    <3> QED
      BY <1>2, <3>2, <3>4, ViewOnly
  <2> QED
    BY <2>1, <2>2
<1>8. CASE ReadTop
  <2>1. CASE Mine.old
    BY <1>3, <1>8, <2>1 DEF ReadTop, Read, Else
  <2>2. CASE ~Mine.old
    <3>1. view' = [At("bottom") EXCEPT !.a = Mine.a] /\ view.pc = "top"
      BY <1>8, <2>2 DEF ReadTop, Read, Else
    <3>2. view.seq # 0 /\ Mine.guard >= 2 * view.seq
      BY <3>1 DEF CopyWhole
    <3>3. view' \in View
      BY <1>4, <3>1, <3>2, Moved, ViewFields DEF ViewPlaces
    <3>4. view'.pc = "bottom" /\ view'.seq = view.seq /\ view'.a = Mine.a
      BY <3>1, Moved DEF ViewPlaces, View
    <3>5. Mine' = Mine
      BY <1>2, <3>4 DEF Mine
    <3>6. CopyWhole'
      BY <1>4, <3>2, <3>4, <3>5 DEF CopyWhole
    <3> QED
      BY <1>2, <3>3, <3>6, ViewOnly
  <2> QED
    BY <2>1, <2>2
<1>9. CASE ReadBottom
  <2>1. view' = [At("again") EXCEPT !.b = Mine.b] /\ view.pc = "bottom"
    BY <1>9 DEF ReadBottom, Read
  <2>2. /\ view.seq # 0 /\ Mine.guard >= 2 * view.seq
        /\ (Mine.guard = 2 * view.seq => view.a = view.seq)
    BY <2>1 DEF CopyWhole
  <2>3. view' \in View
    BY <1>4, <2>1, <2>2, Moved, ViewFields DEF ViewPlaces
  <2>4. view'.pc = "again" /\ view'.seq = view.seq /\ view'.a = view.a /\ view'.b = Mine.b
    BY <2>1, Moved DEF ViewPlaces, View
  <2>5. Mine' = Mine
    BY <1>2, <2>4 DEF Mine
  <2>6. CopyWhole'
    BY <1>4, <2>2, <2>4, <2>5 DEF CopyWhole
  <2> QED
    BY <1>2, <2>3, <2>6, ViewOnly
<1>10. CASE ReadAgain \/ ReadStillValid
  <2>1. CASE view' = At("none")
    BY <1>3, <2>1
  <2>2. CASE view' # At("none")
    <3>1. \E p \in {"valid", "submit"} : view' = At(p)
      BY <1>10, <2>2 DEF ReadAgain, ReadStillValid, Read, Else
    <3>2. \/ view.pc = "again" /\ Mine.guard = 2 * view.seq
          \/ view.pc = "valid"
      BY <1>10, <2>2 DEF ReadAgain, ReadStillValid, Read, Else
    <3>3. /\ view' \in View /\ view'.pc \in {"valid", "submit"} /\ view'.seq = view.seq
          /\ view'.a = view.a /\ view'.b = view.b
      BY <3>1, Moved DEF ViewPlaces
    <3>4. view.seq # 0 /\ view.a = view.seq /\ view.b = view.seq
      BY <3>2 DEF CopyWhole
    <3>5. CopyWhole'
      BY <3>3, <3>4 DEF CopyWhole
    <3> QED
      BY <1>2, <3>3, <3>5, ViewOnly
  <2> QED
    BY <2>1, <2>2
<1> QED
  BY <1>5, <1>6, <1>7, <1>8, <1>9, <1>10

(* The picture is submitted, retained or blanked.                          *)
LEMMA ShowKeeps ==
    ASSUME IInv, Connect \/ HungUp \/ Refresh \/ Submit \/ NothingFresh \/ Serve
    PROVE  IInv'
<1> USE DEF IInv
<1>1. view \in View /\ env \in Surroundings /\ screen \in Picture /\ view.seq \in Frames
  BY DEF TypeOK, View
<1>2. Again \in View /\ Again.pc = "poll" /\ At("none") \in View /\ At("none").pc = "none"
  BY Moved DEF ViewPlaces
<1>3. CASE Connect \/ HungUp
  <2>1. /\ UNCHANGED <<d, ring, of, screen, env>>
        /\ \E c \in {"none", "asked"} : \/ view' = [At("none") EXCEPT !.conn = c]
                                        \/ view' = [At("none") EXCEPT !.conn = c, !.black = FALSE]
    BY <1>3 DEF Connect, HungUp, Read
  <2>2. PICK c \in {"none", "asked"} : \/ view' = [At("none") EXCEPT !.conn = c]
                                       \/ view' = [At("none") EXCEPT !.conn = c, !.black = FALSE]
    BY <2>1
  <2>3. [At("none") EXCEPT !.conn = c] \in View
    BY <1>2, ViewFields
  <2>4. [At("none") EXCEPT !.conn = c, !.black = FALSE] \in View
    BY <2>3, ViewFields
  <2>5. view'.pc = "none"
    BY <1>2, <2>2 DEF View
  <2>6. view' \in View /\ view'.pc \notin Copying
    BY <2>2, <2>3, <2>4, <2>5 DEF Copying
  <2> QED
    BY <1>1, <2>1, <2>6, NoCopy
<1>4. CASE Refresh
  <2>1. /\ UNCHANGED <<d, ring, of, screen>> /\ view.pc = "poll" /\ Faulty
        /\ view' = [view EXCEPT !.black = FALSE, !.last = 0]
    BY <1>4 DEF Refresh
  <2>2. env' \in Surroundings
    BY <2>1, EnvTyped
  <2>3. 0 \in Frames
    BY DEF Frames, CameraAssumption
  <2>4. view' \in View
    <3>1. [view EXCEPT !.black = FALSE] \in View
      BY <1>1, ViewFields
    <3> QED
      BY <2>1, <2>3, <3>1, ViewFields
  <2>5. view'.pc \notin Copying
    BY <1>1, <2>1 DEF View, Copying
  <2> QED
    BY <2>1, <2>2, <2>4, <2>5, NoCopy
<1>5. CASE Submit
  <2>1. UNCHANGED <<d, ring, of>> /\ view.pc = "submit" /\ (env' = env \/ Faulty)
    BY <1>5 DEF Submit
  <2>2. view.a = view.seq /\ view.b = view.seq
    BY <2>1 DEF CopyWhole
  <2>3. /\ view' \in {Again, [Again EXCEPT !.last = view.seq, !.old = FALSE, !.black = FALSE],
                     [Again EXCEPT !.black = TRUE]}
        /\ screen' \in {screen, NoPicture, [seq |-> view.seq, a |-> view.a, b |-> view.b]}
    BY <1>5 DEF Submit
  <2>4. [Again EXCEPT !.last = view.seq] \in View
    BY <1>1, <1>2, ViewFields
  <2>5. [Again EXCEPT !.last = view.seq, !.old = FALSE] \in View
    BY <2>4, ViewFields
  <2>6. /\ [Again EXCEPT !.last = view.seq, !.old = FALSE, !.black = FALSE] \in View
        /\ [Again EXCEPT !.black = TRUE] \in View
    BY <1>2, <2>5, ViewFields
  <2>7. view' \in View
    BY <1>2, <2>3, <2>6
  <2>8. view'.pc = "poll"
    BY <1>2, <2>3 DEF View
  <2>9. screen' \in Picture /\ NotTorn'
    BY <1>1, <2>2, <2>3 DEF NotTorn, NoPicture, Picture, Frames, CameraAssumption
  <2>10. CopyWhole'
    BY <2>8 DEF CopyWhole
  <2>11. env' \in Surroundings
    BY <1>1, <2>1, EnvTyped
  <2> QED
    BY <1>1, <2>1, <2>7, <2>9, <2>10, <2>11, ViewOnly
<1>6. CASE NothingFresh
  <2>1. /\ UNCHANGED <<d, ring, of>> /\ view' \in {Again, [Again EXCEPT !.black = TRUE]}
        /\ screen' \in {screen, NoPicture} /\ (env' = env \/ Faulty)
    BY <1>6 DEF NothingFresh
  <2>2. env' \in Surroundings
    BY <1>1, <2>1, EnvTyped
  <2>3. view' \in View
    BY <1>2, <2>1, ViewFields
  <2>4. view'.pc \notin Copying
    BY <1>2, <2>1 DEF View, Copying
  <2> QED
    BY <2>1, <2>2, <2>3, <2>4, NoCopy
<1>7. CASE Serve
  <2>1. UNCHANGED <<d, ring, of, screen, env>> /\ view' = [view EXCEPT !.conn = "served"]
    BY <1>7 DEF Serve
  <2>2. view' \in View
    BY <1>1, <2>1, ViewFields
  <2>3. view'.pc = view.pc /\ view'.seq = view.seq /\ view'.a = view.a /\ view'.b = view.b
    BY <1>1, <2>1 DEF View
  <2>4. CopyWhole' /\ NotTorn'
    BY <2>1, <2>3 DEF CopyWhole, Mine, NotTorn
  <2> QED
    BY <1>1, <2>1, <2>2, <2>4, ViewOnly
<1> QED
  BY <1>3, <1>4, <1>5, <1>6, <1>7

(* Frames and pictures age, and are otherwise as they were.                *)
LEMMA TimeKeeps ==
    ASSUME IInv, Time
    PROVE  IInv'
<1> USE DEF IInv
<1>1. /\ d' \in Daemon /\ d'.pc = d.pc /\ d'.seq = d.seq /\ d'.sel = d.sel
      /\ d'.capture = d.capture
  <2>1. d' = [d EXCEPT !.since = IF d.capture /\ d.since < 2 THEN d.since + 1 ELSE d.since]
    BY DEF Time, TypeOK, Daemon
  <2>2. (IF d.capture /\ d.since < 2 THEN d.since + 1 ELSE d.since) \in 0..2
    BY DEF TypeOK, Daemon
  <2>3. d' \in Daemon
    BY <2>1, <2>2, DaemonFields DEF TypeOK
  <2> QED
    BY <2>1, <2>3 DEF TypeOK, Daemon
<1>2. /\ ring' \in Ring /\ ring'.valid = ring.valid /\ ring'.role = ring.role
      /\ ring'.latest = ring.latest
      /\ \A i \in Slots : /\ ring'.slot[i].guard = ring.slot[i].guard
                          /\ ring'.slot[i].a = ring.slot[i].a
                          /\ ring'.slot[i].b = ring.slot[i].b
  <2> DEFINE aged == [i \in Slots |-> [ring.slot[i] EXCEPT !.old = TRUE]]
  <2>1. ring' = [ring EXCEPT !.slot = aged]
    BY DEF Time, TypeOK, Ring
  <2>2. aged \in [Slots -> SlotState]
    BY Numbers, RingFields
  <2>3. \A i \in Slots : /\ aged[i].guard = ring.slot[i].guard
                         /\ aged[i].a = ring.slot[i].a /\ aged[i].b = ring.slot[i].b
    BY Numbers DEF SlotState
  <2> HIDE DEF aged
  <2>4. ring' \in Ring
    BY <2>1, <2>2, RingFields DEF TypeOK
  <2>5. ring'.slot = aged /\ ring'.valid = ring.valid /\ ring'.role = ring.role
        /\ ring'.latest = ring.latest
    BY <2>1 DEF TypeOK, Ring
  <2> QED
    BY <2>3, <2>4, <2>5
<1>3. /\ view' \in View /\ view'.pc = view.pc /\ view'.seq = view.seq /\ view'.a = view.a
      /\ view'.b = view.b
  <2>1. view' = [view EXCEPT !.old = view.last # 0]
    BY DEF Time
  <2>2. view' \in View
    BY <2>1, ViewFields DEF TypeOK
  <2> QED
    BY <2>1, <2>2 DEF TypeOK, View
<1>4. UNCHANGED <<of, screen, env>>
  BY DEF Time
<1>5. view.seq # 0 => Slot(view.seq) \in Slots
  BY SlotRange DEF TypeOK, View
<1>6. d.seq # 0 => Slot(d.seq) \in Slots
  BY SlotRange DEF TypeOK, Daemon
<1>7. SlotWritten'
  BY <1>1, <1>2, <1>6 DEF SlotWritten, Written, Writing
<1>8. NotAhead' /\ SlotWhole'
  BY <1>1, <1>2 DEF NotAhead, SlotWhole
<1>9. CopyWhole'
  BY <1>2, <1>3, <1>5 DEF CopyWhole, Mine
<1>10. RolePublished' /\ ValidIsLive' /\ NotTorn' /\ TypeOK'
  BY <1>1, <1>2, <1>3, <1>4 DEF RolePublished, ValidIsLive, Alive, NotTorn, TypeOK, Writing
<1> QED
  BY <1>7, <1>8, <1>9, <1>10

-----------------------------------------------------------------------------
(* The invariant and what follows from it.                                 *)

LEMMA InitEstablishes == Init => IInv
<1> SUFFICES ASSUME Init PROVE IInv
  OBVIOUS
<1> USE DEF Init
<1>1. 0 \in Frames /\ 0 \in 0..Retries /\ 0 \in 0..2 /\ 0 \in 0..MaxCommands /\ 0 \in 0..MaxFaults
      /\ 0 \in 0..2 * MaxFrames
  BY DEF Frames, CameraAssumption
<1>2. PICK p \in {{}, Roles} :
         /\ env = [present |-> p, commands |-> 0, faults |-> 0]
         /\ d = [pc |-> "poll", sel |-> NoRole, capture |-> FALSE, state |-> "idle",
                 devices |-> p, due |-> TRUE, seq |-> 0, since |-> 0, retries |-> 0,
                 retry_at |-> "none"]
  OBVIOUS
<1>3. d \in Daemon /\ env \in Surroundings
  BY <1>1, <1>2 DEF Daemon, Surroundings, DaemonPlaces, CaptureStates
<1>4. ring \in Ring
  <2>1. ring.slot \in [Slots -> SlotState]
    BY <1>1 DEF SlotState
  <2> QED
    BY <1>1, <2>1 DEF Ring
<1>5. view \in View /\ screen \in Picture /\ of \in [Frames -> Roles \cup {NoRole}]
  BY <1>1 DEF View, ViewPlaces, Picture, NoPicture
<1>6. SlotWritten /\ NotAhead /\ SlotWhole
  BY <1>2 DEF SlotWritten, NotAhead, SlotWhole, Writing, Frames
<1>7. CopyWhole /\ RolePublished /\ ValidIsLive /\ NotTorn
  BY <1>2 DEF CopyWhole, RolePublished, ValidIsLive, NotTorn, NoPicture, Writing
<1> QED
  BY <1>3, <1>4, <1>5, <1>6, <1>7 DEF IInv, TypeOK

LEMMA StepKeeps == IInv /\ [Next]_vars => IInv'
<1> SUFFICES ASSUME IInv, [Next]_vars PROVE IInv'
  OBVIOUS
<1> DEFINE Loop == \/ Stop("poll") \/ Stop("dead") \/ OwnerGone \/ Killed \/ StartRole
                   \/ (\E r \in Roles : Start(r))
                   \/ Polled \/ Lost \/ Seen \/ Capturing \/ NotRetrying \/ NoCapture \/ NoFrame
                   \/ Restart \/ RetryDue \/ Plug
<1>1. CASE Loop
  <2>1. UNCHANGED <<view, screen>>
    BY <1>1 DEF Stop, OwnerGone, Killed, StartRole, Start, Polled, Lost, Seen, Capturing,
       NotRetrying, NoCapture, NoFrame, Restart, RetryDue, Plug
  <2>2. Rests
    BY <1>1, CommandRests, LoopRests DEF IInv
  <2> QED
    BY <2>1, <2>2, RestKeeps
<1>2. CASE WriteGuard \/ WriteTop \/ WriteBottom \/ WriteEven
  BY <1>2, StoresKeep
<1>3. CASE Pulled \/ WriteLatest \/ WriteValid
  BY <1>3, AnnouncementKeeps
<1>4. CASE ViewStep \/ Refresh \/ Serve
  BY <1>4, ReadKeeps, ShowKeeps DEF ViewStep
<1>5. CASE Time
  BY <1>5, TimeKeeps
<1>6. CASE UNCHANGED vars
  BY <1>6 DEF vars, IInv, TypeOK, SlotWritten, NotAhead, SlotWhole, CopyWhole, RolePublished,
     ValidIsLive, NotTorn, Written, Mine, Alive
<1> QED
  BY <1>1, <1>2, <1>3, <1>4, <1>5, <1>6 DEF Next, DaemonStep

(* The inductive invariant of the daemon, the ring and the view.           *)
THEOREM CameraInvariance == Spec => []IInv
<1> QED
  BY InitEstablishes, StepKeeps, PTL DEF Spec

(* Every variable keeps its type.                                          *)
THEOREM CameraTypeCorrect == Spec => []TypeOK
<1>1. IInv => TypeOK
  BY DEF IInv
<1> QED
  BY <1>1, CameraInvariance, PTL

(* No picture that is shown has halves of two frames, however the stores   *)
(* of the writer and the loads of the reader interleave.                   *)
THEOREM PictureWhole == Spec => []NotTorn
<1>1. IInv => NotTorn
  BY DEF IInv
<1> QED
  BY <1>1, CameraInvariance, PTL

(* While the ring is valid and the daemon lives, a capture of the          *)
(* published role runs, and the latest frame is one of its camera.         *)
THEOREM ValidPicture == Spec => []ValidIsLive
<1>1. IInv => ValidIsLive
  BY DEF IInv
<1> QED
  BY <1>1, CameraInvariance, PTL

(* A guard never falls, which is why the reader's second look at it is     *)
(* enough: neither a writer that laps the ring nor a restart of the        *)
(* capture gives a slot a guard that it had before.                        *)
THEOREM GuardsNeverFall == Spec => [][GuardsRise]_vars
<1>1. ASSUME IInv, [Next]_vars PROVE GuardsRise
  <2>1. \A i \in Slots : ring.slot[i].guard \in Nat
    BY <1>1, Numbers DEF IInv
  <2>2. ASSUME ring'.slot = ring.slot PROVE GuardsRise
    BY <2>1, <2>2 DEF GuardsRise
  <2>3. ASSUME SameFrames PROVE GuardsRise
    BY <2>2, <2>3 DEF SameFrames
  <2>4. CASE WriteGuard \/ WriteTop \/ WriteBottom \/ WriteEven
    BY <1>1, <2>4, StoresKeep
  <2>5. CASE Pulled \/ WriteLatest \/ WriteValid
    <3>1. ring'.slot = ring.slot
      BY <1>1, <2>5 DEF Pulled, WriteLatest, WriteValid, IInv, TypeOK, Ring
    <3> QED
      BY <2>2, <3>1
  <2>6. CASE ViewStep \/ Refresh \/ Serve
    BY <2>2, <2>6 DEF ViewStep, Refresh, Serve, Connect, HungUp, ReadValid, ReadRole, ReadLatest,
       ReadGuard, ReadTop, ReadBottom, ReadAgain, ReadStillValid, Read, Submit, NothingFresh
  <2>7. CASE Time
    <3>1. \A i \in Slots : ring'.slot[i].guard = ring.slot[i].guard
      <4>1. ring' = [ring EXCEPT !.slot = [i \in Slots |-> [ring.slot[i] EXCEPT !.old = TRUE]]]
        BY <1>1, <2>7 DEF Time, IInv, TypeOK, Ring
      <4>2. ring'.slot = [i \in Slots |-> [ring.slot[i] EXCEPT !.old = TRUE]]
        BY <1>1, <4>1 DEF IInv, TypeOK, Ring
      <4> QED
        BY <1>1, <4>2, Numbers DEF IInv, SlotState
    <3> QED
      BY <2>1, <3>1 DEF GuardsRise
  <2>8. CASE UNCHANGED vars
    BY <2>2, <2>8 DEF vars
  <2>9. CASE \/ Stop("poll") \/ Stop("dead") \/ OwnerGone \/ Killed \/ StartRole
             \/ (\E r \in Roles : Start(r))
             \/ Polled \/ Lost \/ Seen \/ Capturing \/ NotRetrying \/ NoCapture \/ NoFrame
             \/ Restart \/ RetryDue \/ Plug
    BY <1>1, <2>3, <2>9, CommandRests, LoopRests DEF IInv, Rests
  <2> QED
    BY <1>1, <2>4, <2>5, <2>6, <2>7, <2>8, <2>9 DEF Next, DaemonStep
<1> QED
  BY <1>1, CameraInvariance, PTL DEF Spec

===============================================================================
