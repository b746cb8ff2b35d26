-------------------------------- MODULE Camera --------------------------------
(***************************************************************************)
(* The camera daemon and its view: the loop of argo-camerad (main.rs), the *)
(* health and restart policy of capture.rs, the shared frame ring of       *)
(* ring.rs and the reader of argo-camera-view (contract.h).                *)
(*                                                                         *)
(* The daemon is one thread; the view maps the ring and reads it without   *)
(* a lock.  Every atomic store and load and each half of the picture is a  *)
(* step of its own (the target is amd64: stores become visible in program  *)
(* order).  A picture is the number of the write that produced its halves; *)
(* of says which camera that write was for.                                *)
(***************************************************************************)
EXTENDS Naturals

CONSTANTS
    Roles,          \* roles of cameras; each is assigned to one device
    NoRole,
    Shown,          \* the role the view was made for
    Depth,          \* slots of the ring, 3 in the code
    MaxFrames,      \* frames written
    MaxCommands,    \* start, stop and close commands
    MaxFaults,      \* plugs, calls that fail, kills and refreshes of the view
    Retries         \* restarts of one selection, 3 in the code

ASSUME CameraAssumption ==
    /\ NoRole \notin Roles /\ Shown \in Roles /\ Depth \in Nat \ {0} /\ MaxFrames \in Nat
    /\ MaxCommands \in Nat /\ MaxFaults \in Nat /\ Retries \in Nat

VARIABLES
    d,          \* the daemon's loop and its local variables
    ring,       \* the shared memory
    of,         \* history: the camera each frame was captured from
    view,       \* the view thread
    screen,     \* what was submitted last
    env         \* cameras that are plugged in, and the bounds

vars == <<d, ring, of, view, screen, env>>

Slots == 0..Depth - 1
Frames == 0..MaxFrames
Slot(s) == (s - 1) % Depth

Picture == [seq : Frames, a : Frames, b : Frames]
NoPicture == [seq |-> 0, a |-> 0, b |-> 0]

DaemonPlaces == {"poll", "role", "inventory", "capture", "frame", "dead",
                 "guard", "top", "bottom", "even", "latest", "valid"}

CaptureStates == {"idle", "starting", "streaming", "stale", "failed", "disconnected"}

Daemon ==
    [pc : DaemonPlaces, sel : Roles \cup {NoRole}, capture : BOOLEAN,
     state : CaptureStates, devices : SUBSET Roles, due : BOOLEAN, seq : Frames,
     since : 0..2, retries : 0..Retries, retry_at : {"none", "set", "now"}]

SlotState == [guard : 0..2 * MaxFrames, a : Frames, b : Frames, old : BOOLEAN]

Ring == [valid : BOOLEAN, role : Roles \cup {NoRole}, latest : Frames,
         slot : [Slots -> SlotState]]

ViewPlaces == {"poll", "role", "latest", "guard", "top", "bottom", "again", "valid",
               "submit", "none"}

View == [pc : ViewPlaces, conn : {"none", "asked", "served"}, seq : Frames,
         a : Frames, b : Frames, last : Frames, old : BOOLEAN, black : BOOLEAN]

Surroundings == [present : SUBSET Roles, commands : 0..MaxCommands, faults : 0..MaxFaults]

TypeOK ==
    /\ d \in Daemon /\ ring \in Ring /\ view \in View /\ env \in Surroundings
    /\ of \in [Frames -> Roles \cup {NoRole}] /\ screen \in Picture

Init ==
    /\ \E p \in {{}, Roles} :
         /\ env = [present |-> p, commands |-> 0, faults |-> 0]
         /\ d = [pc |-> "poll", sel |-> NoRole, capture |-> FALSE, state |-> "idle",
                 devices |-> p, due |-> TRUE, seq |-> 0, since |-> 0, retries |-> 0,
                 retry_at |-> "none"]
    /\ ring = [valid |-> FALSE, role |-> NoRole, latest |-> 0,
               slot |-> [i \in Slots |-> [guard |-> 0, a |-> 0, b |-> 0, old |-> FALSE]]]
    /\ of = [n \in Frames |-> NoRole]
    /\ view = [pc |-> "poll", conn |-> "none", seq |-> 0, a |-> 0, b |-> 0,
               last |-> 0, old |-> FALSE, black |-> FALSE]
    /\ screen = NoPicture

Alive == d.pc # "dead"
Faulty == env.faults < MaxFaults /\ env' = [env EXCEPT !.faults = @ + 1]

-----------------------------------------------------------------------------
(* Ring::invalidate, Capture::stop, Health.                                *)

Invalid == [ring EXCEPT !.valid = FALSE]

(* Health::new; last is now.                                               *)
Fresh(c) == [c EXCEPT !.since = 0, !.retries = 0, !.retry_at = "none"]

(* Health::failed, with the state that follows from its answer.            *)
Failed(c, again) ==
    IF c.retries >= Retries THEN [c EXCEPT !.state = "failed"]
    ELSE [c EXCEPT !.retries = @ + 1, !.retry_at = "set", !.state = again]

(* capture.take() and stop(); a stop that fails ends the loop, and the     *)
(* daemon with it.                                                         *)
Stopped(c, next) ==
    \/ d' = [c EXCEPT !.capture = FALSE, !.pc = next] /\ UNCHANGED env
    \/ d.capture /\ Faulty /\ d' = [c EXCEPT !.capture = FALSE, !.pc = "dead"]

-----------------------------------------------------------------------------
(* The loop of the daemon.                                                 *)

(* A viewer is handed the memory and the event; one at a time.             *)
Serve ==
    /\ d.pc = "poll" /\ view.conn = "asked"
    /\ view' = [view EXCEPT !.conn = "served"]
    /\ UNCHANGED <<d, ring, of, screen, env>>

Command == d.pc = "poll" /\ env.commands < MaxCommands
Counted == [env EXCEPT !.commands = @ + 1]

(* stop; close does the same and leaves the loop.                          *)
Stop(next) ==
    /\ Command
    /\ ring' = Invalid
    /\ \/ /\ d' = [Fresh(d) EXCEPT !.capture = FALSE, !.sel = NoRole, !.state = "idle", !.pc = next]
          /\ env' = Counted
       \/ /\ d.capture /\ env.faults < MaxFaults
          /\ d' = [d EXCEPT !.capture = FALSE, !.pc = "dead"]
          /\ env' = [Counted EXCEPT !.faults = @ + 1]
    /\ UNCHANGED <<of, view, screen>>

(* start, up to the stop of the former capture.                            *)
Start(r) ==
    /\ Command
    /\ ring' = Invalid
    /\ \/ /\ d' = [d EXCEPT !.capture = FALSE, !.sel = r, !.pc = "role"]
          /\ env' = Counted
       \/ /\ d.capture /\ env.faults < MaxFaults
          /\ d' = [d EXCEPT !.capture = FALSE, !.pc = "dead"]
          /\ env' = [Counted EXCEPT !.faults = @ + 1]
    /\ UNCHANGED <<of, view, screen>>

(* start: the role is stored and the inventory and the retry are due.      *)
StartRole ==
    /\ d.pc = "role"
    /\ ring' = [ring EXCEPT !.role = d.sel]
    /\ d' = [Fresh(d) EXCEPT !.retry_at = "now", !.state = "starting", !.due = TRUE, !.pc = "poll"]
    /\ UNCHANGED <<of, view, screen, env>>

(* No command, or the last of them was handled; the inventory has a timer  *)
(* of 500 ms, and is due after a start.                                    *)
Polled ==
    /\ d.pc = "poll"
    /\ \/ d' = [d EXCEPT !.pc = "inventory"]
       \/ ~d.due /\ d' = [d EXCEPT !.pc = "capture"]
    /\ UNCHANGED <<ring, of, view, screen, env>>

(* device::enumerate(); an error keeps the former list.                    *)
Enumerated == IF env.faults < MaxFaults THEN {env.present, d.devices} ELSE {env.present}

(* Mutant: the capture is stopped, the last frame stays valid.             *)
LostOnly ==
    /\ d.pc = "inventory"
    /\ \E now \in Enumerated :
          /\ d.sel # NoRole /\ d.sel \notin now
          /\ Stopped([d EXCEPT !.devices = now, !.due = FALSE, !.state = "disconnected",
                               !.retry_at = "none"], "capture")
    /\ UNCHANGED <<ring, of, view, screen>>

(* The selected camera is gone.                                            *)
Lost ==
    /\ d.pc = "inventory"
    /\ \E now \in Enumerated :
          /\ d.sel # NoRole /\ d.sel \notin now
          /\ Stopped([d EXCEPT !.devices = now, !.due = FALSE, !.state = "disconnected",
                               !.retry_at = "none"], "capture")
    /\ ring' = Invalid
    /\ UNCHANGED <<of, view, screen>>

(* It is there: a camera that was disconnected starts afresh.              *)
Seen ==
    /\ d.pc = "inventory"
    /\ \E now \in Enumerated :
          /\ d.sel \in now \cup {NoRole}
          /\ LET c == [d EXCEPT !.devices = now, !.due = FALSE, !.pc = "capture"]
             IN d' = IF d.state = "disconnected"
                     THEN [Fresh(c) EXCEPT !.retry_at = "now", !.state = "starting"] ELSE c
    /\ UNCHANGED <<ring, of, view, screen, env>>

Retrying == ~d.capture /\ d.sel # NoRole /\ d.retry_at = "now"

(* Capture::start: the lock of the device, its modes, the pipeline.  The   *)
(* device may have left since the inventory.                               *)
Started(c) ==
    /\ d.sel \in d.devices \cap env.present
    /\ d' = [c EXCEPT !.capture = TRUE, !.since = 0, !.state = "starting"]
    /\ UNCHANGED env

NotStarted(c) ==
    /\ d.sel \in d.devices
    /\ d' = Failed(c, "starting")
    /\ d.sel \in env.present => Faulty
    /\ d.sel \notin env.present => UNCHANGED env

Unlisted(c) ==
    /\ d.sel \notin d.devices
    /\ d' = [c EXCEPT !.state = "disconnected"] /\ UNCHANGED env

Capturing ==
    /\ d.pc = "capture" /\ Retrying
    /\ LET c == [d EXCEPT !.pc = "frame", !.retry_at = "none"]
       IN Started(c) \/ NotStarted(c) \/ Unlisted(c)
    /\ UNCHANGED <<ring, of, view, screen>>

NotRetrying ==
    /\ d.pc = "capture" /\ ~Retrying
    /\ d' = [d EXCEPT !.pc = "frame"]
    /\ UNCHANGED <<ring, of, view, screen, env>>

(* A sample was pulled and Ring::write begins.                             *)
Pulled ==
    /\ d.pc = "frame" /\ d.capture /\ d.sel \in env.present /\ d.seq < MaxFrames
    /\ d' = [d EXCEPT !.seq = @ + 1, !.pc = "guard"]
    /\ of' = [of EXCEPT ![d.seq + 1] = d.sel]
    /\ UNCHANGED <<ring, view, screen, env>>

(* The stores of Ring::write to its slot, in order.                        *)
Write(pc, next, slot) ==
    /\ d.pc = pc
    /\ ring' = [ring EXCEPT !.slot[Slot(d.seq)] = slot]
    /\ d' = [d EXCEPT !.pc = next]
    /\ UNCHANGED <<of, view, screen, env>>

Written == ring.slot[Slot(d.seq)]

WriteGuard  == Write("guard",  "top",    [Written EXCEPT !.guard = 2 * d.seq - 1])
WriteTop    == Write("top",    "bottom", [Written EXCEPT !.a = d.seq, !.old = FALSE])
WriteBottom == Write("bottom", "even",   [Written EXCEPT !.b = d.seq])
WriteEven   == Write("even",   "latest", [Written EXCEPT !.guard = 2 * d.seq])

WriteLatest ==
    /\ d.pc = "latest"
    /\ ring' = [ring EXCEPT !.latest = d.seq]
    /\ d' = [d EXCEPT !.pc = "valid"]
    /\ UNCHANGED <<of, view, screen, env>>

WriteValid ==
    /\ d.pc = "valid"
    /\ ring' = [ring EXCEPT !.valid = TRUE]
    /\ d' = [d EXCEPT !.pc = "poll", !.since = 0, !.state = "streaming"]
    /\ UNCHANGED <<of, view, screen, env>>

NoCapture ==
    /\ d.pc = "frame" /\ ~d.capture
    /\ d' = [d EXCEPT !.pc = "poll"]
    /\ UNCHANGED <<ring, of, view, screen, env>>

(* Nothing to pull: after 750 ms the picture is blanked.                   *)
NoFrame ==
    /\ d.pc = "frame" /\ d.capture /\ d.since < 2
    /\ \/ d.since = 0 /\ d' = [d EXCEPT !.pc = "poll"] /\ UNCHANGED ring
       \/ d.since = 1 /\ d' = [d EXCEPT !.pc = "poll", !.state = "stale"] /\ ring' = Invalid
    /\ UNCHANGED <<of, view, screen, env>>

(* Mutant: the capture is stopped without arranging for a retry.           *)
RestartAlways ==
    /\ d.pc = "frame" /\ d.capture
    /\ ring' = Invalid
    /\ \/ d.since = 2 /\ Stopped([d EXCEPT !.state = "stale"], "poll")
       \/ d.since < 2 /\ Faulty /\ d' = [d EXCEPT !.capture = FALSE, !.pc = "poll", !.state = "stale"]
    /\ UNCHANGED <<of, view, screen>>

(* Two seconds without a frame, or an error of the pipeline.               *)
Restart ==
    /\ d.pc = "frame" /\ d.capture
    /\ ring' = Invalid
    /\ LET c == Failed(d, "stale")
       IN \/ d.since = 2 /\ Stopped(c, "poll")
          \/ /\ d.since < 2 /\ Faulty
             /\ d' = [c EXCEPT !.since = 2, !.capture = FALSE, !.pc = "poll"]
    /\ UNCHANGED <<of, view, screen>>

(* The owner has closed its socket: the picture and the capture end.       *)
OwnerGone ==
    /\ Command
    /\ ring' = Invalid
    /\ d' = [d EXCEPT !.capture = FALSE, !.pc = "dead"]
    /\ env' = Counted
    /\ UNCHANGED <<of, view, screen>>

(* The daemon is killed: the ring stays as it is.                          *)
Killed ==
    /\ Alive /\ Faulty
    /\ d' = [d EXCEPT !.capture = FALSE, !.pc = "dead"]
    /\ UNCHANGED <<ring, of, view, screen>>

-----------------------------------------------------------------------------
(* The view: Run and Latest.                                               *)

Read(pc, v) == view.pc = pc /\ view' = v /\ UNCHANGED <<d, ring, of, screen, env>>
At(pc) == [view EXCEPT !.pc = pc]

(* Back at the top of the loop: the copy is forgotten.                     *)
Again == [view EXCEPT !.pc = "poll", !.seq = 0, !.a = 0, !.b = 0]
Else(ok, v) == IF ok THEN v ELSE At("none")

Connect ==
    /\ view.pc = "poll" /\ view.conn = "none"
    /\ Read("poll", [At("none") EXCEPT !.conn = IF Alive THEN "asked" ELSE "none"])

(* The handshake has 300 ms; the socket of a dead daemon hangs up.         *)
HungUp ==
    /\ view.conn = "asked" \/ (view.conn = "served" /\ ~Alive)
    /\ Read("poll", [At("none") EXCEPT !.conn = "none", !.black = FALSE])

(* Resize, resume and renegotiation ask for the picture again.             *)
Refresh ==
    /\ view.pc = "poll" /\ Faulty
    /\ view' = [view EXCEPT !.black = FALSE, !.last = 0]
    /\ UNCHANGED <<d, ring, of, screen>>

ReadValid == view.conn = "served" /\ Read("poll", Else(ring.valid, At("role")))
ReadRole == Read("role", Else(ring.role = Shown, At("latest")))
ReadLatest ==
    Read("latest", Else(ring.latest # 0, [At("guard") EXCEPT !.seq = ring.latest]))

Mine == ring.slot[Slot(view.seq)]
ReadGuard == Read("guard", Else(Mine.guard = 2 * view.seq, At("top")))
ReadTop == Read("top", Else(~Mine.old, [At("bottom") EXCEPT !.a = Mine.a]))
ReadBottom == Read("bottom", [At("again") EXCEPT !.b = Mine.b])

(* Mutant: the guard is not compared again after the copy.                 *)
ReadAgainTrusting == Read("again", At("valid"))

ReadAgain == Read("again", Else(Mine.guard = 2 * view.seq, At("valid")))
ReadStillValid == Read("valid", Else(ring.valid, At("submit")))

(* A new picture is submitted; if that is refused, black, which may be     *)
(* refused as well.                                                        *)
Submit ==
    /\ view.pc = "submit"
    /\ \/ /\ view.seq = view.last /\ ~view.black
          /\ view' = Again /\ UNCHANGED <<screen, env>>
       \/ /\ view.seq # view.last \/ view.black
          /\ view' = [Again EXCEPT !.last = view.seq, !.old = FALSE, !.black = FALSE]
          /\ screen' = [seq |-> view.seq, a |-> view.a, b |-> view.b]
          /\ UNCHANGED env
       \/ view.black /\ view' = Again /\ UNCHANGED <<screen, env>>
       \/ /\ view.seq # view.last /\ ~view.black
          /\ \/ view' = [Again EXCEPT !.black = TRUE] /\ screen' = NoPicture /\ UNCHANGED env
             \/ Faulty /\ view' = Again /\ UNCHANGED screen
    /\ UNCHANGED <<d, ring, of>>

(* Mutant: any picture may stay while the ring is valid.                   *)
RetainedValid == view.conn = "served" /\ ring.valid

(* A picture that was submitted may stay for 750 ms while the ring is      *)
(* valid for this role.                                                    *)
Retained ==
    /\ view.conn = "served" /\ ring.valid /\ ring.role = Shown
    /\ view.last # 0 /\ ~view.old

(* Nothing fresh: the picture is retained, or blanked; a blank that is not *)
(* accepted is tried again.                                                *)
NothingFresh ==
    /\ view.pc = "none"
    /\ \/ /\ view.black \/ Retained
          /\ view' = Again /\ UNCHANGED <<screen, env>>
       \/ /\ ~view.black /\ ~Retained
          /\ \/ view' = [Again EXCEPT !.black = TRUE] /\ screen' = NoPicture /\ UNCHANGED env
             \/ Faulty /\ view' = Again /\ UNCHANGED screen
    /\ UNCHANGED <<d, ring, of>>

-----------------------------------------------------------------------------
(* Time and cameras.                                                       *)

(* 750 ms pass: frames that were written or shown before are old.          *)
Time ==
    /\ d' = [d EXCEPT !.since = IF d.capture /\ @ < 2 THEN @ + 1 ELSE @]
    /\ ring' = [ring EXCEPT !.slot = [i \in Slots |-> [@[i] EXCEPT !.old = TRUE]]]
    /\ view' = [view EXCEPT !.old = view.last # 0]
    /\ UNCHANGED <<of, screen, env>>

(* The backoff of one to three seconds.                                    *)
RetryDue ==
    /\ d.retry_at = "set" /\ d' = [d EXCEPT !.retry_at = "now"]
    /\ UNCHANGED <<ring, of, view, screen, env>>

Plug ==
    /\ env.faults < MaxFaults
    /\ \E r \in Roles :
          env' = [env EXCEPT !.faults = @ + 1,
                             !.present = IF r \in @ THEN @ \ {r} ELSE @ \cup {r}]
    /\ UNCHANGED <<d, ring, of, view, screen>>

DaemonStep ==
    \/ StartRole \/ Polled \/ Lost \/ Seen \/ Capturing \/ NotRetrying \/ NoCapture
    \/ NoFrame \/ Restart \/ Pulled
    \/ WriteGuard \/ WriteTop \/ WriteBottom \/ WriteEven \/ WriteLatest \/ WriteValid

ViewStep ==
    \/ Connect \/ HungUp \/ ReadValid \/ ReadRole \/ ReadLatest \/ ReadGuard \/ ReadTop
    \/ ReadBottom \/ ReadAgain \/ ReadStillValid \/ Submit \/ NothingFresh

Next ==
    \/ Serve \/ Stop("poll") \/ Stop("dead") \/ OwnerGone \/ Killed
    \/ \E r \in Roles : Start(r)
    \/ DaemonStep \/ ViewStep \/ Refresh
    \/ Time \/ RetryDue \/ Plug

(* Both loops run for ever, timers expire.                                 *)
Spec ==
    /\ Init /\ [][Next]_vars
    /\ WF_vars(DaemonStep) /\ WF_vars(ViewStep)
    /\ WF_vars(Time) /\ WF_vars(RetryDue)

-----------------------------------------------------------------------------
(* A picture that is shown was written as one frame: a reader that is      *)
(* overtaken by the writer in its slot drops the copy (the sequence guard  *)
(* of ring.rs and Stable in contract.h).                                   *)
NotTorn == screen.a = screen.seq /\ screen.b = screen.seq

(* While the ring is valid and the daemon lives, a capture runs and the    *)
(* latest frame is one of the camera whose role is published.              *)
ValidIsLive ==
    ring.valid /\ Alive => d.capture /\ ring.role = d.sel /\ of[ring.latest] = ring.role

(* A picture that may no longer be shown - of a stopped, lost or restarted *)
(* capture, of another role, older than 750 ms, or left by a daemon that   *)
(* was killed - is taken off the screen.                                   *)
Outdated ==
    screen # NoPicture /\ (~ring.valid \/ ~Alive \/ of[screen.seq] # Shown \/ view.old)
OutdatedLeaves == []<>(~Outdated)

(* A camera that was selected gets a picture, or its failure is reported;  *)
(* the restarts of one selection end.                                      *)
RecoveryEnds == []<>(d.state \notin {"starting", "stale"} \/ ~Alive)
===============================================================================
