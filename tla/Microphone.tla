------------------------------ MODULE Microphone ------------------------------
(***************************************************************************)
(* Exclusive microphone capture: voice.rs, the file lock of                *)
(* audio-ownership, the Android Auto microphone stream of aa_session.rs    *)
(* with its credit window, and the three second input test of the setup    *)
(* page.  Calls extends this module with the third owner, call audio.      *)
(*                                                                         *)
(* A capture process is started after the lease was claimed and must have  *)
(* been reaped before the lease is given up; if that is uncertain the      *)
(* lease is poisoned.  The claim awaits the input inventory, every close   *)
(* awaits the process and may fail, and tasks are cancelled in between.    *)
(***************************************************************************)
EXTENDS Naturals

CONSTANTS
    MaxStreams,     \* microphone streams the phone opens
    MaxLimit,       \* greatest credit window the phone grants, the code caps it at 8
    MaxTests,       \* input tests requested
    MaxFaults,      \* process calls (kill, wait, spawn) that fail
    MaxCarPlay      \* captures of the CarPlay daemon

ASSUME MicAssumption ==
    /\ MaxStreams \in Nat /\ MaxLimit \in 1..8 /\ MaxTests \in Nat
    /\ MaxFaults \in Nat /\ MaxCarPlay \in Nat

Voices == {"androidAuto", "setupTest", "bluetoothCall"}

VARIABLES
    lease,      \* semaphore permit, file lock and the owner that is published
    child,      \* the capture or loopback processes of each owner
    aa,         \* place of the Android Auto engine in its microphone handling
    credit,     \* Credits of the session engine
    owed,       \* frames of each stream that the phone has not acknowledged
    test,       \* the input test task
    carplays,   \* captures the CarPlay daemon has made
    faults      \* process calls that have failed

micVars == <<lease, child, aa, credit, owed, test, carplays, faults>>

LeaseState == [permit : {"free", "held", "forgotten"},
               flock  : {"none", "carplay"} \cup Voices,
               shown  : {"none", "uncertain"} \cup Voices]

(* off: no session.  claim and first are the awaits of Effect::Microphone. *)
AaPlace == {"off", "idle", "claim", "first", "open"}

(* claim: start_test awaits; shut: closed, but testing is still published; *)
(* drop: testing is cleared, the capture is not dropped yet.               *)
TestPlace == {"none", "claim", "run", "close", "shut", "drop"}

Credits == [session : 0..MaxStreams, outstanding : 0..8, limit : 0..8, late : BOOLEAN]
InputTest == [at : TestPlace, testing : BOOLEAN, cancel : BOOLEAN, runs : 0..MaxTests]

MicTypeOK ==
    /\ lease \in LeaseState
    /\ child \in [Voices -> {"none", "running", "ended"}]
    /\ aa \in AaPlace
    /\ credit \in Credits
    /\ owed \in [1..MaxStreams -> 0..8]
    /\ test \in InputTest
    /\ carplays \in 0..MaxCarPlay /\ faults \in 0..MaxFaults

(* Credits::default() of a new engine.                                     *)
NoCredits == [session |-> 0, outstanding |-> 0, limit |-> 0, late |-> FALSE]
NothingOwed == [s \in 1..MaxStreams |-> 0]

MicInit ==
    /\ lease = [permit |-> "free", flock |-> "none", shown |-> "none"]
    /\ child = [o \in Voices |-> "none"]
    /\ aa = "off"
    /\ credit = NoCredits
    /\ owed = NothingOwed
    /\ test = [at |-> "none", testing |-> FALSE, cancel |-> FALSE, runs |-> 0]
    /\ carplays = 0 /\ faults = 0

-----------------------------------------------------------------------------
(* The lease: Voice::claim and Drop for Lease.                             *)

(* try_acquire_owned and the nonblocking lock of the other daemon.         *)
CanClaim == lease.permit = "free" /\ lease.flock = "none"

Acquired(o) == [lease EXCEPT !.permit = "held", !.flock = o]

(* claim returned an error after the permit: both guards are dropped.      *)
Unclaimed == [lease EXCEPT !.permit = "free", !.flock = "none"]

Claimed(o) == [lease EXCEPT !.shown = o]

Released == [permit |-> "free", flock |-> "none", shown |-> "none"]

(* Mutant: the permit is kept, but nothing says that cleanup is uncertain. *)
Forgotten == [lease EXCEPT !.permit = "forgotten", !.shown = "none"]

Poisoned == [lease EXCEPT !.permit = "forgotten", !.shown = "uncertain"]

(* Mutant: killing the process on drop is taken for its end.               *)
DropCaptureTrusting(o) ==
    /\ lease' = Released
    /\ child' = [child EXCEPT ![o] = IF @ = "ended" THEN "none" ELSE @]

(* Drop for Capture and for Duplex: a process that was not seen to exit    *)
(* poisons the lease, otherwise the lease is dropped.                      *)
DropCapture(o) ==
    /\ lease' = IF child[o] = "running" THEN Poisoned ELSE Released
    /\ child' = [child EXCEPT ![o] = IF @ = "ended" THEN "none" ELSE @]

(* close() kills and reaps the process and then the owner is dropped.      *)
CloseReaped(o) ==
    /\ child' = [child EXCEPT ![o] = "none"]
    /\ lease' = Released

Fault == faults < MaxFaults /\ faults' = faults + 1

(* try_wait, start_kill or wait fails, or the future is dropped while it   *)
(* waits: the capture is dropped without having been reaped.               *)
CloseFailed(o) == Fault /\ DropCapture(o)

CloseCapture(o) ==
    \/ CloseReaped(o) /\ UNCHANGED faults
    \/ CloseFailed(o)

(* A close that fails inside the engine ends the session; SessionMedia     *)
(* tries once more if it still has the capture.                            *)
EngineCloseFails ==
    /\ Fault /\ aa' = "off" /\ credit' = NoCredits /\ owed' = NothingOwed
    /\ CloseReaped("androidAuto") \/ DropCapture("androidAuto")

-----------------------------------------------------------------------------
(* Android Auto: Effect::Microphone, the frame loop, SessionMedia::close.  *)

Stopped == [credit EXCEPT !.limit = 0, !.outstanding = 0]

Started(limit) == [session |-> credit.session + 1, outstanding |-> 0,
                   limit |-> limit, late |-> FALSE]

AaBegin ==
    /\ aa = "off" /\ MaxStreams > 0
    /\ aa' = "idle"
    /\ UNCHANGED <<lease, child, credit, owed, test, carplays, faults>>

(* Open request while nothing is captured: refused at once, or claiming.   *)
AaOpen ==
    /\ aa = "idle" /\ credit.session < MaxStreams
    /\ credit' = Stopped
    /\ \/ CanClaim /\ lease' = Acquired("androidAuto") /\ aa' = "claim"
       \/ ~CanClaim /\ UNCHANGED <<lease, aa>>
    /\ UNCHANGED <<child, owed, test, carplays, faults>>

(* Open request while a stream is open: the old capture is closed first,   *)
(* the new one needs a claim of its own (the next AaOpen); a failed close  *)
(* ends the session.  A close request and MicrophoneStop do only this.     *)
AaStop ==
    /\ aa = "open"
    /\ \/ /\ CloseReaped("androidAuto") /\ aa' = "idle"
          /\ credit' = Stopped /\ UNCHANGED <<owed, faults>>
       \/ EngineCloseFails
    /\ UNCHANGED <<test, carplays>>

(* The inventory is read: the owner is published and pw-cat starts.        *)
AaClaimed ==
    /\ aa = "claim"
    /\ lease' = Claimed("androidAuto")
    /\ child' = [child EXCEPT !["androidAuto"] = "running"]
    /\ aa' = "first"
    /\ UNCHANGED <<credit, owed, test, carplays, faults>>

(* There is no inventory, or the selected input is not in it at that       *)
(* moment, or spawn fails: the lease is dropped.                           *)
AaRefused ==
    /\ aa = "claim"
    /\ lease' = Unclaimed /\ aa' = "idle"
    /\ UNCHANGED <<child, credit, owed, test, carplays, faults>>

(* The first frame arrives and the credit window opens, or it stalls.      *)
AaFirstFrame ==
    /\ aa = "first"
    /\ \/ /\ child["androidAuto"] = "running"
          /\ \E limit \in 1..MaxLimit : credit' = Started(limit)
          /\ aa' = "open" /\ UNCHANGED <<lease, child, owed, faults>>
       \/ /\ CloseReaped("androidAuto")
          /\ aa' = "idle" /\ UNCHANGED <<credit, owed, faults>>
       \/ EngineCloseFails
    /\ UNCHANGED <<test, carplays>>

ready == credit.limit > 0 /\ credit.outstanding < credit.limit

(* A captured frame is sent if the phone has credit, otherwise discarded.  *)
AaFrame ==
    /\ aa = "open" /\ child["androidAuto"] = "running" /\ ready /\ ~credit.late
    /\ credit' = [credit EXCEPT !.outstanding = @ + 1]
    /\ owed' = [owed EXCEPT ![credit.session] = @ + 1]
    /\ UNCHANGED <<lease, child, aa, test, carplays, faults>>

(* Five seconds without a valid acknowledgement of outstanding frames.     *)
AckLate ==
    /\ aa = "open" /\ credit.outstanding > 0 /\ ~credit.late
    /\ credit' = [credit EXCEPT !.late = TRUE]
    /\ UNCHANGED <<lease, child, aa, owed, test, carplays, faults>>

(* A stalled or ended capture, or expired credits: the stream is closed.   *)
AaFrameError ==
    /\ aa = "open" /\ (credit.late \/ child["androidAuto"] = "ended")
    /\ \/ /\ CloseReaped("androidAuto") /\ aa' = "idle"
          /\ credit' = Stopped /\ UNCHANGED <<owed, faults>>
       \/ EngineCloseFails
    /\ UNCHANGED <<test, carplays>>

(* Mutant: any stream's acknowledgement counts.                            *)
AckedAnyStream(s, n) ==
    IF n <= credit.outstanding
    THEN [credit EXCEPT !.outstanding = @ - n, !.late = FALSE]
    ELSE credit

(* Credits::ack: the stream and the count must fit what is outstanding.    *)
Acked(s, n) ==
    IF s = credit.session /\ n <= credit.outstanding
    THEN [credit EXCEPT !.outstanding = @ - n, !.late = FALSE]
    ELSE credit

(* The phone acknowledges frames of the current or of an earlier stream;   *)
(* nothing orders an acknowledgement before the next open request.         *)
PhoneAcks(s, n) ==
    /\ aa \notin {"off", "claim", "first"}
    /\ n \in 1..owed[s]
    /\ owed' = [owed EXCEPT ![s] = @ - n]
    /\ credit' = Acked(s, n)
    /\ UNCHANGED <<lease, child, aa, test, carplays, faults>>

(* The session ends or is cancelled at any await; SessionMedia::close.     *)
AaEnd ==
    /\ aa # "off"
    /\ aa' = "off" /\ credit' = NoCredits /\ owed' = NothingOwed
    /\ \/ aa \in {"first", "open"} /\ CloseCapture("androidAuto")
       \/ aa = "claim" /\ lease' = Unclaimed /\ UNCHANGED <<child, faults>>
       \/ aa = "idle" /\ UNCHANGED <<lease, child, faults>>
    /\ UNCHANGED <<test, carplays>>

-----------------------------------------------------------------------------
(* Voice::start_test, stop_test and the task it spawns.                    *)

TestStart ==
    /\ test.at = "none" /\ test.runs < MaxTests
    /\ \/ /\ CanClaim /\ lease' = Acquired("setupTest")
          /\ test' = [test EXCEPT !.at = "claim", !.cancel = FALSE, !.runs = @ + 1]
       \/ /\ ~CanClaim /\ UNCHANGED lease
          /\ test' = [test EXCEPT !.runs = @ + 1]
    /\ UNCHANGED <<child, aa, credit, owed, carplays, faults>>

TestClaimed ==
    /\ test.at = "claim"
    /\ \/ /\ lease' = Claimed("setupTest")
          /\ child' = [child EXCEPT !["setupTest"] = "running"]
          /\ test' = [test EXCEPT !.at = "run", !.testing = TRUE]
       \/ /\ lease' = Unclaimed
          /\ test' = [test EXCEPT !.at = "none"] /\ UNCHANGED child
    /\ UNCHANGED <<aa, credit, owed, carplays, faults>>

(* stop_test bumps the generation every test task listens to.              *)
stop_test == [test EXCEPT !.cancel = @ \/ test.at # "none"]

(* Three seconds, the cancellation or a frame error end the loop.          *)
TestEnds ==
    /\ test.at = "run"
    /\ test' = [test EXCEPT !.at = "close"]
    /\ UNCHANGED <<lease, child, aa, credit, owed, carplays, faults>>

TestCloses ==
    /\ test.at = "close"
    /\ test' = [test EXCEPT !.at = "shut"]
    /\ \/ child' = [child EXCEPT !["setupTest"] = "none"] /\ UNCHANGED faults
       \/ Fault /\ UNCHANGED child
    /\ UNCHANGED <<lease, aa, credit, owed, carplays>>

TestPublishes ==
    /\ test.at = "shut"
    /\ test' = [test EXCEPT !.at = "drop", !.testing = FALSE]
    /\ UNCHANGED <<lease, child, aa, credit, owed, carplays, faults>>

(* The task returns and drops its capture.                                 *)
TestDrops ==
    /\ test.at = "drop"
    /\ DropCapture("setupTest")
    /\ test' = [test EXCEPT !.at = "none"]
    /\ UNCHANGED <<aa, credit, owed, carplays, faults>>

TestTask == TestEnds \/ TestCloses \/ TestPublishes \/ TestDrops

-----------------------------------------------------------------------------
(* Environment.                                                            *)

(* The CarPlay daemon takes and returns the same lock.                     *)
CarPlayTakes ==
    /\ lease.flock = "none" /\ carplays < MaxCarPlay
    /\ lease' = [lease EXCEPT !.flock = "carplay"]
    /\ carplays' = carplays + 1
    /\ UNCHANGED <<child, aa, credit, owed, test, faults>>

CarPlayReturns ==
    /\ lease.flock = "carplay"
    /\ lease' = [lease EXCEPT !.flock = "none"]
    /\ UNCHANGED <<child, aa, credit, owed, test, carplays, faults>>

(* A capture or loopback process exits by itself, or after being killed    *)
(* by the drop of its handle.                                              *)
ChildEnds(o) ==
    /\ child[o] = "running"
    /\ child' = [child EXCEPT ![o] = "ended"]
    /\ UNCHANGED <<lease, aa, credit, owed, test, carplays, faults>>

AaMicStep ==
    \/ AaOpen \/ AaStop \/ AaClaimed \/ AaRefused \/ AaFirstFrame \/ AaFrame \/ AckLate
    \/ AaFrameError \/ AaEnd
    \/ \E s \in 1..MaxStreams, n \in 1..8 : PhoneAcks(s, n)

MicEnvironment ==
    \/ CarPlayTakes \/ CarPlayReturns
    \/ \E o \in Voices : ChildEnds(o)

-----------------------------------------------------------------------------
(* A running capture process, of whichever daemon, excludes every other:   *)
(* its owner still has the file lock, and inside this daemon the permit.   *)
(* This is voice.rs's "exclusive capture" across failed closes, cancelled  *)
(* claims and the CarPlay daemon.                                          *)
CaptureExclusive ==
    \A o \in Voices : child[o] = "running" =>
        lease.flock = o /\ lease.permit # "free" /\ lease.shown \in {o, "uncertain"}

(* The phone never has more unacknowledged frames of the open stream than  *)
(* the window it granted, whatever late acknowledgements of an earlier     *)
(* stream arrive (Credits::ack, "stale acknowledgements cannot open a      *)
(* replacement microphone stream's window").                               *)
CreditWindow ==
    aa = "open" =>
        /\ owed[credit.session] = credit.outstanding
        /\ credit.outstanding <= credit.limit
===============================================================================
