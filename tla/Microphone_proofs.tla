--------------------------- MODULE Microphone_proofs ---------------------------
(***************************************************************************)
(* What the capture lease and the credit window rest on, for every number  *)
(* of streams, windows, tests, failures and CarPlay captures.  Call audio  *)
(* is the third owner: these lemmas say what a step of the other owners    *)
(* leaves to it, and Calls_proofs adds its steps.                          *)
(***************************************************************************)
EXTENDS Microphone, TLAPS

(* The permit and the file lock are those of o.                            *)
HeldFor(o) == lease.permit = "held" /\ lease.flock = o

(* From the claim to the end of its capture an owner holds the lease, and  *)
(* it is published once the claim has returned.                            *)
AaHolds ==
    aa \in {"claim", "first", "open"} =>
        /\ HeldFor("androidAuto")
        /\ lease.shown = IF aa = "claim" THEN "none" ELSE "androidAuto"

TestHolds ==
    test.at # "none" =>
        /\ HeldFor("setupTest")
        /\ lease.shown = IF test.at = "claim" THEN "none" ELSE "setupTest"

(* A permit that can be claimed belongs to nobody, and says so.            *)
FreeUnshown == lease.permit = "free" => lease.shown = "none"

(* Streams are numbered up to the current one, a later one is owed nothing *)
(* and a claim leaves room for the next.                                   *)
StreamsNumbered ==
    /\ aa \in {"claim", "first"} => credit.session < MaxStreams
    /\ aa = "open" => credit.session # 0
    /\ \A s \in 1..MaxStreams : s > credit.session => owed[s] = 0

(* The microphone's part of the inductive invariant.                       *)
MicInv == /\ MicTypeOK /\ AaHolds /\ TestHolds /\ FreeUnshown
          /\ CaptureExclusive /\ StreamsNumbered /\ CreditWindow

(* Whatever holds the lease for a call keeps it over the steps of others.  *)
CallUndisturbed ==
    /\ HeldFor("bluetoothCall") => lease' = lease
    /\ child'["bluetoothCall"] \in {child["bluetoothCall"], "ended"}

USE MicAssumption

-----------------------------------------------------------------------------
(* Lemmas about the lease operators.                                       *)

(* The operators on the lease return leases.                               *)
LEMMA LeaseTypes ==
    ASSUME lease \in LeaseState
    PROVE  /\ Released \in LeaseState /\ Poisoned \in LeaseState /\ Unclaimed \in LeaseState
           /\ \A o \in Voices : Acquired(o) \in LeaseState /\ Claimed(o) \in LeaseState
BY DEF LeaseState, Released, Poisoned, Unclaimed, Acquired, Claimed, Voices

(* Updating a field of the credits or of the input test.                   *)
LEMMA FieldTypes ==
    /\ \A c \in Credits, n \in 0..8 : /\ [c EXCEPT !.outstanding = n] \in Credits
                                      /\ [c EXCEPT !.limit = n] \in Credits
    /\ \A c \in Credits, b \in BOOLEAN : [c EXCEPT !.late = b] \in Credits
    /\ \A t \in InputTest, p \in TestPlace : [t EXCEPT !.at = p] \in InputTest
    /\ \A t \in InputTest, b \in BOOLEAN : /\ [t EXCEPT !.testing = b] \in InputTest
                                           /\ [t EXCEPT !.cancel = b] \in InputTest
    /\ \A t \in InputTest, n \in 0..MaxTests : [t EXCEPT !.runs = n] \in InputTest
<1>1. \A c \in Credits, n \in 0..8 : /\ [c EXCEPT !.outstanding = n] \in Credits
                                     /\ [c EXCEPT !.limit = n] \in Credits
  BY DEF Credits
<1>2. \A c \in Credits, b \in BOOLEAN : [c EXCEPT !.late = b] \in Credits
  BY DEF Credits
<1>3. \A t \in InputTest, p \in TestPlace : [t EXCEPT !.at = p] \in InputTest
  BY DEF InputTest
<1>4. \A t \in InputTest, b \in BOOLEAN : /\ [t EXCEPT !.testing = b] \in InputTest
                                          /\ [t EXCEPT !.cancel = b] \in InputTest
  BY DEF InputTest
<1>5. \A t \in InputTest, n \in 0..MaxTests : [t EXCEPT !.runs = n] \in InputTest
  BY DEF InputTest
<1> QED
  BY <1>1, <1>2, <1>3, <1>4, <1>5

(* Dropping a capture: a running process keeps the lease, a dead one gives *)
(* it up; nobody else's process is touched.                                *)
LEMMA DropKeepsExclusive ==
    ASSUME MicTypeOK, CaptureExclusive, FreeUnshown, NEW o \in Voices,
           HeldFor(o), DropCapture(o) \/ CloseReaped(o)
    PROVE  /\ lease' \in LeaseState
           /\ child' \in [Voices -> {"none", "running", "ended"}]
           /\ CaptureExclusive' /\ FreeUnshown'
           /\ \A p \in Voices \ {o} : child'[p] = child[p]
<1> USE DEF MicTypeOK
<1>1. lease' \in LeaseState
  BY LeaseTypes DEF DropCapture, CloseReaped
<1>2. child' \in [Voices -> {"none", "running", "ended"}]
  BY DEF DropCapture, CloseReaped
<1>3. \A p \in Voices \ {o} : child'[p] = child[p]
  BY DEF DropCapture, CloseReaped
<1>4. child'[o] = "running" => lease' = Poisoned
  BY DEF DropCapture, CloseReaped
<1>5. \A p \in Voices \ {o} : child[p] # "running"
  BY DEF CaptureExclusive, HeldFor
<1>6. Poisoned.flock = o /\ Poisoned.permit = "forgotten" /\ Poisoned.shown = "uncertain"
  BY DEF Poisoned, HeldFor, LeaseState
<1>7. CaptureExclusive'
  BY <1>3, <1>4, <1>5, <1>6 DEF CaptureExclusive
<1>8. lease' \in {Released, Poisoned}
  BY DEF DropCapture, CloseReaped
<1>9. FreeUnshown'
  BY <1>6, <1>8 DEF FreeUnshown, Released
<1> QED
  BY <1>1, <1>2, <1>3, <1>7, <1>9

-----------------------------------------------------------------------------
(* Android Auto.                                                           *)

(* Its steps keep the lease's part of the invariant.                       *)
LEMMA AaKeepsLease ==
    ASSUME MicInv, AaBegin \/ AaMicStep
    PROVE  /\ lease' \in LeaseState
           /\ child' \in [Voices -> {"none", "running", "ended"}]
           /\ AaHolds' /\ TestHolds' /\ FreeUnshown' /\ CaptureExclusive' /\ CallUndisturbed
<1> DEFINE Goal == /\ lease' \in LeaseState
                   /\ child' \in [Voices -> {"none", "running", "ended"}]
                   /\ AaHolds' /\ TestHolds' /\ FreeUnshown' /\ CaptureExclusive'
                   /\ CallUndisturbed
<1> USE DEF MicInv, MicTypeOK
<1>1. "androidAuto" \in Voices /\ "bluetoothCall" \in Voices
      /\ "androidAuto" # "bluetoothCall" /\ "androidAuto" # "setupTest"
  BY DEF Voices
<1>2. ASSUME aa \in {"first", "open"}, aa' \in {"off", "idle"}, test' = test,
             DropCapture("androidAuto") \/ CloseReaped("androidAuto")
      PROVE  Goal
  <2>1. HeldFor("androidAuto")
    BY <1>2 DEF AaHolds
  <2>2. /\ lease' \in LeaseState
        /\ child' \in [Voices -> {"none", "running", "ended"}]
        /\ CaptureExclusive' /\ FreeUnshown'
        /\ \A p \in Voices \ {"androidAuto"} : child'[p] = child[p]
    BY <1>1, <1>2, <2>1, DropKeepsExclusive
  <2>3. AaHolds' /\ TestHolds'
    BY <1>1, <1>2, <2>1 DEF AaHolds, TestHolds, HeldFor
  <2>4. CallUndisturbed
    BY <1>1, <2>1, <2>2 DEF CallUndisturbed, HeldFor
  <2> QED
    BY <2>2, <2>3, <2>4
<1>3. CASE AaOpen
  <2>1. CASE CanClaim /\ lease' = Acquired("androidAuto") /\ aa' = "claim"
    <3>1. lease' \in LeaseState
      BY <1>1, <2>1, LeaseTypes
    <3>2. lease'.permit = "held" /\ lease'.flock = "androidAuto" /\ lease'.shown = "none"
      BY <2>1 DEF Acquired, CanClaim, FreeUnshown, LeaseState
    <3>3. CaptureExclusive' /\ child' = child /\ test' = test
      BY <1>3, <2>1 DEF AaOpen, CaptureExclusive, CanClaim
    <3>4. test.at = "none" /\ ~HeldFor("bluetoothCall")
      BY <2>1 DEF TestHolds, HeldFor, CanClaim
    <3> QED
      BY <1>1, <2>1, <3>1, <3>2, <3>3, <3>4
      DEF AaHolds, TestHolds, FreeUnshown, HeldFor, CallUndisturbed
  <2>2. CASE UNCHANGED <<lease, aa>>
    BY <1>3, <2>2 DEF AaOpen, AaHolds, TestHolds, FreeUnshown, HeldFor,
                      CaptureExclusive, CallUndisturbed
  <2> QED
    BY <1>3, <2>1, <2>2 DEF AaOpen
<1>4. CASE AaClaimed
  <2>1. HeldFor("androidAuto") /\ lease.shown = "none"
    BY <1>4 DEF AaClaimed, AaHolds
  <2>2. \A o \in Voices : child[o] # "running"
    BY <2>1 DEF CaptureExclusive, HeldFor, Voices
  <2>3. lease' = Claimed("androidAuto") /\ lease' \in LeaseState
    BY <1>1, <1>4, LeaseTypes DEF AaClaimed
  <2>4. lease'.permit = "held" /\ lease'.flock = "androidAuto" /\ lease'.shown = "androidAuto"
    BY <2>1, <2>3 DEF Claimed, HeldFor, LeaseState
  <2>5. child' = [child EXCEPT !["androidAuto"] = "running"] /\ aa' = "first" /\ test' = test
    BY <1>4 DEF AaClaimed
  <2>6. CaptureExclusive' /\ CallUndisturbed
    BY <1>1, <2>1, <2>2, <2>4, <2>5 DEF CaptureExclusive, CallUndisturbed, HeldFor
  <2> QED
    BY <1>1, <2>1, <2>3, <2>4, <2>5, <2>6 DEF AaHolds, TestHolds, FreeUnshown, HeldFor
<1>5. ASSUME aa = "claim", lease' = Unclaimed, child' = child, test' = test,
             aa' \in {"off", "idle"}
      PROVE  Goal
  <2>1. HeldFor("androidAuto") /\ lease.shown = "none"
    BY <1>5 DEF AaHolds
  <2>2. \A o \in Voices : child[o] # "running"
    BY <2>1 DEF CaptureExclusive, HeldFor, Voices
  <2>3. lease' \in LeaseState /\ lease'.shown = "none"
    BY <1>5, <2>1, LeaseTypes DEF Unclaimed, LeaseState
  <2>4. CaptureExclusive' /\ CallUndisturbed
    BY <1>1, <1>5, <2>1, <2>2 DEF CaptureExclusive, CallUndisturbed, HeldFor
  <2> QED
    BY <1>1, <1>5, <2>1, <2>3, <2>4 DEF AaHolds, TestHolds, FreeUnshown, HeldFor
<1>6. ASSUME UNCHANGED <<lease, child, test>>,
             aa' = aa \/ (aa = "first" /\ aa' = "open") \/ aa' \in {"off", "idle"}
      PROVE  Goal
  BY <1>6 DEF AaHolds, TestHolds, FreeUnshown, HeldFor, CaptureExclusive, CallUndisturbed
<1>7. CASE AaBegin \/ AaFrame \/ AckLate \/ \E s \in 1..MaxStreams, n \in 1..8 : PhoneAcks(s, n)
  BY <1>6, <1>7 DEF AaBegin, AaFrame, AckLate, PhoneAcks
<1>8. CASE AaStop \/ AaFirstFrame \/ AaFrameError
  BY <1>2, <1>6, <1>8 DEF AaStop, AaFirstFrame, AaFrameError, EngineCloseFails
<1>9. CASE AaRefused
  BY <1>5, <1>9 DEF AaRefused
<1>10. CASE AaEnd
  BY <1>2, <1>5, <1>6, <1>10 DEF AaEnd, CloseCapture, CloseFailed
<1> QED
  BY <1>3, <1>4, <1>7, <1>8, <1>9, <1>10 DEF AaMicStep

(* Its steps keep the types of its own variables, the numbering of streams *)
(* and the credit window.                                                  *)
LEMMA AaKeepsCredit ==
    ASSUME MicInv, AaBegin \/ AaMicStep
    PROVE  /\ aa' \in AaPlace /\ test' = test /\ carplays' = carplays /\ faults' \in 0..MaxFaults
           /\ credit' \in Credits
           /\ owed' \in [1..MaxStreams -> 0..8]
           /\ StreamsNumbered' /\ CreditWindow'
<1> DEFINE Owing == [1..MaxStreams -> 0..8]
           Goal == /\ aa' \in AaPlace /\ test' = test /\ carplays' = carplays
                   /\ faults' \in 0..MaxFaults /\ credit' \in Credits /\ owed' \in Owing
                   /\ StreamsNumbered' /\ CreditWindow'
<1> USE DEF MicInv, MicTypeOK, AaPlace
<1>1. Stopped \in Credits /\ Stopped.session = credit.session
  <2>1. Stopped.session = credit.session
    BY DEF Stopped, Credits
  <2>2. 0 \in 0..8
    OBVIOUS
  <2> QED
    BY <2>1, <2>2, FieldTypes DEF Stopped
<1>2. NoCredits \in Credits /\ NothingOwed \in Owing
  BY DEF NoCredits, NothingOwed, Credits
<1>3. ASSUME UNCHANGED <<credit, owed, test, carplays>>, faults' \in 0..MaxFaults,
             aa' = aa \/ aa' \in {"off", "idle"} \/ (aa = "claim" /\ aa' = "first")
      PROVE  Goal
  BY <1>3 DEF StreamsNumbered, CreditWindow
<1>4. ASSUME credit' = Stopped, owed' = owed, UNCHANGED <<test, carplays, faults>>,
             aa' = "idle" \/ (aa' = "claim" /\ credit.session < MaxStreams)
      PROVE  Goal
  BY <1>1, <1>4 DEF StreamsNumbered, CreditWindow
<1>5. ASSUME credit' = NoCredits, owed' = NothingOwed, UNCHANGED <<test, carplays>>,
             faults' \in 0..MaxFaults, aa' = "off"
      PROVE  Goal
  BY <1>2, <1>5 DEF StreamsNumbered, CreditWindow, NothingOwed
<1>6. Fault => faults' \in 0..MaxFaults
  BY DEF Fault
<1>7. CASE AaBegin \/ AaClaimed \/ AaRefused
  BY <1>3, <1>7 DEF AaBegin, AaClaimed, AaRefused
<1>8. CASE AaOpen
  <2>1. aa' = "idle" \/ aa' = "claim"
    BY <1>8 DEF AaOpen
  <2> QED
    BY <1>4, <1>8, <2>1 DEF AaOpen
<1>9. CASE AaStop \/ AaFrameError
  BY <1>4, <1>5, <1>6, <1>9 DEF AaStop, AaFrameError, EngineCloseFails
<1>10. CASE AaFirstFrame
  <2>1. ASSUME NEW limit \in 1..MaxLimit, credit' = Started(limit), aa = "first", aa' = "open",
               UNCHANGED <<owed, faults, test, carplays>>
        PROVE  Goal
    <3>1. credit.session + 1 \in 1..MaxStreams /\ owed[credit.session + 1] = 0
      BY <2>1 DEF StreamsNumbered, Credits
    <3>2. credit' \in Credits
      BY <2>1, <3>1 DEF Started, Credits
    <3>3. credit'.session = credit.session + 1 /\ credit'.outstanding = 0 /\ credit'.limit = limit
      BY <2>1 DEF Started
    <3>4. StreamsNumbered' /\ CreditWindow'
      BY <2>1, <3>1, <3>3 DEF StreamsNumbered, CreditWindow, Credits
    <3> QED
      BY <2>1, <3>2, <3>4
  <2> QED
    BY <1>3, <1>5, <1>6, <1>10, <2>1 DEF AaFirstFrame, EngineCloseFails
<1>11. CASE AaFrame
  <2>1. /\ credit.session \in 1..MaxStreams /\ credit.outstanding < credit.limit
        /\ credit.outstanding + 1 \in 0..8
    BY <1>11, SMTT(40) DEF AaFrame, ready, StreamsNumbered, Credits
  <2>2. /\ credit' = [credit EXCEPT !.outstanding = @ + 1] /\ credit' \in Credits
        /\ UNCHANGED <<aa, test, carplays, faults>>
    BY <1>11, <2>1, FieldTypes DEF AaFrame
  <2>3. owed[credit.session] = credit.outstanding
    BY <1>11 DEF AaFrame, CreditWindow
  <2>4. owed' = [owed EXCEPT ![credit.session] = @ + 1] /\ owed' \in Owing
    BY <1>11, <2>1, <2>3 DEF AaFrame
  <2>5. /\ owed'[credit.session] = credit.outstanding + 1
        /\ \A s \in 1..MaxStreams \ {credit.session} : owed'[s] = owed[s]
    BY <2>1, <2>3, <2>4
  <2>6. /\ credit'.session = credit.session /\ credit'.limit = credit.limit
        /\ credit'.outstanding = credit.outstanding + 1
    BY <2>2 DEF Credits
  <2>7. credit.session \in Nat /\ credit.limit \in Nat /\ credit.outstanding \in Nat
    BY <2>1 DEF Credits
  <2>8. StreamsNumbered'
    BY <2>1, <2>2, <2>5, <2>6, <2>7 DEF StreamsNumbered
  <2>9. CreditWindow'
    BY <2>1, <2>5, <2>6, <2>7 DEF CreditWindow
  <2> QED
    BY <2>2, <2>4, <2>8, <2>9
<1>12. CASE AckLate
  <2>1. credit' = [credit EXCEPT !.late = TRUE] /\ credit' \in Credits
    BY <1>12, FieldTypes DEF AckLate
  <2> QED
    BY <1>12, <2>1 DEF AckLate, StreamsNumbered, CreditWindow, Credits
<1>13. ASSUME NEW s \in 1..MaxStreams, NEW n \in 1..8, PhoneAcks(s, n) PROVE Goal
  <2>1. n <= owed[s] /\ owed' = [owed EXCEPT ![s] = @ - n] /\ owed' \in Owing
    BY <1>13 DEF PhoneAcks
  <2>2. credit' = Acked(s, n) /\ aa \notin {"claim", "first"}
        /\ UNCHANGED <<aa, test, carplays, faults>>
    BY <1>13 DEF PhoneAcks
  <2>3. credit' \in Credits /\ credit'.session = credit.session /\ credit'.limit = credit.limit
    <3>1. CASE s = credit.session /\ n <= credit.outstanding
      <4>1. credit.outstanding - n \in 0..8
        BY <3>1 DEF Credits
      <4>2. [credit EXCEPT !.outstanding = @ - n] \in Credits
        BY <4>1, FieldTypes
      <4> QED
        BY <2>2, <3>1, <4>2 DEF Acked, Credits
    <3> QED
      BY <2>2, <3>1 DEF Acked
  <2>4. StreamsNumbered'
    BY <2>1, <2>2, <2>3 DEF StreamsNumbered
  <2>5. CreditWindow'
    <3>1. CASE s = credit.session /\ n <= credit.outstanding
      <4>1. credit'.outstanding = credit.outstanding - n
        BY <2>2, <3>1 DEF Acked, Credits
      <4> QED
        BY <2>1, <2>2, <2>3, <3>1, <4>1 DEF CreditWindow, Credits
    <3>2. CASE ~(s = credit.session /\ n <= credit.outstanding)
      BY <2>1, <2>2, <2>3, <3>2 DEF Acked, CreditWindow, Credits
    <3> QED
      BY <3>1, <3>2
  <2> QED
    BY <2>1, <2>2, <2>3, <2>4, <2>5
<1>14. CASE AaEnd
  BY <1>5, <1>6, <1>14 DEF AaEnd, CloseCapture, CloseFailed
<1> QED
  BY <1>7, <1>8, <1>9, <1>10, <1>11, <1>12, <1>13, <1>14 DEF AaMicStep

-----------------------------------------------------------------------------
(* The input test and the environment.                                     *)

(* Bumping the generation changes nothing but the cancellation.            *)
LEMMA StopTestKeeps ==
    ASSUME MicInv, test' = stop_test, UNCHANGED <<lease, child, aa, credit, owed, carplays, faults>>
    PROVE  MicInv' /\ CallUndisturbed
<1> USE DEF MicInv, MicTypeOK
<1>1. test' \in InputTest
  <2>1. (test.cancel \/ test.at # "none") \in BOOLEAN
    OBVIOUS
  <2> QED
    BY <2>1, FieldTypes DEF stop_test
<1>2. test'.at = test.at
  BY DEF stop_test, InputTest
<1>3. AaHolds' /\ TestHolds' /\ FreeUnshown'
  BY <1>2 DEF AaHolds, TestHolds, FreeUnshown, HeldFor
<1>4. CaptureExclusive' /\ StreamsNumbered' /\ CreditWindow' /\ CallUndisturbed
  BY DEF CaptureExclusive, StreamsNumbered, CreditWindow, CallUndisturbed, Voices
<1> QED
  BY <1>1, <1>3, <1>4

(* The steps of the input test.                                            *)
LEMMA TestKeeps ==
    ASSUME MicInv, TestStart \/ TestClaimed \/ TestTask
    PROVE  MicInv' /\ CallUndisturbed
<1> USE DEF MicInv, MicTypeOK
<1>1. UNCHANGED <<aa, credit, owed, carplays>>
  BY DEF TestStart, TestClaimed, TestTask, TestEnds, TestCloses, TestPublishes, TestDrops,
         CloseFailed, DropCapture
<1>2. StreamsNumbered' /\ CreditWindow'
  BY <1>1 DEF StreamsNumbered, CreditWindow
<1>3. "setupTest" \in Voices /\ "bluetoothCall" \in Voices
  BY DEF Voices
<1> DEFINE AtPlace(p) == [test EXCEPT !.at = p]
<1>11. \A p \in TestPlace : AtPlace(p) \in InputTest /\ AtPlace(p).at = p
  <2>1. \A p \in TestPlace : AtPlace(p).at = p
    BY DEF InputTest
  <2> QED
    BY <2>1, FieldTypes
<1>12. /\ "none" \in TestPlace /\ "claim" \in TestPlace /\ "run" \in TestPlace
       /\ "close" \in TestPlace /\ "shut" \in TestPlace /\ "drop" \in TestPlace
       /\ TRUE \in BOOLEAN /\ FALSE \in BOOLEAN
  BY DEF TestPlace
<1>4. CASE TestStart
  <2>1. test' \in InputTest /\ UNCHANGED <<child, faults>>
    <3>1. test.runs + 1 \in 0..MaxTests
      BY <1>4 DEF TestStart, InputTest
    <3>2. [test EXCEPT !.runs = @ + 1] \in InputTest
      BY <3>1, FieldTypes
    <3>3. [test EXCEPT !.at = "claim", !.cancel = FALSE] \in InputTest
      BY <1>12, FieldTypes
    <3>4. [[test EXCEPT !.at = "claim", !.cancel = FALSE] EXCEPT !.runs = test.runs + 1] \in InputTest
      BY <3>1, <3>3, FieldTypes
    <3> QED
      BY <1>4, <3>2, <3>4 DEF TestStart
  <2>2. CASE /\ CanClaim /\ lease' = Acquired("setupTest")
             /\ test' = [test EXCEPT !.at = "claim", !.cancel = FALSE, !.runs = @ + 1]
    <3>1. lease' \in LeaseState
      BY <1>3, <2>2, LeaseTypes
    <3>2. lease'.permit = "held" /\ lease'.flock = "setupTest" /\ lease'.shown = "none"
      BY <2>2 DEF Acquired, CanClaim, FreeUnshown, LeaseState
    <3>3. CaptureExclusive'
      BY <2>1, <2>2 DEF CaptureExclusive, CanClaim
    <3>4. aa \notin {"claim", "first", "open"} /\ ~HeldFor("bluetoothCall")
      BY <2>2 DEF AaHolds, HeldFor, CanClaim
    <3>5. AaHolds' /\ TestHolds' /\ FreeUnshown' /\ CallUndisturbed
      BY <1>1, <1>3, <2>1, <2>2, <3>2, <3>4
      DEF AaHolds, TestHolds, FreeUnshown, HeldFor, CallUndisturbed
    <3> QED
      BY <1>1, <1>2, <2>1, <3>1, <3>3, <3>5
  <2>3. CASE test.at = "none" /\ lease' = lease /\ test' = [test EXCEPT !.runs = @ + 1]
    BY <1>1, <1>2, <2>1, <2>3
    DEF AaHolds, TestHolds, FreeUnshown, HeldFor, CaptureExclusive, CallUndisturbed
  <2> QED
    BY <1>4, <2>2, <2>3 DEF TestStart
<1>5. CASE TestClaimed
  <2>1. HeldFor("setupTest") /\ lease.shown = "none" /\ aa \notin {"claim", "first", "open"}
    BY <1>5 DEF TestClaimed, TestHolds, AaHolds, HeldFor
  <2>2. \A o \in Voices : child[o] # "running"
    BY <2>1 DEF CaptureExclusive, HeldFor, Voices
  <2>3. test' \in InputTest /\ faults' = faults
    <3>1. [AtPlace("run") EXCEPT !.testing = TRUE] \in InputTest /\ AtPlace("none") \in InputTest
      BY <1>11, <1>12, FieldTypes
    <3> QED
      BY <1>5, <3>1 DEF TestClaimed
  <2>4. CASE /\ lease' = Claimed("setupTest")
             /\ child' = [child EXCEPT !["setupTest"] = "running"]
             /\ test' = [test EXCEPT !.at = "run", !.testing = TRUE]
    <3>1. lease' \in LeaseState /\ child' \in [Voices -> {"none", "running", "ended"}]
      BY <1>3, <2>4, LeaseTypes
    <3>2. lease'.permit = "held" /\ lease'.flock = "setupTest" /\ lease'.shown = "setupTest"
      BY <2>1, <2>4 DEF Claimed, HeldFor, LeaseState
    <3>3. CaptureExclusive' /\ CallUndisturbed
      BY <1>3, <2>1, <2>2, <2>4, <3>2 DEF CaptureExclusive, CallUndisturbed, HeldFor
    <3>4. AaHolds' /\ TestHolds' /\ FreeUnshown'
      BY <1>1, <2>1, <2>4, <3>2 DEF AaHolds, TestHolds, FreeUnshown, HeldFor
    <3> QED
      BY <1>1, <1>2, <2>3, <3>1, <3>3, <3>4
  <2>5. CASE lease' = Unclaimed /\ test' = [test EXCEPT !.at = "none"] /\ child' = child
    <3>1. lease' \in LeaseState /\ lease'.shown = "none"
      BY <2>1, <2>5, LeaseTypes DEF Unclaimed, LeaseState
    <3>2. CaptureExclusive' /\ CallUndisturbed
      BY <1>3, <2>1, <2>2, <2>5 DEF CaptureExclusive, CallUndisturbed, HeldFor
    <3>3. AaHolds' /\ TestHolds' /\ FreeUnshown'
      BY <1>1, <2>1, <2>5, <3>1 DEF AaHolds, TestHolds, FreeUnshown, HeldFor
    <3> QED
      BY <1>1, <1>2, <2>3, <2>5, <3>1, <3>2, <3>3
  <2> QED
    BY <1>5, <2>4, <2>5 DEF TestClaimed
<1>6. CASE TestEnds \/ TestCloses \/ TestPublishes
  <2>1. /\ test' \in InputTest /\ lease' = lease
        /\ test.at \notin {"none", "claim"} /\ test'.at \notin {"none", "claim"}
    <3>1. [AtPlace("drop") EXCEPT !.testing = FALSE] \in InputTest
      BY <1>11, <1>12, FieldTypes
    <3>2. [AtPlace("drop") EXCEPT !.testing = FALSE].at = "drop"
      BY DEF InputTest
    <3> QED
      BY <1>6, <1>11, <1>12, <3>1, <3>2 DEF TestEnds, TestCloses, TestPublishes
  <2>2. /\ child' = child \/ child' = [child EXCEPT !["setupTest"] = "none"]
        /\ faults' \in 0..MaxFaults
    BY <1>6 DEF TestEnds, TestCloses, TestPublishes, Fault
  <2>3. AaHolds' /\ TestHolds' /\ FreeUnshown'
    BY <1>1, <2>1 DEF AaHolds, TestHolds, FreeUnshown, HeldFor
  <2>4. child' \in [Voices -> {"none", "running", "ended"}]
        /\ \A o \in Voices : child'[o] = "running" => child[o] = "running"
    BY <2>2
  <2>5. CaptureExclusive' /\ CallUndisturbed
    BY <1>3, <2>1, <2>2, <2>4 DEF CaptureExclusive, CallUndisturbed
  <2> QED
    BY <1>1, <1>2, <2>1, <2>2, <2>3, <2>4, <2>5
<1>7. CASE TestDrops
  <2>1. HeldFor("setupTest") /\ aa \notin {"claim", "first", "open"}
    BY <1>7 DEF TestDrops, TestHolds, AaHolds, HeldFor
  <2>2. /\ lease' \in LeaseState
        /\ child' \in [Voices -> {"none", "running", "ended"}]
        /\ CaptureExclusive' /\ FreeUnshown'
        /\ \A p \in Voices \ {"setupTest"} : child'[p] = child[p]
    BY <1>3, <1>7, <2>1, DropKeepsExclusive DEF TestDrops
  <2>3. test' \in InputTest /\ test'.at = "none" /\ faults' = faults
    BY <1>7, <1>11, <1>12 DEF TestDrops
  <2>4. AaHolds' /\ TestHolds' /\ CallUndisturbed
    BY <1>1, <1>3, <2>1, <2>2, <2>3 DEF AaHolds, TestHolds, CallUndisturbed, HeldFor
  <2> QED
    BY <1>1, <1>2, <2>2, <2>3, <2>4
<1> QED
  BY <1>4, <1>5, <1>6, <1>7 DEF TestTask

(* The CarPlay daemon and processes that end by themselves.                *)
LEMMA EnvironmentKeeps ==
    ASSUME MicInv, MicEnvironment
    PROVE  MicInv' /\ CallUndisturbed
<1> USE DEF MicInv, MicTypeOK
<1>1. UNCHANGED <<aa, credit, owed, test, faults>>
  BY DEF MicEnvironment, CarPlayTakes, CarPlayReturns, ChildEnds
<1>2. StreamsNumbered' /\ CreditWindow'
  BY <1>1 DEF StreamsNumbered, CreditWindow
<1>3. CASE CarPlayTakes \/ CarPlayReturns
  <2>1. lease.flock \in {"none", "carplay"} /\ child' = child /\ carplays' \in 0..MaxCarPlay
    BY <1>3 DEF CarPlayTakes, CarPlayReturns
  <2>2. lease' \in LeaseState /\ lease'.permit = lease.permit /\ lease'.shown = lease.shown
    BY <1>3 DEF CarPlayTakes, CarPlayReturns, LeaseState
  <2>3. \A o \in Voices : child[o] # "running" /\ ~HeldFor(o)
    BY <2>1 DEF CaptureExclusive, HeldFor, Voices
  <2>4. CaptureExclusive' /\ CallUndisturbed
    BY <2>1, <2>3 DEF CaptureExclusive, CallUndisturbed, Voices
  <2>5. AaHolds' /\ TestHolds' /\ FreeUnshown'
    BY <1>1, <2>2, <2>3 DEF AaHolds, TestHolds, FreeUnshown, Voices
  <2> QED
    BY <1>1, <1>2, <2>1, <2>2, <2>4, <2>5
<1>4. ASSUME NEW o \in Voices, ChildEnds(o) PROVE MicInv' /\ CallUndisturbed
  <2>1. child' = [child EXCEPT ![o] = "ended"] /\ lease' = lease /\ carplays' = carplays
    BY <1>4 DEF ChildEnds
  <2>2. CaptureExclusive' /\ CallUndisturbed
    BY <2>1 DEF CaptureExclusive, CallUndisturbed, Voices
  <2>3. AaHolds' /\ TestHolds' /\ FreeUnshown'
    BY <1>1, <2>1 DEF AaHolds, TestHolds, FreeUnshown, HeldFor
  <2> QED
    BY <1>1, <1>2, <2>1, <2>2, <2>3
<1> QED
  BY <1>3, <1>4 DEF MicEnvironment

-----------------------------------------------------------------------------
(* The invariant of the microphone holds at the start.                     *)
LEMMA MicInitially == MicInit => MicInv
<1> SUFFICES ASSUME MicInit PROVE MicInv
  OBVIOUS
<1> USE DEF MicInit
<1>1. lease \in LeaseState /\ child \in [Voices -> {"none", "running", "ended"}]
  BY DEF LeaseState
<1>2. aa \in AaPlace /\ credit \in Credits /\ owed \in [1..MaxStreams -> 0..8]
  BY DEF AaPlace, Credits, NoCredits, NothingOwed
<1>3. test \in InputTest /\ carplays \in 0..MaxCarPlay /\ faults \in 0..MaxFaults
  BY DEF InputTest, TestPlace
<1>4. AaHolds /\ TestHolds /\ FreeUnshown /\ CaptureExclusive
  BY DEF AaHolds, TestHolds, FreeUnshown, CaptureExclusive
<1>5. StreamsNumbered /\ CreditWindow
  BY DEF StreamsNumbered, CreditWindow, NothingOwed
<1> QED
  BY <1>1, <1>2, <1>3, <1>4, <1>5 DEF MicInv, MicTypeOK

(* Every step of Android Auto, the input test and the environment keeps it *)
(* and leaves a call's lease alone.                                        *)
LEMMA MicStepKeeps ==
    ASSUME MicInv, AaBegin \/ TestStart \/ AaMicStep \/ TestClaimed \/ TestTask \/ MicEnvironment
    PROVE  MicInv' /\ CallUndisturbed
<1>1. CASE AaBegin \/ AaMicStep
  BY <1>1, AaKeepsLease, AaKeepsCredit DEF MicInv, MicTypeOK
<1> QED
  BY <1>1, TestKeeps, EnvironmentKeeps
=============================================================================
