# Verification project for Argo's projection, call, camera and CarPlay daemons

Argo is a car head unit: a Flutter application (`lib/`) and native daemons
(`native/`). This directory holds TLA+ specifications of the parts in which
concurrency, failure and ordering decide whether a phone can be projected,
called with and watched safely:

* `argo-projectiond` (`native/projection/argo-projectiond/src/`), which owns
  Android Auto over USB and Wi-Fi, Bluetooth music, calls and the microphone;
* `argo-camerad` and the view that reads its frame ring (`native/camera/`);
* `argo-carplayd` (`native/carplay/src/`), the wired CarPlay daemon.

`PROJECT.json` lists components, runs, mutants, the map from definitions to
source lines, findings, hazards and theorems.

## 1. Inventory

| Component | State it keeps | Operations | Interacts through | What makes it correct |
|---|---|---|---|---|
| USB owner (`usb.rs`, `usb_runtime.rs`) | lifecycle, attempted set, active session, probe handle, lease permit | hotplug events, enable switch, cleanup tick, reports, accessory deadline, shutdown | session lease, snapshot, report queue, cancellation of its tasks | no orphaned session, one attempt per enumeration, stale reports harmless, lease outlives cleanup, waits end |
| Wireless attempt (`wireless.rs`, `connectivity/network.rs`, `wireless_bootstrap.rs`, `failure.rs`, `readiness.rs`) | access point, input guard and marker, listener, peer, media, retry count | prepare, activate, bootstrap, admit, run, clean up, back off | NetworkManager, root helper, BlueZ, lease, snapshot | resources only under the lease, no retry after uncertain cleanup |
| Connectivity worker (`wireless.rs`, `connectivity/mod.rs`, `ipc_server.rs`) | activity, enabled/disabled flags, selected interface, stop state | requests, client closure, Quit, inventory, Bluetooth loss | bounded request queue, watches, controllers | closure and Quit stop everything, every Quit answered |
| AA session engine (`aa_session.rs`, `aa_channels.rs`, `liveness.rs`) | channels, focus permission, playback, gate, liveness | phone messages, host commands, gate, pings, timers | command broadcast, snapshot, gate and its acknowledgement | video only with permission and fresh data, silent phone ends, gate really silences |
| Music source switch (`connectivity/music.rs`) | selection, links, player | select, connect, disconnect, gain, refresh | gate of the session, PipeWire, BlueZ | two sources never audible together |
| Voice capture (`voice.rs`, `native/audio-ownership`) | capture permit, lock file, poisoning, credit window | claim, open, close, drop, test, acknowledge | AA engine, calls, CarPlay daemon, processes | one capture at a time, given back only when reaped |
| Calls controller (`connectivity/calls.rs`, `phonebook.rs`) | wanted call device, duplex audio, phonebook job | requests, refresh tick, cancellation, owner change, stop | request queue, PipeWire telephony, BlueZ OBEX, capture lease | call audio ends with the call and with Quit, contacts of the right phone, mute applies |
| Camera daemon and view (`native/camera`) | frame ring, capture, health, inventory; last picture shown | start, stop, write, retry; read, submit, blank | shared memory, command socket | no torn and no outdated picture, bounded recovery |
| CarPlay daemon (`bin/argo-carplayd.rs`, `management.rs`, `usb_lease.rs`) | settings, supervisor place, lease, clean marker | settings requests, sessions, signals, service end | watch channels, lease helper | lease covers the session, disconnect ends it |
| CarPlay session (`wired_runtime.rs`, `runtime_control.rs`, `media.rs`, `protocol/`) | lock, NetworkManager connection, multiplexer, touch slots, queues, video queue | touch, show, hide, policy, phone stages, screen, view | two bounded queues, watches, view socket | no stuck touch, continuous video, resources given back in order |
| IPC server and daemon entry | control client lease, configuration | hello, commands, snapshots | Unix socket | one client; departure cleans up |
| Dart services (`lib/core`, `lib/integrations`) | projection, audio, settings, lifecycle, climate, CAN | UI intents, daemon snapshots | IPC, files | recovery, exit order, durable settings |
| Deployment tools (`tool/`) | releases, units, boot state | activate, roll back | systemd, files | a failed activation is undone |

Hard behaviours: several owners contend for one lease or one microphone; a
published snapshot is shared and coalescing; tasks are cancelled and joined at
any await, and what was dropped there (a process, a connection, a guard) may
live on; calls to NetworkManager, root helpers and processes may fail with
unknown effect; phones re-enumerate, go silent, change bonds; queues are bounded
and some sends are lossy; a shared memory reader runs while its writer does or
has been killed. The hazards in `PROJECT.json` give the line for each.

## 2. Modules

| Module | Models | Composition |
|---|---|---|
| `UsbRuntime` | `usb.rs` lifecycle + `usb_runtime.rs` loop, probe and session tasks | the wireless side is an environment of the lease and snapshot |
| `WirelessAttempt` | the attempt task and what it owns | actions only, no `Spec` of its own |
| `WirelessWorker` | worker, client, Quit | extends `WirelessAttempt`: both form one specification |
| `AaSession` | session engine, host commands, phone | the owner (USB or Wi-Fi) is begin/close, the music controller a gate request |
| `MusicSource` | source switch and links | extends `AaSession`: gate and snapshot are shared |
| `Microphone` | capture lease, AA microphone stream with credits, input test, the CarPlay daemon's capture | actions only |
| `Calls` | calls controller, phonebook, Quit and daemon exit | extends `Microphone`: call audio is the third owner of the capture lease |
| `Camera` | daemon loop, frame ring, view | one specification of two threads over the ring |
| `CarPlaySession` | one wired session from claim to return | actions only |
| `CarPlay` | settings, supervisor, USB lease, main | extends `CarPlaySession`: the supervisor polls and drops the session |
| `ReportChannel` | abstract: what is promised about touch reports | implemented by `CarPlaySession` (`ReportsDelivered == Reports!Spec`) |
| `MC*` | values for TLC | |
| `UsbRuntime_proofs` | proofs about the USB owner | extends `UsbRuntime` |
| `Wireless_proofs` | proofs about attempt, worker and Quit | extends `WirelessWorker` |
| `AaSession_proofs` | proofs about the session engine | extends `AaSession` |
| `MusicSource_proofs` | proofs about the source switch | extends `MusicSource`, `AaSession_proofs` |
| `Microphone_proofs` | lemmas about capture lease and credits | extends `Microphone` |
| `Calls_proofs` | proofs about calls, microphone and exit | extends `Calls`, `Microphone_proofs` |
| `Camera_proofs` | proofs about ring, reader and capture | extends `Camera` |
| `CarPlay_proofs` | proofs about supervisor, session and the refinement | extends `CarPlay` |

### How state and actions correspond to the code

**UsbRuntime.** One enumeration of a phone is a number, as `DeviceId`s are not
reused. `lc` is `UsbConnectionStateMachine.state` with `removed` (original gone)
and `late` (the fifteen second deadline has passed). The operators
`candidate_available`, `removed`, … are the methods of `usb.rs`, giving the
successor state; states overwritten before the method's caller returns
(Discovered, Switching, AccessoryPresent) do not appear. `pc` is where `run` is:
each `select!` branch is one action, except that a branch that awaits a task
(`disabling`, `unplugging`, `closing`) is split at the await, and a drain of the
report queue takes one report per step, because the tasks go on meanwhile.
`probe[i]` and `sess[i]` are the progress of the tasks between awaits. The
`biased` select is the conjunct `Branch`: a pending shutdown or switch change
goes first. The remaining branches are taken in any order that is possible: the
tick, stream, queue and timer become ready independently of each other.
The stream has an event for every phone except those that were there before the
watcher started; the list may contain a phone that the stream reports too.

**WirelessAttempt / WirelessWorker.** `act.pc` names the await the attempt is
in. A call that fails or is interrupted may have had its effect (`Interrupted`):
the root guard may be installed, the profile may be active. `ap` is what the
task believes; `guards`, `nm` and `marker` are the truth outside it, which is
what the guard properties are about. Publication of the phase "streaming", which
the code does on a two second health tick, is merged into `Establish`. The
worker awaits `a.stop()` in the state `join`, with the reason that says what
follows. Here the music and call controllers are external: each answers a stop
with success or an error (`Calls` models the call controller's side).

**AaSession.** Each message that `Channels::handle` accepts is an action that
does all of its effects in `run_engine`; refused ones are `BadMessage`. Time is
`live.stale`: ten seconds without valid activity may pass at any moment.
Commands for another session id are not enumerated; they have no effect.
`aux` is history for two properties (the last activation applied).

**MusicSource.** `links` is whether owned links carry sound, `music.at` the
await inside `musicSelect`. A failed `silence()` may leave the links.

**Microphone.** `lease` is the semaphore permit, the owner of the lock file and
the owner that is published; `child` is the truth about the processes. A claim
is split at the inventory (`AaOpen`, then `AaClaimed` or `AaRefused`), closing
at the wait for the process, and the test task at each of its publications,
because Quit and other owners look in between. Dropping a capture asks once
whether the process has been reaped and poisons the lease otherwise: permit and
lock file stay. `owed` is history: what the phone still owes each stream.

**Calls.** `ctl` is `Controller` and its place. `run` is one task: each branch
of its `select!` is an action, a refresh is split at the telephony service, at
the route and at the claim, and the timeout (four seconds in a tick, eight in a
request) cuts it off at any of them (`RefreshTimesOut`). Every request carries the cancellation generation it
was made in (`fresh`). A `Book::clear` that the timeout drops keeps its job.
`tel` is the telephony service and the phones, external. `Exit` is the decision
of `main` about the clean marker.

**Camera.** The daemon is one thread: `d.pc` walks its loop in program order
(serve, command, owner, poll, inventory, capture, frame), and `Ring::write` is
split at every atomic store and at each half of the copied picture. The view's
`contract.h` is split in the same way: it reads the flags, the guard word, both
halves, and the guard word again. Words become visible in program order, the
order of the amd64 the package is built for. `of` is history: which camera a
frame came from. A `plug` or a failing call is one of the bounded faults.

**CarPlaySession / CarPlay.** `ses.at` is where `wired_runtime::run` is;
`res` is the truth about what it has acquired, including what a dropped future
leaves (`Dropped`, `MuxDropped`, `Reaped`). `pre` is `Presentation`: a request of
the control socket runs under its lock and is one action. A command goes through
`commands` to the receiver and through `events` to the event channel; a full
queue has at each place the effect the code gives it. `rcv.stage` is how far
the phone is: link, identification, AirPlay connection, pair-setup, pair-verify,
auth-setup, SETUP, each refusing what comes out of order. `video` is
`VideoStream` with its consumer and the picture being written. `sup` is the
supervisor's place with its copy of the settings; `unseen` is the changed flag
of its watch receiver, set by every send and cleared where the code calls
`borrow_and_update`. A settings request works on a copy of its own under the
mutation lock (`BeginRequest`, `FinishRequest`).

**ReportChannel.** One queue that is open or broken: accepted reports are
delivered once and in order, are discarded only before the phone records, and a
break lets go of everything. The refinement mapping makes `pipe` the reports in
`events \o commands`, `open` the life of the receiver and `contacts` the phone's.
`Spec` of both are safety; TLC checks on the run, and `ReportsArrive` proves for
queues of any length, that every step of the daemon is a step of the channel or
a stutter.

## 3. Runs

All runs use `CHECK_DEADLOCK FALSE`: a daemon that has shut down, or an
environment whose bounds are used up, really stops.

| Run | Bounds | Distinct states | Properties |
|---|---|---|---|
| `usb_one_phone` | 1 phone, 2 enumerations, 2 switch writes, wireless competitor, queue 8 | 0.4 M | ReleasedAfterCleanup, DisableReleases, AccessoryWaitEnds, ConnectingResolves |
| `usb_two_phones` | 2 symmetric phones, 3 enumerations, queue 2, no switch writes | 4.4 M | LiveSessionOwned, SessionIdOwn, NoSecondAttempt, FailsOnlyByOwnSession |
| `wireless` | 1 interface, queue 1, 2 requests, 1 Quit, 1 client | 1.8 M | ResourcesUnderLease, RetryAfterCleanup, GuardRecorded, QuitConfirmed |
| `wireless_live` | 1 interface, queue 1, 1 request, 1 Quit, 2 clients | 0.8 M | CancelReleases, QuitAnswered, CloseReleases |
| `aa_session` | either transport, media channel and video, 2 commands, channel of 1, 1 phone exit, 1 gate request | 0.5 M | VisibleAllowed, VisibleIsNewer, StreamsHavePlayback, SilentPeerEnds, CommandsExecuted |
| `music_source` | wired, 2 selects, 2 commands, channel of 1 | 3.9 M | GateSilences, NoOverlap, SelectionApplied |
| `calls` | 1 phone, 3 requests, queue 1, 1 attempt each, 1 event, 1 fault | 1.4 M | CleanExitConfirmed, ContactsOfDevice, QuitEndsCallAudio, CallAudioEnds, MuteApplies |
| `voice` | 2 streams, window 1, 1 test, 1 CarPlay capture, 1 call request, 1 fault | 3.9 M | CaptureExclusive, CreditWindow |
| `camera` | 2 roles, 3 frames in 2 slots, 2 commands, 1 fault, 1 retry | 1.9 M | NotTorn, ValidIsLive, OutdatedLeaves, RecoveryEnds |
| `carplay` | USB lease, 2 settings requests, 1 fault, 1 input, 1 finger, queues of 1 | 1.6 M | LeaseCoversSession, DisconnectEnds |
| `carplay_session` | 2 fingers, 4 inputs, command queue 2, event queue 1, 3 pictures, video queue 1 | 0.8 M | NoStuckTouch, VideoContinuous, ReportsDelivered, HiddenReleases |
| `usb_release` | 2 phones with serials, 3 enumerations | - | ReleasedAfterCleanup is violated: the finding below |

What each run shows, in a sentence, is its `about` in `PROJECT.json`:

* `usb_one_phone`: One phone that re-enumerates, the projection switch written
  twice and a competing wireless owner: the lease outlives cleanup, a disable
  gives it back, an accessory wait always ends and a published attempt that
  runs resolves.
* `usb_two_phones`: Two phones, three enumerations and a two-place report
  queue: no live session is orphaned, every session carries its own id, no
  enumeration is tried twice and stale reports never fail a newer session.
* `wireless`: All orders of requests, closure, Quit, cancellation, call
  failures and bond changes around one attempt with its retries: resources only
  under the lease, no retry after uncertain cleanup, every guard recorded, Quit
  confirmed only when nothing is left.
* `wireless_live`: Under the scheduler's fairness every cancelled attempt gives
  the lease back, every Quit the worker takes is answered, and the projection
  of a client that left is stopped even when a successor connects before the
  cleanup has run.
* `aa_session`: A wired or wireless session with a phone that sends any message
  at any time and a host whose command channel may overflow: video is shown
  only with permission and fresh data, audio has its playback, a silent phone
  ends the session, a command is never lost.
* `music_source`: The source switch interleaved with a wired session's start,
  end, stream starts, gain commands and gate acknowledgement: Bluetooth and
  Android Auto media never play together and a confirmed selection is in force.
* `calls`: One phone with calls, three requests, one event of the telephony
  service and one failing operating system call: contacts only of the connected
  phone, call audio ends with the call or with Quit, a mute reaches a running
  capture, the daemon exits cleanly only when every capture is reaped.
* `voice`: The engine's microphone over two streams, the input test, a call and
  the CarPlay daemon compete for the capture, with one failing close: two
  captures never run together, and acknowledgements never open more than the
  window of their own stream.
* `camera`: Two cameras of different roles, two frames in the ring, two
  commands, one fault, kill or unplugging, and a view that reads while the
  daemon writes: no torn picture, a valid ring has a camera behind it, an
  outdated picture leaves the screen, a failed capture is retried a bounded
  number of times.
* `carplay`: Two settings requests, one fault, a stop at any time and one
  input, with the USB lease: the session has the phone's interfaces only under
  the lease, and a user's disconnect ends the session whatever the supervisor
  is doing.
* `carplay_session`: Two fingers, four inputs, a command queue of two, an event
  queue and a video queue of one: no touch stays down on the phone, no frame is
  shown without the ones it depends on, every touch report arrives in order or
  the session ends, hiding releases the touches.
* `usb_release`: With a second phone on the bus the lease is dropped while a
  failed session is still closing its media.

Why the bounds are enough for the question asked: two enumerations are a phone
and its accessory, three are the pair and an intruder; a queue of two fills up
with the reports of one probe and one session; one or two requests with every
possible event in between exercise each pair of handlers; a command channel of
one overflows with two commands. Retries of the wireless attempt are not bounded
by the model: the three attempts are the code's. Two microphone streams are what
a late acknowledgement needs, one test, one call and one CarPlay capture are one
rival of each kind. Three call requests are connect, another one, and the one it
races with. Three frames in two slots are an overwritten slot with a reader in
it; the code's three slots only make that rarer. Two roles are the camera shown
and another. With two fingers, four inputs, a command queue of two and an event
queue of one, each queue is full in some state with a release still to come;
three pictures with a queue of one are a key frame, a delta and an overflow. Two
settings requests are a change and its reversal around any step of the
supervisor. The symmetry of `usb_two_phones` is sound because it checks no
liveness property and phones are interchangeable (none reports a serial, the
weakest correlation); `usb_release` gives each phone its own serial.

What the runs do not exercise: the queue of eight of `usb_one_phone` never
fills, as two enumerations send at most eight reports, so `ConnectingResolves`
catches a port that cannot be opened, not a dropped report. It is about attempts
that run: a disable aborts a probe without resetting the snapshot, and after
projection is turned on again a "connecting" may stand with nothing behind it.
`calls` has one phone and no input test: that contacts of an old phone never
appear for a new one, and that Quit is clean only with the test's capture reaped,
rest on the theorems `OwnContacts` and `CleanExit`. `ValidIsLive` is about a
living daemon; what a killed one leaves behind is the subject of `OutdatedLeaves`.

`StartupBounce` is FALSE in the runs. A phone that leaves before the initial
list is read and returns under a new number makes one phone behave as two, and
`usb_one_phone` would then show the same thing as `usb_release`. The proofs hold
for both values. `carplay` has no pictures and one input and `carplay_session`
no settings requests and no lease: the two halves share the session but not the
questions.

Each module with a run defines a type invariant. They were checked while the
modules were written and any configuration can add its own
(`INVARIANT TypeOK`); the listed runs spend their time on the other properties.

### Findings

* `usb_release` - removal of the device the lifecycle names releases the lease
  although an earlier, failed session is still closing its media
  (`usb_runtime.rs:161`), against "It is released after owned cleanup"
  (`docs/architecture.md:418-419`).

Other disagreements the models contain, which no listed run checks (each is in
`PROJECT.json` as a hazard or its note):

* the accessory deadline is not guarded by ownership (`usb_runtime.rs:170`) and
  may publish over the wireless owner's snapshot;
* one marker for all interfaces: a connect on another interface after an
  uncertain cleanup replaces the record of the first guard, and its clean end
  removes the record (`connectivity/network.rs:785-794`, against the comment
  there and `docs/wireless.md:130-131`). With `Interfaces = {wlan0, wlan1}` and
  three requests TLC shows `GuardRecorded` violated; this is why
  `GuardIsRecorded` assumes one interface;
* an error stored by one refused Quit refuses every later one (`wireless.rs:184`
  and `194`), although the user is told to check the cleanup and retry
  (`lib/core/lifecycle/application_exit_service.dart:45`);
* `argo-carplayd` writes its clean marker also when the supervisor has already
  ended with an unconfirmed lease (`argo-carplayd.rs:324`), against "managed
  clean markers are written only after cleanup" (`docs/carplay.md:121-122`).

### Fairness

* Loops and tasks are scheduled by tokio: weak fairness of the worker, of the
  USB loop and of every task step that has a timeout or follows a cancellation.
  The cleanup tick and the accessory timer have weak fairness of their own: the
  select polls them before, or independently of, the other branches, and the
  bounds on the environment leave them enabled.
* A session that streams may do so for ever: its end is not fair. The phone is
  never fair.
* `RecvCommand` and `GateChanged` have strong fairness: the session's select is
  not biased, so a branch that is ready again and again is eventually chosen.
* Cleanup of an attempt is fair: media close is awaited, helper and deactivation
  have timeouts. Setup steps are fair only once cancelled.
* `StopAcquires` has strong fairness: the lease semaphore queues a waiter, so it
  gets the permit although USB may take and release it; USB's release is fair
  only while projection is disabled, which makes the USB loop give it up
  (`DisableReleases` in `usb_one_phone` shows that).
* `Calls`: weak fairness of the controller's steps, a task with a one second
  tick whose awaits have timeouts. Neither phones nor service are fair.
* `Camera`: weak fairness of the daemon's loop and of the view's loop, which
  never block for ever, and of the clocks (`Time`, `RetryDue`). A killed daemon
  takes no step; the view does.
* `CarPlay`: weak fairness of the supervisor, of the requests' second half, of
  main once it has been told to end, of the session's own steps (each has a
  timeout or follows a cancellation; `SessionProceeds`), of the receiver's
  forwarding and of the event channel's sending. The phone, the view and the
  user are not fair.

## 4. Proofs

Every invariant and every action property a run checks is also a theorem, and so
is the refinement of `ReportChannel`: TLC shows them on the small instances of
section 3, the proofs for every value of the constants. Each proof module uses
the named assumptions of its component's modules and nothing else (bounds are
naturals, queues have a place, "none" values are no members); two theorems have
a hypothesis of their own, explained below. The bounds of the models stay
parameters: a theorem holds for any number of requests, faults and inputs.

The argument is the same everywhere: an inductive invariant `IInv` (`AaInv` for
the session engine), checked by TLC on the component's run before it was proved;
one lemma that `Init` implies it; one lemma per action, or group of actions, for
what the action does to the parts it can disturb; and the theorem from these by
temporal logic. The parts of an invariant are named after what they say, and
lemmas about the operators (`...Fields`, `...Types`) come first.

### USB owner (`UsbRuntime_proofs`)

| Theorem | Statement |
|---|---|
| `TypeCorrect` | `Spec => []TypeOK` |
| `Invariance` | `Spec => []IInv` |
| `SessionOwnership` | `Spec => []LiveSessionOwned` |
| `SessionIdentity` | `Spec => []SessionIdOwn` |
| `SingleAttempt` | `Spec => NoSecondAttempt` |
| `OwnFailure` | `Spec => FailsOnlyByOwnSession` |
| `OnePhoneRelease` | `OnePhone` implies `Spec => []ReleasedAfterCleanup` |

`LiveSessionOwned` says nothing of a session that was cancelled and still works,
so a step that joins it could not be followed; `Tied` covers every session that
still works on behalf of the runtime and says at which place of the loop it may
be cancelled. `OwnFailure` needs to know that a failure report in the queue is
about a task that has failed (`Reported`), which needs that a task never leaves
its failed state (`Once`). `SingleAttempt` needs `Once` too: an enumeration that
has been tried and has left `attempted` can no longer be offered, which rests on
the order of the stream (`Ordered`), on `Fresh` (nothing is tried before the list
is read) and on `Known`. `SessionIdentity` needs `OwnId`: while a session opens
its port the snapshot carries its id, because only the lease holder publishes.

`ReleasedAfterCleanup` is false with two phones (run `usb_release`) and with one
phone that leaves and returns before the initial list has been read, which then
behaves as two. `OnePhone == ~StartupBounce /\ \E p : Phones = {p}` excludes
just these. The strengthening is `Single`: of the enumerations of one phone only
one is present, a removal lies between two arrivals in the stream (`Separated`),
and a session that has not finished its cleanup is the active one, under the
lease, named by the lifecycle, with its own removal still unread (`Accounted`).
The loop waits for the cleanup when it reads that removal, before it can read
another arrival.

### Wireless attempt and worker (`Wireless_proofs`)

| Theorem | Statement |
|---|---|
| `WirelessTypeCorrect`, `WirelessInvariance` | `Spec => []TypeOK`, `Spec => []IInv` |
| `LeaseCoversResources` | `Spec => []ResourcesUnderLease` |
| `RetryIsClean` | `Spec => []RetryAfterCleanup` |
| `ConfirmedExit` | `Spec => []QuitConfirmed` |
| `GuardIsRecorded` | `OneInterface` implies `Spec => []GuardRecorded` |

`LeaseOfAttempt` makes the lease an equivalence with the attempt's life;
`PointOfPlace` and `ClosedInTime` say what the task believes to own at each
await, so that an uncertain cleanup cannot reach a retry as a clean one. A
confirmed Quit rests on `ExitsNumbered` (a confirmation is of the operation
taken last) and `NothingEnabled` (from the moment it is taken nothing is enabled,
and once the attempt is joined there is none). `GuardRecorded` is false with two
interfaces, because there is one marker (see Findings); with one interface it
follows from `MarkerFirst`: the marker is on disk before the helper is called
and outlives its guard.

### Session engine and source switch (`AaSession_proofs`, `MusicSource_proofs`)

| Theorem | Statement |
|---|---|
| `AaTypeCorrect`, `AaInvariance` | `AaSpec => []AaTypeOK`, `AaSpec => []AaInv` |
| `ShownAsAllowed` | `AaSpec => []VisibleAllowed` |
| `ShownIsNewer` | `AaSpec => []VisibleIsNewer` |
| `PlaybackOfStreams` | `AaSpec => []StreamsHavePlayback` |
| `DataKeepsSession` | audio data never ends the session: `AaSpec => [][...]_aaVars` |
| `MusicInvariance` | `Spec => []IInv` |
| `NeverBoth` | `Spec => []NoOverlap` |
| `GateInForce` | `Spec => []GateSilences` |
| `SelectionHeard` | `Spec => []SelectionApplied` |

`Answered` is what activations need: permission without awaiting means fresh data
*and* a later revision, and the first data after a start raises the revision only
because a started stream has a video state (`StartedPublished`). `Playbacks`
keeps streams and playbacks together also while the session closes, and
`NothingLeft` carries all of it over to the next session. `GateApplied` ties
acknowledgement, gate, gain and playback. The switch reuses the lemmas about each
session step and adds the break-before-make argument: whatever carries Bluetooth,
or is about to (`Carried`), rests on a closed gate that is in force
(`BluetoothGated`); a selection waits for the generation it asked for
(`GateAwaited`) and nothing is selected meanwhile (`NothingSelected`).

### Microphone and calls (`Microphone_proofs`, `Calls_proofs`)

| Theorem | Statement |
|---|---|
| `TypeCorrect`, `Invariance` | `Spec => []TypeOK`, `Spec => []IInv` |
| `ExclusiveCapture` | `Spec => []CaptureExclusive` |
| `WindowRespected` | `Spec => []CreditWindow` |
| `CleanExit` | `Spec => []CleanExitConfirmed` |
| `OwnContacts` | `Spec => []ContactsOfDevice` |
| `QuitSilent` | `Spec => []QuitEndsCallAudio` |

`CaptureExclusive` alone is not inductive: a claim and its capture are separate
steps, so each owner's place must imply that permit and lock file are its own
(`AaHolds`, `TestHolds`, `CallHolds`). The credit window needs
`StreamsNumbered`, which keeps the acknowledgement of an earlier stream apart
from the running one. Contacts need `JobOfDevice`: an import that is still
running belongs to the selected device. That call audio stays away after Quit
needs `DisconnectDone` (a disconnect that ended without an error has closed the
audio and dropped the wish to connect) and, once it has been answered,
`AnsweredSilent`. `GenBounded` serves the types: a cancellation generation counts
requests, and Quit once.

### Camera (`Camera_proofs`)

| Theorem | Statement |
|---|---|
| `CameraTypeCorrect`, `CameraInvariance` | `Spec => []TypeOK`, `Spec => []IInv` |
| `PictureWhole` | `Spec => []NotTorn` |
| `ValidPicture` | `Spec => []ValidIsLive` |
| `GuardsNeverFall` | `Spec => [][GuardsRise]_vars` |

The ring is a sequence lock. `SlotWritten` and `SlotWhole` say what the writer's
guard word promises of both halves, `CopyWhole` what the reader's copy is as long
as the guard is the one it read first; that guards never fall is what makes the
second reading conclusive, and is stated as an action property. `ValidIsLive`
needs `RolePublished`, the order in which role, frame and flag are stored.

### CarPlay (`CarPlay_proofs`)

| Theorem | Statement |
|---|---|
| `CarPlayTypeCorrect`, `CarPlayInvariance` | `Spec => []TypeOK`, `Spec => []IInv` |
| `LeaseBeforeSession` | `Spec => []LeaseCoversSession` |
| `PicturesInOrder` | `Spec => []VideoContinuous` |
| `TouchReleased` | `Spec => []NoStuckTouch` |
| `ReportsArrive` | `Spec => ReportsDelivered` |

`IInv` has four parts. `Cover`: a session exists only where the supervisor polls
it, with the lease from before its start to after its end. `Continuous`: queued
pictures are numbered and chained, and after an overflow only a key picture
enters. `Touching`: `NoStuckTouch` speaks of the contacts after all queued
reports (`Eventually`), which no step changes in a simple way; `UnownedLetGo`
says it without the function: wherever in the queues a slot that no pointer holds
is pressed, a report that lifts it comes later. That form is kept by queueing,
forwarding and sending. `Typed` adds to `TypeOK` that generations count requests.

`Eventually` and the function inside `OnlyReports` are recursive, and
the library's induction theorems are out of the provers' reach, because they take
an operator as a parameter. What the proof needs of every prefix of a queue is
shown by least counterexamples instead: the set of indices at which the statement
fails is a set of naturals; were it not empty, it would have a least element
(`Least`, from the well-foundedness of `<`), which one unfolding refutes.
`EventuallyDefined`, `LetGoIsReleased`, `KeptDefined`, `KeptUnique` and
`ReportsConcat` are proved in this way.

The refinement maps `pipe` to the reports in `events \o commands`. A step that
moves a command from one queue to the other leaves this sequence as it is
(`ReportsMove`), an accepted report is appended to it, the event channel takes
its head, and a full queue ends the receiver, which is the channel's break. Each
group of steps has its lemma (a step of the channel, or a stutter).

### What is only model-checked

The liveness properties: `DisableReleases`, `AccessoryWaitEnds`,
`ConnectingResolves`, `CancelReleases`, `QuitAnswered`, `CloseReleases`,
`SilentPeerEnds`, `CommandsExecuted`, `CallAudioEnds`, `MuteApplies`,
`OutdatedLeaves`, `RecoveryEnds`, `DisconnectEnds` and `HiddenReleases`. They
rest on fairness, and ENABLED is out of the prover's reach.

## 5. Not modelled

Byte-level work (framing, TLS, SRP and pairing cryptography, descriptors, NCM
and usbmux packets, image and audio data, rendering), configuration parsing and
logging are left out on purpose: their outcomes are steps that succeed or fail.
Of the modelled components these operations are still missing: discovery,
pairing prompts, adapter and phone selection (worker); recovery of an older
boot's marker at daemon start (attempt); touch, sensors, media keys and metadata
(session); player commands, profile connection and shutdown (music);
calibration and the configuration of a capture (camera); audio streams other
than their microphone, the Wi-Fi and HCI tools and the control program
(CarPlay). The components of the inventory without a module are listed in
`PROJECT.json` as not modelled, with the reason.

## 6. Plan

Done, in this order: USB owner, wireless attempt and worker, session engine,
music switch, proofs about the USB owner, microphone and calls, camera, CarPlay
with the refinement of `ReportChannel`, proofs about all of them.

Next:

1. An abstract `SessionLease` (one owner, acquire, publish, clean up, release):
   its refinement by `WirelessWorker`, and by `UsbRuntime` on one phone, as
   theorems on top of `LeaseOfAttempt` and `Single`.
2. Action properties for which the invariants already carry the argument: a
   gate generation never falls, a poisoned capture lease is never claimed again,
   nothing is enabled after a confirmed Quit.
3. Dart side of the protocol: `projection_service.dart`, the multiplex backend
   and recovery, the Home wait of `app_shell.dart` composed with `AaSession`
   through the coalescing snapshot; application exit composed with Quit.
4. `WirelessWorker`'s Quit composed with `Calls` instead of external answers;
   settings store write queue; lifecycle coordinator; restartable CAN provider.
5. `argoctl` activation and rollback with crashes.
