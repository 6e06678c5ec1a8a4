# Verification of fv-ssh-unlock

TLA+ models of fv-ssh-unlock, the controller that unlocks FileVault-protected
Macs over SSH, with the TLC runs that check them on small instances and the
TLAPS proofs that hold for every instance. `PROJECT.json` is the index: runs,
the source lines each definition models, hazards, findings, theorems.

## The system

| Part | State it keeps | Operations | What makes it correct |
| --- | --- | --- | --- |
| Monitor engine (`internal/monitor/engine.go`) | a record per Mac: state, lock episode, attempt marker, cooldown, latch; a lock per Mac; a semaphore | Poll, ClearLatch, AddDevice, New, RunOnce, Run | one credential per lock episode, durable before release; cooldown; latch until acknowledged; bounded concurrency |
| State file (`internal/monitor/store.go`, `internal/securefs/atomic.go`) | `monitor-state.json` | Load, Save | atomic replacement |
| SSH client (`pkg/fvcore/ssh_analyzer.go`) | the trace of one authentication | AnalyzePrompt, ProbeStatus, the transition watcher | the password leaves once, to a trusted key; a submission is never denied; success is never forged or hidden |
| Daemon adapter (`cmd/fv-ssh-unlock/daemon.go`) | configured devices, endpoint-down cache | Probe, Unlock, addDevice, removeDevice | the contract of `monitor.Unlocker` |
| Schedule and lifecycle (`engine.go`) | next check, failure counters, running and stopping | nextDelay, runDevice, Run | bounded backoff; no schedule is started after Run stopped waiting |
| Event stream (`engine.go`) | bounded history, subscribers | emitLocked, Subscribe, EventsSince | sequence numbers increase; a slow reader never blocks the engine |
| Candidate inbox (`internal/candidates`) | candidates by fingerprint | IngestMany, Ignore, Restore, MarkVerified, Expire | bounded; an ignored candidate stays ignored; one candidate per key |
| Enrollment (`daemon.go`, `hostkey.go`) | a claim per candidate | handleEnroll, rollbackEnrollment | all of the stores change or none |
| Host keys (`hostkey.go`) | `known_hosts`, pending keys | verify, commit, remove | a pinned key is never replaced silently |
| Configuration (`internal/config`, `automation.go`) | `devices.json` | Add, Update, Remove, apply | no lost update between processes |
| Manual unlock (`main.go`, `fvcore.go`) | none | unlockDeviceWithRetry, VerifyUnlock, UnlockMany | what it reports is true; nothing is submitted after a final answer or an interruption |
| Daemon process, control socket | requests in progress | runDaemon, shutdown, Listen | shutdown waits for what was accepted |
| Credentials, discovery, TUI, permissions | none worth modelling | | |

How they meet: `Run` starts a goroutine per Mac that calls `Poll`; control
requests call `Poll`, `ClearLatch` and, through enrollment, `AddDevice` from
their own goroutines. `Poll` calls the adapter outside the engine's mutex; the
adapter calls the SSH client, which runs two or three goroutines per
connection. Every save writes the records of all Macs to one file. Enrollment
runs in a control request; it and the commands `config` and `status`, in
processes of their own, share `devices.json` and `known_hosts` under file
locks. `runDaemon` starts the engine, the discovery and the control server and
joins them. The `unlock` command uses the SSH client without the daemon.

What is hard: two polls of one Mac; a crash between the marker, the submission
and the result; a save that fails halfway; a server that sends anything;
a deadline or the transition watcher that interferes while the answer arrives.
Outside the engine: an enrollment that changes four stores while commands of
other processes change two of them; a shutdown that meets requests, failures
and a second daemon; an interruption of the unlock command at any point.
The full list, by line, is under "hazards" in `PROJECT.json`.

## The modules

| Module | Content |
| --- | --- |
| `Unlocker` | what an unlock may report, and which reports are allowed after a submission |
| `UnlockContract` | abstract specification of one call of `Unlocker.Unlock` |
| `DeviceRecord` | the record of one Mac and the policy's effect on it, as functions |
| `MonitorEngine` | the engine: callers, locks, semaphore, state file, operator, crash, clock |
| `MCMonitorEngine` | instances for TLC |
| `SshClient` | one SSH operation and the adapter's report of it |
| `CandidateRecord` | one candidate and what observations, merges and reviews do to it, as functions |
| `CandidateInbox` | the inbox: rounds, reviews, labels, expiry, events, file, crash |
| `TrustFiles` | `devices.json` and `known_hosts`, and what one locked change does to them, as functions |
| `Enrollment` | enrollment requests, commands of other processes, the daemon's crash and start |
| `DaemonRun` | the daemon process: start, components, event stream, shutdown, lock, socket, another daemon |
| `ManualUnlock` | the unlock command: devices, retries, verification, interruption |
| `MCCandidateInbox`, `MCEnrollment`, `MCManualUnlock` | instances for TLC |
| `MonitorEngineProofs`, `SshClientProofs`, `CandidateInboxProofs`, `EnrollmentProofs`, `DaemonRunProofs`, `ManualUnlockProofs` | theorems, each about the module it is named after |
| `CandidateEventProofs` | theorem about the events of `CandidateInbox` |

Operators named *Faulty variant* are plausible mistakes in the code next to
them. No specification uses them; each is substituted for its neighbour once,
to see that the property it threatens notices.

### MonitorEngine

Variables follow the code: `record` is `managedDevice.record`, `opMu` the
per-device lock, `sem` the semaphore, `disk` the state file, `pc` and `target`
the position of each goroutine inside `Poll`.

| Action | Code |
| --- | --- |
| `PollBegin`, `PollLockOp`, `PollAcquire`, `PollCancelled` | `Poll` up to the probe, `acquire` |
| `ApplyProbe` | the probe returns and `applyProbe` runs under `Engine.mu`, its save included |
| `MarkUnlockStarted` | `markUnlockStarted`, its save included |
| `SubmitCredential` | the adapter sends the credential; the network sees it now |
| `ApplyUnlockResult` | the adapter returns and `applyUnlockResult` runs, its save included |
| `ClearLatch`, `AddDevice`, `New` | the functions of these names |
| `Crash`, `ClockTick` | environment |

A section under `Engine.mu` is one step: nothing else reads or writes the
records meanwhile, and a crash inside it is the crash before it (old file) or
after it (new file). A save has three outcomes: it succeeds, it fails and
leaves the old file, or the rename succeeds and the directory sync fails, which
reports an error with the new file in place.

Data abstraction: texts and timestamps nothing decides on are left out;
`NextUnlockEligibleAt` is the time still to wait, so that the clock is the
action that counts it down; `Latched` and `LatchKind` are one field.
`LatchReason` is compared by `persistenceRelevantChanged`; a repeated latching
failure may carry another reason, so `ApplyProbe` may or may not save in that
case. The backoff's loop is in closed form.

Three history variables record what the environment experienced: `submitted`
counts credentials since the last event that renews the permission, `cooling`
is the cooldown as an outsider would time it, `alarm` says whether a failure is
unacknowledged, and whether a crash erased it.

### SshClient

One operation, `AnalyzePrompt` (`op` is "unlock") or `ProbeStatus`. The server
is unconstrained: banners, requests without a question, password and other
questions in any order, new key exchanges, refusal, acceptance, silence,
disconnection. Texts are fragments: the two halves of the success banner (which
may come in two messages), the words "system is locked", anything else. The
watcher is a process of its own: its baseline connection, its wait for the
password, its ticks and its probes interleave with the handshake and with the
cancellation at its end.

`MonitorEngine` and `SshClient` are composed by contract. The engine's
`ApplyUnlockResult` takes any report in `AllowedReports(sent)`; `SshClient`
implements `UnlockContract`, which reports from the same set. The refinement
maps `phase` to "submitted" once the password was answered and to "returned"
at the end.

### CandidateInbox

| Action | Code |
| --- | --- |
| `IngestBegin` | start of `IngestMany`: copies for a rollback, `expireLocked` |
| `IngestKnown`, `IngestNew`, `IngestEvicting`, `IngestDropped` | the four ways through `ingestLocked` |
| `IngestAborted`, `IngestEnd` | `newCandidateID` fails; the save and its rollback |
| `MarkVerified`, `Restore` | the methods, called under `mutationMu` |
| `IgnoreDecide`, `Ignore`, `IgnoreNotFound` | `handleIgnore`: the check, and the call of `Inbox.Ignore` |
| `ReplaceConfiguredFingerprints`, `Expire`, `Open` | the functions of these names |
| `Crash`, `ClockTick` | environment |

Methods run under `Inbox.mu`; a round takes a step per observation only so that
it can be of any length and end anywhere. Nothing else runs meanwhile: visible
is what was there before (`Public`). An alias is an endpoint, a hostname or a
name; the three are told apart only where `matchesLocked` does. The daemon
stamps its observations before `IngestMany` takes the lock, so `observedAt` may
be older than what other rounds have recorded meanwhile, and `firstSeen` and
`lastSeen` are the earlier and the later of two times. IDs are random in the
code: a candidate has the number of its first event here, and where the code
takes the smallest ID the model takes any. `dropped` and `evicted` count for
display and are left out. A negative TTL, which the daemon does not use, is left
out.

The file is not the identity on texts. `normalizeObservation` bounds a name or
hostname in bytes and takes one dot off a hostname; `encoding/json` writes each
byte that is not UTF-8 as three. A text that is read back in a form that
`validateCandidate` refuses is in the constant `Unreadable`. The check of a
record by `Open` is therefore two operators: `validCandidate`, on state,
identity and times, which the inbox is responsible for, and
`readableCandidate`, on the texts. Sources, key types and evidence are words of
the daemon and of the SSH library and are left out; an address is put into the
form of `netip` before it is kept and is read back in it.

`vouched` is the history of keys an operator verified. A client is whoever read
a snapshot in the state before a step: `CursorComplete` quantifies over it, so
no variable is needed.

### Enrollment

| Action | Code |
| --- | --- |
| `BeginEnrollment`, `ProbeExpectedHostKey`, `ProbeFails`, `Recheck` | `handleEnroll` up to the second check: the claim, the probe without `mutationMu`, the lock |
| `AddContext`, `AddRefused`, `addDevice`, `EnrollmentCancelled` | registration in `devices.json` and in the adapter |
| `CommitPendingHostKey`, `CommitNothing`, `CommitRefused` | `commitPendingHostKey`: pinned, nothing left to pin, refused or failed |
| `EngineAddDevice`, `EngineAddFails`, `Enrolled`, `endEnrollment` | the engine, the inbox, the answer, the claim |
| `RollbackUnpin`, `RollbackUnregister`, `RollbackTimesOut` | `rollbackEnrollment` |
| `Discover`, `Expire`, `handleIgnore`, `handleRestore` | what happens to the candidate meanwhile |
| `Load`, `AddPrepared`, `AddSave`, `AutoUnlock`, `Apply`, `RemoveDevice`, `deleteStoredCredential`, `AcceptNew`, `CommandDies` | `config add`, `auto-unlock`, `apply`, `remove` and `status --accept-new-host-key` in other processes |
| `Crash`, `Start` | the daemon's process |

A change of a file under its lock is one step; only `config add` writes to the
keyring while it holds the lock of `devices.json`, and takes two. The request's
context may have ended wherever the code looks at it, so every such place is a
choice. A device is its name, host, credential source and flag; a line of
`known_hosts` a host and a key, counted. Of a candidate, its state in the inbox
is kept; `CandidateInbox` has the rest. Candidate IDs are random and are not
used twice: a candidate that expires is "gone", and its host comes back as
another candidate with the same key, never beside the first (the inbox keeps
candidates by fingerprint). The history variables say who wrote an
entry (`author`), which enrollments own a line (`line`), which lines are of
others (`foreign`), whose device a command has taken away (`excused`), and
whose line was written with an error and could then not be read back (`unread`).
An append that fails with the new file in place has two outcomes for that
reason: `knownHostLinePresent` finds the line, which is then the enrollment's
own, or it fails too, and the enrollment goes on as if it had none.

### DaemonRun

`main` is the position in `runDaemon`. `AcquireLock` to `StartComponents` are
the start, `Terminate`, `ContextEnded` and `ComponentEnded` what begins a
shutdown, `ShutdownReturns` to `ReleaseLock` its stages, with `JoinTimesOut` as
the way out of a join that takes too long. The engine's `RunStarts`,
`RunStops`, `RunReturns`, `AddDevice`, `PollReturns`, `TimerFires` and
`ScheduleEnds` are the lifecycle and the schedules. `Emit`, `EmitEvicts` and
`EmitPuts` are `emitLocked`: the two attempts to make room and to put the event
are steps, because the logger takes from the channel between them although the
engine's mutex is held. The other daemon is three states: off, holding the lock,
listening. What a poll or a request does is in the other modules; here it takes
time and publishes events. `nextDelay` is abstracted: a timer may fire at any
time.

### ManualUnlock

`Select`, `SetupFails`, `CredentialFound`, `CredentialMissing`, `PasswordTyped`
and `Report` are the loop over devices; `Attempt`, `AnalyzePrompt`, `Answered`,
`Retry`, `DelayPasses` and `WaitCancelled` are `unlockDeviceWithRetry`;
`VerifyBegins`, `VerifyWaits`, `ProbeStatus`, `WindowEnds` and `Verified` are
`VerifyUnlock` and what is made of its result. The Macs, the correctness of
each password and the interruption are the environment. `AnalyzePrompt` and
`ProbeStatus` return what `SshClient` allows for the state the Mac is in, a
lost answer after a password that was taken included.

## The runs

| Run | Instance | Result |
| --- | --- | --- |
| `engine` | one Mac, two callers, two slots, all probe and unlock results, all save outcomes, cooldown 2, backoff 1 to 2, two episodes | pass, 579,693 states |
| `fleet` | two Macs (one opted in), three callers, one slot, saves succeed, one episode, fairness | pass, 7,950 states |
| `liveness` | one Mac, two callers, one slot, saves succeed, fairness | pass, 20,886 states |
| `latch_loss` | as `engine`, one slot | violation, see findings |
| `ssh` | unlock or probe, three texts, fairness | pass, 126,087 states |
| `ssh_host_key_lost` | one text | violation, see findings |
| `inbox` | two entries, two keys at one address, Bonjour hosts, late observations, history of two, all save outcomes | pass, 743,565 states |
| `enroll` | two candidates of one key, two requests, two processes, three names (two collide), all save outcomes, three operations | pass, 1,367,221 states |
| `enroll_rollback` | one request | violation, see findings |
| `config_stale` | one device, two commands, saves succeed | violation, see findings |
| `daemon` | two devices (one configured), one request, queue of two, four events, another daemon, fairness | pass, 238,645 states |
| `manual` | two Macs, six argument lists, three attempts, fairness | pass, 419,468 states |

Properties of the engine:

- `AtMostOneSubmission`: neither crash, failed save nor concurrent poll earns a
  second credential before a boot or an operator renews the permission.
- `AttemptDurableBeforeRelease`: during a release, file and memory agree on the
  marker of this attempt and on why it was permitted.
- `CooldownBetweenAttempts`: boots, ClearLatch, refunds and crashes do not
  shorten the cooldown.
- `LatchRetained`: a failure stays latched and visible in the process until
  acknowledged, and after a restart unless the crash erased it.
- `NoReleaseBeforeAcknowledgement`: the stronger promise of the help text. It
  holds while saves succeed (`liveness`) and fails otherwise (`latch_loss`).
- `BoundedExclusiveOperations`: operations on one Mac, probes and unlocks alike,
  exclude each other, and those on all Macs never outnumber the slots. `engine`,
  with a slot for each caller, asks it of the lock, `fleet`, with one slot for
  two Macs, of the semaphore.
- `PollReturns` (`fleet`): under fairness, polls that wait for a lock whose
  holder waits for the slot of another Mac's poll all return.
- `EpisodeCounterNeverGoesBack`, and, under fairness, `UnlockEventuallyAttempted`.

Properties of the client: `KeepsContract` (the refinement),
`PasswordReleasedOnce`, `UnlockedIffSuccessHeard`, `OperationReturns`.

Properties of the inbox:

- `SavedStateLoads`: `Open` refuses a whole file for one
  candidate, and no sequence of operations writes a candidate it refuses for its
  state, identity or times, also when observations arrive late. It is the type
  invariant of the saved inbox too. It says nothing of a file with an unreadable
  text, which is refused (see Observations).
- `VerifiedByOperator`: merges, labels that come and go, restores and restarts
  never leave a verification that nobody made.
- `ReviewSurvives`: no round, however it ends, removes a reviewed key, changes
  it, or lifts an ignore.
- `CursorComplete`: a client is told to start over or can rebuild the inbox from
  its snapshot and the events.
- `RestartKeepsNumbers`: a snapshot from before a restart is never taken for a
  snapshot of another inbox with the same number, also after saves that failed
  with the new file in place.

Properties of enrollment and the files it shares:

- `LinesAccounted`: no rollback removes a line another process wrote, and no
  enrollment duplicates one, at whatever moment it appears.
- `OneKeyPerHost`: whoever comes second never adds another key to a host.
- `TrustBacked`: at no moment, and after no crash, is a key an enrollment pinned
  without the device it was pinned for, unless a command removed the device, the
  unpinning failed, or the line could not be read back.
- `RollbackComplete`, `AdapterMonitored`: what a failed enrollment leaves behind;
  of a rollback reported as complete, at most a line that could not be read back
  (see Observations).
- `EnrolledMeansPinned`: success means the host is pinned to the verified key.
- `CredentialBelongs`: an add that loses the race leaves no password behind.
- `OtherDevicesKept`: a writer changes only the device it is about.

Properties of the daemon's process: `StoppedMeansJoined` (nothing is running
and every event is logged when the log says so), `NoScheduleAfterRun`,
`NewestEventKept` (what waits in the queue is the unbroken run of events up to
the newest, so the lost ones are the oldest), `SocketKept`, `OneDaemon` (outside
the window of a join that timed out, see Observations), `FailureReported`, and
under fairness `StopEndsProcess`.

Properties of the unlock command: `UnlockedIsTrue`, `ExitIsHonest`,
`NothingNewAfterCancel` (after an interruption only the submission under way
goes through: none whose attempt began later), `NoSecretAfterAnswer` (which also
bounds the submissions by the configured attempts), and under fairness
`CommandEnds`.

### Bounds

Two callers are enough for every race on one device's lock, since a third can
only wait for the same lock. With a slot for each (`engine`) nothing but the
lock keeps them apart. In `fleet` one caller holds the only slot, one holds the
other Mac's lock and waits for the slot, and one waits for that lock: a fourth
could only join one of these waits. Two episodes give a boot between two
attempts (in `engine`). A cooldown of 2 against a backoff of 1 and 2
distinguishes the deadlines. `MaxConnectFailures` of 2 reaches the backoff's
maximum. `fleet` has one probe result and no connection refunds: its question is
the locks and the slots. That the file the Macs share undoes nobody's attempt or
latch is what the theorems say, for any number of Macs. Three texts cover both
halves of the success banner and one text before, between or after them. In the
inbox, two entries against three distinct hosts force evictions and drops, two
keys at one address with Bonjour aliases force ambiguous matches and merges, and
five event numbers suffice for a merge after a review and for an eviction after
two reviews. A save that fails with the new file in place leaves the inbox in
memory as a save that failed with the old one does, so the only new behaviour is
a restart that loads the new file; the action constraint `RestartWhenAhead`
explores just that. `MaxDelay` of 1 lets an observation be one tick late, which
is enough for each order of two observations; the action constraint
`LateWhenOvertaken` explores late rounds where another round has seen a
candidate since, which is where they differ from timely ones. `Unreadable` is
empty, so that `SavedStateLoads` is about every file; the theorem is for any
set.

In `enroll`, two requests, for one candidate or for one and its successor, and
any third operation give every race between two writers, with a third process
between; two of the three names collide as environment variables; both keys can
be presented by the one host. In `daemon`, a queue of two and four events give
two evictions, with and without a reader, in which the oldest and the newest
waiting event differ; the second device is the one a request adds; one start
suffices for everything but the reuse of a stale socket, which the other daemon
shows. Three attempts and two devices in `manual` give a first, a middle and a
last attempt and a next device. `MaxEpisodes`, `MaxConnectFailures`, `MaxTexts`,
`MaxSequence`, `MaxNow`, `MaxDelay`, `MaxOperations` and `MaxStarts` are the
only bounds in guards. Symmetry is used for callers, keys, candidates, requests
and processes, which no definition tells apart, and only in runs without
liveness.

### Fairness

Each Mac has a goroutine that polls it for ever (`runDevice`), so `PollBegin`
is strongly fair for a device even if requests use the callers in between. Go
mutexes hand over to a starving waiter and channel senders queue in order, so
taking the lock and the slot are strongly fair. Probe and unlock run under
timeouts, so their results are weakly fair. The service manager restarts the
process. Submission, the operator, cancellation and crashes are not fair. The
liveness runs use saves that succeed (a failed save of the marker deliberately
uses up the attempt in memory) and the probe results of the daemon's adapter.
In `SshClient` only the dial timeout, the connection deadline and the client's
own steps are fair; the server owes nothing.

In `DaemonRun` every goroutine goes on, polls, requests and rounds return
(strongly fair where they need the engine's mutex), and the two timers of the
shutdown fire. `handlers.Wait()` has no timer of its own, so
`StopEndsProcess` rests on requests that return; they carry the server's
deadlines and the cancelled `runCtx`. Schedules, signals and failures are not
fair. In `ManualUnlock` the command's own steps and the end of the window are
fair; the Macs and the user are not, and a prompt may stay open for ever.

`ssh`, `daemon` and `manual` model something that ends, so deadlock checking is
off there.

## Findings

1. `latch_loss`. "Credential and host-key failures latch until an operator
   intervenes". A latch whose save failed is not written again by later polls
   that change nothing, so a crash loses it and the credential is released.
2. `ssh_host_key_lost`. A host-key error is replaced by `ctx.Err()` if the
   context has ended by then, and reported as unreachable.
3. `enroll_rollback`. "an enrollment that fails after this point is rolled back
   completely". When `AddContext` reports an error with the new file in place,
   there is no rollback: the request is answered as failed and the device stays.
4. `config_stale`. `config auto-unlock` loads the device before it takes the
   lock and writes all of it back, so a change made in between is undone.

### Observations

Disagreements met while modelling, without a run of their own. The first three are
paths of the models that the properties except by name.

- docs/discovery-and-scanning.md:105 says "An ignored candidate remains durable
  until restored through the local API." A name of at most 256 bytes, more than 85
  of them not UTF-8, is accepted, saved with three bytes for each of these, and too
  long when read back (`store.go:125`); a hostname with two dots at its end keeps
  one and is refused for it. `Open` then refuses the whole file and the daemon
  does not start (`daemon.go:283`). In the model the text is in `Unreadable`.
- `daemon.go:1398` says "A zero pinned key means the host key was never recorded."
  When the append fails with the new `known_hosts` in place and the file cannot be
  read back (`hostkey.go:231`), the rollback gets a zero key, removes the device,
  leaves the line and counts as complete; the answer has the error of the read. In
  the model the request is in `unread`.
- docs/daemon-and-tui.md:419 calls `daemon.lock` the "Process lock preventing two
  controllers from sharing state". After a join that timed out (`daemon.go:385`) it
  is released while a component is still running, until the process is gone. In
  the model `failure` is "timeout".

- `ErrUnlockOutcomeUnknown` is documented as "before a success or rejection
  response was observed" (`ssh_analyzer.go:248`). The cancellation at the end of
  the handshake can fail the watcher's second probe, which then marks a
  transition: a refused password becomes an unknown outcome.
- docs/daemon-and-tui.md:132 requires "the complete, distinctive FileVault
  locked banner"; `ProbeStatus` decides on "system is locked" (`lockedSeen`).
- An interruption during the verification of the last attempt can be noticed as
  an indeterminate probe or lose the `select` against the end of the window. The
  device is then reported as not unlocked and a command for several devices goes
  on to the next one's credential, contrary to `main.go:1056`; no password is
  sent, because `Attempt` looks at the context first.
- A device removed by `config remove` stays in the running engine. Enrolled again
  under its name, the engine refuses it as a duplicate and the rollback takes the
  adapter's entry away, while the engine goes on polling the name.
- `config remove` deletes the stored credential after it released the lock: a
  device added again under the name in between loses its password.
- Names by fingerprint (`Inbox.configured`) are refreshed at the start and after
  an enrollment only; other processes' changes show after a restart.
- `cleanupListener.Close` removes the socket by path. The daemon lock protects it
  as long as daemons that share a socket path share the data directory.
- docs/logging-and-siem.md:164 says an observation is dropped "because every
  entry was operator-reviewed"; the entries of the same round are protected too
  (`inbox.go:299`).
- docs/logging-and-siem.md:165 says of `candidate.expired` "An unreviewed
  candidate aged out"; verified ones expire as well (`inbox.go:467`).
- docs/daemon-and-tui.md:306 says that a managed entry cannot be ignored; a round
  between the check of `handleIgnore` and its call of `Ignore` can make the
  candidate managed (`daemon.go:1147`).
- `inbox.go:222` says "A full inbox must never fail the round". The limit of 4 MiB
  on the file (`store.go:79`), 1 KiB for each of 4096 candidates, can: an endpoint
  takes about 200 bytes, and endpoints and names are never removed from a
  candidate.

## The proofs

`MonitorEngineProofs` proves, for all sets of devices and callers and all
values of the other constants allowed by `RecordAssumption` and
`EngineAssumption`: `TypeCorrect`, `OneSubmission`, `DurableBeforeRelease`,
`CooldownRespected`, `LatchKept`, `OperationsBounded`, `EpisodesAreNumbered` and
`AcknowledgedBeforeRelease`.

None of these is inductive alone. That a second submission is impossible
depends on the marker being on disk (for a crash) and in memory (for a poll),
on no other caller being past the policy check for the same device (the lock),
and on a device nobody manages having no memory of its own. `IInv` is the
conjunction of the type invariant, `LockInv` (a caller past the lock holds it
and polls a managed device) and, for each device, `MarkInv`, `ReleaseInv`,
`SubmissionInv`, `CooldownInv`, `LatchInv` and `UnmanagedInv`. The proof goes in
two layers: types and locks for the whole state, then one device at a time. A
step about another device changes of this one at most the file, which then
equals memory (`OthersKeep`), so each action has one lemma about the device it
is about. `CooldownRespected` is an action property: the policy check reads
`EligibleIn`, which `CooldownInv` keeps at or above the outsider's clock.

Three theorems take one more conjunct each on top of `IInv`. `OperationsBounded`
needs `SlotInv`, that whoever is between acquire and release holds a slot, and
`LockInv`, that he holds the lock of his Mac, for a probe as for an unlock.
`EpisodesAreNumbered` needs `EpisodeInv`, that the file is never ahead of memory;
then a save can only raise the number. `AcknowledgedBeforeRelease` assumes
`SaveOutcomes = {"ok"}`, without which it is false (`latch_loss`), and needs
`AgreeInv`, that file and memory agree on the latches.

`SshClientProofs` proves `UnlockerKeepsContract`: with `AnswerPassword`, the
client implements `UnlockContract`. The invariant is small (`TraceInv`: an
answered prompt was prompted, and an answer exists only after the dial); the
content is `AnsweredReport`, that no classification of an answered attempt is a
pre-submission failure. `PasswordIsReleasedOnce` needs in addition that the
number of releases follows `answered`, and that authentication goes on only
under a trusted key (`SecretInv`). `UnlockedMeansSuccess` needs `SuccessInv`: the
text the client has kept is what was heard since the answer, and the success
banner in it ends authentication with an error that only the end of the context
replaces. `ClientTypeCorrect` is the type invariant, for any number of server
messages: every text, error and watcher state the client can meet leads to a
status the adapter knows.

`DaemonRunProofs` proves, for all sets of devices and requests, all queue sizes
and any number of restarts allowed by `DaemonAssumption`:

- `SocketIsKept`, from `OwnerInv`: the lock is held exactly by a process that is
  between its start and its last deferred call, or by the other daemon, and a
  server serves only while `runDaemon` runs. Whoever touches the socket holds
  the lock, and holds it until it has closed its listener.
- `RunJoinsSchedules`, from `ScheduleInv`: `AddDevice` starts a schedule only
  while Run is running and not stopping, so the set Run waits for cannot grow
  behind it.
- `NewestEventIsKept`, from `QueueInv` and `StartInv`: the queue holds
  consecutive numbers that end with the last event offered, whatever is taken at
  its head by the reader or by the eviction; there is room for the event by the
  time it is put, because nobody else puts.
- `DaemonTypeCorrect`, from `AnswerInv`: the answers taken, the answers waiting
  and the components that have yet to answer are at most three, so `errCh`, which
  has three places, never blocks a component that ends.
- `OneDaemonRuns`, from `OwnerInv` and `JoinInv`: each stage of the shutdown that
  ended without a timeout leaves its components quiet, and nothing of them starts
  again.
- `StopIsComplete`, from `JoinInv` and `DrainInv`: the logger ends only on an
  empty queue, after the engine that fills it.
- `FailureIsReported`, from `FailureInv`: the error of a server that failed waits
  in `errCh` until `runDaemon` keeps it, whatever other answers are taken first.

`ManualUnlockProofs` proves, for all device lists, argument lists and numbers of
attempts allowed by `CommandAssumption` (names are strings):
`UnlockedReportsAreTrue`, `ExitStatusIsHonest`, `CancelIsFinal` and
`NoSecretIsRepeated`. `CommandInv` has a conjunct for each argument. `TruthInv`
and `VerifyInv`: "unlocked" is said after an answer or a probe that showed it,
and a Mac once unlocked stays so. `HeardInv` and `SentInv`: a final answer ends
the loop of attempts for its device, and the passwords sent to a device are
counted by the attempts. `ExitInv`: the devices of the loop are the ones asked
for. `LateInv`: a submission after an interruption belongs to an attempt that
began before it, and is the last, because every way to another attempt looks at
the context. `LoopInv`: the devices before the current one have their outcome, the
others have none.

`EnrollmentProofs` proves, for all sets of candidates, requests, processes,
names, hosts and keys allowed by `EnrollmentAssumption` (requests are not
processes): `TypesAreKept`, `LinesAreAccounted`, `TrustIsBacked`,
`RollbackIsComplete`, `AdapterIsMonitored`, `CredentialsBelong`,
`SuccessMeansPinned` and `OtherEntriesAreKept`, and `OneKeyIsKept` from the
hypothesis `OneKeyAtStart`, that the file the system finds has one key per host
(a file with two would keep them). `EnrollInv` rests on three arguments:

- `mutationMu` has one holder (`MutexInv`), so the position of the request that
  holds it says which line of `known_hosts` is its own (`PinnedInv`,
  `AccountInv`) and which entry of `devices.json` it wrote (`OwnedInv`,
  `AdapterInv`). A request in `unread` is the one case in which the position
  does not tell, and the invariants say of it only that the line is its own.
- The probe runs without `mutationMu`, so a request may find the key already
  pinned by another enrollment, which then rolls back. It does not then succeed
  without a pin: the inbox shows one candidate per key (`CandidateInv`), so the
  two requests are about two candidates in succession, and the second check
  refuses the one that is gone (`RivalInv`); the line on which the other relies
  stays (`LineHeldInv`).
- `config add` holds the lock of `devices.json` from the check of the name over
  the keyring to the save (`PreparedInv`), so the password it leaves belongs to
  the entry it writes, and an entry has one author (`AuthorInv`, `EntryInv`).

The second argument was missing from an earlier model, in which an expired
candidate came back under its old ID: with two candidates of one key, success
without a pin was possible there. The code does not allow it, because IDs are
drawn afresh.

`CandidateInboxProofs` proves, for all sets of keys, hosts and aliases and all
limits allowed by the assumptions: `ReadableFileLoads`, `VerificationHasReason`,
`NumbersSurviveRestart` and `ReviewsSurvive`. A failed save restores the copy
made at the start of the round, a crash loads the file, so what is needed of the
inbox must hold of memory, copy and file at once: `SoundInv` says that each is
`Sound` (every candidate passes `validCandidate`, is labelled as the configured
names say, is verified only by an operator or by its label, has a key of its own
and a number the sequence has passed, and there are at most `MaxEntries`). That
merged times stay in order needs the least and the greatest element of a finite
set of times (`MinMaxTimes`), which exist because `<` on the naturals is well
founded. `ReadableFileLoads` assumes of the file that its texts can be read back;
without that it is false (see Observations).
`EventInv` and `RestartKeepsNumbers` relate the three sequence numbers.
`ReviewsSurvive` is about a round of any
length; `KeptInv` compares the inbox in the middle of it with the copy.

`CandidateEventProofs` proves `ClientsCanFollow` (`CursorComplete`) on top of
`InboxInv`. What a client rebuilds is decided, for each candidate, by the last
event that mentions it. `Tells(v, S, es)` says that the events of `S` decide in
this way that `v` has become `es`; it is kept by one more event that tells its
own effect (`TellsMore`), and a set of candidates that change at once is told by
one event for each, in any order (`TellsEach`, by counting: an order of the set
leaves nobody out). `CursorInv` is that the history is without gaps up to the
number a snapshot shows, and that in the middle of a round the pending events
tell how the copy became the inbox. Then the bounded history holds all of the
events of an operation, or its first number gives the loss away
(`CompleteWhenTold`).

### Only model-checked

- The liveness properties `PollReturns`, `UnlockEventuallyAttempted`,
  `OperationReturns`, `StopEndsProcess` and `CommandEnds`: liveness under
  fairness is out of this prover's reach.
- What the four runs with a violation refute is false as it stands;
  `NoReleaseBeforeAcknowledgement` is proved for saves that succeed.

Every other invariant and action property of a passing run is a theorem.
Conversely the type invariants of the engine, the client and the daemon are
theorems only (`TypeCorrect`, `ClientTypeCorrect`, `DaemonTypeCorrect`).

## What is left, in order

1. The arithmetic of `nextDelay` and `durationSum`, and the endpoint-down cache.
2. The history behind `EventsSince` of the monitor.

## Not modelled

Presentation (terminal UI, tables, JSON), parsing of files and flags, discovery
and scanning protocols, operating-system permissions, credential providers, key
files and the agent keep no state another part depends on; their failures are
part of the models as choices. The mock server is a test fixture. The worker
pool of `UnlockMany` is only ever called with one device and one worker.
