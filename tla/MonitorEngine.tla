---------------------------- MODULE MonitorEngine ----------------------------
(***************************************************************************)
(* The monitor engine of the daemon (internal/monitor/engine.go): polls of *)
(* the managed Macs by concurrent callers, the automatic-unlock policy,    *)
(* the operator's ClearLatch, the state file, and crashes and restarts of  *)
(* the process.                                                            *)
(*                                                                         *)
(* A caller is a goroutine that calls Engine.Poll: the schedule of a       *)
(* device (runDevice), RunOnce, or a request handler.  A step of a caller  *)
(* is what it does between two points at which another goroutine, the      *)
(* network or a crash can interfere: the section under Engine.mu, a lock   *)
(* operation, or a call of the prober or unlocker.                         *)
(*                                                                         *)
(* The events the engine emits are not part of this module.                *)
(***************************************************************************)
EXTENDS DeviceRecord, FiniteSets

CONSTANTS
    Devices,       \* the names a device can have
    AutoDevices,   \* those with AutoUnlock set
    Callers,       \* goroutines that may poll
    NoCaller,      \* "nobody holds the lock"
    NoDevice,      \* "no poll in progress"
    Concurrency,   \* Options.Concurrency, the capacity of Engine.sem
    Probes,        \* the results of a probe that are considered
    SaveOutcomes   \* what Store.Save may do, of SaveResults

\* WritePrivate writes a temporary file and renames it over the state file.
\* An error before the rename leaves the old file ("failOld"); the rename may
\* also succeed and the sync of the directory fail, which reports an error
\* with the new file in place ("failNew").
SaveResults == {"ok", "failOld", "failNew"}

ASSUME EngineAssumption ==
    /\ AutoDevices \subseteq Devices
    /\ NoCaller \notin Callers
    /\ NoDevice \notin Devices
    /\ Concurrency \in Nat \ {0}
    /\ Probes \subseteq ProbeOutcomes
    /\ SaveOutcomes \subseteq SaveResults

VARIABLES
    up,        \* the daemon process runs with a constructed engine
    managed,   \* the keys of Engine.devices
    record,    \* managedDevice.record of the managed devices, else fresh
    disk,      \* the records in monitor-state.json, fresh where absent
    pc,        \* where each caller is in Poll
    target,    \* the device each caller polls
    opMu,      \* the holder of managedDevice.opMu
    sem,       \* the callers that hold a slot of Engine.sem
    (***********************************************************************)
    (* History variables: no guard reads them.                             *)
    (***********************************************************************)
    submitted, \* credentials sent to the device since it was last observed
               \* booted or the operator last intervened
    cooling,   \* time left of the cooldown of the last attempt that may have
               \* sent a credential
    alarm      \* a credential or host-key failure the operator has not
               \* acknowledged: "seen", or "lost" when a crash erased it

procVars    == <<up, managed>>
callerVars  == <<pc, target, opMu, sem>>
historyVars == <<submitted, cooling, alarm>>
vars        == <<procVars, record, disk, callerVars, historyVars>>

Locations == {"idle", "lockOp", "acquire", "probe", "mark", "unlock", "submitted"}

TypeOK ==
    /\ up \in BOOLEAN
    /\ managed \in SUBSET Devices
    /\ record \in [Devices -> DeviceRecords]
    /\ disk \in [Devices -> DeviceRecords]
    /\ pc \in [Callers -> Locations]
    /\ target \in [Callers -> Devices \cup {NoDevice}]
    /\ opMu \in [Devices -> Callers \cup {NoCaller}]
    /\ sem \in SUBSET Callers
    /\ submitted \in [Devices -> Nat]
    /\ cooling \in [Devices -> Nat]
    /\ alarm \in [Devices -> {"none", "seen", "lost"}]

\* The process has not been started and there is no state file.
Init ==
    /\ up = FALSE
    /\ managed = {}
    /\ record = [d \in Devices |-> FreshRecord]
    /\ disk = [d \in Devices |-> FreshRecord]
    /\ pc = [c \in Callers |-> "idle"]
    /\ target = [c \in Callers |-> NoDevice]
    /\ opMu = [d \in Devices |-> NoCaller]
    /\ sem = {}
    /\ submitted = [d \in Devices |-> 0]
    /\ cooling = [d \in Devices |-> 0]
    /\ alarm = [d \in Devices |-> "none"]

-----------------------------------------------------------------------------
(* Persistence *)

\* persistLocked saves the records of every managed device.
Saved(records, res) == disk' = IF res = "failOld" THEN disk ELSE records

\* Faulty variant of Return: the slot of the semaphore leaks.
ReturnLeaks(c) ==
    /\ pc' = [pc EXCEPT ![c] = "idle"]
    /\ target' = [target EXCEPT ![c] = NoDevice]
    /\ opMu' = [opMu EXCEPT ![target[c]] = NoCaller]
    /\ sem' = sem

\* The caller returns from Poll: the deferred release and Unlock.
Return(c) ==
    /\ pc' = [pc EXCEPT ![c] = "idle"]
    /\ target' = [target EXCEPT ![c] = NoDevice]
    /\ opMu' = [opMu EXCEPT ![target[c]] = NoCaller]
    /\ sem' = sem \ {c}

GoTo(c, loc) ==
    /\ pc' = [pc EXCEPT ![c] = loc]
    /\ UNCHANGED <<target, opMu, sem>>

-----------------------------------------------------------------------------
(* Engine.Poll *)

PollBegin(c, d) ==
    /\ up
    /\ pc[c] = "idle"
    /\ d \in managed
    /\ pc' = [pc EXCEPT ![c] = "lockOp"]
    /\ target' = [target EXCEPT ![c] = d]
    /\ UNCHANGED <<procVars, record, disk, opMu, sem, historyVars>>

\* Faulty variant: the lock of the device is not awaited.
PollLockOpAnyway(c) ==
    /\ pc[c] = "lockOp"
    /\ opMu' = [opMu EXCEPT ![target[c]] = c]
    /\ pc' = [pc EXCEPT ![c] = "acquire"]
    /\ UNCHANGED <<procVars, record, disk, target, sem, historyVars>>

PollLockOp(c) ==
    /\ pc[c] = "lockOp"
    /\ opMu[target[c]] = NoCaller
    /\ opMu' = [opMu EXCEPT ![target[c]] = c]
    /\ pc' = [pc EXCEPT ![c] = "acquire"]
    /\ UNCHANGED <<procVars, record, disk, target, sem, historyVars>>

\* Faulty variant: one slot too many.
PollAcquireOneMore(c) ==
    /\ pc[c] = "acquire"
    /\ Cardinality(sem) <= Concurrency
    /\ sem' = sem \cup {c}
    /\ pc' = [pc EXCEPT ![c] = "probe"]
    /\ UNCHANGED <<procVars, record, disk, target, opMu, historyVars>>

PollAcquire(c) ==
    /\ pc[c] = "acquire"
    /\ Cardinality(sem) < Concurrency
    /\ sem' = sem \cup {c}
    /\ pc' = [pc EXCEPT ![c] = "probe"]
    /\ UNCHANGED <<procVars, record, disk, target, opMu, historyVars>>

\* The context of the poll ends while it waits for a slot.
PollCancelled(c) ==
    /\ pc[c] = "acquire"
    /\ Return(c)
    /\ UNCHANGED <<procVars, record, disk, historyVars>>

\* Probe returns o and applyProbe records it.  The record in memory keeps
\* the change when the save fails, and the poll ends there.  A repeated
\* latching failure with another reason text is saved as well.
ApplyProbe(c, o, res) ==
    LET d     == target[c]
        after == ProbedRecord(record[d], o)
        now   == [record EXCEPT ![d] = after]
        saves == \/ persistenceRelevantChanged(record[d], after)
                 \/ o.kind \in LatchingKinds
        should == o.kind = "observed" /\ o.state = "locked"
                     /\ d \in AutoDevices /\ MayUnlock(after)
    IN  /\ pc[c] = "probe"
        /\ ProbeWithinBounds(record[d], o)
        /\ record' = now
        /\ \/ /\ saves
              /\ Saved(now, res)
           \/ /\ ~persistenceRelevantChanged(record[d], after)
              /\ res = "ok"
              /\ UNCHANGED disk
        /\ IF should /\ res = "ok" THEN GoTo(c, "mark") ELSE Return(c)
        /\ submitted' = IF o.kind = "observed" /\ o.state = "booted"
                        THEN [submitted EXCEPT ![d] = 0] ELSE submitted
        /\ alarm' = IF o.kind \in LatchingKinds
                    THEN [alarm EXCEPT ![d] = "seen"] ELSE alarm
        /\ UNCHANGED <<procVars, cooling>>

\* Faulty variant: a failed save of the marker does not stop the release.
MarkUnlockStartedAnyway(c, res) ==
    LET d      == target[c]
        marked == [record EXCEPT ![d] = Marked(@)]
    IN  /\ pc[c] = "mark"
        /\ MayUnlock(record[d])
        /\ Saved(marked, res)
        /\ record' = marked
        /\ GoTo(c, "unlock")
        /\ cooling' = [cooling EXCEPT ![d] = Cooldown]
        /\ UNCHANGED <<procVars, submitted, alarm>>

\* markUnlockStarted checks the policy again and makes the attempt marker
\* durable; a save that fails ends the poll with the marker kept in memory.
MarkUnlockStarted(c, res) ==
    LET d      == target[c]
        marked == [record EXCEPT ![d] = Marked(@)]
    IN  /\ pc[c] = "mark"
        /\ IF record[d].State = "locked" /\ d \in AutoDevices /\ MayUnlock(record[d])
           THEN /\ Saved(marked, res)
                /\ IF res = "ok"
                   THEN /\ record' = marked
                        /\ GoTo(c, "unlock")
                        /\ cooling' = [cooling EXCEPT ![d] = Cooldown]
                   ELSE /\ record' = [marked EXCEPT ![d].State = "error"]
                        /\ Return(c)
                        /\ UNCHANGED cooling
           ELSE UNCHANGED <<record, disk, cooling>> /\ Return(c)
        /\ UNCHANGED <<procVars, submitted, alarm>>

\* The unlocker sends the credential to the Mac.
SubmitCredential(c) ==
    /\ pc[c] = "unlock"
    /\ GoTo(c, "submitted")
    /\ submitted' = [submitted EXCEPT ![target[c]] = @ + 1]
    /\ UNCHANGED <<procVars, record, disk, cooling, alarm>>

\* Unlock returns o and applyUnlockResult records it.
ApplyUnlockResult(c, o, res) ==
    LET d   == target[c]
        now == [record EXCEPT ![d] = UnlockedRecord(@, o)]
    IN  /\ pc[c] \in {"unlock", "submitted"}
        /\ o \in AllowedReports(pc[c] = "submitted")
        /\ UnlockWithinBounds(record[d], o)
        /\ record' = now
        /\ Saved(now, res)
        /\ Return(c)
        /\ alarm' = IF o \in LatchingKinds THEN [alarm EXCEPT ![d] = "seen"] ELSE alarm
        /\ cooling' = IF o \in PreSubmissionKinds
                      THEN [cooling EXCEPT ![d] = 0] ELSE cooling
        /\ UNCHANGED <<procVars, submitted>>

-----------------------------------------------------------------------------
(* The operator, the process and the clock *)

\* ClearLatch waits for opMu and rolls back when the save fails.  A new file
\* in place after a failed save is an acknowledgement all the same.
ClearLatch(d, res) ==
    LET cleared == [record EXCEPT ![d] = ClearedRecord(@)]
        acked   == res # "failOld"
    IN  /\ up
        /\ d \in managed
        /\ opMu[d] = NoCaller
        /\ Clearable(record[d])
        /\ Saved(cleared, res)
        /\ record' = IF res = "ok" THEN cleared ELSE record
        /\ submitted' = IF acked THEN [submitted EXCEPT ![d] = 0] ELSE submitted
        /\ alarm' = IF acked THEN [alarm EXCEPT ![d] = "none"] ELSE alarm
        /\ UNCHANGED <<procVars, callerVars, cooling>>

\* AddDevice exposes the device only when its first record was saved.
AddDevice(d, res) ==
    /\ up
    /\ d \notin managed
    /\ Saved(record, res)
    /\ managed' = IF res = "ok" THEN managed \cup {d} ELSE managed
    /\ UNCHANGED <<up, record, callerVars, historyVars>>

\* The process ends, wherever its callers are.
Crash ==
    /\ up
    /\ up' = FALSE
    /\ managed' = {}
    /\ record' = [d \in Devices |-> FreshRecord]
    /\ pc' = [c \in Callers |-> "idle"]
    /\ target' = [c \in Callers |-> NoDevice]
    /\ opMu' = [d \in Devices |-> NoCaller]
    /\ sem' = {}
    /\ alarm' = [d \in Devices |->
                   IF alarm[d] = "seen" /\ ~Latched(disk[d]) THEN "lost" ELSE alarm[d]]
    /\ UNCHANGED <<disk, submitted, cooling>>

\* New restores the records of the configured devices.  The configuration
\* may have changed while the process was down; a device taken out of it has
\* been dealt with by the operator.
New(configured) ==
    LET kept(f, default) == [d \in Devices |-> IF d \in configured THEN f[d] ELSE default]
    IN  /\ ~up
        /\ up' = TRUE
        /\ managed' = configured
        /\ record' = kept(disk, FreshRecord)
        /\ submitted' = kept(submitted, 0)
        /\ cooling' = kept(cooling, 0)
        /\ alarm' = kept(alarm, "none")
        /\ UNCHANGED <<disk, callerVars>>

\* The wall clock advances past the next instant that matters to a deadline.
ClockTick ==
    /\ record' = [d \in Devices |-> AgedRecord(record[d])]
    /\ disk' = [d \in Devices |-> AgedRecord(disk[d])]
    /\ cooling' = [d \in Devices |-> TickDown(cooling[d])]
    /\ UNCHANGED <<procVars, callerVars, submitted, alarm>>

-----------------------------------------------------------------------------
CallerStep(c) ==
    \/ PollLockOp(c)
    \/ PollAcquire(c)
    \/ PollCancelled(c)
    \/ \E res \in SaveOutcomes :
          \/ \E o \in Probes : ApplyProbe(c, o, res)
          \/ MarkUnlockStarted(c, res)
          \/ \E o \in UnlockOutcomes : ApplyUnlockResult(c, o, res)
    \/ SubmitCredential(c)

Next ==
    \/ \E c \in Callers, d \in Devices : PollBegin(c, d)
    \/ \E c \in Callers : CallerStep(c)
    \/ \E d \in Devices, res \in SaveOutcomes : ClearLatch(d, res) \/ AddDevice(d, res)
    \/ Crash
    \/ \E configured \in SUBSET Devices : New(configured)
    \/ ClockTick

Spec == Init /\ [][Next]_vars

\* What keeps happening.  Run gives every managed device a goroutine of its
\* own that polls it again and again; a Go mutex and a channel send hand over
\* in order, so a waiter is not passed over for ever; both network calls have
\* a timeout; time passes; a supervisor restarts the process.  Operators,
\* crashes and cancelled requests are under no obligation.
Fairness ==
    /\ \A d \in Devices : SF_vars(\E c \in Callers : PollBegin(c, d))
    /\ \A c \in Callers :
          /\ SF_vars(PollLockOp(c))
          /\ SF_vars(PollAcquire(c))
          /\ WF_vars(\E res \in SaveOutcomes, o \in Probes : ApplyProbe(c, o, res))
          /\ WF_vars(\E res \in SaveOutcomes : MarkUnlockStarted(c, res))
          /\ WF_vars(\E res \in SaveOutcomes, o \in UnlockOutcomes :
                       ApplyUnlockResult(c, o, res))
    /\ WF_vars(ClockTick)
    /\ WF_vars(\E configured \in SUBSET Devices : New(configured))

FairSpec == Spec /\ Fairness

-----------------------------------------------------------------------------
(* Properties *)

\* A credential is on its way to the device of this caller.
Releasing(c) == pc[c] \in {"unlock", "submitted"}

\* At most one credential is sent to a Mac between two events that renew the
\* permission: observing it booted, or an operator's intervention.  Neither
\* a crash at any point, nor a failed write of the state file, nor another
\* poll of the same device earns a second attempt (docs/daemon-and-tui.md:
\* restarting "cannot erase an attempt marker and cause the same locked
\* episode to be hammered with passwords").
AtMostOneSubmission == \A d \in Devices : submitted[d] <= 1

\* While a credential is being released, the marker of exactly this attempt
\* is on disk: a crash now cannot lose the attempt, its episode or its
\* cooldown.  The release was permitted by a locked observation of an opted
\* in device that is not latched, and the record still says so.
AttemptDurableBeforeRelease ==
    \A c \in Callers : Releasing(c) =>
        LET d == target[c]
        IN  /\ d \in AutoDevices
            /\ disk[d] = record[d]
            /\ record[d].State = "unlocking" /\ record[d].LastObservation = "locked"
            /\ record[d].LockEpisodeOpen /\ record[d].UnlockAttempted
            /\ ~Latched(record[d])

\* The cooldown of an attempt that may have sent a credential has run out
\* when markUnlockStarted authorizes the next one, whatever happened in
\* between: a crash before or after the submission, a boot, the operator's
\* ClearLatch, or failed attempts with their shorter backoff.
CooldownBetweenAttempts ==
    [][\A c \in Callers :
          (pc[c] = "mark" /\ pc'[c] = "unlock") => cooling[target[c]] = 0]_vars

\* A credential or host-key failure stays latched and visible in the running
\* process until the operator clears it, whatever later probes observe, and
\* the restarted process still has it unless the crash erased it.
LatchRetained ==
    \A d \in Devices : alarm[d] = "seen" =>
        LET r == IF up THEN record[d] ELSE disk[d]
        IN  Latched(r) /\ (r.State = stateForLatch(r.LatchKind))

\* From its lock to its return a poll has its device to itself: the probe,
\* the policy, the marker, the submission and the result that two callers
\* would otherwise mix are those of one.
Operating(c) == pc[c] \notin {"idle", "lockOp"}

\* The network operations: a probe, and a submission with what leads up to it.
OnNetwork(c) == pc[c] \in {"probe", "mark", "unlock", "submitted"}

\* At most one poll operates on a device at a time, whoever asked for it, and
\* there are no more network operations at once than Options.Concurrency,
\* over all devices.  Neither bound implies the other.
BoundedExclusiveOperations ==
    /\ \A c1, c2 \in Callers :
          (Operating(c1) /\ Operating(c2) /\ target[c1] = target[c2]) => c1 = c2
    /\ Cardinality({c \in Callers : OnNetwork(c)}) <= Concurrency

\* The number of the lock episode in the state file, by which logs of
\* different runs are correlated, never goes back while the device stays
\* configured: not by a crash between two saves, nor by a save that another
\* device's poll makes.
EpisodeCounterNeverGoesBack ==
    [][\A d \in managed : disk'[d].LockEpisode >= disk[d].LockEpisode]_vars

\* Every poll returns: waiting for a device's lock while its holder waits for
\* a slot is never a deadlock, and no caller starves.
PollReturns == \A c \in Callers : pc[c] # "idle" ~> pc[c] = "idle"

\* A Mac that may be unlocked is: when an opted in device is seen locked with
\* its attempt unused and no latch, the daemon releases the credential unless
\* a later probe sees something else, a failure latches, or the process ends.
\* The cooldown and the backoff delay the attempt and never cancel it.
UnlockEventuallyAttempted ==
    \A d \in AutoDevices :
        (/\ up /\ d \in managed
         /\ record[d].LastObservation = "locked"
         /\ ~record[d].UnlockAttempted /\ ~Latched(record[d]))
        ~> \/ \E c \in Callers : Releasing(c) /\ target[c] = d
           \/ record[d].LastObservation # "locked"
           \/ Latched(record[d])
           \/ ~up

\* The daemon's help text: "Credential and host-key failures latch until an
\* operator intervenes" (cmd/fv-ssh-unlock/daemon.go).  No credential is
\* released to a device whose failure nobody acknowledged.
NoReleaseBeforeAcknowledgement ==
    \A c \in Callers : Releasing(c) => alarm[target[c]] = "none"
=============================================================================
