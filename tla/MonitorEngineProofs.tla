------------------------- MODULE MonitorEngineProofs -------------------------
(***************************************************************************)
(* Theorems about MonitorEngine for every set of devices and callers and   *)
(* every value of the other constants.  All of them rest on one inductive  *)
(* invariant, IInv; the last three strengthen it by a conjunct each.       *)
(***************************************************************************)
EXTENDS MonitorEngine, FiniteSetTheorems, TLAPS

-----------------------------------------------------------------------------
(* The inductive invariant *)

\* A process that is down manages nothing.  A caller past its first step
\* polls a managed device, and past opMu.Lock it is the holder of that
\* device's lock.
LockInv ==
    /\ ~up => managed = {}
    /\ \A c \in Callers :
          /\ pc[c] # "idle" => target[c] \in managed
          /\ pc[c] \in {"acquire", "probe", "mark", "unlock", "submitted"}
                => opMu[target[c]] = c

\* A caller that is to mark the attempt has seen the device locked.
MarkInv(d) ==
    \A c \in Callers : (pc[c] = "mark" /\ target[c] = d) =>
        record[d].LastObservation = "locked" /\ record[d].LockEpisodeOpen

\* AttemptDurableBeforeRelease for one device.
ReleaseInv(d) ==
    \A c \in Callers : (Releasing(c) /\ target[c] = d) =>
        /\ d \in AutoDevices
        /\ disk[d] = record[d]
        /\ record[d].State = "unlocking" /\ record[d].LastObservation = "locked"
        /\ record[d].LockEpisodeOpen /\ record[d].UnlockAttempted
        /\ ~Latched(record[d])

\* Where a submission is remembered: on disk always, and in memory while the
\* process manages the device.  A caller about to submit finds none.
SubmissionInv(d) ==
    /\ submitted[d] <= 1
    /\ submitted[d] = 1 =>
          /\ disk[d].LockEpisodeOpen /\ disk[d].UnlockAttempted
          /\ d \in managed => record[d].LockEpisodeOpen /\ record[d].UnlockAttempted
    /\ \A c \in Callers : (pc[c] = "unlock" /\ target[c] = d) => submitted[d] = 0

\* The deadline of the cooldown is in every record the engine may consult.
CooldownInv(d) ==
    /\ cooling[d] <= disk[d].EligibleIn
    /\ d \in managed => cooling[d] <= record[d].EligibleIn

\* A record that is latched shows it.
ShowsLatch(r) == Latched(r) => r.State = stateForLatch(r.LatchKind)

\* An unacknowledged failure is latched where the engine will look for it.
LatchInv(d) ==
    /\ ShowsLatch(disk[d]) /\ ShowsLatch(record[d])
    /\ (d \in managed /\ alarm[d] = "seen") => Latched(record[d])
    /\ (~up /\ alarm[d] = "seen") => Latched(disk[d])

\* What the process does not manage it holds nothing about.
UnmanagedInv(d) ==
    d \notin managed =>
        /\ record[d] = FreshRecord
        /\ up => submitted[d] = 0 /\ cooling[d] = 0 /\ alarm[d] = "none"

DeviceInv(d) ==
    /\ MarkInv(d)
    /\ ReleaseInv(d)
    /\ SubmissionInv(d)
    /\ CooldownInv(d)
    /\ LatchInv(d)
    /\ UnmanagedInv(d)

IInv ==
    /\ TypeOK
    /\ LockInv
    /\ \A d \in Devices : DeviceInv(d)

-----------------------------------------------------------------------------
(* What the steps do to a record *)

\* FreshRecord is a record.
LEMMA FreshType == FreshRecord \in DeviceRecords
  BY DEF FreshRecord, DeviceRecords, States, Observations, LatchingKinds

\* An observation, a probe error and an invalid probe give a record.
LEMMA ProbedType ==
  ASSUME NEW r \in DeviceRecords, NEW o \in ProbeOutcomes
  PROVE  ProbedRecord(r, o) \in DeviceRecords
<1> USE DEF DeviceRecords, States, Observations, LatchingKinds
<1>1. ASSUME NEW q \in DeviceRecords PROVE ShowLatch(q) \in DeviceRecords
  BY <1>1 DEF ShowLatch, Latched, stateForLatch
<1>2. CASE o.kind = "observed"
  <2>1. o.state \in Observations
    BY <1>2 DEF ProbeOutcomes
  <2>2. r.LockEpisode + 1 \in Nat
    OBVIOUS
  <2>3. Observe(r, o.state) \in DeviceRecords
    BY ZenonT(90), <2>1, <2>2 DEF Observe
  <2> QED BY <1>1, <1>2, <2>3 DEF ProbedRecord
<1>3. CASE o.kind = "invalid"
  <2>1. InvalidProbe(r) \in DeviceRecords
    BY DEF InvalidProbe
  <2> QED BY <1>1, <1>3, <2>1 DEF ProbedRecord
<1>4. CASE o.kind \notin {"observed", "invalid"}
  <2>1. o.down \in BOOLEAN
    BY DEF ProbeOutcomes
  <2>2. ProbeFailed(r, o.kind, o.down) \in DeviceRecords
    BY <2>1 DEF ProbeFailed
  <2> QED BY <1>1, <1>4, <2>2 DEF ProbedRecord
<1> QED BY <1>2, <1>3, <1>4

\* The other steps give a record.
LEMMA StepTypes ==
  ASSUME NEW r \in DeviceRecords
  PROVE  /\ Marked(r) \in DeviceRecords
         /\ ClearedRecord(r) \in DeviceRecords
         /\ AgedRecord(r) \in DeviceRecords
<1> USE RecordAssumption DEF DeviceRecords, States, Observations, LatchingKinds
<1>1. Marked(r) \in DeviceRecords
  BY DEF Marked
<1>2. ClearedRecord(r) \in DeviceRecords
  BY DEF ClearedRecord, stateForObservation
<1>3. AgedRecord(r) \in DeviceRecords
  BY DEF AgedRecord, TickDown
<1> QED BY <1>1, <1>2, <1>3

\* The result of an unlock gives a record, within the bounds.
LEMMA UnlockedType ==
  ASSUME NEW r \in DeviceRecords, NEW o \in UnlockOutcomes, UnlockWithinBounds(r, o)
  PROVE  UnlockedRecord(r, o) \in DeviceRecords
<1> USE DEF DeviceRecords, States, Observations, LatchingKinds, PreSubmissionKinds
<1>1. CASE o \in PreSubmissionKinds
  <2> DEFINE n == r.UnlockConnectFailures + 1
  <2>1. n \in 1..MaxConnectFailures
    BY <1>1, RecordAssumption DEF UnlockWithinBounds, UnlockedRecord, markPreSubmissionRetry
  <2>2. exponentialBackoff(n) \in Nat
    BY <2>1, RecordAssumption
  <2>3. n \in Nat
    OBVIOUS
  <2> QED BY <1>1, <2>2, <2>3 DEF UnlockedRecord, markPreSubmissionRetry
<1>2. CASE o \notin PreSubmissionKinds
  BY <1>2 DEF UnlockedRecord, UnlockOutcomes
<1> QED BY <1>1, <1>2

\* What a probe leaves of a record: the deadline, the latch, the marker of an
\* open episode unless the Mac has booted; and what it records.
LEMMA ProbedFacts ==
  ASSUME NEW r \in DeviceRecords, NEW o \in ProbeOutcomes
  PROVE  LET after == ProbedRecord(r, o)
         IN  /\ after.EligibleIn = r.EligibleIn
             /\ ShowsLatch(after)
             /\ (Latched(r) \/ o.kind \in LatchingKinds) => Latched(after)
             /\ (/\ r.LockEpisodeOpen /\ r.UnlockAttempted
                 /\ ~(o.kind = "observed" /\ o.state = "booted"))
                   => after.LockEpisodeOpen /\ after.UnlockAttempted
             /\ (o.kind = "observed" /\ o.state = "locked")
                   => after.LastObservation = "locked" /\ after.LockEpisodeOpen
<1> USE DEF DeviceRecords, States, Observations, LatchingKinds, ShowsLatch, Latched, stateForLatch
<1>1. CASE o.kind = "observed"
  <2>1. o.state \in Observations
    BY <1>1 DEF ProbeOutcomes
  <2> QED BY ZenonT(90), <1>1, <2>1 DEF ProbedRecord, Observe, ShowLatch
<1>2. CASE o.kind = "invalid"
  BY <1>2 DEF ProbedRecord, InvalidProbe, ShowLatch
<1>3. CASE o.kind \in {"credential", "host-key", "transient", "unreachable"}
  <2>1. o.down \in BOOLEAN
    BY DEF ProbeOutcomes
  <2> QED BY <1>3, <2>1 DEF ProbedRecord, ProbeFailed, ShowLatch
<1> QED BY <1>1, <1>2, <1>3 DEF ProbeOutcomes

-----------------------------------------------------------------------------
(* Types and lock ownership *)

\* Init establishes the types and the lock invariant.
LEMMA BaseInit == Init => TypeOK /\ LockInv
<1> SUFFICES ASSUME Init PROVE TypeOK /\ LockInv
  OBVIOUS
<1>1. record \in [Devices -> DeviceRecords] /\ disk \in [Devices -> DeviceRecords]
  BY FreshType DEF Init
<1>2. pc \in [Callers -> Locations] /\ target \in [Callers -> Devices \cup {NoDevice}]
  BY DEF Init, Locations
<1>3. \A c \in Callers : pc[c] = "idle"
  BY DEF Init
<1>4. TypeOK
  BY <1>1, <1>2 DEF Init, TypeOK
<1>5. LockInv
  BY <1>3 DEF Init, LockInv
<1> QED BY <1>4, <1>5

\* Every step preserves them.
LEMMA BaseStep ==
  ASSUME TypeOK, LockInv, [Next]_vars
  PROVE  TypeOK' /\ LockInv'
<1> USE EngineAssumption DEF TypeOK, LockInv, Locations, procVars, callerVars, historyVars
<1>1. ASSUME NEW c \in Callers, NEW d \in Devices, PollBegin(c, d)
      PROVE  TypeOK' /\ LockInv'
  BY <1>1 DEF PollBegin
<1>2. ASSUME NEW c \in Callers, PollLockOp(c)
      PROVE  TypeOK' /\ LockInv'
  BY <1>2 DEF PollLockOp
<1>3. ASSUME NEW c \in Callers, PollAcquire(c)
      PROVE  TypeOK' /\ LockInv'
  BY <1>3 DEF PollAcquire
<1>4. ASSUME NEW c \in Callers, PollCancelled(c)
      PROVE  TypeOK' /\ LockInv'
  BY <1>4 DEF PollCancelled, Return
<1>5. ASSUME NEW c \in Callers, NEW o \in Probes, NEW res \in SaveOutcomes,
             ApplyProbe(c, o, res)
      PROVE  TypeOK' /\ LockInv'
  <2>1. target[c] \in Devices /\ record[target[c]] \in DeviceRecords
    BY <1>5 DEF ApplyProbe
  <2>2. ProbedRecord(record[target[c]], o) \in DeviceRecords
    BY <2>1, ProbedType
  <2>3. record' \in [Devices -> DeviceRecords] /\ disk' \in [Devices -> DeviceRecords]
    BY <1>5, <2>1, <2>2 DEF ApplyProbe, Saved
  <2>4. submitted' \in [Devices -> Nat] /\ alarm' \in [Devices -> {"none", "seen", "lost"}]
    BY <1>5, <2>1 DEF ApplyProbe
  <2>5. GoTo(c, "mark") \/ Return(c)
    BY <1>5 DEF ApplyProbe
  <2>6. UNCHANGED <<up, managed, cooling>> /\ pc[c] = "probe"
    BY <1>5 DEF ApplyProbe
  <2> QED BY <2>1, <2>3, <2>4, <2>5, <2>6 DEF GoTo, Return
<1>6. ASSUME NEW c \in Callers, NEW res \in SaveOutcomes, MarkUnlockStarted(c, res)
      PROVE  TypeOK' /\ LockInv'
  <2>1. target[c] \in Devices /\ record[target[c]] \in DeviceRecords
    BY <1>6 DEF MarkUnlockStarted
  <2>2. Marked(record[target[c]]) \in DeviceRecords
    BY <2>1, StepTypes
  <2>3. [Marked(record[target[c]]) EXCEPT !.State = "error"] \in DeviceRecords
    BY <2>2 DEF DeviceRecords, States
  <2>4. record' \in [Devices -> DeviceRecords] /\ disk' \in [Devices -> DeviceRecords]
    BY <1>6, <2>1, <2>2, <2>3 DEF MarkUnlockStarted, Saved
  <2>5. GoTo(c, "unlock") \/ Return(c)
    BY <1>6 DEF MarkUnlockStarted
  <2>6. UNCHANGED <<up, managed, submitted, alarm>> /\ pc[c] = "mark"
    BY <1>6 DEF MarkUnlockStarted
  <2>7. cooling' \in [Devices -> Nat]
    BY <1>6, <2>1, RecordAssumption DEF MarkUnlockStarted
  <2> QED BY <2>1, <2>4, <2>5, <2>6, <2>7 DEF GoTo, Return
<1>7. ASSUME NEW c \in Callers, SubmitCredential(c)
      PROVE  TypeOK' /\ LockInv'
  <2>1. target[c] \in Devices
    BY <1>7 DEF SubmitCredential
  <2> QED BY <1>7, <2>1 DEF SubmitCredential, GoTo
<1>8. ASSUME NEW c \in Callers, NEW o \in UnlockOutcomes, NEW res \in SaveOutcomes,
             ApplyUnlockResult(c, o, res)
      PROVE  TypeOK' /\ LockInv'
  <2>1. target[c] \in Devices /\ record[target[c]] \in DeviceRecords
    BY <1>8 DEF ApplyUnlockResult
  <2>2. UnlockedRecord(record[target[c]], o) \in DeviceRecords
    BY <1>8, <2>1, UnlockedType DEF ApplyUnlockResult
  <2>3. record' \in [Devices -> DeviceRecords] /\ disk' \in [Devices -> DeviceRecords]
    BY <1>8, <2>1, <2>2 DEF ApplyUnlockResult, Saved
  <2>4. alarm' \in [Devices -> {"none", "seen", "lost"}]
    BY <1>8, <2>1 DEF ApplyUnlockResult
  <2>5. /\ Return(c) /\ UNCHANGED <<up, managed, submitted>>
        /\ pc[c] \in {"unlock", "submitted"}
    BY <1>8 DEF ApplyUnlockResult
  <2>6. cooling' \in [Devices -> Nat]
    BY <1>8, <2>1 DEF ApplyUnlockResult
  <2> QED BY <2>1, <2>3, <2>4, <2>5, <2>6 DEF Return
<1>9. ASSUME NEW d \in Devices, NEW res \in SaveOutcomes, ClearLatch(d, res)
      PROVE  TypeOK' /\ LockInv'
  <2>1. ClearedRecord(record[d]) \in DeviceRecords
    BY StepTypes
  <2>2. record' \in [Devices -> DeviceRecords] /\ disk' \in [Devices -> DeviceRecords]
    BY <1>9, <2>1 DEF ClearLatch, Saved
  <2> QED BY <1>9, <2>2 DEF ClearLatch
<1>10. ASSUME NEW d \in Devices, NEW res \in SaveOutcomes, AddDevice(d, res)
       PROVE  TypeOK' /\ LockInv'
  BY <1>10 DEF AddDevice, Saved
<1>11. CASE Crash
  BY <1>11, FreshType DEF Crash
<1>12. ASSUME NEW configured \in SUBSET Devices, New(configured)
       PROVE  TypeOK' /\ LockInv'
  BY <1>12, FreshType DEF New
<1>13. CASE ClockTick
  <2>1. \A d \in Devices : AgedRecord(record[d]) \in DeviceRecords
                           /\ AgedRecord(disk[d]) \in DeviceRecords
    BY StepTypes
  <2>2. \A d \in Devices : TickDown(cooling[d]) \in Nat
    BY DEF TickDown
  <2> QED BY <1>13, <2>1, <2>2 DEF ClockTick
<1>14. CASE UNCHANGED vars
  BY <1>14 DEF vars
<1> QED
  BY <1>1, <1>2, <1>3, <1>4, <1>5, <1>6, <1>7, <1>8, <1>9, <1>10, <1>11, <1>12,
     <1>13, <1>14 DEF Next, CallerStep

\* Type correctness of the engine: every record, on disk and in memory, and
\* the bookkeeping of every caller keep their types.
THEOREM TypeCorrect == Spec => []TypeOK
<1>1. Init => TypeOK /\ LockInv
  BY BaseInit
<1>2. TypeOK /\ LockInv /\ [Next]_vars => (TypeOK /\ LockInv)'
  BY BaseStep
<1> QED BY <1>1, <1>2, PTL DEF Spec

-----------------------------------------------------------------------------
(* The invariant of a device *)

\* Init establishes it.
LEMMA DeviceInit ==
  ASSUME Init, NEW d \in Devices
  PROVE  DeviceInv(d)
<1>1. \A c \in Callers : pc[c] = "idle"
  BY DEF Init
<1>2. /\ record[d] = FreshRecord /\ disk[d] = FreshRecord
      /\ submitted[d] = 0 /\ cooling[d] = 0 /\ alarm[d] = "none" /\ ~up
  BY DEF Init
<1>3. FreshRecord.EligibleIn = 0 /\ ~Latched(FreshRecord)
  BY DEF FreshRecord, Latched
<1> QED BY <1>1, <1>2, <1>3
        DEF DeviceInv, MarkInv, ReleaseInv, Releasing, SubmissionInv, CooldownInv,
            LatchInv, ShowsLatch, UnmanagedInv

\* A step that leaves a device's record and history alone preserves the
\* device's invariant, although a save for another device may write its
\* record to disk.
LEMMA OthersKeep ==
  ASSUME TypeOK, NEW e \in Devices, DeviceInv(e),
         UNCHANGED up, e \in managed' <=> e \in managed,
         record'[e] = record[e],
         disk'[e] = disk[e] \/ (up /\ disk'[e] = record[e]),
         submitted'[e] = submitted[e], cooling'[e] = cooling[e], alarm'[e] = alarm[e],
         \A c \in Callers :
            (pc'[c] \in {"mark", "unlock", "submitted"} /\ target'[c] = e)
              => (pc[c] = pc'[c] /\ target[c] = e)
  PROVE  DeviceInv(e)'
<1>1. MarkInv(e)'
  BY DEF DeviceInv, MarkInv
<1>2. ReleaseInv(e)'
  BY DEF DeviceInv, ReleaseInv, Releasing
<1>3. SubmissionInv(e)'
  <2>1. (submitted[e] = 1 /\ up) => e \in managed
    BY DEF DeviceInv, UnmanagedInv
  <2> QED BY <2>1 DEF DeviceInv, SubmissionInv
<1>4. CooldownInv(e)'
  <2>1. up => cooling[e] <= record[e].EligibleIn
    BY DEF DeviceInv, CooldownInv, UnmanagedInv, FreshRecord
  <2> QED BY <2>1 DEF DeviceInv, CooldownInv
<1>5. LatchInv(e)' /\ UnmanagedInv(e)'
  BY DEF DeviceInv, LatchInv, UnmanagedInv
<1> QED BY <1>1, <1>2, <1>3, <1>4, <1>5 DEF DeviceInv

\* The device of a caller that holds its lock: managed, and nobody else's.
LEMMA Holder ==
  ASSUME TypeOK, LockInv, NEW c \in Callers,
         pc[c] \in {"acquire", "probe", "mark", "unlock", "submitted"}
  PROVE  /\ up /\ target[c] \in Devices /\ target[c] \in managed
         /\ record[target[c]] \in DeviceRecords /\ disk[target[c]] \in DeviceRecords
         /\ \A b \in Callers \ {c} :
              pc[b] \in {"mark", "unlock", "submitted"} => target[b] # target[c]
  BY EngineAssumption DEF TypeOK, LockInv

\* A probe of the device whose lock caller c holds.
LEMMA ProbeStep ==
  ASSUME TypeOK, LockInv, \A d \in Devices : DeviceInv(d),
         NEW c \in Callers, NEW o \in Probes, NEW res \in SaveOutcomes,
         ApplyProbe(c, o, res), NEW e \in Devices
  PROVE  DeviceInv(e)'
<1> PICK d \in Devices : d = target[c]
  BY Holder DEF ApplyProbe
<1> DEFINE after == ProbedRecord(record[d], o)
<1>1. /\ pc[c] = "probe" /\ up /\ d \in managed /\ record[d] \in DeviceRecords
      /\ \A b \in Callers \ {c} :
            pc[b] \in {"mark", "unlock", "submitted"} => target[b] # d
  BY Holder DEF ApplyProbe
<1>2. UNCHANGED <<up, managed, cooling>>
  BY DEF ApplyProbe, procVars
<1>3. /\ after.EligibleIn = record[d].EligibleIn
      /\ ShowsLatch(after)
      /\ (Latched(record[d]) \/ o.kind \in LatchingKinds) => Latched(after)
      /\ (/\ record[d].LockEpisodeOpen /\ record[d].UnlockAttempted
          /\ ~(o.kind = "observed" /\ o.state = "booted"))
            => after.LockEpisodeOpen /\ after.UnlockAttempted
      /\ (o.kind = "observed" /\ o.state = "locked")
            => after.LastObservation = "locked" /\ after.LockEpisodeOpen
  <2>1. o \in ProbeOutcomes
    BY EngineAssumption
  <2> QED BY <1>1, <2>1, ProbedFacts
<1>4. record'[d] = after /\ (e # d => record'[e] = record[e])
  BY DEF ApplyProbe, TypeOK
<1>5. disk' = disk \/ disk' = record'
  BY DEF ApplyProbe, Saved
<1>6. /\ e # d => submitted'[e] = submitted[e] /\ alarm'[e] = alarm[e]
      /\ submitted'[d] = IF o.kind = "observed" /\ o.state = "booted" THEN 0 ELSE submitted[d]
      /\ alarm'[d] = IF o.kind \in LatchingKinds THEN "seen" ELSE alarm[d]
  BY DEF ApplyProbe, TypeOK
<1>7. /\ \A b \in Callers \ {c} : pc'[b] = pc[b] /\ target'[b] = target[b]
      /\ \/ /\ pc'[c] = "mark" /\ target'[c] = d
            /\ o.kind = "observed" /\ o.state = "locked"
         \/ pc'[c] = "idle"
  BY DEF ApplyProbe, GoTo, Return, TypeOK
<1>8. CASE e # d
  <2>1. \A b \in Callers :
           (pc'[b] \in {"mark", "unlock", "submitted"} /\ target'[b] = e)
             => (pc[b] = pc'[b] /\ target[b] = e)
    BY <1>7, <1>8
  <2> HIDE DEF after
  <2> QED BY <1>1, <1>2, <1>4, <1>5, <1>6, <1>8, <2>1, OthersKeep
<1>9. CASE e = d
  <2> USE <1>9, <1>1, <1>2, <1>3, <1>4, <1>5, <1>6, <1>7 DEF DeviceInv
  <2>1. MarkInv(d)'
    BY DEF MarkInv
  <2>2. ReleaseInv(d)'
    BY DEF ReleaseInv, Releasing
  <2>3. SubmissionInv(d)'
    BY DEF SubmissionInv
  <2>4. CooldownInv(d)'
    BY DEF CooldownInv
  <2>5. LatchInv(d)'
    BY DEF LatchInv
  <2>6. UnmanagedInv(d)'
    BY DEF UnmanagedInv
  <2> QED BY <2>1, <2>2, <2>3, <2>4, <2>5, <2>6
<1> QED BY <1>8, <1>9

\* The attempt marker: the policy allows it only when nothing was submitted
\* and nothing is cooling down.
LEMMA MarkStep ==
  ASSUME TypeOK, LockInv, \A d \in Devices : DeviceInv(d),
         NEW c \in Callers, NEW res \in SaveOutcomes,
         MarkUnlockStarted(c, res), NEW e \in Devices
  PROVE  DeviceInv(e)'
<1> PICK d \in Devices : d = target[c]
  BY Holder DEF MarkUnlockStarted
<1>1. /\ pc[c] = "mark" /\ up /\ d \in managed /\ record[d] \in DeviceRecords
      /\ \A b \in Callers \ {c} :
            pc[b] \in {"mark", "unlock", "submitted"} => target[b] # d
  BY Holder DEF MarkUnlockStarted
<1>2. UNCHANGED <<up, managed, submitted, alarm>>
  BY DEF MarkUnlockStarted, procVars
<1>3. /\ \A b \in Callers \ {c} : pc'[b] = pc[b] /\ target'[b] = target[b]
      /\ \/ pc'[c] = "unlock" /\ target'[c] = d
         \/ pc'[c] = "idle"
  BY DEF MarkUnlockStarted, GoTo, Return, TypeOK
<1>4. e # d => /\ record'[e] = record[e] /\ disk'[e] \in {disk[e], record[e]}
               /\ cooling'[e] = cooling[e]
  BY DEF MarkUnlockStarted, Saved, TypeOK
<1>5. CASE e # d
  <2>1. \A b \in Callers :
           (pc'[b] \in {"mark", "unlock", "submitted"} /\ target'[b] = e)
             => (pc[b] = pc'[b] /\ target[b] = e)
    BY <1>3, <1>5
  <2> QED BY <1>1, <1>2, <1>4, <1>5, <2>1, OthersKeep
<1>6. CASE e = d /\ record[d].State = "locked" /\ d \in AutoDevices /\ MayUnlock(record[d])
  <2> DEFINE m == Marked(record[d])
  <2>1. /\ m \in DeviceRecords
        /\ m.UnlockAttempted /\ m.EligibleIn = Cooldown /\ m.State = "unlocking"
        /\ m.LockEpisodeOpen = record[d].LockEpisodeOpen
        /\ m.LastObservation = record[d].LastObservation
        /\ m.LatchKind = record[d].LatchKind
    BY <1>1, StepTypes DEF Marked, DeviceRecords
  <2>2. /\ ~Latched(record[d]) /\ ~Latched(m)
        /\ record[d].LockEpisodeOpen /\ record[d].LastObservation = "locked"
    BY <1>1, <1>6, <2>1 DEF DeviceInv, MarkInv, MayUnlock, Latched
  <2>3. submitted[d] = 0 /\ cooling[d] = 0 /\ alarm[d] # "seen"
    <3>1. submitted[d] # 1
      BY <1>1, <1>6 DEF DeviceInv, SubmissionInv, MayUnlock
    <3>2. submitted[d] = 0
      BY <3>1 DEF DeviceInv, SubmissionInv, TypeOK
    <3>3. cooling[d] = 0
      BY <1>1, <1>6 DEF DeviceInv, CooldownInv, MayUnlock, TypeOK
    <3> QED BY <1>1, <2>2, <3>2, <3>3 DEF DeviceInv, LatchInv
  <2>4. \/ record'[d] = m /\ disk'[d] = m /\ cooling'[d] = Cooldown
        \/ /\ record'[d] = [m EXCEPT !.State = "error"] /\ disk'[d] \in {disk[d], m}
           /\ pc'[c] = "idle" /\ cooling'[d] = cooling[d]
    BY <1>6 DEF MarkUnlockStarted, Saved, Return, TypeOK
  <2> DEFINE r == record'[d]
  <2>5. /\ r.UnlockAttempted /\ r.EligibleIn = Cooldown
        /\ r.LockEpisodeOpen /\ r.LastObservation = "locked" /\ ~Latched(r)
    BY <2>1, <2>2, <2>4 DEF Latched, DeviceRecords
  <2> HIDE DEF m, r
  <2>6. MarkInv(d)'
    BY <1>1, <1>3 DEF MarkInv
  <2>7. ReleaseInv(d)'
    BY <1>1, <1>3, <1>6, <2>1, <2>4, <2>5 DEF ReleaseInv, Releasing, r
  <2>8. SubmissionInv(d)'
    BY <1>2, <2>3 DEF SubmissionInv
  <2>9. CooldownInv(d)'
    BY <1>2, <2>1, <2>3, <2>4, <2>5, RecordAssumption DEF CooldownInv, r, DeviceInv
  <2>10. LatchInv(d)' /\ UnmanagedInv(d)'
    BY <1>1, <1>2, <2>2, <2>3, <2>4, <2>5 DEF LatchInv, ShowsLatch, UnmanagedInv, r, DeviceInv
  <2> QED BY <1>6, <2>6, <2>7, <2>8, <2>9, <2>10 DEF DeviceInv
<1>7. CASE e = d /\ ~(record[d].State = "locked" /\ d \in AutoDevices /\ MayUnlock(record[d]))
  <2>1. UNCHANGED <<record, disk, cooling>> /\ pc'[c] = "idle"
    BY <1>7 DEF MarkUnlockStarted, Return, TypeOK
  <2>2. \A b \in Callers :
           (pc'[b] \in {"mark", "unlock", "submitted"} /\ target'[b] = e)
             => (pc[b] = pc'[b] /\ target[b] = e)
    BY <1>3, <2>1
  <2> QED BY <1>2, <2>1, <2>2, OthersKeep
<1> QED BY <1>5, <1>6, <1>7

\* The submission itself.
LEMMA SubmitStep ==
  ASSUME TypeOK, LockInv, \A d \in Devices : DeviceInv(d),
         NEW c \in Callers, SubmitCredential(c), NEW e \in Devices
  PROVE  DeviceInv(e)'
<1> PICK d \in Devices : d = target[c]
  BY Holder DEF SubmitCredential
<1>1. /\ pc[c] = "unlock" /\ up /\ d \in managed /\ record[d] \in DeviceRecords
      /\ \A b \in Callers \ {c} :
            pc[b] \in {"mark", "unlock", "submitted"} => target[b] # d
  BY Holder DEF SubmitCredential
<1>2. UNCHANGED <<up, managed, record, disk, cooling, alarm>>
  BY DEF SubmitCredential, procVars
<1>3. /\ \A b \in Callers \ {c} : pc'[b] = pc[b] /\ target'[b] = target[b]
      /\ pc'[c] = "submitted" /\ target'[c] = d
  BY DEF SubmitCredential, GoTo, TypeOK
<1>4. submitted'[d] = submitted[d] + 1 /\ (e # d => submitted'[e] = submitted[e])
  BY DEF SubmitCredential, TypeOK
<1>5. CASE e # d
  <2>1. \A b \in Callers :
           (pc'[b] \in {"mark", "unlock", "submitted"} /\ target'[b] = e)
             => (pc[b] = pc'[b] /\ target[b] = e)
    BY <1>3, <1>5
  <2> QED BY <1>2, <1>4, <1>5, <2>1, OthersKeep
<1>6. CASE e = d
  <2>1. /\ submitted[d] = 0 /\ disk[d] = record[d]
        /\ record[d].LockEpisodeOpen /\ record[d].UnlockAttempted
    BY <1>1 DEF DeviceInv, SubmissionInv, ReleaseInv, Releasing
  <2>2. MarkInv(d)' /\ ReleaseInv(d)'
    BY <1>1, <1>2, <1>3 DEF DeviceInv, MarkInv, ReleaseInv, Releasing
  <2>3. SubmissionInv(d)'
    BY <1>1, <1>2, <1>3, <1>4, <2>1 DEF SubmissionInv
  <2>4. CooldownInv(d)'
    BY <1>2 DEF DeviceInv, CooldownInv
  <2>5. LatchInv(d)' /\ UnmanagedInv(d)'
    BY <1>1, <1>2 DEF DeviceInv, LatchInv, UnmanagedInv
  <2> QED BY <1>6, <2>2, <2>3, <2>4, <2>5 DEF DeviceInv
<1> QED BY <1>5, <1>6

\* What the result of an unlock leaves of a record.  Only the refund of an
\* attempt that submitted nothing touches the marker and the deadline.
LEMMA UnlockedFacts ==
  ASSUME NEW r \in DeviceRecords, NEW o \in UnlockOutcomes, ~Latched(r)
  PROVE  LET after == UnlockedRecord(r, o)
         IN  /\ ShowsLatch(after)
             /\ o \in LatchingKinds => Latched(after)
             /\ o \notin PreSubmissionKinds =>
                   /\ after.EligibleIn = r.EligibleIn
                   /\ (r.LockEpisodeOpen /\ r.UnlockAttempted)
                         => after.LockEpisodeOpen /\ after.UnlockAttempted
<1> USE DEF DeviceRecords, LatchingKinds, UnlockOutcomes, PreSubmissionKinds, ShowsLatch,
            Latched, stateForLatch
<1>1. CASE o \in PreSubmissionKinds
  BY <1>1 DEF UnlockedRecord, markPreSubmissionRetry
<1>2. CASE o \notin PreSubmissionKinds
  BY <1>2 DEF UnlockedRecord
<1> QED BY <1>1, <1>2

\* The result of an unlock.
LEMMA ResultStep ==
  ASSUME TypeOK, LockInv, \A d \in Devices : DeviceInv(d),
         NEW c \in Callers, NEW o \in UnlockOutcomes, NEW res \in SaveOutcomes,
         ApplyUnlockResult(c, o, res), NEW e \in Devices
  PROVE  DeviceInv(e)'
<1> PICK d \in Devices : d = target[c]
  BY Holder DEF ApplyUnlockResult
<1> DEFINE after == UnlockedRecord(record[d], o)
<1>1. /\ pc[c] \in {"unlock", "submitted"} /\ up /\ d \in managed
      /\ record[d] \in DeviceRecords /\ disk[d] \in DeviceRecords
      /\ \A b \in Callers \ {c} :
            pc[b] \in {"mark", "unlock", "submitted"} => target[b] # d
  BY Holder DEF ApplyUnlockResult
<1>2. UNCHANGED <<up, managed, submitted>>
  BY DEF ApplyUnlockResult, procVars
<1>3. pc'[c] = "idle" /\ \A b \in Callers \ {c} : pc'[b] = pc[b] /\ target'[b] = target[b]
  BY DEF ApplyUnlockResult, Return, TypeOK
<1>4. record'[d] = after /\ (e # d => record'[e] = record[e])
  BY DEF ApplyUnlockResult, TypeOK
<1>5. disk' = disk \/ disk' = record'
  BY DEF ApplyUnlockResult, Saved
<1>6. /\ e # d => alarm'[e] = alarm[e] /\ cooling'[e] = cooling[e]
      /\ alarm'[d] = IF o \in LatchingKinds THEN "seen" ELSE alarm[d]
      /\ cooling'[d] = IF o \in PreSubmissionKinds THEN 0 ELSE cooling[d]
  BY DEF ApplyUnlockResult, TypeOK
<1>7. CASE e # d
  <2>1. \A b \in Callers :
           (pc'[b] \in {"mark", "unlock", "submitted"} /\ target'[b] = e)
             => (pc[b] = pc'[b] /\ target[b] = e)
    BY <1>3
  <2> HIDE DEF after
  <2> QED BY <1>1, <1>2, <1>4, <1>5, <1>6, <1>7, <2>1, OthersKeep
<1>8. CASE e = d
  <2>1. /\ disk[d] = record[d] /\ ~Latched(record[d])
        /\ record[d].LockEpisodeOpen /\ record[d].UnlockAttempted
    BY <1>1 DEF DeviceInv, ReleaseInv, Releasing
  <2>2. /\ ShowsLatch(after)
        /\ o \in LatchingKinds => Latched(after)
        /\ o \notin PreSubmissionKinds =>
              /\ after.EligibleIn = record[d].EligibleIn
              /\ after.LockEpisodeOpen /\ after.UnlockAttempted
    BY <1>1, <2>1, UnlockedFacts
  <2>3. o \in PreSubmissionKinds => submitted[d] = 0
    <3>1. o \in PreSubmissionKinds => pc[c] = "unlock"
      BY <1>1 DEF ApplyUnlockResult, AllowedReports, PreSubmissionKinds
    <3> QED BY <3>1 DEF DeviceInv, SubmissionInv
  <2>4. after \in DeviceRecords
    BY <1>1, UnlockedType DEF ApplyUnlockResult
  <2> HIDE DEF after
  <2>5. MarkInv(d)' /\ ReleaseInv(d)'
    BY <1>1, <1>3 DEF MarkInv, ReleaseInv, Releasing
  <2>6. SubmissionInv(d)'
    BY <1>1, <1>2, <1>3, <1>4, <1>5, <2>1, <2>2, <2>3 DEF DeviceInv, SubmissionInv
  <2>7. CooldownInv(d)'
    <3>1. after.EligibleIn \in Nat /\ disk[d].EligibleIn \in Nat
      BY <1>1, <2>4 DEF DeviceRecords
    <3> QED BY <1>1, <1>2, <1>4, <1>5, <1>6, <2>2, <3>1 DEF DeviceInv, CooldownInv
  <2>8. LatchInv(d)' /\ UnmanagedInv(d)'
    BY <1>1, <1>2, <1>4, <1>5, <1>6, <2>1, <2>2 DEF DeviceInv, LatchInv, UnmanagedInv
  <2> QED BY <1>8, <2>5, <2>6, <2>7, <2>8 DEF DeviceInv
<1> QED BY <1>7, <1>8

\* The operator's acknowledgement: only with the lock of the device free.
LEMMA ClearStep ==
  ASSUME TypeOK, LockInv, \A d \in Devices : DeviceInv(d),
         NEW d \in Devices, NEW res \in SaveOutcomes, ClearLatch(d, res), NEW e \in Devices
  PROVE  DeviceInv(e)'
<1> DEFINE after == ClearedRecord(record[d])
<1>1. /\ up /\ d \in managed /\ opMu[d] = NoCaller /\ record[d] \in DeviceRecords
      /\ after \in DeviceRecords
  BY StepTypes DEF ClearLatch, TypeOK
<1>2. UNCHANGED <<up, managed, cooling, pc, target>>
  BY DEF ClearLatch, procVars, callerVars
<1>3. after.EligibleIn = record[d].EligibleIn /\ ~Latched(after)
  BY <1>1 DEF ClearedRecord, Latched, DeviceRecords
<1>4. e # d => /\ record'[e] = record[e] /\ disk'[e] \in {disk[e], record[e]}
               /\ submitted'[e] = submitted[e] /\ alarm'[e] = alarm[e]
  BY DEF ClearLatch, Saved, TypeOK
<1>5. CASE e # d
  BY <1>1, <1>2, <1>4, <1>5, OthersKeep
<1>6. CASE e = d
  <2>1. \/ /\ record'[d] = record[d] /\ disk'[d] = disk[d]
           /\ submitted'[d] = submitted[d] /\ alarm'[d] = alarm[d]
        \/ /\ record'[d] \in {record[d], after} /\ disk'[d] = after
           /\ submitted'[d] = 0 /\ alarm'[d] = "none"
    BY DEF ClearLatch, Saved, TypeOK
  <2>2. \A b \in Callers : pc[b] \in {"mark", "unlock", "submitted"} => target[b] # d
    BY <1>1, EngineAssumption DEF LockInv
  <2> HIDE DEF after
  <2>3. MarkInv(d)' /\ ReleaseInv(d)'
    BY <1>2, <2>2 DEF MarkInv, ReleaseInv, Releasing
  <2>4. SubmissionInv(d)'
    BY <1>2, <2>1, <2>2 DEF DeviceInv, SubmissionInv
  <2>5. CooldownInv(d)'
    BY <1>1, <1>2, <1>3, <2>1, <2>2 DEF DeviceInv, CooldownInv
  <2>6. LatchInv(d)' /\ UnmanagedInv(d)'
    BY <1>1, <1>2, <1>3, <2>1 DEF DeviceInv, LatchInv, ShowsLatch, UnmanagedInv
  <2> QED BY <1>6, <2>3, <2>4, <2>5, <2>6 DEF DeviceInv
<1> QED BY <1>5, <1>6

\* A device added while the engine runs.
LEMMA AddStep ==
  ASSUME TypeOK, LockInv, \A d \in Devices : DeviceInv(d),
         NEW d \in Devices, NEW res \in SaveOutcomes, AddDevice(d, res), NEW e \in Devices
  PROVE  DeviceInv(e)'
<1>1. /\ up /\ d \notin managed
      /\ UNCHANGED <<up, record, pc, target, submitted, cooling, alarm>>
      /\ disk' = disk \/ disk' = record
      /\ e # d => (e \in managed' <=> e \in managed)
  BY DEF AddDevice, Saved, callerVars, historyVars
<1>2. CASE e \in managed' <=> e \in managed
  BY <1>1, <1>2, OthersKeep
<1>3. CASE e = d /\ d \in managed'
  <2>1. record[d] = FreshRecord /\ submitted[d] = 0 /\ cooling[d] = 0 /\ alarm[d] = "none"
    BY <1>1 DEF DeviceInv, UnmanagedInv
  <2>2. \A b \in Callers : pc[b] \in {"mark", "unlock", "submitted"} => target[b] # d
    BY <1>1 DEF LockInv
  <2>3. FreshRecord.EligibleIn = 0
    BY DEF FreshRecord
  <2> QED BY <1>1, <1>3, <2>1, <2>2, <2>3
          DEF DeviceInv, MarkInv, ReleaseInv, Releasing, SubmissionInv, CooldownInv,
              LatchInv, UnmanagedInv
<1> QED BY <1>1, <1>2, <1>3

\* A crash leaves what is on disk.
LEMMA CrashStep ==
  ASSUME TypeOK, \A d \in Devices : DeviceInv(d), Crash, NEW e \in Devices
  PROVE  DeviceInv(e)'
<1>1. /\ ~up' /\ managed' = {} /\ record'[e] = FreshRecord
      /\ \A c \in Callers : pc'[c] = "idle"
      /\ UNCHANGED <<disk, submitted, cooling>>
      /\ alarm'[e] = IF alarm[e] = "seen" /\ ~Latched(disk[e]) THEN "lost" ELSE alarm[e]
  BY DEF Crash
<1>2. ~Latched(FreshRecord)
  BY DEF FreshRecord, Latched
<1> QED BY <1>1, <1>2
        DEF DeviceInv, MarkInv, ReleaseInv, Releasing, SubmissionInv, CooldownInv,
            LatchInv, ShowsLatch, UnmanagedInv

\* A restart reads it back.
LEMMA RestartStep ==
  ASSUME TypeOK, LockInv, \A d \in Devices : DeviceInv(d),
         NEW configured \in SUBSET Devices, New(configured), NEW e \in Devices
  PROVE  DeviceInv(e)'
<1>1. /\ ~up /\ up' /\ managed' = configured
      /\ UNCHANGED <<disk, pc, target>>
      /\ record'[e] = IF e \in configured THEN disk[e] ELSE FreshRecord
      /\ submitted'[e] = IF e \in configured THEN submitted[e] ELSE 0
      /\ cooling'[e] = IF e \in configured THEN cooling[e] ELSE 0
      /\ alarm'[e] = IF e \in configured THEN alarm[e] ELSE "none"
  BY DEF New, callerVars
<1>2. \A c \in Callers : pc[c] = "idle"
  BY <1>1 DEF LockInv
<1>3. FreshRecord.EligibleIn = 0 /\ ~Latched(FreshRecord)
  BY DEF FreshRecord, Latched
<1>4. disk[e].EligibleIn \in Nat
  BY DEF TypeOK, DeviceRecords
<1> QED BY <1>1, <1>2, <1>3, <1>4
        DEF DeviceInv, MarkInv, ReleaseInv, Releasing, SubmissionInv, CooldownInv,
            LatchInv, ShowsLatch, UnmanagedInv

\* The clock moves every deadline and the cooldown alike.
LEMMA TickStep ==
  ASSUME TypeOK, LockInv, \A d \in Devices : DeviceInv(d), ClockTick, NEW e \in Devices
  PROVE  DeviceInv(e)'
<1>1. /\ record'[e] = AgedRecord(record[e]) /\ disk'[e] = AgedRecord(disk[e])
      /\ cooling'[e] = TickDown(cooling[e])
      /\ UNCHANGED <<up, managed, pc, target, submitted, alarm>>
  BY DEF ClockTick, procVars, callerVars
<1>2. \A r \in DeviceRecords :
        /\ AgedRecord(r).EligibleIn = TickDown(r.EligibleIn)
        /\ \A f \in {"State", "LastObservation", "LockEpisodeOpen", "UnlockAttempted", "LatchKind"} :
              AgedRecord(r)[f] = r[f]
        /\ Latched(AgedRecord(r)) = Latched(r)
  BY DEF AgedRecord, DeviceRecords, Latched
<1>3. /\ record[e] \in DeviceRecords /\ disk[e] \in DeviceRecords /\ cooling[e] \in Nat
      /\ record[e].EligibleIn \in Nat /\ disk[e].EligibleIn \in Nat
  BY DEF TypeOK, DeviceRecords
<1>4. MarkInv(e)' /\ ReleaseInv(e)'
  BY <1>1, <1>2, <1>3 DEF DeviceInv, MarkInv, ReleaseInv, Releasing
<1>5. SubmissionInv(e)'
  BY <1>1, <1>2, <1>3 DEF DeviceInv, SubmissionInv
<1>6. CooldownInv(e)'
  BY <1>1, <1>2, <1>3 DEF DeviceInv, CooldownInv, TickDown
<1>7. LatchInv(e)'
  BY <1>1, <1>2, <1>3 DEF DeviceInv, LatchInv, ShowsLatch
<1>8. UnmanagedInv(e)'
  <2>1. AgedRecord(FreshRecord) = FreshRecord
    BY DEF AgedRecord, FreshRecord, TickDown
  <2> QED BY <1>1, <2>1 DEF DeviceInv, UnmanagedInv, TickDown
<1> QED BY <1>4, <1>5, <1>6, <1>7, <1>8 DEF DeviceInv

-----------------------------------------------------------------------------
(* The theorems *)

\* Every step preserves the inductive invariant.
LEMMA InvariantStep ==
  ASSUME IInv, [Next]_vars
  PROVE  IInv'
<1> USE DEF IInv
<1>1. TypeOK' /\ LockInv'
  BY BaseStep
<1>2. SUFFICES ASSUME NEW e \in Devices PROVE DeviceInv(e)'
  BY <1>1
<1>3. ASSUME NEW c \in Callers,
             (\E d \in Devices : PollBegin(c, d)) \/ PollLockOp(c) \/ PollAcquire(c)
               \/ PollCancelled(c)
      PROVE  DeviceInv(e)'
  <2>1. /\ UNCHANGED <<up, managed, record, disk, submitted, cooling, alarm>>
        /\ \A b \in Callers : pc'[b] \in {"mark", "unlock", "submitted"}
             => pc'[b] = pc[b] /\ target'[b] = target[b]
    BY <1>3 DEF PollBegin, PollLockOp, PollAcquire, PollCancelled, Return,
                procVars, historyVars, TypeOK
  <2> QED BY <2>1, OthersKeep
<1>4. ASSUME NEW c \in Callers, NEW o \in Probes, NEW res \in SaveOutcomes,
             ApplyProbe(c, o, res)
      PROVE  DeviceInv(e)'
  BY <1>4, ProbeStep
<1>5. ASSUME NEW c \in Callers, NEW res \in SaveOutcomes, MarkUnlockStarted(c, res)
      PROVE  DeviceInv(e)'
  BY <1>5, MarkStep
<1>6. ASSUME NEW c \in Callers, SubmitCredential(c)
      PROVE  DeviceInv(e)'
  BY <1>6, SubmitStep
<1>7. ASSUME NEW c \in Callers, NEW o \in UnlockOutcomes, NEW res \in SaveOutcomes,
             ApplyUnlockResult(c, o, res)
      PROVE  DeviceInv(e)'
  BY <1>7, ResultStep
<1>8. ASSUME NEW d \in Devices, NEW res \in SaveOutcomes, ClearLatch(d, res)
      PROVE  DeviceInv(e)'
  BY <1>8, ClearStep
<1>9. ASSUME NEW d \in Devices, NEW res \in SaveOutcomes, AddDevice(d, res)
      PROVE  DeviceInv(e)'
  BY <1>9, AddStep
<1>10. CASE Crash
  BY <1>10, CrashStep
<1>11. ASSUME NEW configured \in SUBSET Devices, New(configured)
       PROVE  DeviceInv(e)'
  BY <1>11, RestartStep
<1>12. CASE ClockTick
  BY <1>12, TickStep
<1>13. CASE UNCHANGED vars
  <2>1. UNCHANGED <<up, managed, record, disk, pc, target, submitted, cooling, alarm>>
    BY <1>13 DEF vars, procVars, callerVars, historyVars
  <2> QED BY <2>1, OthersKeep
<1> QED
  BY <1>3, <1>4, <1>5, <1>6, <1>7, <1>8, <1>9, <1>10, <1>11, <1>12, <1>13
  DEF Next, CallerStep

\* IInv is an invariant of the engine.
LEMMA Invariance == Spec => []IInv
<1>1. Init => IInv
  BY BaseInit, DeviceInit DEF IInv
<1>2. IInv /\ [Next]_vars => IInv'
  BY InvariantStep
<1> QED BY <1>1, <1>2, PTL DEF Spec

\* Engine.Poll with markUnlockStarted and persistLocked: at most one
\* credential per permission, for any number of devices and callers, any
\* interleaving of them, crashes at any point and any failed save.
THEOREM OneSubmission == Spec => []AtMostOneSubmission
<1>1. IInv => AtMostOneSubmission
  BY DEF IInv, DeviceInv, SubmissionInv, AtMostOneSubmission
<1> QED BY <1>1, Invariance, PTL

\* markUnlockStarted persists before Unlock is called: whenever a credential
\* is being released, the record on disk is the one that marks this attempt.
THEOREM DurableBeforeRelease == Spec => []AttemptDurableBeforeRelease
<1>1. IInv => AttemptDurableBeforeRelease
  <2> SUFFICES ASSUME IInv, NEW c \in Callers, Releasing(c)
               PROVE  target[c] \in Devices
    BY DEF AttemptDurableBeforeRelease, IInv, DeviceInv, ReleaseInv
  <2> QED BY Holder DEF IInv, Releasing
<1> QED BY <1>1, Invariance, PTL

\* Options.UnlockCooldown is respected across crashes, boots, refunds of an
\* attempt and the operator's ClearLatch.
THEOREM CooldownRespected == Spec => CooldownBetweenAttempts
<1> DEFINE Authorized == \A c \in Callers :
             (pc[c] = "mark" /\ pc'[c] = "unlock") => cooling[target[c]] = 0
<1>1. IInv /\ [Next]_vars => [Authorized]_vars
  <2> SUFFICES ASSUME IInv, Next, NEW b \in Callers, pc[b] = "mark", pc'[b] = "unlock"
               PROVE  cooling[target[b]] = 0
    BY DEF Authorized
  <2> USE DEF IInv
  <2>1. target[b] \in Devices /\ target[b] \in managed /\ record[target[b]] \in DeviceRecords
    BY Holder
  <2>2. \E res \in SaveOutcomes : MarkUnlockStarted(b, res)
    <3>1. ASSUME NEW c \in Callers, NEW o \in Probes, NEW res \in SaveOutcomes,
                 ApplyProbe(c, o, res)
          PROVE  FALSE
      BY <3>1 DEF ApplyProbe, GoTo, Return, TypeOK
    <3>2. ASSUME NEW c \in Callers,
                 \/ \E d \in Devices : PollBegin(c, d)
                 \/ PollLockOp(c) \/ PollAcquire(c) \/ PollCancelled(c) \/ SubmitCredential(c)
          PROVE  FALSE
      BY <3>2 DEF PollBegin, PollLockOp, PollAcquire, PollCancelled, SubmitCredential,
                  GoTo, Return, TypeOK
    <3>3. ASSUME NEW c \in Callers, NEW o \in UnlockOutcomes, NEW res \in SaveOutcomes,
                 ApplyUnlockResult(c, o, res)
          PROVE  FALSE
      BY <3>3 DEF ApplyUnlockResult, Return, TypeOK
    <3>4. ASSUME NEW c \in Callers, NEW res \in SaveOutcomes, MarkUnlockStarted(c, res), c # b
          PROVE  FALSE
      BY <3>4 DEF MarkUnlockStarted, GoTo, Return, TypeOK
    <3>5. ASSUME \/ \E d \in Devices, res \in SaveOutcomes : ClearLatch(d, res) \/ AddDevice(d, res)
                 \/ Crash \/ ClockTick
                 \/ \E configured \in SUBSET Devices : New(configured)
          PROVE  FALSE
      BY <3>5 DEF ClearLatch, AddDevice, Crash, ClockTick, New, callerVars
    <3> QED BY <3>1, <3>2, <3>3, <3>4, <3>5 DEF Next, CallerStep
  <2>3. MayUnlock(record[target[b]])
    BY <2>2 DEF MarkUnlockStarted, Return, TypeOK
  <2> QED BY <2>1, <2>3 DEF DeviceInv, CooldownInv, MayUnlock, TypeOK
<1> QED BY <1>1, Invariance, PTL DEF Spec, CooldownBetweenAttempts

\* latchLocked and the guard of applyProbe that keeps a latched state: a
\* latch stays, and stays visible, until ClearLatch.
THEOREM LatchKept == Spec => []LatchRetained
<1>1. IInv => LatchRetained
  <2> SUFFICES ASSUME IInv, NEW d \in Devices, alarm[d] = "seen"
               PROVE  LET r == IF up THEN record[d] ELSE disk[d]
                      IN  Latched(r) /\ (r.State = stateForLatch(r.LatchKind))
    BY DEF LatchRetained
  <2>1. up => d \in managed
    BY DEF IInv, DeviceInv, UnmanagedInv
  <2> QED BY <2>1 DEF IInv, DeviceInv, LatchInv, ShowsLatch
<1> QED BY <1>1, Invariance, PTL

-----------------------------------------------------------------------------
(* The slots *)

\* Where a caller is between acquire and release.
Slotted == {"probe", "mark", "unlock", "submitted"}

\* Who is there holds a slot, and there are no more than Concurrency of them.
SlotInv ==
    /\ IsFiniteSet(sem) /\ Cardinality(sem) <= Concurrency
    /\ \A c \in Callers : pc[c] \in Slotted => c \in sem

\* Returning from Poll gives back at most the caller's own slot.
LEMMA SlotReturned ==
  ASSUME SlotInv, TypeOK, NEW c \in Callers, Return(c)
  PROVE  SlotInv'
<1>1. sem' = sem \ {c} /\ pc' = [pc EXCEPT ![c] = "idle"]
  BY DEF Return
<1>2. IsFiniteSet(sem') /\ Cardinality(sem') <= Cardinality(sem)
  BY <1>1, FS_Subset DEF SlotInv
<1>3. Cardinality(sem') \in Nat /\ Cardinality(sem) \in Nat
  BY <1>2, FS_CardinalityType DEF SlotInv
<1>4. Cardinality(sem') <= Concurrency
  BY <1>2, <1>3, EngineAssumption DEF SlotInv
<1>5. \A e \in Callers : pc'[e] \in Slotted => e \in sem'
  BY <1>1 DEF SlotInv, TypeOK, Slotted
<1> QED BY <1>2, <1>4, <1>5 DEF SlotInv

\* A caller that has its slot goes on without touching the semaphore.
LEMMA SlotKept ==
  ASSUME SlotInv, TypeOK, NEW c \in Callers, NEW loc \in Slotted,
         pc[c] \in Slotted, GoTo(c, loc)
  PROVE  SlotInv'
BY DEF SlotInv, TypeOK, GoTo

\* acquire takes a slot only when one is free.
LEMMA SlotTaken ==
  ASSUME SlotInv, TypeOK, NEW c \in Callers, PollAcquire(c)
  PROVE  SlotInv'
<1>1. /\ sem' = sem \cup {c} /\ pc' = [pc EXCEPT ![c] = "probe"]
      /\ Cardinality(sem) < Concurrency
  BY DEF PollAcquire
<1>2. /\ IsFiniteSet(sem') /\ Cardinality(sem) \in Nat
      /\ Cardinality(sem') \in {Cardinality(sem), Cardinality(sem) + 1}
  BY <1>1, FS_AddElement, FS_CardinalityType DEF SlotInv
<1>3. Cardinality(sem') <= Concurrency
  BY <1>1, <1>2, EngineAssumption
<1>4. \A e \in Callers : pc'[e] \in Slotted => e \in sem'
  BY <1>1 DEF SlotInv, TypeOK
<1> QED BY <1>2, <1>3, <1>4 DEF SlotInv

\* The slots are accounted for, whatever the results of probes, unlocks and
\* saves, and after a crash.
LEMMA SlotInvariant == Spec => []SlotInv
<1>1. Init => SlotInv
  BY FS_EmptySet, EngineAssumption DEF Init, SlotInv, Slotted
<1>2. SlotInv /\ TypeOK /\ [Next]_vars => SlotInv'
  <2> SUFFICES ASSUME SlotInv, TypeOK, [Next]_vars PROVE SlotInv'
    OBVIOUS
  <2>1. ASSUME NEW c \in Callers, NEW d \in Devices, PollBegin(c, d) PROVE SlotInv'
    BY <2>1 DEF PollBegin, SlotInv, TypeOK, Slotted
  <2>2. ASSUME NEW c \in Callers, CallerStep(c) PROVE SlotInv'
    <3>1. CASE PollLockOp(c)
      BY <3>1 DEF PollLockOp, SlotInv, TypeOK, Slotted
    <3>2. CASE PollAcquire(c)
      BY <3>2, SlotTaken
    <3>3. CASE PollCancelled(c)
      BY <3>3, SlotReturned DEF PollCancelled
    <3>4. ASSUME NEW res \in SaveOutcomes, NEW o \in Probes, ApplyProbe(c, o, res)
          PROVE  SlotInv'
      <4>1. pc[c] \in Slotted /\ "mark" \in Slotted
        BY <3>4 DEF ApplyProbe, Slotted
      <4>2. GoTo(c, "mark") \/ Return(c)
        BY <3>4 DEF ApplyProbe
      <4> QED BY <4>1, <4>2, SlotKept, SlotReturned
    <3>5. ASSUME NEW res \in SaveOutcomes, MarkUnlockStarted(c, res) PROVE SlotInv'
      <4>1. pc[c] \in Slotted /\ "unlock" \in Slotted
        BY <3>5 DEF MarkUnlockStarted, Slotted
      <4>2. GoTo(c, "unlock") \/ Return(c)
        BY <3>5 DEF MarkUnlockStarted
      <4> QED BY <4>1, <4>2, SlotKept, SlotReturned
    <3>6. ASSUME NEW res \in SaveOutcomes, NEW o \in UnlockOutcomes, ApplyUnlockResult(c, o, res)
          PROVE  SlotInv'
      BY <3>6, SlotReturned DEF ApplyUnlockResult
    <3>7. CASE SubmitCredential(c)
      <4>1. pc[c] \in Slotted /\ "submitted" \in Slotted
        BY <3>7 DEF SubmitCredential, Slotted
      <4> QED BY <3>7, <4>1, SlotKept DEF SubmitCredential
    <3> QED BY <2>2, <3>1, <3>2, <3>3, <3>4, <3>5, <3>6, <3>7 DEF CallerStep
  <2>3. ASSUME NEW d \in Devices, NEW res \in SaveOutcomes, ClearLatch(d, res) \/ AddDevice(d, res)
        PROVE  SlotInv'
    BY <2>3 DEF ClearLatch, AddDevice, callerVars, SlotInv
  <2>4. CASE Crash
    BY <2>4, FS_EmptySet, EngineAssumption DEF Crash, SlotInv, Slotted
  <2>5. ASSUME NEW configured \in SUBSET Devices, New(configured) PROVE SlotInv'
    BY <2>5 DEF New, callerVars, SlotInv
  <2>6. CASE ClockTick
    BY <2>6 DEF ClockTick, callerVars, SlotInv
  <2>7. CASE UNCHANGED vars
    BY <2>7 DEF vars, callerVars, SlotInv
  <2> QED BY <2>1, <2>2, <2>3, <2>4, <2>5, <2>6, <2>7 DEF Next
<1> QED BY <1>1, <1>2, TypeCorrect, PTL DEF Spec

\* No two polls operate on one Mac, and no more network operations run than
\* Options.Concurrency, for any number of Macs and callers.
THEOREM OperationsBounded == Spec => []BoundedExclusiveOperations
<1>1. IInv /\ SlotInv => BoundedExclusiveOperations
  <2> SUFFICES ASSUME IInv, SlotInv PROVE BoundedExclusiveOperations
    OBVIOUS
  <2> DEFINE operating == {c \in Callers : OnNetwork(c)}
  <2>1. ASSUME NEW c1 \in Callers, NEW c2 \in Callers,
               Operating(c1), Operating(c2), target[c1] = target[c2]
        PROVE  c1 = c2
    <3>1. \A c \in Callers : Operating(c) =>
            pc[c] \in {"acquire", "probe", "mark", "unlock", "submitted"}
      BY DEF IInv, TypeOK, Locations, Operating
    <3> QED BY <2>1, <3>1 DEF IInv, LockInv
  <2>2. operating \in SUBSET sem
    BY DEF SlotInv, Slotted, OnNetwork
  <2>3. IsFiniteSet(operating) /\ Cardinality(operating) <= Cardinality(sem)
    BY <2>2, FS_Subset DEF SlotInv
  <2>4. Cardinality(operating) \in Nat /\ Cardinality(sem) \in Nat
    BY <2>3, FS_CardinalityType DEF SlotInv
  <2>5. Cardinality(operating) <= Concurrency
    BY <2>3, <2>4, EngineAssumption DEF SlotInv
  <2> QED BY <2>1, <2>5 DEF BoundedExclusiveOperations
<1> QED BY <1>1, Invariance, SlotInvariant, PTL

-----------------------------------------------------------------------------
(* The numbers of lock episodes *)

\* The file is never ahead of memory.
EpisodeInv == \A d \in managed : disk[d].LockEpisode <= record[d].LockEpisode

\* What every step of a running process does to the numbers of the devices it
\* manages: memory only counts up, and the file keeps its number or takes the
\* one of memory.
EpisodesGrow ==
    \A d \in managed : /\ record'[d].LockEpisode >= record[d].LockEpisode
                       /\ \/ disk'[d].LockEpisode = disk[d].LockEpisode
                          \/ disk'[d].LockEpisode = record'[d].LockEpisode

\* A probe may open an episode; nothing else touches the number.
LEMMA EpisodeOfRecord ==
  ASSUME NEW r \in DeviceRecords
  PROVE  /\ \A o \in ProbeOutcomes : ProbedRecord(r, o).LockEpisode >= r.LockEpisode
         /\ \A o \in UnlockOutcomes : UnlockedRecord(r, o).LockEpisode = r.LockEpisode
         /\ Marked(r).LockEpisode = r.LockEpisode
         /\ [Marked(r) EXCEPT !.State = "error"].LockEpisode = r.LockEpisode
         /\ ClearedRecord(r).LockEpisode = r.LockEpisode
         /\ AgedRecord(r).LockEpisode = r.LockEpisode
<1> USE DEF DeviceRecords
<1>1. ASSUME NEW o \in ProbeOutcomes PROVE ProbedRecord(r, o).LockEpisode >= r.LockEpisode
  <2>1. CASE o.kind = "observed"
    <3>1. Observe(r, o.state).LockEpisode >= r.LockEpisode
      BY DEF Observe
    <3>2. ProbedRecord(r, o).LockEpisode = Observe(r, o.state).LockEpisode
      BY <2>1 DEF ProbedRecord, ShowLatch, Observe
    <3> QED BY <3>1, <3>2
  <2>2. CASE o.kind = "invalid"
    <3>1. InvalidProbe(r).LockEpisode = r.LockEpisode
      BY DEF InvalidProbe
    <3>2. ProbedRecord(r, o).LockEpisode = InvalidProbe(r).LockEpisode
      BY <2>2 DEF ProbedRecord, ShowLatch, InvalidProbe
    <3> QED BY <3>1, <3>2
  <2>3. CASE o.kind \notin {"observed", "invalid"}
    <3>1. ProbeFailed(r, o.kind, o.down).LockEpisode = r.LockEpisode
      BY DEF ProbeFailed
    <3>2. ProbedRecord(r, o).LockEpisode = ProbeFailed(r, o.kind, o.down).LockEpisode
      BY <2>3 DEF ProbedRecord, ShowLatch, ProbeFailed
    <3> QED BY <3>1, <3>2
  <2> QED BY <2>1, <2>2, <2>3
<1>2. ASSUME NEW o \in UnlockOutcomes PROVE UnlockedRecord(r, o).LockEpisode = r.LockEpisode
  BY <1>2 DEF UnlockedRecord, markPreSubmissionRetry
<1>3. /\ Marked(r).LockEpisode = r.LockEpisode
      /\ [Marked(r) EXCEPT !.State = "error"].LockEpisode = r.LockEpisode
      /\ ClearedRecord(r).LockEpisode = r.LockEpisode
      /\ AgedRecord(r).LockEpisode = r.LockEpisode
  BY DEF Marked, ClearedRecord, AgedRecord
<1> QED BY <1>1, <1>2, <1>3

\* Every step but the end and the start of the process.
LEMMA StepsCountUp ==
  ASSUME IInv, [Next]_vars, ~Crash, \A configured \in SUBSET Devices : ~New(configured)
  PROVE  EpisodesGrow
<1> USE DEF IInv, TypeOK
<1>0. \A d \in Devices : /\ record[d] \in DeviceRecords /\ disk[d] \in DeviceRecords
                         /\ record[d].LockEpisode \in Nat /\ disk[d].LockEpisode \in Nat
  BY DEF DeviceRecords
<1>1. ASSUME UNCHANGED <<record, disk>> PROVE EpisodesGrow
  BY <1>0, <1>1 DEF EpisodesGrow
<1>2. ASSUME NEW c \in Callers, NEW o \in Probes, NEW res \in SaveOutcomes, ApplyProbe(c, o, res)
      PROVE  EpisodesGrow
  <2>1. ProbedRecord(record[target[c]], o).LockEpisode >= record[target[c]].LockEpisode
    BY <1>2, Holder, EpisodeOfRecord, EngineAssumption DEF ApplyProbe
  <2>2. record' = [record EXCEPT ![target[c]] = ProbedRecord(record[target[c]], o)]
    BY <1>2 DEF ApplyProbe
  <2>3. disk' = disk \/ disk' = record'
    BY <1>2 DEF ApplyProbe, Saved
  <2> QED BY <1>0, <2>1, <2>2, <2>3 DEF EpisodesGrow
<1>3. ASSUME NEW c \in Callers, NEW res \in SaveOutcomes, MarkUnlockStarted(c, res)
      PROVE  EpisodesGrow
  <2> DEFINE d == target[c]
             marked == [record EXCEPT ![d] = Marked(@)]
  <2>1. d \in Devices
    BY <1>3, Holder DEF MarkUnlockStarted
  <2>2. /\ Marked(record[d]).LockEpisode = record[d].LockEpisode
        /\ [Marked(record[d]) EXCEPT !.State = "error"].LockEpisode = record[d].LockEpisode
    BY <1>0, <2>1, EpisodeOfRecord
  <2>3. \/ UNCHANGED <<record, disk>>
        \/ /\ disk' \in {disk, marked}
           /\ record' \in {marked, [marked EXCEPT ![d].State = "error"]}
    BY <1>3 DEF MarkUnlockStarted, Saved
  <2>4. \A e \in Devices : /\ marked[e].LockEpisode = record[e].LockEpisode
                           /\ [marked EXCEPT ![d].State = "error"][e].LockEpisode
                                = record[e].LockEpisode
    BY <2>1, <2>2
  <2> QED BY <1>0, <1>1, <2>3, <2>4 DEF EpisodesGrow
<1>4. ASSUME NEW c \in Callers, NEW o \in UnlockOutcomes, NEW res \in SaveOutcomes,
             ApplyUnlockResult(c, o, res)
      PROVE  EpisodesGrow
  <2>1. UnlockedRecord(record[target[c]], o).LockEpisode = record[target[c]].LockEpisode
    BY <1>4, Holder, EpisodeOfRecord DEF ApplyUnlockResult
  <2>2. /\ record' = [record EXCEPT ![target[c]] = UnlockedRecord(@, o)]
        /\ disk' = disk \/ disk' = record'
    BY <1>4 DEF ApplyUnlockResult, Saved
  <2> QED BY <1>0, <2>1, <2>2 DEF EpisodesGrow
<1>5. ASSUME NEW d \in Devices, NEW res \in SaveOutcomes, ClearLatch(d, res)
      PROVE  EpisodesGrow
  <2> DEFINE cleared == [record EXCEPT ![d] = ClearedRecord(@)]
  <2>1. \A e \in Devices : cleared[e].LockEpisode = record[e].LockEpisode
    BY <1>0, EpisodeOfRecord
  <2>2. disk' \in {disk, cleared} /\ record' \in {record, cleared}
    BY <1>5 DEF ClearLatch, Saved
  <2> QED BY <1>0, <2>1, <2>2 DEF EpisodesGrow
<1>6. ASSUME NEW d \in Devices, NEW res \in SaveOutcomes, AddDevice(d, res)
      PROVE  EpisodesGrow
  <2>1. record' = record /\ disk' \in {disk, record}
    BY <1>6 DEF AddDevice, Saved
  <2> QED BY <1>0, <2>1 DEF EpisodesGrow
<1>7. CASE ClockTick
  <2>1. \A d \in Devices : /\ record'[d].LockEpisode = record[d].LockEpisode
                           /\ disk'[d].LockEpisode = disk[d].LockEpisode
    BY <1>0, <1>7, EpisodeOfRecord DEF ClockTick
  <2> QED BY <1>0, <2>1 DEF EpisodesGrow
<1>8. ASSUME NEW c \in Callers,
             \/ \E d \in Devices : PollBegin(c, d)
             \/ PollLockOp(c) \/ PollAcquire(c) \/ PollCancelled(c) \/ SubmitCredential(c)
      PROVE  EpisodesGrow
  BY <1>1, <1>8 DEF PollBegin, PollLockOp, PollAcquire, PollCancelled, SubmitCredential
<1>9. CASE UNCHANGED vars
  BY <1>1, <1>9 DEF vars
<1> QED BY <1>2, <1>3, <1>4, <1>5, <1>6, <1>7, <1>8, <1>9 DEF Next, CallerStep

\* A step that keeps the process running manages what it managed, and perhaps
\* one device more, whose record it has just saved.
LEMMA ManagedGrows ==
  ASSUME IInv, [Next]_vars, ~Crash, \A configured \in SUBSET Devices : ~New(configured)
  PROVE  /\ managed \subseteq managed'
         /\ managed' # managed => disk' = record'
<1>1. ASSUME NEW d \in Devices, NEW res \in SaveOutcomes, AddDevice(d, res)
      PROVE  managed \subseteq managed' /\ (managed' # managed => disk' = record')
  BY <1>1 DEF AddDevice, Saved
<1>2. CASE UNCHANGED managed
  BY <1>2
<1>3. ASSUME NEW c \in Callers, CallerStep(c) PROVE UNCHANGED managed
  BY <1>3 DEF CallerStep, PollLockOp, PollAcquire, PollCancelled, SubmitCredential,
              ApplyProbe, MarkUnlockStarted, ApplyUnlockResult, procVars
<1>4. ASSUME \/ \E c \in Callers, d \in Devices : PollBegin(c, d)
             \/ \E d \in Devices, res \in SaveOutcomes : ClearLatch(d, res)
             \/ ClockTick \/ UNCHANGED vars
      PROVE  UNCHANGED managed
  BY <1>4 DEF PollBegin, ClearLatch, ClockTick, vars, procVars
<1> QED BY <1>1, <1>2, <1>3, <1>4 DEF Next

\* The number in the file never goes back, and stays behind memory.
LEMMA EpisodeStep ==
  ASSUME IInv, EpisodeInv, [Next]_vars
  PROVE  /\ EpisodeInv'
         /\ \A d \in managed : disk'[d].LockEpisode >= disk[d].LockEpisode
<1>0. /\ managed \subseteq Devices
      /\ \A d \in Devices : record[d].LockEpisode \in Nat /\ disk[d].LockEpisode \in Nat
  BY DEF IInv, TypeOK, DeviceRecords
<1>1. CASE Crash
  BY <1>0, <1>1 DEF Crash, EpisodeInv
<1>2. ASSUME NEW configured \in SUBSET Devices, New(configured)
      PROVE  /\ EpisodeInv'
             /\ \A d \in managed : disk'[d].LockEpisode >= disk[d].LockEpisode
  <2>1. managed = {} /\ managed' = configured /\ disk' = disk
    BY <1>2 DEF New, IInv, LockInv
  <2>2. \A d \in configured : record'[d] = disk[d]
    BY <1>2 DEF New
  <2> QED BY <1>0, <2>1, <2>2 DEF EpisodeInv
<1>3. CASE ~Crash /\ \A configured \in SUBSET Devices : ~New(configured)
  <2>1. EpisodesGrow
    BY <1>3, StepsCountUp
  <2>2. managed \subseteq managed' /\ (managed' # managed => disk' = record')
    BY <1>3, ManagedGrows
  <2>3. TypeOK'
    BY BaseStep DEF IInv
  <2>4. \A d \in managed' : record'[d].LockEpisode \in Nat /\ disk'[d].LockEpisode \in Nat
    BY <2>3 DEF TypeOK, DeviceRecords
  <2>5. EpisodeInv'
    BY <1>0, <2>1, <2>2, <2>4 DEF EpisodeInv, EpisodesGrow
  <2>6. \A d \in managed : disk'[d].LockEpisode >= disk[d].LockEpisode
    BY <1>0, <2>1, <2>2, <2>4 DEF EpisodeInv, EpisodesGrow
  <2> QED BY <2>5, <2>6
<1> QED BY <1>1, <1>2, <1>3

\* A number given to a lock episode is never given again while the device
\* stays configured, across crashes, failed saves and other devices' saves.
THEOREM EpisodesAreNumbered == Spec => EpisodeCounterNeverGoesBack
<1> DEFINE Forward == \A d \in managed : disk'[d].LockEpisode >= disk[d].LockEpisode
<1>1. Init => EpisodeInv
  BY DEF Init, EpisodeInv
<1>2. IInv /\ EpisodeInv /\ [Next]_vars => EpisodeInv' /\ [Forward]_vars
  BY EpisodeStep
<1> QED BY <1>1, <1>2, Invariance, PTL DEF Spec, EpisodeCounterNeverGoesBack

-----------------------------------------------------------------------------
(* Latches, while the state file can be written *)

\* File and memory agree on the latches, and no crash has erased one.
AgreeInv ==
    /\ \A d \in managed : disk[d].LatchKind = record[d].LatchKind
    /\ \A d \in Devices : alarm[d] # "lost"

\* Steps that save every record and erase no failure.
LEMMA AllSaved ==
  ASSUME IInv, AgreeInv, managed' \subseteq Devices, disk' = record',
         \A d \in Devices : alarm'[d] # "lost"
  PROVE  AgreeInv'
BY DEF AgreeInv

\* When every save succeeds, every step keeps file and memory in agreement.
LEMMA AgreeStep ==
  ASSUME SaveOutcomes = {"ok"}, IInv, AgreeInv, [Next]_vars
  PROVE  AgreeInv'
<1> USE DEF IInv, TypeOK
<1>1. ASSUME NEW c \in Callers, NEW o \in Probes, ApplyProbe(c, o, "ok") PROVE AgreeInv'
  <2>1. UNCHANGED managed /\ target[c] \in Devices
    BY <1>1, Holder DEF ApplyProbe, procVars
  <2>2. \A d \in Devices : alarm'[d] # "lost"
    BY <1>1, <2>1 DEF ApplyProbe, AgreeInv
  <2>3. CASE disk' = record'
    BY <2>1, <2>2, <2>3, AllSaved
  <2>4. CASE disk' # record'
    <3>1. /\ UNCHANGED disk
          /\ ~persistenceRelevantChanged(record[target[c]], ProbedRecord(record[target[c]], o))
          /\ record' = [record EXCEPT ![target[c]] = ProbedRecord(record[target[c]], o)]
      BY <1>1, <2>4 DEF ApplyProbe, Saved
    <3>2. ProbedRecord(record[target[c]], o).LatchKind = record[target[c]].LatchKind
      BY <3>1 DEF persistenceRelevantChanged, PersistedFields
    <3>3. \A d \in Devices : record'[d].LatchKind = record[d].LatchKind
      BY <2>1, <3>1, <3>2
    <3> QED BY <2>1, <2>2, <3>1, <3>3 DEF AgreeInv
  <2> QED BY <2>3, <2>4
<1>2. ASSUME NEW c \in Callers, MarkUnlockStarted(c, "ok") PROVE AgreeInv'
  <2>1. UNCHANGED <<managed, alarm>> /\ (disk' = record' \/ UNCHANGED <<disk, record>>)
    BY <1>2 DEF MarkUnlockStarted, Saved, procVars
  <2> QED BY <2>1 DEF AgreeInv
<1>3. ASSUME NEW c \in Callers, NEW o \in UnlockOutcomes, ApplyUnlockResult(c, o, "ok")
      PROVE  AgreeInv'
  <2>1. UNCHANGED managed /\ target[c] \in Devices /\ disk' = record'
    BY <1>3, Holder DEF ApplyUnlockResult, Saved, procVars
  <2>2. \A d \in Devices : alarm'[d] # "lost"
    BY <1>3, <2>1 DEF ApplyUnlockResult, AgreeInv
  <2> QED BY <2>1, <2>2, AllSaved
<1>4. ASSUME NEW d \in Devices, ClearLatch(d, "ok") \/ AddDevice(d, "ok") PROVE AgreeInv'
  <2>1. managed' \subseteq Devices /\ disk' = record'
    BY <1>4 DEF ClearLatch, AddDevice, Saved, procVars
  <2>2. \A e \in Devices : alarm'[e] # "lost"
    BY <1>4 DEF ClearLatch, AddDevice, historyVars, AgreeInv
  <2> QED BY <2>1, <2>2, AllSaved
<1>5. CASE Crash
  <2>1. \A d \in Devices : alarm[d] = "seen" => Latched(disk[d])
    BY <1>5 DEF Crash, DeviceInv, LatchInv, UnmanagedInv, AgreeInv, Latched
  <2> QED BY <1>5, <2>1 DEF Crash, AgreeInv
<1>6. ASSUME NEW configured \in SUBSET Devices, New(configured) PROVE AgreeInv'
  BY <1>6 DEF New, AgreeInv
<1>7. CASE ClockTick
  <2>1. \A d \in Devices : /\ record'[d].LatchKind = record[d].LatchKind
                           /\ disk'[d].LatchKind = disk[d].LatchKind
    BY <1>7 DEF ClockTick, AgedRecord, DeviceRecords
  <2> QED BY <1>7, <2>1 DEF ClockTick, procVars, AgreeInv
<1>8. ASSUME \/ \E c \in Callers, d \in Devices : PollBegin(c, d)
             \/ \E c \in Callers : \/ PollLockOp(c) \/ PollAcquire(c) \/ PollCancelled(c)
                                   \/ SubmitCredential(c)
             \/ UNCHANGED vars
      PROVE  AgreeInv'
  <2>1. UNCHANGED <<managed, record, disk, alarm>>
    BY <1>8 DEF PollBegin, PollLockOp, PollAcquire, PollCancelled, SubmitCredential, vars,
                procVars, historyVars
  <2> QED BY <2>1 DEF AgreeInv
<1> QED BY <1>1, <1>2, <1>3, <1>4, <1>5, <1>6, <1>7, <1>8 DEF Next, CallerStep

\* As long as the state file can be written, a credential or host-key failure
\* holds back every credential until an operator intervenes, for any number of
\* Macs and callers and across restarts.
THEOREM AcknowledgedBeforeRelease ==
  ASSUME SaveOutcomes = {"ok"}
  PROVE  Spec => []NoReleaseBeforeAcknowledgement
<1>1. Init => AgreeInv
  BY DEF Init, AgreeInv
<1>2. IInv /\ AgreeInv /\ [Next]_vars => AgreeInv'
  BY AgreeStep
<1>3. IInv /\ AgreeInv => NoReleaseBeforeAcknowledgement
  <2> SUFFICES ASSUME IInv, AgreeInv, NEW c \in Callers, Releasing(c)
               PROVE  alarm[target[c]] = "none"
    BY DEF NoReleaseBeforeAcknowledgement
  <2>1. target[c] \in Devices /\ target[c] \in managed
    BY Holder DEF IInv, Releasing
  <2>2. ~Latched(record[target[c]])
    BY <2>1 DEF IInv, DeviceInv, ReleaseInv
  <2> QED BY <2>1, <2>2 DEF IInv, TypeOK, DeviceInv, LatchInv, AgreeInv
<1> QED BY <1>1, <1>2, <1>3, Invariance, PTL DEF Spec
=============================================================================
