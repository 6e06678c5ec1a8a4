--------------------------- MODULE EnrollmentProofs ---------------------------
(***************************************************************************)
(* Enrollment through the control API, among other processes that change   *)
(* devices.json and known_hosts, for any number of requests, processes,    *)
(* candidates, devices, hosts and keys.                                    *)
(*                                                                         *)
(* The properties of the files rest on three arguments.  mutationMu has    *)
(* one holder (MutexInv), so that the position of each request says which  *)
(* line of known_hosts it owns (PinnedInv) and who wrote its entry of      *)
(* devices.json (OwnedInv).  The inbox shows one candidate for a key       *)
(* (CandidateInv), so that no rival unpins the line on which a request     *)
(* relies although it probed without the mutex (RivalInv, LineHeldInv).    *)
(* And the lock of devices.json is held from the check of a name to the    *)
(* save (PreparedInv), so that a password stays with its device.           *)
(***************************************************************************)
EXTENDS Enrollment, FiniteSetTheorems, TLAPS

-----------------------------------------------------------------------------
(* The inductive invariant *)

\* Where a request can be in handleEnroll.
Positions == {"idle", "probing", "probed", "adding", "added", "pinning", "pinned",
              "finishing", "unpin", "unregister", "ending", "done"}

\* Where a request holds mutationMu.
Holding == {"adding", "added", "pinning", "pinned", "finishing", "unpin", "unregister"}

\* The files and who holds the lock of devices.json.
FileType ==
    /\ config \subseteq Device /\ validateDevices(config)
    /\ configLock \in Processes \cup {NoOne}
    /\ known \in Lines
    /\ keyring \in [Names -> Processes \cup {NoOne}]

\* The daemon's memory.
DaemonType ==
    /\ up \in BOOLEAN
    /\ candidate \in [Candidates -> {"absent", "new", "ignored", "verified", "gone"}]
    /\ labels \in [Keys -> SUBSET Names]
    /\ mutationMu \in Requests \cup {NoOne}
    /\ enrolling \subseteq Candidates
    /\ adapter \subseteq Device
    /\ engine \subseteq Names

\* What the properties remember: who wrote an entry of devices.json, whose lines
\* are in known_hosts, the lines of others, the requests that were excused and
\* those whose line could not be read back.
HistoryType ==
    /\ author \in [Names -> Requests \cup Processes \cup {NoOne}]
    /\ line \subseteq Requests
    /\ foreign \in Lines
    /\ excused \subseteq Requests /\ unread \subseteq Requests

\* What is kept of a request.
RequestRecord == [pc : Positions, want : Wanted \cup {NoOne}, pending : BOOLEAN,
                  inserted : BOOLEAN, result : Outcomes]

\* A request that began has a demand.
RequestType ==
    /\ req \in [Requests -> RequestRecord]
    /\ \A r \in Requests : req[r].pc # "idle" => req[r].want \in Wanted

\* What is kept of a command of another process.
CommandRecord == [pc : {"idle", "loaded", "prepared", "forget", "done"},
                  cmd : Commands \cup {NoOne}, loaded : Device \cup {NoOne}]

\* A command that was loaded is about the device it names, and the inventory
\* that `config apply` writes is valid.
Loaded(p) ==
    /\ cli[p].cmd \in Commands /\ cli[p].loaded \in Device
    /\ cli[p].loaded.name = cli[p].cmd.device.name
    /\ cli[p].cmd.op = "apply" => ValidateDevice(cli[p].cmd.device)

\* A command that runs has loaded something.
CommandType ==
    /\ cli \in [Processes -> CommandRecord]
    /\ \A p \in Processes : cli[p].pc # "idle" => Loaded(p)

\* The type invariant, stronger than TypeOK: its parts need one another.
TypeInv == FileType /\ DaemonType /\ HistoryType /\ RequestType /\ CommandType

\* mutationMu is held from the second check to the answer, and dies with the
\* daemon.
MutexInv ==
    /\ \A r \in Requests : mutationMu = r <=> req[r].pc \in Holding
    /\ ~up => mutationMu = NoOne

\* The adapter's devices are the engine's, but for the one that the holder
\* of the mutex is registering or taking back.
AdapterInv ==
    \A d \in adapter :
        \/ d.name \in engine
        \/ /\ mutationMu \in Requests
           /\ req[mutationMu].pc \in {"pinning", "pinned", "unpin", "unregister"}
           /\ d.name = req[mutationMu].want.device.name

\* Which requests have a line in known_hosts, by their position.
Pinned(r) ==
    /\ r \in line => req[r].pc \in {"pinned", "finishing", "unpin", "unregister", "ending", "done"}
    /\ req[r].pc \in {"idle", "probing", "probed", "adding", "added", "pinning"} => ~req[r].inserted
    /\ req[r].pc = "pinned" => (req[r].inserted <=> r \in line)
    /\ req[r].pc = "unpin" => r \in line
    /\ req[r].pc = "unregister" /\ r \in line =>
         r \in unread \/ (r \in excused /\ req[r].result = "rollback-failed")
    /\ req[r].pc \notin {"unregister", "ending", "done"} => req[r].result = "none"
    /\ req[r].pc = "unregister" => req[r].result \in {"none", "rollback-failed"}
    /\ req[r].result = "rolled-back" /\ r \in line => r \in unread

\* Every request knows whether it has a line.
PinnedInv == \A r \in Requests : Pinned(r)

\* Whose entry a name has in devices.json.
Owned(r) ==
    /\ (r \in line \/ req[r].pc \in {"added", "pinning", "pinned", "finishing", "unpin"})
         /\ r \notin excused /\ r \notin unread
         => req[r].want.device \in config /\ author[req[r].want.device.name] = r
    /\ req[r].pc \in {"added", "pinning", "pinned", "finishing", "unpin", "unregister"}
         => author[req[r].want.device.name] \in {r, NoOne} \cup Processes
    /\ \A n \in Names : author[n] = r =>
         /\ req[r].pc \notin {"idle", "probing", "probed", "adding"}
         /\ n = req[r].want.device.name
         /\ req[r].result # "rolled-back"

\* Every request that pinned a key, or may, has its device.
OwnedInv == \A r \in Requests : Owned(r)

\* Only a name that has an entry has an author.
EntryInv == \A n \in Names : author[n] # NoOne => Named(config, n) # {}

\* Until an add saves, the name is free and the password under it is its
\* own or already gone: it holds the lock of devices.json.
PreparedInv ==
    \A p \in Processes : cli[p].pc = "prepared" =>
        /\ configLock = p
        /\ cli[p].cmd.op = "add"
        /\ Named(config, cli[p].loaded.name) = {}
        /\ cli[p].loaded.source = "keyring" => keyring[cli[p].loaded.name] \in {p, NoOne}

\* Only a command that ran wrote an entry.
AuthorInv == \A n \in Names, p \in Processes : author[n] = p => cli[p].pc # "idle"

\* The states of a candidate that is in the inbox.
Present == {"new", "ignored", "verified"}

\* One key has one candidate in the inbox.
OnePerKey ==
    \A c, d \in Candidates :
        c # d /\ CandidateKey[c] = CandidateKey[d] => ~(candidate[c] \in Present /\ candidate[d] \in Present)

\* The candidate of a request was in the inbox, and had the key it verified.
KeyInv ==
    \A r \in Requests : req[r].pc # "idle" =>
        candidate[req[r].want.id] # "absent" /\ req[r].want.fingerprint = CandidateKey[req[r].want.id]

\* A candidate is claimed by one request at a time.
ClaimInv ==
    /\ \A r \in Requests : req[r].pc \notin {"idle", "done"} => req[r].want.id \in enrolling
    /\ \A r, s \in Requests :
         r # s /\ req[r].pc \notin {"idle", "done"} /\ req[s].pc \notin {"idle", "done"}
           => req[r].want.id # req[s].want.id

\* The inbox and the claims on its candidates.
CandidateInv == OnePerKey /\ KeyInv /\ ClaimInv

\* While a request changes the files, every other request about its key has
\* lost its candidate and will be refused.
RivalInv ==
    \A r, s \in Requests :
        /\ r # s /\ req[r].pc \in {"probing", "probed"} /\ req[s].pc \in Holding
        /\ req[r].want.fingerprint = req[s].want.fingerprint
        => candidate[req[r].want.id] = "gone"

\* The host that was asked for has the key that was verified.
PinnedIn(lines, w) == lines[<<w.device.host, w.fingerprint>>] > 0

\* From the probe on, a request with nothing to pin finds the line in place;
\* from the pinning on, every request does.
LineHeldInv ==
    \A r \in Requests :
        /\ req[r].pc = "probed" /\ ~req[r].pending /\ candidate[req[r].want.id] # "gone"
             => PinnedIn(known, req[r].want)
        /\ req[r].pc \in {"adding", "added", "pinning"} /\ ~req[r].pending => PinnedIn(known, req[r].want)
        /\ req[r].pc \in {"pinned", "finishing"} => PinnedIn(known, req[r].want)

-----------------------------------------------------------------------------
(* devices.json *)

\* Add leaves valid devices, and appends to a file in which the name is free.
LEMMA AddKeepsValid ==
    ASSUME NEW devs, devs \subseteq Device, validateDevices(devs), NEW d \in Device
    PROVE  /\ add(devs, d).next \subseteq Device /\ validateDevices(add(devs, d).next)
           /\ add(devs, d).next \in {devs, devs \cup {d}}
           /\ add(devs, d).next # devs => Named(devs, d.name) = {}
           /\ add(devs, d).verdict = "save" => /\ add(devs, d).next = devs \cup {d}
                                               /\ Named(devs, d.name) = {}
  BY DEF add, Validated, Outcome

\* Update leaves valid devices, and replaces the entry of its name.
LEMMA UpdateKeepsValid ==
    ASSUME NEW devs, devs \subseteq Device, validateDevices(devs), NEW d \in Device
    PROVE  /\ Update(devs, d).next \subseteq Device /\ validateDevices(Update(devs, d).next)
           /\ Update(devs, d).next \in {devs, (devs \ Named(devs, d.name)) \cup {d}}
  BY DEF Update, Validated, Outcome, Named

\* Remove leaves valid devices, and takes away the entry of its name.
LEMMA RemoveKeepsValid ==
    ASSUME NEW devs, devs \subseteq Device, validateDevices(devs), NEW name
    PROVE  /\ Remove(devs, name).next \subseteq Device /\ validateDevices(Remove(devs, name).next)
           /\ Remove(devs, name).next \in {devs, devs \ Named(devs, name)}
  BY DEF Remove, Validated, Outcome, Named

\* RemoveIfUnchanged leaves valid devices, takes away the entry it was given and
\* no other, and is content only where the name is free.
LEMMA RemoveIfUnchangedKeepsValid ==
    ASSUME NEW devs, devs \subseteq Device, validateDevices(devs), NEW d \in Device
    PROVE  /\ RemoveIfUnchanged(devs, d).next \subseteq Device
           /\ validateDevices(RemoveIfUnchanged(devs, d).next)
           /\ RemoveIfUnchanged(devs, d).next \in {devs, devs \ {d}}
           /\ RemoveIfUnchanged(devs, d).verdict = "satisfied" => Named(devs, d.name) = {}
           /\ RemoveIfUnchanged(devs, d).verdict = "save" =>
                 d \in devs /\ RemoveIfUnchanged(devs, d).next = devs \ {d}
<1>1. CASE Named(devs, d.name) = {}
    BY <1>1 DEF RemoveIfUnchanged, Outcome, Named
<1>2. CASE Named(devs, d.name) # {} /\ d \in devs
    BY <1>2 DEF RemoveIfUnchanged, Validated, Outcome, validateDevices
<1>3. CASE Named(devs, d.name) # {} /\ d \notin devs
    BY <1>3 DEF RemoveIfUnchanged, Outcome
<1> QED
    BY <1>1, <1>2, <1>3

\* A write leaves the old file or the new one, and signs what it changed.
LEMMA WriteEffect ==
    ASSUME NEW who, NEW next, NEW res, Write(who, next, res)
    PROVE  /\ config' \in {config, next}
           /\ author' = [n \in Names |-> IF Named(config', n) = Named(config, n) THEN author[n]
                                         ELSE IF Named(config', n) = {} THEN NoOne ELSE who]
  BY DEF Write, WritePrivate

\* appendKnownHost and removeKnownHost count in natural numbers.
LEMMA LinesType ==
    ASSUME NEW lines \in Lines, NEW h \in Hosts, NEW k \in Keys, NEW res
    PROVE  /\ WritePrivate(lines, appendKnownHost(lines, h, k), res) \in Lines
           /\ WritePrivate(lines, removeKnownHost(lines, h, k), res) \in Lines
<1>1. <<h, k>> \in Hosts \X Keys
    OBVIOUS
<1>2. lines[<<h, k>>] \in Nat
    BY <1>1 DEF Lines
<1>3. lines[<<h, k>>] + 1 \in Nat /\ (lines[<<h, k>>] > 0 => lines[<<h, k>>] - 1 \in Nat)
    BY <1>2
<1> QED
    BY <1>1, <1>2, <1>3 DEF Lines, WritePrivate, appendKnownHost, removeKnownHost

\* The labels of a key are names of devices.
LEMMA LabelsType ==
    ASSUME NEW devs, devs \subseteq Device
    PROVE  matchPinnedTargetNames(known, devs) \in [Keys -> SUBSET Names]
  BY DEF matchPinnedTargetNames, Device

\* What an enrollment asks for is well-formed.
LEMMA WantedDevice ==
    ASSUME NEW w \in Wanted
    PROVE  w.id \in Candidates /\ w.device \in Device /\ w.fingerprint \in Keys
           /\ w.device.host \in Hosts /\ w.device.name \in Names
  BY EnrollmentAssumption DEF Device

\* What a command is about is well-formed.
LEMMA CommandDevice ==
    ASSUME NEW cmd \in Commands
    PROVE  cmd.op \in {"add", "remove", "auto-unlock", "apply", "accept"} /\ cmd.device \in Device
  BY EnrollmentAssumption

-----------------------------------------------------------------------------
(* What a step leaves alone *)

\* The commands of other processes touch no variable of the daemon.
LEMMA CommandFrame ==
    ASSUME NEW p \in Processes, CommandStep(p)
    PROVE  UNCHANGED <<up, candidate, labels, mutationMu, enrolling, adapter, engine, req, line,
                       unread>>
  BY DEF CommandStep, Load, AddPrepared, AddSave, AutoUnlock, Apply, RemoveDevice, AcceptNew,
         deleteStoredCredential, CommandDies, Mutate, fileVars, daemonVars, historyVars

\* The inbox changes its candidates only.
LEMMA InboxFrame ==
    ASSUME InboxStep
    PROVE  UNCHANGED <<fileVars, configLock, up, labels, mutationMu, enrolling, adapter, engine,
                       req, cli, historyVars>>
  BY DEF InboxStep, Discover, Expire, handleIgnore, handleRestore

\* The append of an enrollment's line, whether it can be read back or not.
Commits(r, res) == \E readable \in BOOLEAN : CommitPendingHostKey(r, res, readable)

\* Which steps of an enrollment change which variable.
LEMMA EnrollFrame ==
    ASSUME NEW r \in Requests, EnrollStep(r)
    PROVE  /\ UNCHANGED <<keyring, configLock, up, cli, foreign>>
           /\ \/ UNCHANGED <<config, author>>
              \/ \E res \in SaveOutcomes : AddContext(r, res) \/ RollbackUnregister(r, res)
           /\ \/ UNCHANGED <<known, line>>
              \/ \E res \in SaveOutcomes : Commits(r, res) \/ RollbackUnpin(r, res)
           /\ UNCHANGED excused \/ \E res \in SaveOutcomes : RollbackUnpin(r, res)
           /\ UNCHANGED unread \/ \E res \in SaveOutcomes : Commits(r, res)
           /\ UNCHANGED <<candidate, labels>> \/ Enrolled(r)
           /\ UNCHANGED enrolling \/ endEnrollment(r) \/ \E w \in Wanted : BeginEnrollment(r, w)
           /\ UNCHANGED engine \/ EngineAddDevice(r)
           /\ \/ UNCHANGED adapter \/ addDevice(r)
              \/ Unadapt(r) /\ req[r].pc \in {"unpin", "unregister"}
           /\ mutationMu' \in {mutationMu, r, NoOne}
  BY DEF EnrollStep, BeginEnrollment, ProbeExpectedHostKey, ProbeFails, Recheck, AddContext,
         AddRefused, addDevice, EnrollmentCancelled, Commits, CommitPendingHostKey, CommitNothing,
         CommitRefused, EngineAddDevice, EngineAddFails, Enrolled, RollbackUnpin,
         RollbackUnregister, RollbackTimesOut, endEnrollment, fileVars, daemonVars, historyVars,
         Answer, Rollback

\* Which steps of a command change which variable.
LEMMA CommandChanges ==
    ASSUME NEW p \in Processes, CommandStep(p)
    PROVE  /\ \/ UNCHANGED <<config, author>>
              \/ \E res \in SaveOutcomes : \/ AddSave(p, res) \/ AutoUnlock(p, res)
                                           \/ Apply(p, res) \/ RemoveDevice(p, res)
           /\ UNCHANGED excused \/ excused' = excused \cup Abandoned
           /\ UNCHANGED <<known, foreign>> \/ \E k \in Keys, res \in SaveOutcomes : AcceptNew(p, k, res)
           /\ UNCHANGED keyring \/ AddPrepared(p) \/ deleteStoredCredential(p)
           /\ configLock' \in {configLock, p, NoOne}
           /\ \/ UNCHANGED configLock \/ configLock \in {p, NoOne}
              \/ \E res \in SaveOutcomes : AddSave(p, res)
  BY DEF CommandStep, Load, AddPrepared, AddSave, AutoUnlock, Apply, RemoveDevice, AcceptNew,
         deleteStoredCredential, CommandDies, Mutate, ConfigFree, fileVars, daemonVars, historyVars

\* The daemon's end and start change no file.
LEMMA ProcessFrame ==
    ASSUME Crash \/ Start
    PROVE  UNCHANGED <<fileVars, configLock, candidate, cli, historyVars>>
  BY DEF Crash, Start

\* The request moves, and keeps what it asked for and what it found.
Moves(r, pc, result) ==
    /\ req' \in [Requests -> RequestRecord]
    /\ \A s \in Requests \ {r} : req'[s] = req[s]
    /\ req'[r].pc = pc /\ req'[r].want = req[r].want /\ req'[r].result = result

\* Going on changes the position only.
LEMMA StepMoves ==
    ASSUME RequestType, NEW r \in Requests, NEW pc \in Positions, Step(r, pc)
    PROVE  /\ Moves(r, pc, req[r].result)
           /\ req'[r].pending <=> req[r].pending
           /\ req'[r].inserted <=> req[r].inserted
  BY DEF RequestType, RequestRecord, Step, Moves

\* An answer ends the request and gives mutationMu back.
LEMMA AnswerMoves ==
    ASSUME RequestType, NEW r \in Requests, NEW result \in Outcomes, Answer(r, result)
    PROVE  /\ Moves(r, "ending", result)
           /\ req'[r].pending <=> req[r].pending
           /\ req'[r].inserted <=> req[r].inserted
           /\ mutationMu' = IF mutationMu = r THEN NoOne ELSE mutationMu
  BY DEF RequestType, RequestRecord, Positions, Answer, Moves

\* failEnrollment goes to the unpinning when a line may be there.
LEMMA FailureMoves ==
    ASSUME RequestType, NEW r \in Requests, NEW owned \in BOOLEAN, failEnrollment(r, owned)
    PROVE  /\ owned => Moves(r, "unpin", req[r].result)
           /\ ~owned => Moves(r, "unregister", req[r].result)
           /\ req'[r].pending <=> req[r].pending
           /\ req'[r].inserted <=> owned
<1>1. CASE owned
    BY <1>1 DEF RequestType, RequestRecord, Positions, failEnrollment, Moves
<1>2. CASE ~owned
    BY <1>2 DEF RequestType, RequestRecord, Positions, failEnrollment, Moves
<1> QED
    BY <1>1, <1>2

\* The unpinning goes on to the unregistering, failed or not.
LEMMA UnpinMoves ==
    ASSUME RequestType, NEW r \in Requests, NEW res, RollbackUnpin(r, res)
    PROVE  /\ res = "ok" => Moves(r, "unregister", req[r].result)
           /\ res # "ok" => Moves(r, "unregister", "rollback-failed")
           /\ req'[r].pending <=> req[r].pending
           /\ req'[r].inserted <=> req[r].inserted
<1>1. CASE res = "ok"
    BY <1>1 DEF RequestType, RequestRecord, Positions, RollbackUnpin, Moves
<1>2. CASE res # "ok"
    BY <1>2 DEF RequestType, RequestRecord, Positions, Outcomes, RollbackUnpin, Moves
<1> QED
    BY <1>1, <1>2

\* The pinning goes on, or to the rollback that its outcome calls for.
LEMMA CommitMoves ==
    ASSUME RequestType, NEW r \in Requests, NEW res, Commits(r, res)
    PROVE  /\ res = "ok" => Moves(r, "pinned", req[r].result) /\ req'[r].inserted
           /\ res = "failNew" =>
                \/ Moves(r, "unpin", req[r].result) /\ req'[r].inserted
                \/ /\ Moves(r, "unregister", req[r].result)
                   /\ ~req'[r].inserted /\ r \in unread'
           /\ res \notin {"ok", "failNew"} => Moves(r, "unregister", req[r].result) /\ ~req'[r].inserted
           /\ req'[r].pending <=> req[r].pending
           /\ unread' \in {unread, unread \cup {r}}
<1>0. PICK readable \in BOOLEAN : CommitPendingHostKey(r, res, readable)
    BY DEF Commits
<1>1. unread' = IF res = "failNew" /\ ~readable THEN unread \cup {r} ELSE unread
    BY <1>0 DEF CommitPendingHostKey
<1>2. CASE res = "ok"
    BY <1>0, <1>1, <1>2 DEF RequestType, RequestRecord, Positions, CommitPendingHostKey, Moves
<1>3. CASE res # "ok"
  <2>1. failEnrollment(r, res = "failNew" /\ readable)
    BY <1>0, <1>3 DEF CommitPendingHostKey
  <2>2. CASE res = "failNew" /\ readable
    <3>1. failEnrollment(r, TRUE)
      BY <2>1, <2>2
    <3>2. Moves(r, "unpin", req[r].result) /\ req'[r].inserted /\ (req'[r].pending <=> req[r].pending)
      BY <3>1 DEF RequestType, RequestRecord, Positions, failEnrollment, Moves
    <3> QED
      BY <1>1, <1>3, <2>2, <3>2
  <2>3. CASE ~(res = "failNew" /\ readable)
    <3>1. failEnrollment(r, FALSE)
      BY <2>1, <2>3
    <3>2. Moves(r, "unregister", req[r].result) /\ ~req'[r].inserted /\ (req'[r].pending <=> req[r].pending)
      BY <3>1 DEF RequestType, RequestRecord, Positions, failEnrollment, Moves
    <3> QED
      BY <1>1, <1>3, <2>3, <3>2
  <2> QED
    BY <2>2, <2>3
<1> QED
    BY <1>2, <1>3

\* The probe remembers whether the key is new.
LEMMA ProbeMoves ==
    ASSUME RequestType, NEW r \in Requests, NEW k, ProbeExpectedHostKey(r, k)
    PROVE  /\ Moves(r, "probed", req[r].result)
           /\ req'[r].pending <=> verifyHostKeyLocked(known, req[r].want.device.host, k, TRUE,
                                                      req[r].want.fingerprint) = "new"
           /\ req'[r].inserted <=> req[r].inserted
<1> DEFINE verdict == verifyHostKeyLocked(known, req[r].want.device.host, k, TRUE,
                                          req[r].want.fingerprint)
<1>1. req' = [req EXCEPT ![r].pc = "probed", ![r].pending = (verdict = "new")]
    BY DEF ProbeExpectedHostKey
<1> HIDE DEF verdict
<1>2. /\ Moves(r, "probed", req[r].result)
      /\ req'[r].pending <=> verdict = "new"
      /\ req'[r].inserted <=> req[r].inserted
  <2>1. CASE verdict = "new"
    <3>1. req' = [req EXCEPT ![r].pc = "probed", ![r].pending = TRUE]
      BY <1>1, <2>1
    <3> QED
      BY <2>1, <3>1 DEF RequestType, RequestRecord, Positions, Moves
  <2>2. CASE verdict # "new"
    <3>1. req' = [req EXCEPT ![r].pc = "probed", ![r].pending = FALSE]
      BY <1>1, <2>2
    <3> QED
      BY <2>2, <3>1 DEF RequestType, RequestRecord, Positions, Moves
  <2> QED
    BY <2>1, <2>2
<1> QED
    BY <1>2 DEF verdict

\* A request begins with what it asks for.
LEMMA BeginMoves ==
    ASSUME RequestType, NEW r \in Requests, NEW w \in Wanted, BeginEnrollment(r, w)
    PROVE  /\ req' \in [Requests -> RequestRecord]
           /\ \A s \in Requests \ {r} : req'[s] = req[s]
           /\ req'[r].pc = "probing" /\ req'[r].want = w /\ req'[r].result = req[r].result
           /\ req'[r].inserted <=> req[r].inserted
  BY DEF RequestType, RequestRecord, Positions, BeginEnrollment

\* The rollback is reported as complete when no step of it failed.
LEMMA RollbackMoves ==
    ASSUME RequestType, NEW r \in Requests, NEW ok \in BOOLEAN, Rollback(r, ok)
    PROVE  /\ \/ ok /\ req[r].result = "none" /\ Moves(r, "ending", "rolled-back")
              \/ Moves(r, "ending", "rollback-failed")
           /\ req'[r].pending <=> req[r].pending
           /\ req'[r].inserted <=> req[r].inserted
           /\ mutationMu' = IF mutationMu = r THEN NoOne ELSE mutationMu
<1>1. CASE ok /\ req[r].result = "none"
  <2>1. Answer(r, "rolled-back")
    BY <1>1 DEF Rollback
  <2> QED
    BY <1>1, <2>1, AnswerMoves DEF Outcomes
<1>2. CASE ~(ok /\ req[r].result = "none")
  <2>1. Answer(r, "rollback-failed")
    BY <1>2 DEF Rollback
  <2> QED
    BY <2>1, AnswerMoves DEF Outcomes
<1> QED
    BY <1>1, <1>2

\* One step of an enrollment changes one request, which keeps its demand.
LEMMA OneRequest ==
    ASSUME RequestType, NEW r \in Requests, EnrollStep(r)
    PROVE  /\ req' \in [Requests -> RequestRecord]
           /\ \A s \in Requests \ {r} : req'[s] = req[s]
           /\ req'[r].pc # "idle" /\ req'[r].want \in Wanted
           /\ req[r].pc # "idle" => req'[r].want = req[r].want
<1>1. ASSUME NEW w \in Wanted, BeginEnrollment(r, w)
       PROVE  /\ req' \in [Requests -> RequestRecord]
              /\ \A s \in Requests \ {r} : req'[s] = req[s]
              /\ req'[r].pc # "idle" /\ req'[r].want \in Wanted
              /\ req[r].pc # "idle" => req'[r].want = req[r].want
  <2>1. req[r].pc = "idle"
    BY <1>1 DEF BeginEnrollment
  <2> QED
    BY <1>1, <2>1, BeginMoves
<1>2. ASSUME NEW k \in Keys, ProbeExpectedHostKey(r, k)
       PROVE  /\ req' \in [Requests -> RequestRecord]
              /\ \A s \in Requests \ {r} : req'[s] = req[s]
              /\ req'[r].pc # "idle" /\ req'[r].want \in Wanted
              /\ req[r].pc # "idle" => req'[r].want = req[r].want
  <2>1. req[r].pc = "probing"
    BY <1>2 DEF ProbeExpectedHostKey
  <2> QED
    BY <1>2, <2>1, ProbeMoves DEF RequestType, Moves
<1>3. CASE ProbeFails(r)
    BY <1>3, AnswerMoves DEF RequestType, RequestRecord, Positions, Outcomes, Moves, ProbeFails
<1>4. CASE Recheck(r)
    BY <1>4, StepMoves, AnswerMoves
    DEF RequestType, RequestRecord, Positions, Outcomes, Moves, Recheck
<1>5. ASSUME NEW res \in SaveOutcomes, AddContext(r, res)
       PROVE  /\ req' \in [Requests -> RequestRecord]
              /\ \A s \in Requests \ {r} : req'[s] = req[s]
              /\ req'[r].pc # "idle" /\ req'[r].want \in Wanted
              /\ req[r].pc # "idle" => req'[r].want = req[r].want
    BY <1>5, StepMoves, AnswerMoves
    DEF RequestType, RequestRecord, Positions, Outcomes, Moves, AddContext
<1>6. CASE AddRefused(r)
    BY <1>6, AnswerMoves DEF RequestType, RequestRecord, Positions, Outcomes, Moves, AddRefused
<1>7. CASE addDevice(r)
    BY <1>7, StepMoves DEF RequestType, RequestRecord, Positions, Outcomes, Moves, addDevice
<1>8. CASE EnrollmentCancelled(r)
    BY <1>8, FailureMoves
    DEF RequestType, RequestRecord, Positions, Outcomes, Moves, EnrollmentCancelled
<1>9. ASSUME NEW res \in SaveOutcomes, Commits(r, res)
       PROVE  /\ req' \in [Requests -> RequestRecord]
              /\ \A s \in Requests \ {r} : req'[s] = req[s]
              /\ req'[r].pc # "idle" /\ req'[r].want \in Wanted
              /\ req[r].pc # "idle" => req'[r].want = req[r].want
  <2>1. req[r].pc = "pinning"
    BY <1>9 DEF Commits, CommitPendingHostKey
  <2> QED
    BY <1>9, <2>1, CommitMoves DEF RequestType, Moves
<1>10. CASE CommitNothing(r)
    BY <1>10, StepMoves DEF RequestType, RequestRecord, Positions, Outcomes, Moves, CommitNothing
<1>11. CASE CommitRefused(r)
    BY <1>11, FailureMoves DEF RequestType, RequestRecord, Positions, Outcomes, Moves, CommitRefused
<1>12. CASE EngineAddDevice(r)
    BY <1>12, StepMoves DEF RequestType, RequestRecord, Positions, Outcomes, Moves, EngineAddDevice
<1>13. CASE EngineAddFails(r)
    BY <1>13, FailureMoves DEF RequestType, RequestRecord, Moves, EngineAddFails
<1>14. CASE Enrolled(r)
    BY <1>14, AnswerMoves DEF RequestType, RequestRecord, Positions, Outcomes, Moves, Enrolled
<1>15. ASSUME NEW res \in SaveOutcomes, RollbackUnpin(r, res)
       PROVE  /\ req' \in [Requests -> RequestRecord]
              /\ \A s \in Requests \ {r} : req'[s] = req[s]
              /\ req'[r].pc # "idle" /\ req'[r].want \in Wanted
              /\ req[r].pc # "idle" => req'[r].want = req[r].want
  <2>1. req[r].pc = "unpin"
    BY <1>15 DEF RollbackUnpin
  <2> QED
    BY <1>15, <2>1, UnpinMoves DEF RequestType, Moves
<1>16. ASSUME NEW res \in SaveOutcomes, RollbackUnregister(r, res)
       PROVE  /\ req' \in [Requests -> RequestRecord]
              /\ \A s \in Requests \ {r} : req'[s] = req[s]
              /\ req'[r].pc # "idle" /\ req'[r].want \in Wanted
              /\ req[r].pc # "idle" => req'[r].want = req[r].want
    BY <1>16, RollbackMoves
    DEF RequestType, RequestRecord, Positions, Outcomes, Moves, RollbackUnregister
<1>17. CASE RollbackTimesOut(r)
    BY <1>17, RollbackMoves
    DEF RequestType, RequestRecord, Positions, Outcomes, Moves, RollbackTimesOut
<1>18. CASE endEnrollment(r)
    BY <1>18, StepMoves DEF RequestType, RequestRecord, Positions, Outcomes, Moves, endEnrollment
<1> QED
    BY <1>1, <1>2, <1>3, <1>4, <1>5, <1>6, <1>7, <1>8, <1>9, <1>10, <1>11, <1>12,
       <1>13, <1>14, <1>15, <1>16, <1>17, <1>18 DEF EnrollStep, Commits

\* The crash ends every request that has begun and keeps what it asked for.
LEMMA CrashMoves ==
    ASSUME RequestType, Crash
    PROVE  /\ req' \in [Requests -> RequestRecord]
           /\ \A s \in Requests :
                /\ req'[s].want = req[s].want
                /\ req[s].pc = "idle" => req'[s] = req[s]
                /\ req[s].pc # "idle" => req'[s].pc = "done"
                /\ req'[s].result \in {req[s].result, "crashed"}
<1>1. ASSUME NEW s \in Requests
      PROVE  /\ req'[s] \in RequestRecord
             /\ req'[s].want = req[s].want
             /\ req[s].pc = "idle" => req'[s] = req[s]
             /\ req[s].pc # "idle" => req'[s].pc = "done"
             /\ req'[s].result \in {req[s].result, "crashed"}
  <2>1. req[s] \in RequestRecord
    BY DEF RequestType
  <2>2. CASE req[s].pc \in {"idle", "done"}
    <3>1. req'[s] = req[s]
      BY <2>2 DEF Crash
    <3> QED
      BY <2>1, <2>2, <3>1
  <2>3. CASE req[s].pc \notin {"idle", "done"}
    <3>1. req'[s] = [req[s] EXCEPT !.pc = "done",
                                   !.result = IF @ = "none" THEN "crashed" ELSE @]
      BY <2>3 DEF Crash
    <3>2. CASE req[s].result = "none"
      BY <2>1, <2>3, <3>1, <3>2 DEF RequestRecord, Positions, Outcomes
    <3>3. CASE req[s].result # "none"
      BY <2>1, <2>3, <3>1, <3>3 DEF RequestRecord, Positions, Outcomes
    <3> QED
      BY <3>2, <3>3
  <2> QED
    BY <2>2, <2>3
<1>2. req' \in [Requests -> RequestRecord]
    BY <1>1 DEF Crash
<1> QED
    BY <1>1, <1>2

\* A command that goes on keeps what it was given and what it loaded.
LEMMA ExitMoves ==
    ASSUME CommandType, NEW p \in Processes, cli[p].pc # "idle",
           NEW pc \in {"loaded", "prepared", "forget", "done"},
           cli' = [cli EXCEPT ![p].pc = pc]
    PROVE  /\ cli' \in [Processes -> CommandRecord]
           /\ \A q \in Processes \ {p} : cli'[q] = cli[q]
           /\ cli'[p].pc = pc /\ cli'[p].cmd = cli[p].cmd /\ cli'[p].loaded = cli[p].loaded
  BY DEF CommandType, CommandRecord

\* Naming the device of a command.
LEMMA SelectedDevice ==
    ASSUME FileType, NEW cmd \in Commands, Selected(cmd) # {}
    PROVE  LET d == CHOOSE d \in Selected(cmd) : TRUE
           IN  d \in config /\ d \in Device /\ d.name = cmd.device.name
  BY DEF FileType, Selected, Named

\* What Load takes from devices.json is about the device the command names.
LEMMA LoadMoves ==
    ASSUME FileType, CommandType, NEW p \in Processes, NEW cmd \in Commands, Load(p, cmd)
    PROVE  /\ cli' \in [Processes -> CommandRecord]
           /\ \A q \in Processes \ {p} : cli'[q] = cli[q]
           /\ cli[p].pc = "idle"
           /\ cli'[p].pc = "loaded" /\ cli'[p].cmd = cmd
           /\ cli'[p].loaded \in Device /\ cli'[p].loaded.name = cmd.device.name
           /\ cmd.op = "apply" => ValidateDevice(cmd.device)
<1> DEFINE got == IF cmd.op \in {"add", "apply"} THEN cmd.device ELSE CHOOSE d \in Selected(cmd) : TRUE
<1>1. cli' = [cli EXCEPT ![p] = [pc |-> "loaded", cmd |-> cmd, loaded |-> got]] /\ cli[p].pc = "idle"
    BY ZenonT(30) DEF Load
<1>2. cmd.op \notin {"add", "apply"} => Selected(cmd) # {}
    BY ZenonT(30) DEF Load
<1>3. cmd.op = "apply" => validateDevices({cmd.device})
  <2>1. CASE cmd.op = "apply"
    <3>1. cmd.op # "add"
      BY <2>1
    <3> QED
      BY <2>1, <3>1, ZenonT(30) DEF Load
  <2> QED
    BY <2>1
<1>4. cmd.op = "apply" => ValidateDevice(cmd.device)
    BY <1>3 DEF validateDevices
<1>5. got \in Device /\ got.name = cmd.device.name
  <2>1. CASE cmd.op \in {"add", "apply"}
    BY <2>1, CommandDevice
  <2>2. CASE cmd.op \notin {"add", "apply"}
    BY <1>2, <2>2, SelectedDevice
  <2> QED
    BY <2>1, <2>2
<1> HIDE DEF got
<1> QED
    BY <1>1, <1>4, <1>5 DEF CommandType, CommandRecord

\* One step of a command changes one command, which keeps its arguments.
LEMMA OneCommand ==
    ASSUME FileType, CommandType, NEW p \in Processes, CommandStep(p)
    PROVE  /\ cli' \in [Processes -> CommandRecord]
           /\ \A q \in Processes \ {p} : cli'[q] = cli[q]
           /\ cli'[p].pc # "idle" /\ Loaded(p)'
           /\ cli[p].pc # "idle" =>
                /\ cli'[p].pc # "loaded"
                /\ cli'[p].cmd = cli[p].cmd /\ cli'[p].loaded = cli[p].loaded
<1>1. ASSUME NEW cmd \in Commands, Load(p, cmd)
      PROVE  /\ cli' \in [Processes -> CommandRecord]
             /\ \A q \in Processes \ {p} : cli'[q] = cli[q]
             /\ cli'[p].pc # "idle" /\ Loaded(p)'
             /\ cli[p].pc = "idle"
    BY <1>1, LoadMoves DEF Loaded
<1>2. ASSUME cli[p].pc # "idle", NEW pc \in {"prepared", "forget", "done"},
             cli' = [cli EXCEPT ![p].pc = pc]
      PROVE  /\ cli' \in [Processes -> CommandRecord]
             /\ \A q \in Processes \ {p} : cli'[q] = cli[q]
             /\ cli'[p].pc # "idle" /\ Loaded(p)'
             /\ cli'[p].pc # "loaded"
             /\ cli'[p].cmd = cli[p].cmd /\ cli'[p].loaded = cli[p].loaded
  <2>1. /\ cli' \in [Processes -> CommandRecord]
        /\ \A q \in Processes \ {p} : cli'[q] = cli[q]
        /\ cli'[p].pc = pc /\ cli'[p].cmd = cli[p].cmd /\ cli'[p].loaded = cli[p].loaded
    BY <1>2, ExitMoves
  <2>2. Loaded(p)
    BY <1>2 DEF CommandType
  <2> QED
    BY <2>1, <2>2 DEF Loaded
<1>3. ASSUME ~\E cmd \in Commands : Load(p, cmd)
      PROVE  cli[p].pc # "idle" /\ \E pc \in {"prepared", "forget", "done"} : cli' = [cli EXCEPT ![p].pc = pc]
  <2>1. CASE AddPrepared(p)
    BY <2>1 DEF AddPrepared, Running, Exit
  <2>2. ASSUME NEW res \in SaveOutcomes, AddSave(p, res)
        PROVE  cli[p].pc # "idle" /\ Exit(p)
    BY <2>2 DEF AddSave, Running
  <2>3. ASSUME NEW res \in SaveOutcomes, AutoUnlock(p, res)
        PROVE  cli[p].pc # "idle" /\ Exit(p)
    BY <2>3 DEF AutoUnlock, Running
  <2>4. ASSUME NEW res \in SaveOutcomes, Apply(p, res)
        PROVE  cli[p].pc # "idle" /\ Exit(p)
    BY <2>4 DEF Apply, Running
  <2>5. ASSUME NEW res \in SaveOutcomes, RemoveDevice(p, res)
        PROVE  cli[p].pc # "idle" /\ \E pc \in {"prepared", "forget", "done"} : cli' = [cli EXCEPT ![p].pc = pc]
    BY <2>5 DEF RemoveDevice, Running
  <2>6. ASSUME NEW k \in Keys, NEW res \in SaveOutcomes, AcceptNew(p, k, res)
        PROVE  cli[p].pc # "idle" /\ Exit(p)
    BY <2>6 DEF AcceptNew, Running
  <2>7. CASE deleteStoredCredential(p)
    BY <2>7 DEF deleteStoredCredential, Exit
  <2>8. CASE CommandDies(p)
    BY <2>8 DEF CommandDies, Exit
  <2> QED
    BY <1>3, <2>1, <2>2, <2>3, <2>4, <2>5, <2>6, <2>7, <2>8 DEF CommandStep, Exit
<1> QED
    BY <1>1, <1>2, <1>3

-----------------------------------------------------------------------------
(* Types *)

\* Requests stay well-formed.
LEMMA RequestTypeStep ==
    ASSUME RequestType, Next
    PROVE  RequestType'
<1>1. ASSUME NEW r \in Requests, EnrollStep(r)
      PROVE  RequestType'
    BY <1>1, OneRequest DEF RequestType
<1>2. ASSUME NEW p \in Processes, CommandStep(p)
      PROVE  RequestType'
    BY <1>2, CommandFrame DEF RequestType
<1>3. CASE InboxStep
    BY <1>3, InboxFrame DEF RequestType
<1>4. CASE Crash
    BY <1>4, CrashMoves DEF RequestType
<1>5. CASE Start
    BY <1>5 DEF RequestType, Start
<1> QED
    BY <1>1, <1>2, <1>3, <1>4, <1>5 DEF Next

\* Commands stay well-formed.
LEMMA CommandTypeStep ==
    ASSUME FileType, CommandType, Next
    PROVE  CommandType'
<1>1. ASSUME NEW p \in Processes, CommandStep(p)
      PROVE  CommandType'
  <2>1. \A q \in Processes \ {p} : Loaded(q) => Loaded(q)'
    BY <1>1, OneCommand DEF Loaded
  <2> QED
    BY <1>1, <2>1, OneCommand DEF CommandType
<1>2. ASSUME UNCHANGED cli
      PROVE  CommandType'
    BY <1>2 DEF CommandType, Loaded
<1> QED
    BY <1>1, <1>2, EnrollFrame, InboxFrame DEF Next, Crash, Start

\* Every writer of devices.json leaves valid devices.
LEMMA ConfigStep ==
    ASSUME FileType, RequestType, CommandType, Next
    PROVE  config' \subseteq Device /\ validateDevices(config')
<1> DEFINE Good(devs) == devs \subseteq Device /\ validateDevices(devs)
<1>0. Good(config)
    BY DEF FileType
<1>1. ASSUME NEW who, NEW next, NEW res, Write(who, next, res), Good(next)
      PROVE  Good(config')
    BY <1>0, <1>1, WriteEffect
<1>2. ASSUME NEW r \in Requests, EnrollStep(r)
      PROVE  Good(config')
  <2>1. ASSUME NEW res \in SaveOutcomes, AddContext(r, res)
        PROVE  Good(config')
    <3>1. req[r].want.device \in Device
      BY <2>1, WantedDevice DEF AddContext, RequestType
    <3>2. Good(add(config, req[r].want.device).next)
      BY <1>0, <3>1, AddKeepsValid
    <3>3. Write(r, add(config, req[r].want.device).next, res)
      BY <2>1 DEF AddContext
    <3> QED
      BY <1>1, <3>2, <3>3
  <2>2. ASSUME NEW res \in SaveOutcomes, RollbackUnregister(r, res)
        PROVE  Good(config')
    <3>1. req[r].want.device \in Device
      BY <2>2, WantedDevice DEF RollbackUnregister, RequestType
    <3>2. Good(RemoveIfUnchanged(config, req[r].want.device).next)
      BY <1>0, <3>1, RemoveIfUnchangedKeepsValid
    <3>3. Write(r, RemoveIfUnchanged(config, req[r].want.device).next, res) \/ config' = config
      BY <2>2 DEF RollbackUnregister
    <3> QED
      BY <1>0, <1>1, <3>2, <3>3
  <2> QED
    BY <1>0, <1>2, <2>1, <2>2, EnrollFrame
<1>3. ASSUME NEW p \in Processes, CommandStep(p)
      PROVE  Good(config')
  <2>1. cli[p].pc # "idle" => cli[p].cmd.device \in Device /\ Loaded(p)
    BY CommandDevice DEF CommandType, Loaded
  <2>2. ASSUME NEW res \in SaveOutcomes, AddSave(p, res)
        PROVE  Good(config')
    <3>1. cli[p].loaded \in Device
      BY <2>1, <2>2 DEF AddSave, Running, Loaded
    <3>2. Good(add(config, cli[p].loaded).next)
      BY <1>0, <3>1, AddKeepsValid
    <3>3. Write(p, add(config, cli[p].loaded).next, res)
      BY <2>2 DEF AddSave
    <3> QED
      BY <1>1, <3>2, <3>3
  <2>3. ASSUME NEW res \in SaveOutcomes, AutoUnlock(p, res)
        PROVE  Good(config')
    <3> DEFINE d == [cli[p].loaded EXCEPT !.auto = cli[p].cmd.device.auto]
    <3>1. d \in Device
      BY <2>1, <2>3 DEF AutoUnlock, Running, Loaded, Device
    <3>2. Write(p, Update(config, d).next, res)
      BY <2>3 DEF AutoUnlock, Mutate
    <3> HIDE DEF d
    <3>3. Good(Update(config, d).next)
      BY <1>0, <3>1, UpdateKeepsValid
    <3> QED
      BY <1>1, <3>2, <3>3
  <2>4. ASSUME NEW res \in SaveOutcomes, Apply(p, res)
        PROVE  Good(config')
    <3>1. Write(p, {cli[p].cmd.device}, res)
      BY <2>4 DEF Apply, Mutate
    <3>2. cli[p].cmd.device \in Device /\ ValidateDevice(cli[p].cmd.device)
      BY <2>1, <2>4 DEF Apply, Running, Loaded
    <3>3. Good({cli[p].cmd.device})
      BY <3>2 DEF validateDevices
    <3> QED
      BY <1>1, <3>1, <3>3
  <2>5. ASSUME NEW res \in SaveOutcomes, RemoveDevice(p, res)
        PROVE  Good(config')
    <3>1. Write(p, Remove(config, cli[p].loaded.name).next, res)
      BY <2>5 DEF RemoveDevice, Mutate
    <3>2. Good(Remove(config, cli[p].loaded.name).next)
      BY <1>0, RemoveKeepsValid
    <3> QED
      BY <1>1, <3>1, <3>2
  <2> QED
    BY <1>0, <1>3, <2>2, <2>3, <2>4, <2>5, CommandChanges
<1>4. ASSUME InboxStep \/ Crash \/ Start
      PROVE  config' = config
    BY <1>4, InboxFrame, ProcessFrame DEF fileVars
<1> QED
    BY <1>0, <1>2, <1>3, <1>4 DEF Next

\* The lines of known_hosts, ours and those of others, stay numbers.
LEMMA KnownStep ==
    ASSUME FileType, HistoryType, RequestType, CommandType, Next
    PROVE  known' \in Lines /\ foreign' \in Lines
<1>0. known \in Lines /\ foreign \in Lines
    BY DEF FileType, HistoryType
<1>1. ASSUME NEW r \in Requests, NEW res \in SaveOutcomes,
             Commits(r, res) \/ RollbackUnpin(r, res)
      PROVE  known' \in Lines /\ foreign' = foreign
  <2>1. req[r].want.device.host \in Hosts /\ req[r].want.fingerprint \in Keys
    BY <1>1, WantedDevice DEF Commits, CommitPendingHostKey, RollbackUnpin, RequestType
  <2> QED
    BY <1>0, <1>1, <2>1, LinesType DEF Commits, CommitPendingHostKey, RollbackUnpin
<1>2. ASSUME NEW p \in Processes, NEW k \in Keys, NEW res \in SaveOutcomes, AcceptNew(p, k, res)
      PROVE  known' \in Lines /\ foreign' \in Lines
  <2>1. cli[p].loaded.host \in Hosts
    BY <1>2 DEF AcceptNew, Running, CommandType, Loaded, Device
  <2> QED
    BY <1>0, <1>2, <2>1, LinesType DEF AcceptNew
<1>3. ASSUME InboxStep \/ Crash \/ Start
      PROVE  known' = known /\ foreign' = foreign
    BY <1>3, InboxFrame, ProcessFrame DEF fileVars, historyVars
<1> QED
    BY <1>0, <1>1, <1>2, <1>3, EnrollFrame, CommandChanges DEF Next

\* The files stay well-formed.
LEMMA FileTypeStep ==
    ASSUME FileType, HistoryType, RequestType, CommandType, Next
    PROVE  FileType'
<1>1. configLock' \in Processes \cup {NoOne}
    BY EnrollFrame, CommandChanges, InboxFrame, ProcessFrame DEF FileType, Next
<1>2. keyring' \in [Names -> Processes \cup {NoOne}]
  <2>1. ASSUME NEW p \in Processes, AddPrepared(p) \/ deleteStoredCredential(p)
        PROVE  keyring' \in [Names -> Processes \cup {NoOne}]
    BY <2>1 DEF FileType, AddPrepared, deleteStoredCredential
  <2>2. ASSUME UNCHANGED keyring
        PROVE  keyring' \in [Names -> Processes \cup {NoOne}]
    BY <2>2 DEF FileType
  <2> QED
    BY <2>1, <2>2, EnrollFrame, CommandChanges, InboxFrame, ProcessFrame DEF Next, fileVars
<1> QED
    BY <1>1, <1>2, ConfigStep, KnownStep DEF FileType

\* Who wrote what is in devices.json.
LEMMA AuthorType ==
    ASSUME FileType, HistoryType, RequestType, CommandType, Next
    PROVE  author' \in [Names -> Requests \cup Processes \cup {NoOne}]
<1>1. ASSUME NEW who \in Requests \cup Processes, NEW next, NEW res, Write(who, next, res)
      PROVE  author' \in [Names -> Requests \cup Processes \cup {NoOne}]
    BY <1>1, WriteEffect DEF HistoryType
<1>2. ASSUME UNCHANGED author
      PROVE  author' \in [Names -> Requests \cup Processes \cup {NoOne}]
    BY <1>2 DEF HistoryType
<1>3. ASSUME NEW r \in Requests, EnrollStep(r)
      PROVE  UNCHANGED author \/ \E next, res : Write(r, next, res)
    BY <1>3, EnrollFrame DEF AddContext, RollbackUnregister
<1>4. ASSUME NEW p \in Processes, CommandStep(p)
      PROVE  UNCHANGED author \/ \E next, res : Write(p, next, res)
    BY <1>4, CommandChanges DEF AddSave, AutoUnlock, Apply, RemoveDevice, Mutate
<1> QED
    BY <1>1, <1>2, <1>3, <1>4, InboxFrame, ProcessFrame DEF Next, historyVars

\* The history stays well-formed.
LEMMA HistoryTypeStep ==
    ASSUME FileType, HistoryType, RequestType, CommandType, Next
    PROVE  HistoryType'
<1>1. line' \subseteq Requests /\ excused' \subseteq Requests /\ unread' \subseteq Requests
  <2>1. ASSUME NEW r \in Requests, EnrollStep(r)
        PROVE  /\ line' \subseteq line \cup {r} /\ excused' \subseteq excused \cup {r}
               /\ unread' \subseteq unread \cup {r}
    BY <2>1, EnrollFrame DEF Commits, CommitPendingHostKey, RollbackUnpin
  <2>2. ASSUME NEW p \in Processes, CommandStep(p)
        PROVE  line' = line /\ unread' = unread /\ excused' \subseteq excused \cup Abandoned
    BY <2>2, CommandFrame, CommandChanges
  <2>3. Abandoned \subseteq Requests
    BY DEF Abandoned
  <2>4. ASSUME InboxStep \/ Crash \/ Start
        PROVE  line' = line /\ excused' = excused /\ unread' = unread
    BY <2>4, InboxFrame, ProcessFrame DEF historyVars
  <2> QED
    BY <2>1, <2>2, <2>3, <2>4 DEF Next, HistoryType
<1> QED
    BY <1>1, AuthorType, KnownStep DEF HistoryType

\* The daemon's memory.
LEMMA DaemonTypeStep ==
    ASSUME FileType, DaemonType, RequestType, Next
    PROVE  DaemonType'
<1>1. ASSUME NEW r \in Requests, EnrollStep(r)
      PROVE  DaemonType'
  <2>1. req[r].pc # "idle" => /\ req[r].want.id \in Candidates
                              /\ req[r].want.device \in Device
                              /\ req[r].want.device.name \in Names
    BY WantedDevice DEF RequestType
  <2>2. enrolling' \subseteq Candidates
    <3>1. ASSUME NEW w \in Wanted, BeginEnrollment(r, w)
          PROVE  enrolling' \subseteq Candidates
      BY <3>1, WantedDevice DEF BeginEnrollment, DaemonType
    <3> QED
      BY <1>1, <3>1, EnrollFrame DEF endEnrollment, DaemonType
  <2>3. mutationMu' \in {mutationMu, r, NoOne}
    BY <1>1, EnrollFrame
  <2>4. adapter' \subseteq Device /\ engine' \subseteq Names
    BY <1>1, <2>1, EnrollFrame DEF DaemonType, addDevice, Unadapt, EngineAddDevice
  <2>5. /\ candidate' \in [Candidates -> {"absent", "new", "ignored", "verified", "gone"}]
        /\ labels' \in [Keys -> SUBSET Names]
    <3>1. CASE Enrolled(r)
      <4>1. labels' \in [Keys -> SUBSET Names]
        BY <3>1, LabelsType DEF Enrolled, DaemonType, FileType
      <4>2. candidate' \in [Candidates -> {"absent", "new", "ignored", "verified", "gone"}]
        BY <3>1 DEF Enrolled, DaemonType
      <4> QED
        BY <4>1, <4>2
    <3>2. CASE ~Enrolled(r)
      <4>1. UNCHANGED <<candidate, labels>>
        BY <1>1, <3>2, EnrollFrame
      <4> QED
        BY <4>1 DEF DaemonType
    <3> QED
      BY <3>1, <3>2
  <2> QED
    BY <1>1, <2>2, <2>3, <2>4, <2>5, EnrollFrame DEF DaemonType
<1>2. ASSUME NEW p \in Processes, CommandStep(p)
      PROVE  DaemonType'
    BY <1>2, CommandFrame DEF DaemonType
<1>3. CASE InboxStep
  <2>1. candidate' \in [Candidates -> {"absent", "new", "ignored", "verified", "gone"}]
    BY <1>3 DEF InboxStep, Discover, Expire, handleIgnore, handleRestore, DaemonType
  <2> QED
    BY <1>3, <2>1, InboxFrame DEF DaemonType
<1>4. CASE Crash
    BY <1>4 DEF DaemonType, Crash
<1>5. CASE Start
  <2>1. labels' \in [Keys -> SUBSET Names]
    BY <1>5, LabelsType DEF Start, FileType
  <2>2. adapter' \subseteq Device /\ engine' \subseteq Names
    BY <1>5 DEF Start, FileType, Device
  <2> QED
    BY <1>5, <2>1, <2>2 DEF DaemonType, Start
<1> QED
    BY <1>1, <1>2, <1>3, <1>4, <1>5 DEF Next

-----------------------------------------------------------------------------
(* Where a request goes *)

\* The positions an enrollment may reach from each position, and what
\* becomes of mutationMu, of the report and of what was found by the probe.
Transition(r) ==
    \/ /\ req[r].pc = "idle" /\ req'[r].pc = "probing" /\ mutationMu' = mutationMu
       /\ MutationFree /\ req'[r].result = req[r].result /\ (req'[r].inserted <=> req[r].inserted)
    \/ /\ \/ req[r].pc = "probing" /\ req'[r].pc = "probed"
          \/ req[r].pc = "ending" /\ req'[r].pc = "done" /\ MutationFree
       /\ mutationMu' = mutationMu
       /\ req'[r].result = req[r].result /\ (req'[r].inserted <=> req[r].inserted)
    \/ /\ req[r].pc = "probed" /\ req'[r].pc = "adding"
       /\ MutationFree /\ mutationMu' = r
       /\ req'[r].result = req[r].result /\ (req'[r].inserted <=> req[r].inserted)
       /\ (req'[r].pending <=> req[r].pending)
    \/ /\ \/ req[r].pc = "adding" /\ req'[r].pc = "added"
          \/ req[r].pc = "added" /\ req'[r].pc = "pinning"
          \/ req[r].pc = "pinning" /\ req'[r].pc = "pinned"
          \/ req[r].pc = "pinned" /\ req'[r].pc = "finishing"
          \/ req[r].pc \in {"added", "pinning", "pinned"} /\ req'[r].pc \in {"unpin", "unregister"}
       /\ mutationMu' = mutationMu
       /\ req'[r].result = req[r].result
       /\ (req'[r].pending <=> req[r].pending)
       /\ req[r].pc \in {"adding", "added"} => (req'[r].inserted <=> req[r].inserted) \/ ~req'[r].inserted
    \/ /\ req[r].pc = "unpin" /\ req'[r].pc = "unregister" /\ mutationMu' = mutationMu
       /\ req'[r].result \in {req[r].result, "rollback-failed"}
    \/ /\ \/ req[r].pc \in {"probing", "probed", "adding"} /\ req'[r].result = "refused"
          \/ req[r].pc = "finishing" /\ req'[r].result = "enrolled"
          \/ req[r].pc = "unregister" /\ req'[r].result = "rolled-back" /\ req[r].result = "none"
          \/ req[r].pc = "unregister" /\ req'[r].result = "rollback-failed"
       /\ req'[r].pc = "ending"
       /\ mutationMu' = IF mutationMu = r THEN NoOne ELSE mutationMu

\* Every step of an enrollment is one of these transitions.
LEMMA Transitions ==
    ASSUME RequestType, NEW r \in Requests, EnrollStep(r)
    PROVE  Transition(r)
<1>1. ASSUME NEW w \in Wanted, BeginEnrollment(r, w)
       PROVE  Transition(r)
  <2>1. req[r].pc = "idle" /\ mutationMu' = mutationMu /\ MutationFree
    BY <1>1 DEF BeginEnrollment, daemonVars
  <2> QED
    BY <1>1, <2>1, BeginMoves DEF Moves, Transition
<1>2. ASSUME NEW k \in Keys, ProbeExpectedHostKey(r, k)
       PROVE  Transition(r)
  <2>1. req[r].pc = "probing" /\ mutationMu' = mutationMu
    BY <1>2 DEF ProbeExpectedHostKey, daemonVars
  <2> QED
    BY <1>2, <2>1, ProbeMoves DEF Moves, Transition
<1>3. CASE ProbeFails(r)
    BY <1>3, AnswerMoves
    DEF Transition, Moves, RequestType, RequestRecord, Positions, Outcomes, daemonVars, ProbeFails
<1>4. CASE Recheck(r)
    BY <1>4, StepMoves, AnswerMoves
    DEF Transition, Moves, RequestType, RequestRecord, Positions, Outcomes, daemonVars, Recheck
<1>5. ASSUME NEW res \in SaveOutcomes, AddContext(r, res)
       PROVE  Transition(r)
    BY <1>5, StepMoves, AnswerMoves
    DEF Transition, Moves, RequestType, RequestRecord, Positions, Outcomes, daemonVars, AddContext
<1>6. CASE AddRefused(r)
    BY <1>6, AnswerMoves
    DEF Transition, Moves, RequestType, RequestRecord, Positions, Outcomes, daemonVars, AddRefused
<1>7. CASE addDevice(r)
    BY <1>7, StepMoves
    DEF Transition, Moves, RequestType, RequestRecord, Positions, Outcomes, daemonVars, addDevice
<1>8. CASE EnrollmentCancelled(r)
    BY <1>8, FailureMoves
    DEF Transition, Moves, RequestType, RequestRecord, Positions, Outcomes, daemonVars,
        EnrollmentCancelled
<1>9. ASSUME NEW res \in SaveOutcomes, Commits(r, res)
       PROVE  Transition(r)
  <2>1. req[r].pc = "pinning" /\ mutationMu' = mutationMu
    BY <1>9 DEF Commits, CommitPendingHostKey, daemonVars
  <2> QED
    BY <1>9, <2>1, CommitMoves DEF Moves, Transition
<1>10. CASE CommitNothing(r)
    BY <1>10, StepMoves
    DEF Transition, Moves, RequestType, RequestRecord, Positions, Outcomes, daemonVars,
        CommitNothing
<1>11. CASE CommitRefused(r)
    BY <1>11, FailureMoves
    DEF Transition, Moves, RequestType, RequestRecord, Positions, Outcomes, daemonVars,
        CommitRefused
<1>12. CASE EngineAddDevice(r)
    BY <1>12, StepMoves
    DEF Transition, Moves, RequestType, RequestRecord, Positions, Outcomes, daemonVars,
        EngineAddDevice
<1>13. CASE EngineAddFails(r)
    BY <1>13, FailureMoves
    DEF Transition, Moves, RequestType, RequestRecord, Positions, Outcomes, daemonVars,
        EngineAddFails
<1>14. CASE Enrolled(r)
    BY <1>14, AnswerMoves
    DEF Transition, Moves, RequestType, RequestRecord, Positions, Outcomes, daemonVars, Enrolled
<1>15. ASSUME NEW res \in SaveOutcomes, RollbackUnpin(r, res)
       PROVE  Transition(r)
  <2>1. req[r].pc = "unpin" /\ mutationMu' = mutationMu
    BY <1>15 DEF RollbackUnpin, daemonVars
  <2> QED
    BY <1>15, <2>1, UnpinMoves DEF Moves, Transition
<1>16. ASSUME NEW res \in SaveOutcomes, RollbackUnregister(r, res)
       PROVE  Transition(r)
    BY <1>16, RollbackMoves
    DEF Transition, Moves, RequestType, RequestRecord, Positions, Outcomes, daemonVars,
        RollbackUnregister
<1>17. CASE RollbackTimesOut(r)
    BY <1>17, RollbackMoves
    DEF Transition, Moves, RequestType, RequestRecord, Positions, Outcomes, daemonVars,
        RollbackTimesOut
<1>18. CASE endEnrollment(r)
    BY <1>18, StepMoves
    DEF Transition, Moves, RequestType, RequestRecord, Positions, Outcomes, daemonVars,
        endEnrollment
<1> QED
    BY <1>1, <1>2, <1>3, <1>4, <1>5, <1>6, <1>7, <1>8, <1>9, <1>10, <1>11, <1>12,
       <1>13, <1>14, <1>15, <1>16, <1>17, <1>18 DEF EnrollStep, Commits

-----------------------------------------------------------------------------
(* The type invariant *)

\* The types hold at the start.
LEMMA TypeInit ==
    ASSUME Init
    PROVE  TypeInv
<1>1. FileType
    BY EnrollmentAssumption DEF Init, FileType
<1>2. DaemonType
  <2>1. labels \in [Keys -> SUBSET Names]
    BY EnrollmentAssumption, LabelsType DEF Init
  <2>2. adapter \subseteq Device /\ engine \subseteq Names
    BY EnrollmentAssumption DEF Init, Device
  <2> QED
    BY <2>1, <2>2 DEF Init, DaemonType
<1>3. HistoryType
    BY EnrollmentAssumption DEF Init, HistoryType
<1>4. RequestType
    BY DEF Init, IdleRequest, RequestType, RequestRecord, Positions, Outcomes
<1>5. CommandType
    BY DEF Init, CommandType, CommandRecord
<1> QED
    BY <1>1, <1>2, <1>3, <1>4, <1>5 DEF TypeInv

\* The types hold when nothing changes.
LEMMA TypeUntouched ==
    ASSUME TypeInv, UNCHANGED vars
    PROVE  TypeInv'
<1> USE DEF vars, fileVars, daemonVars, historyVars
<1>1. FileType'
    BY DEF TypeInv, FileType
<1>2. DaemonType'
    BY DEF TypeInv, DaemonType
<1>3. HistoryType'
    BY DEF TypeInv, HistoryType
<1>4. RequestType'
    BY DEF TypeInv, RequestType
<1>5. CommandType'
    BY DEF TypeInv, CommandType, Loaded
<1> QED
    BY <1>1, <1>2, <1>3, <1>4, <1>5 DEF TypeInv

\* The parts of the type invariant hold each other up: devices.json stays
\* valid because what a command loaded was.
THEOREM TypeInvariant == Spec => []TypeInv
<1>1. TypeInv /\ [Next]_vars => TypeInv'
    BY TypeUntouched, FileTypeStep, DaemonTypeStep, HistoryTypeStep, RequestTypeStep,
       CommandTypeStep
    DEF TypeInv
<1> QED
    BY <1>1, TypeInit, PTL DEF Spec

\* Whatever the interleaving of enrollments, commands, failing saves and
\* crashes, every variable keeps its type and devices.json stays valid:
\* no two devices share an environment variable.
THEOREM TypesAreKept == Spec => []TypeOK
<1>1. TypeInv => TypeOK
  <2> SUFFICES ASSUME TypeInv PROVE TypeOK
    OBVIOUS
  <2>1. \A r \in Requests :
          /\ req[r].pc \in Positions
          /\ req[r].pc # "idle" => req[r].want \in Wanted
          /\ req[r].pending \in BOOLEAN /\ req[r].inserted \in BOOLEAN
          /\ req[r].result \in Outcomes
    BY DEF TypeInv, RequestType, RequestRecord
  <2>2. \A p \in Processes :
          /\ cli[p].pc \in {"idle", "loaded", "prepared", "forget", "done"}
          /\ cli[p].pc # "idle" => cli[p].cmd \in Commands /\ cli[p].loaded \in Device
    BY DEF TypeInv, CommandType, CommandRecord, Loaded
  <2> QED
    BY <2>1, <2>2 DEF TypeInv, TypeOK, FileType, DaemonType, HistoryType, Positions
<1> QED
    BY <1>1, TypeInvariant, PTL

-----------------------------------------------------------------------------
(* The mutex, the adapter and the lines of the requests *)

\* One request at a time holds mutationMu, and a crash frees it.
LEMMA MutexStep ==
    ASSUME TypeInv, MutexInv, Next
    PROVE  MutexInv'
<1>0. mutationMu \in Requests \cup {NoOne} /\ NoOne \notin Requests /\ RequestType
    BY EnrollmentAssumption DEF TypeInv, DaemonType
<1>1. ASSUME NEW r \in Requests, EnrollStep(r)
      PROVE  MutexInv'
  <2>1. Transition(r) /\ up' = up /\ \A s \in Requests \ {r} : req'[s] = req[s]
    BY <1>0, <1>1, Transitions, OneRequest, EnrollFrame
  <2>2. ASSUME NEW s \in Requests
        PROVE  mutationMu' = s <=> req'[s].pc \in Holding
    BY <1>0, <2>1 DEF MutexInv, Transition, Holding, MutationFree
  <2>3. ~up' => mutationMu' = NoOne
    BY <2>1 DEF MutexInv, Transition, MutationFree
  <2> QED
    BY <2>2, <2>3 DEF MutexInv
<1>2. ASSUME UNCHANGED <<up, mutationMu, req>>
      PROVE  MutexInv'
    BY <1>2 DEF MutexInv
<1>3. CASE Crash
  <2>1. mutationMu' = NoOne
    BY <1>3 DEF Crash
  <2>2. \A s \in Requests : req'[s].pc \in {"idle", "done"}
    BY <1>0, <1>3, CrashMoves
  <2> QED
    BY <1>0, <2>1, <2>2 DEF MutexInv, Holding
<1>4. CASE Start
    BY <1>4 DEF MutexInv, Start
<1> QED
    BY <1>1, <1>2, <1>3, <1>4, CommandFrame, InboxFrame DEF Next

\* The ways to go on from a position.
LEMMA Leaves ==
    ASSUME NEW r \in Requests, EnrollStep(r)
    PROVE  /\ req[r].pc = "unpin" => \E res \in SaveOutcomes : RollbackUnpin(r, res)
           /\ req[r].pc = "unregister" =>
                RollbackTimesOut(r) \/ \E res \in SaveOutcomes : RollbackUnregister(r, res)
           /\ req[r].pc = "finishing" => Enrolled(r)
           /\ req[r].pc = "probing" => ProbeFails(r) \/ \E k \in Keys : ProbeExpectedHostKey(r, k)
           /\ req[r].pc = "probed" => Recheck(r)
           /\ req[r].pc = "adding" =>
                AddRefused(r) \/ \E res \in SaveOutcomes : AddContext(r, res)
           /\ req[r].pc = "pinning" =>
                \/ CommitNothing(r) \/ CommitRefused(r)
                \/ \E res \in SaveOutcomes : Commits(r, res)
           /\ req[r].pc = "ending" => endEnrollment(r)
           /\ req[r].pc = "idle" => \E w \in Wanted : BeginEnrollment(r, w)
           /\ req[r].pc = "pinned" =>
                EnrollmentCancelled(r) \/ EngineAddDevice(r) \/ EngineAddFails(r)
  BY DEF EnrollStep, BeginEnrollment, ProbeExpectedHostKey, ProbeFails, Recheck, AddContext,
         AddRefused, addDevice, EnrollmentCancelled, Commits, CommitPendingHostKey, CommitNothing,
         CommitRefused, EngineAddDevice, EngineAddFails, Enrolled, RollbackUnpin,
         RollbackUnregister, RollbackTimesOut, endEnrollment

\* The adapter serves a device that is not monitored only while its enrollment
\* holds mutationMu.
LEMMA AdapterStep ==
    ASSUME TypeInv, MutexInv, AdapterInv, Next
    PROVE  AdapterInv'
<1>0. mutationMu \in Requests \cup {NoOne} /\ NoOne \notin Requests /\ RequestType
    BY EnrollmentAssumption DEF TypeInv, DaemonType
<1>1. ASSUME NEW r \in Requests, EnrollStep(r)
      PROVE  AdapterInv'
  <2>1. Transition(r) /\ \A s \in Requests \ {r} : req'[s] = req[s]
    BY <1>0, <1>1, Transitions, OneRequest
  <2>2. mutationMu = r <=> req[r].pc \in Holding
    BY DEF MutexInv
  <2>3. mutationMu' = r <=> req'[r].pc \in Holding
    BY <1>1, MutexStep DEF MutexInv, Next
  <2>4. req[r].pc # "idle" => req'[r].want = req[r].want
    BY <1>0, <1>1, OneRequest
  <2>5. CASE addDevice(r)
    <3>1. /\ req[r].pc = "added" /\ req'[r].pc = "pinning" /\ engine' = engine
          /\ adapter' = (adapter \ Named(adapter, req[r].want.device.name)) \cup {req[r].want.device}
      BY <1>0, <2>5, StepMoves DEF addDevice, Moves, Positions
    <3> QED
      BY <2>2, <2>3, <2>4, <3>1 DEF AdapterInv, Holding
  <2>6. CASE EngineAddDevice(r)
    <3>1. /\ req[r].pc = "pinned" /\ req'[r].pc = "finishing" /\ adapter' = adapter
          /\ engine' = engine \cup {req[r].want.device.name}
      BY <1>0, <2>6, StepMoves DEF EngineAddDevice, Moves, Positions
    <3> QED
      BY <2>2, <2>3, <2>4, <3>1 DEF AdapterInv, Holding
  <2>7. CASE Unadapt(r) /\ engine' = engine /\ req[r].pc \in {"unpin", "unregister"}
    <3>1. adapter' = {d \in adapter : d.name # req[r].want.device.name}
      BY <2>7 DEF Unadapt, Named
    <3>2. \A d \in adapter' : d.name \in engine'
      BY <2>2, <2>7, <3>1 DEF AdapterInv, Holding
    <3> QED
      BY <3>2 DEF AdapterInv
  <2>8. ASSUME UNCHANGED <<adapter, engine>>, req[r].pc \notin {"unpin", "unregister"},
               ~addDevice(r), ~EngineAddDevice(r)
        PROVE  AdapterInv'
    <3>1. mutationMu \in Requests \ {r} => mutationMu' = mutationMu
      BY <1>0, <2>1 DEF Transition, MutationFree
    <3>2. mutationMu = r /\ req[r].pc \in {"pinning", "pinned"} =>
            mutationMu' = r /\ req'[r].pc \in {"pinning", "pinned", "unpin", "unregister"}
      <4>1. ~(req[r].pc = "pinned" /\ req'[r].pc = "finishing")
        BY <1>0, <1>1, <2>8, Leaves, FailureMoves DEF EnrollmentCancelled, EngineAddFails, Moves,
           RequestType, RequestRecord
      <4> QED
        BY <2>1, <2>3, <4>1 DEF Transition, Holding
    <3> QED
      BY <1>0, <2>1, <2>4, <2>8, <3>1, <3>2 DEF AdapterInv
  <2>9. req[r].pc \in {"unpin", "unregister"} => Unadapt(r) /\ engine' = engine
    BY <1>1, Leaves DEF RollbackUnpin, RollbackUnregister, RollbackTimesOut
  <2> QED
    <3>1. addDevice(r) => UNCHANGED engine
      BY DEF addDevice
    <3>2. ASSUME req[r].pc \notin {"unpin", "unregister"}
          PROVE  UNCHANGED adapter \/ addDevice(r)
      BY <1>1, <3>2, EnrollFrame
    <3> QED
      BY <1>1, <2>5, <2>6, <2>7, <2>8, <2>9, <3>1, <3>2, EnrollFrame
<1>2. ASSUME UNCHANGED <<adapter, engine, mutationMu, req>>
      PROVE  AdapterInv'
    BY <1>2 DEF AdapterInv
<1>3. CASE Crash
    BY <1>3 DEF AdapterInv, Crash
<1>4. CASE Start
    BY <1>4 DEF AdapterInv, Start
<1> QED
    BY <1>1, <1>2, <1>3, <1>4, CommandFrame, InboxFrame DEF Next

\* Requests that a step leaves alone keep their part of the invariant.
LEMMA PinnedUntouched ==
    ASSUME NEW s, Pinned(s), req'[s] = req[s], s \in line' <=> s \in line,
           s \in excused => s \in excused', s \in unread => s \in unread'
    PROVE  Pinned(s)'
  BY DEF Pinned

\* A request keeps its line or takes it back by the position it is in.
LEMMA PinnedStep ==
    ASSUME TypeInv, PinnedInv, Next
    PROVE  PinnedInv'
<1>0. RequestType
    BY DEF TypeInv
<1>1. ASSUME NEW r \in Requests, EnrollStep(r)
      PROVE  PinnedInv'
  <2>1. Transition(r) /\ \A s \in Requests \ {r} : req'[s] = req[s]
    BY <1>0, <1>1, Transitions, OneRequest
  <2>2. /\ line' \in {line, line \cup {r}, line \ {r}}
        /\ excused' \in {excused, excused \cup {r}} /\ unread \subseteq unread'
    BY <1>1, EnrollFrame DEF Commits, CommitPendingHostKey, RollbackUnpin
  <2>3. ASSUME NEW s \in Requests \ {r}
        PROVE  Pinned(s)'
    BY <2>1, <2>2, PinnedUntouched DEF PinnedInv
  <2>4. Pinned(r)
    BY DEF PinnedInv
  <2>5. ASSUME NEW res \in SaveOutcomes, Commits(r, res)
        PROVE  Pinned(r)'
    <3>1. /\ req[r].pc = "pinning" /\ excused' = excused
          /\ line' = IF res = "failOld" THEN line ELSE line \cup {r}
      BY <2>5 DEF Commits, CommitPendingHostKey
    <3>2. res \in {"ok", "failOld", "failNew"}
      BY EnrollmentAssumption DEF SaveResults
    <3>3. r \notin line /\ req[r].result = "none"
      BY <2>4, <3>1 DEF Pinned
    <3> QED
      BY <1>0, <2>5, <3>1, <3>2, <3>3, CommitMoves DEF Moves, Pinned
  <2>6. ASSUME NEW res \in SaveOutcomes, RollbackUnpin(r, res)
        PROVE  Pinned(r)'
    <3>1. /\ req[r].pc = "unpin" /\ unread' = unread
          /\ line' = IF res = "failOld" THEN line ELSE line \ {r}
          /\ excused' = IF res = "failOld" THEN excused \cup {r} ELSE excused
      BY <2>6 DEF RollbackUnpin
    <3>2. req[r].result = "none"
      BY <2>4, <3>1 DEF Pinned
    <3> QED
      BY <1>0, <2>6, <3>1, <3>2, UnpinMoves DEF Moves, Pinned
  <2>7. ASSUME req[r].pc = "pinned"
        PROVE  /\ req'[r].pc = "unpin" => req[r].inserted
               /\ req'[r].pc = "unregister" => ~req[r].inserted
    BY ZenonT(90), <1>0, <1>1, <2>7, Leaves, FailureMoves, StepMoves
    DEF EnrollmentCancelled, EngineAddFails, EngineAddDevice, Moves, RequestType, RequestRecord, Positions
  <2>8. ASSUME UNCHANGED <<line, excused, unread>>, req[r].pc \in {"added", "pinning"}
        PROVE  /\ req'[r].pc # "unpin"
               /\ req'[r].pc = "pinned" => ~req'[r].inserted
    BY <1>0, <1>1, <2>4, <2>8, FailureMoves, StepMoves
    DEF EnrollStep, BeginEnrollment, ProbeExpectedHostKey, ProbeFails, Recheck, AddContext,
        AddRefused, addDevice, EnrollmentCancelled, Commits, CommitPendingHostKey, CommitNothing,
        CommitRefused, EngineAddDevice, EngineAddFails, Enrolled, RollbackUnpin,
        RollbackUnregister, RollbackTimesOut, endEnrollment, Moves, Positions, Pinned
  <2>9. ASSUME UNCHANGED <<line, excused, unread>>, req[r].pc # "unpin"
        PROVE  Pinned(r)'
    BY <2>1, <2>4, <2>7, <2>8, <2>9 DEF Transition, Pinned
  <2> QED
    BY <1>1, <2>3, <2>5, <2>6, <2>9, EnrollFrame, Leaves DEF PinnedInv
<1>2. ASSUME UNCHANGED <<line, req, unread>>, excused \subseteq excused'
      PROVE  PinnedInv'
    BY <1>2, PinnedUntouched DEF PinnedInv
<1>3. CASE Crash
  <2>1. UNCHANGED <<line, excused, unread>>
    BY <1>3, ProcessFrame DEF historyVars
  <2> QED
    BY <1>0, <1>3, <2>1, CrashMoves DEF PinnedInv, Pinned
<1>4. CASE Start
    BY <1>2, <1>4 DEF Start, historyVars
<1>5. CASE \E p \in Processes : CommandStep(p)
    BY <1>2, <1>5, CommandFrame, CommandChanges
<1>6. CASE InboxStep
    BY <1>2, <1>6, InboxFrame DEF historyVars
<1> QED
    BY <1>1, <1>3, <1>4, <1>5, <1>6 DEF Next

-----------------------------------------------------------------------------
(* The lines of known_hosts *)

\* The requests that own a line of this host and key.
Owners(h, k) == {r \in line : req[r].want.device.host = h /\ req[r].want.fingerprint = k}

\* LinesAccounted counts a finite set.
AccountInv == LinesAccounted /\ IsFiniteSet(line)

\* The numbers that LinesAccounted adds.
LEMMA OwnersCount ==
    ASSUME IsFiniteSet(line), NEW h, NEW k
    PROVE  IsFiniteSet(Owners(h, k)) /\ Cardinality(Owners(h, k)) \in Nat
  BY FS_Subset, FS_CardinalityType DEF Owners

\* The account is kept when no line changes and no request changes its demand.
LEMMA AccountUntouched ==
    ASSUME AccountInv, UNCHANGED <<known, foreign, line>>,
           \A r \in line : req'[r].want = req[r].want
    PROVE  AccountInv'
<1>1. ASSUME NEW h \in Hosts, NEW k \in Keys
      PROVE  Owners(h, k)' = Owners(h, k)
    BY DEF Owners
<1>2. ASSUME NEW h \in Hosts, NEW k \in Keys
      PROVE  known'[<<h, k>>] = foreign'[<<h, k>>] + Cardinality(Owners(h, k)')
    BY <1>1 DEF AccountInv, LinesAccounted, Owners
<1> QED
    BY <1>2 DEF AccountInv, LinesAccounted, Owners

\* What an append and a removal do to one pair of host and key.
LEMMA AppendCounts ==
    ASSUME NEW lines \in Lines, NEW h \in Hosts, NEW k \in Keys, NEW g \in Hosts, NEW q \in Keys
    PROVE  appendKnownHost(lines, h, k)[<<g, q>>] =
             IF g = h /\ q = k THEN lines[<<g, q>>] + 1 ELSE lines[<<g, q>>]
<1>1. <<h, k>> \in Hosts \X Keys /\ <<g, q>> \in Hosts \X Keys
    OBVIOUS
<1> QED
    BY <1>1 DEF appendKnownHost, Lines

\* A removal takes one line, of this host and key only.
LEMMA RemoveCounts ==
    ASSUME NEW lines \in Lines, NEW h \in Hosts, NEW k \in Keys, NEW g \in Hosts, NEW q \in Keys
    PROVE  removeKnownHost(lines, h, k)[<<g, q>>] =
             IF g = h /\ q = k /\ lines[<<g, q>>] > 0 THEN lines[<<g, q>>] - 1 ELSE lines[<<g, q>>]
<1>1. <<h, k>> \in Hosts \X Keys /\ <<g, q>> \in Hosts \X Keys
    OBVIOUS
<1> QED
    BY <1>1 DEF removeKnownHost, Lines

\* The number of lines is a natural number.
LEMMA LinesNumber ==
    ASSUME NEW lines \in Lines, NEW h \in Hosts, NEW k \in Keys
    PROVE  lines[<<h, k>>] \in Nat
<1>1. <<h, k>> \in Hosts \X Keys
    OBVIOUS
<1> QED
    BY <1>1 DEF Lines

\* The line of a request that pins its key is counted once.
LEMMA AccountInsert ==
    ASSUME TypeInv, PinnedInv, AccountInv, NEW r \in Requests, NEW res \in SaveOutcomes,
           Commits(r, res)
    PROVE  AccountInv'
<1> DEFINE h == req[r].want.device.host
           k == req[r].want.fingerprint
<1>1. /\ req[r].pc = "pinning" /\ foreign' = foreign
      /\ known' = WritePrivate(known, appendKnownHost(known, h, k), res)
      /\ line' = IF res = "failOld" THEN line ELSE line \cup {r}
    BY DEF Commits, CommitPendingHostKey
<1>2. h \in Hosts /\ k \in Keys
    BY <1>1, WantedDevice DEF TypeInv, RequestType
<1>3. r \notin line
    BY <1>1 DEF PinnedInv, Pinned
<1>4. \A s \in Requests : req'[s].want = req[s].want
  <2>1. EnrollStep(r)
    BY DEF EnrollStep, Commits
  <2> QED
    BY <1>1, <2>1, OneRequest DEF TypeInv
<1>5. line \subseteq Requests /\ known \in Lines /\ foreign \in Lines /\ IsFiniteSet(line)
    BY DEF TypeInv, HistoryType, FileType, AccountInv
<1>6. CASE res = "failOld"
    BY <1>1, <1>4, <1>5, <1>6, AccountUntouched DEF WritePrivate
<1>7. CASE res # "failOld"
  <2>1. known' = appendKnownHost(known, h, k) /\ line' = line \cup {r}
    BY <1>1, <1>7 DEF WritePrivate
  <2>2. IsFiniteSet(line')
    BY <1>5, <2>1, FS_AddElement
  <2>3. ASSUME NEW g \in Hosts, NEW q \in Keys
        PROVE  known'[<<g, q>>] = foreign'[<<g, q>>] + Cardinality(Owners(g, q)')
    <3>1. known[<<g, q>>] = foreign[<<g, q>>] + Cardinality(Owners(g, q))
      BY DEF AccountInv, LinesAccounted, Owners
    <3>2. known[<<g, q>>] \in Nat /\ foreign[<<g, q>>] \in Nat
      BY <1>5, LinesNumber
    <3>3. IsFiniteSet(Owners(g, q)) /\ Cardinality(Owners(g, q)) \in Nat
      BY <1>5, OwnersCount
    <3>4. CASE g = h /\ q = k
      <4>1. Owners(g, q)' = Owners(g, q) \cup {r} /\ r \notin Owners(g, q)
        BY <1>3, <1>4, <1>5, <2>1, <3>4 DEF Owners
      <4>2. Cardinality(Owners(g, q)') = Cardinality(Owners(g, q)) + 1
        BY <3>3, <4>1, FS_AddElement
      <4>3. known'[<<g, q>>] = known[<<g, q>>] + 1
        BY <1>2, <1>5, <2>1, <3>4, AppendCounts
      <4> QED
        BY <1>1, <3>1, <3>2, <3>3, <4>2, <4>3
    <3>5. CASE ~(g = h /\ q = k)
      <4>1. Owners(g, q)' = Owners(g, q)
        BY <1>4, <1>5, <2>1, <3>5 DEF Owners
      <4>2. known'[<<g, q>>] = known[<<g, q>>]
        BY <1>2, <1>5, <2>1, <3>5, AppendCounts
      <4> QED
        BY <1>1, <3>1, <4>1, <4>2
    <3> QED
      BY <3>4, <3>5
  <2> QED
    BY <2>2, <2>3 DEF AccountInv, LinesAccounted, Owners
<1> QED
    BY <1>6, <1>7

\* A rollback takes away the line of its own enrollment: there is one.
LEMMA AccountRemove ==
    ASSUME TypeInv, PinnedInv, AccountInv, NEW r \in Requests, NEW res \in SaveOutcomes,
           RollbackUnpin(r, res)
    PROVE  AccountInv'
<1> DEFINE h == req[r].want.device.host
           k == req[r].want.fingerprint
<1>1. /\ req[r].pc = "unpin" /\ foreign' = foreign
      /\ known' = WritePrivate(known, removeKnownHost(known, h, k), res)
      /\ line' = IF res = "failOld" THEN line ELSE line \ {r}
    BY DEF RollbackUnpin
<1>2. h \in Hosts /\ k \in Keys
    BY <1>1, WantedDevice DEF TypeInv, RequestType
<1>3. r \in line
    BY <1>1 DEF PinnedInv, Pinned
<1>4. \A s \in Requests : req'[s].want = req[s].want
  <2>1. EnrollStep(r)
    BY DEF EnrollStep
  <2> QED
    BY <1>1, <2>1, OneRequest DEF TypeInv
<1>5. line \subseteq Requests /\ known \in Lines /\ foreign \in Lines /\ IsFiniteSet(line)
    BY DEF TypeInv, HistoryType, FileType, AccountInv
<1>6. CASE res = "failOld"
    BY <1>1, <1>4, <1>5, <1>6, AccountUntouched DEF WritePrivate
<1>7. CASE res # "failOld"
  <2>1. known' = removeKnownHost(known, h, k) /\ line' = line \ {r}
    BY <1>1, <1>7 DEF WritePrivate
  <2>2. IsFiniteSet(line')
    BY <1>5, <2>1, FS_RemoveElement
  <2>3. ASSUME NEW g \in Hosts, NEW q \in Keys
        PROVE  known'[<<g, q>>] = foreign'[<<g, q>>] + Cardinality(Owners(g, q)')
    <3>1. known[<<g, q>>] = foreign[<<g, q>>] + Cardinality(Owners(g, q))
      BY DEF AccountInv, LinesAccounted, Owners
    <3>2. known[<<g, q>>] \in Nat /\ foreign[<<g, q>>] \in Nat
      BY <1>5, LinesNumber
    <3>3. IsFiniteSet(Owners(g, q)) /\ Cardinality(Owners(g, q)) \in Nat
      BY <1>5, OwnersCount
    <3>4. CASE g = h /\ q = k
      <4>1. Owners(g, q)' = Owners(g, q) \ {r} /\ r \in Owners(g, q)
        BY <1>3, <1>4, <1>5, <2>1, <3>4 DEF Owners
      <4>2. Cardinality(Owners(g, q)') = Cardinality(Owners(g, q)) - 1
        BY <3>3, <4>1, FS_RemoveElement
      <4>3. Cardinality(Owners(g, q)) > 0
        BY <3>3, <4>1, FS_EmptySet
      <4>4. known[<<g, q>>] > 0
        BY <3>1, <3>2, <3>3, <4>3
      <4>5. known'[<<g, q>>] = known[<<g, q>>] - 1
        BY <1>2, <1>5, <2>1, <3>4, <4>4, RemoveCounts
      <4> QED
        BY <1>1, <3>1, <3>2, <3>3, <4>2, <4>5
    <3>5. CASE ~(g = h /\ q = k)
      <4>1. Owners(g, q)' = Owners(g, q)
        BY <1>4, <1>5, <2>1, <3>5 DEF Owners
      <4>2. known'[<<g, q>>] = known[<<g, q>>]
        BY <1>2, <1>5, <2>1, <3>5, RemoveCounts
      <4> QED
        BY <1>1, <3>1, <4>1, <4>2
    <3> QED
      BY <3>4, <3>5
  <2> QED
    BY <2>2, <2>3 DEF AccountInv, LinesAccounted, Owners
<1> QED
    BY <1>6, <1>7

\* The status command adds a line of its own, which is nobody's enrollment.
LEMMA AccountAccept ==
    ASSUME TypeInv, AccountInv, NEW p \in Processes, NEW k \in Keys, NEW res \in SaveOutcomes,
           AcceptNew(p, k, res)
    PROVE  AccountInv'
<1> DEFINE h == cli[p].loaded.host
<1>1. UNCHANGED <<line, req>>
    BY DEF AcceptNew
<1>2. h \in Hosts
    BY DEF AcceptNew, Running, TypeInv, CommandType, Loaded, Device
<1>3. known \in Lines /\ foreign \in Lines
    BY DEF TypeInv, HistoryType, FileType
<1>4. CASE UNCHANGED <<known, foreign>>
    BY <1>1, <1>4, AccountUntouched
<1>5. CASE /\ known' = appendKnownHost(known, h, k)
           /\ foreign' = appendKnownHost(foreign, h, k)
  <2>1. ASSUME NEW g \in Hosts, NEW q \in Keys
        PROVE  known'[<<g, q>>] = foreign'[<<g, q>>] + Cardinality(Owners(g, q)')
    <3>1. known[<<g, q>>] = foreign[<<g, q>>] + Cardinality(Owners(g, q))
      BY DEF AccountInv, LinesAccounted, Owners
    <3>2. known[<<g, q>>] \in Nat /\ foreign[<<g, q>>] \in Nat /\ Cardinality(Owners(g, q)) \in Nat
      BY <1>3, LinesNumber, OwnersCount DEF AccountInv
    <3>3. Owners(g, q)' = Owners(g, q)
      BY <1>1 DEF Owners
    <3>4. /\ known'[<<g, q>>] = IF g = h /\ q = k THEN known[<<g, q>>] + 1 ELSE known[<<g, q>>]
          /\ foreign'[<<g, q>>] = IF g = h /\ q = k THEN foreign[<<g, q>>] + 1 ELSE foreign[<<g, q>>]
      BY <1>2, <1>3, <1>5, AppendCounts
    <3> QED
      BY <3>1, <3>2, <3>3, <3>4
  <2> QED
    BY <1>1, <2>1 DEF AccountInv, LinesAccounted, Owners
<1> QED
    BY <1>4, <1>5 DEF AcceptNew, WritePrivate

\* Every line that comes or goes is accounted for.
LEMMA AccountStep ==
    ASSUME TypeInv, PinnedInv, AccountInv, Next
    PROVE  AccountInv'
<1>0. RequestType /\ line \subseteq Requests
    BY DEF TypeInv, HistoryType
<1>1. ASSUME NEW r \in Requests, EnrollStep(r)
      PROVE  AccountInv'
  <2>1. \A s \in line : req'[s].want = req[s].want
    BY <1>0, <1>1, OneRequest DEF PinnedInv, Pinned
  <2> QED
    BY <1>1, <2>1, EnrollFrame, AccountUntouched, AccountInsert, AccountRemove
<1>2. ASSUME NEW p \in Processes, CommandStep(p)
      PROVE  AccountInv'
    BY <1>2, CommandFrame, CommandChanges, AccountUntouched, AccountAccept
<1>3. CASE Crash
    BY <1>0, <1>3, CrashMoves, ProcessFrame, AccountUntouched DEF fileVars, historyVars
<1>4. CASE InboxStep
    BY <1>4, InboxFrame, AccountUntouched DEF fileVars, historyVars
<1>5. CASE Start
    BY <1>5, AccountUntouched DEF Start, fileVars, historyVars
<1> QED
    BY <1>1, <1>2, <1>3, <1>4, <1>5 DEF Next

\* A step adds a line only to a host that has none.
LEMMA OneKeyStep ==
    ASSUME TypeInv, OneKeyPerHost, Next
    PROVE  OneKeyPerHost'
<1>0. known \in Lines
    BY DEF TypeInv, FileType
<1>1. ASSUME NEW h \in Hosts, NEW k \in Keys, Lookup(known, h, k) = "unknown",
             known' = appendKnownHost(known, h, k)
      PROVE  OneKeyPerHost'
  <2>1. \A q \in Keys : known[<<h, q>>] = 0
    BY <1>1 DEF Lookup
  <2>2. ASSUME NEW g \in Hosts, NEW i \in Keys, NEW j \in Keys,
               known'[<<g, i>>] > 0, known'[<<g, j>>] > 0
        PROVE  i = j
    <3>1. /\ known'[<<g, i>>] = IF g = h /\ i = k THEN known[<<g, i>>] + 1 ELSE known[<<g, i>>]
          /\ known'[<<g, j>>] = IF g = h /\ j = k THEN known[<<g, j>>] + 1 ELSE known[<<g, j>>]
      BY <1>0, <1>1, AppendCounts
    <3> QED
      BY <2>1, <2>2, <3>1 DEF OneKeyPerHost
  <2> QED
    BY <2>2 DEF OneKeyPerHost
<1>2. ASSUME NEW h \in Hosts, NEW k \in Keys, known' = removeKnownHost(known, h, k)
      PROVE  OneKeyPerHost'
  <2>1. ASSUME NEW g \in Hosts, NEW i \in Keys, known'[<<g, i>>] > 0
        PROVE  known[<<g, i>>] > 0
    <3>1. known[<<g, i>>] \in Nat
      BY <1>0, LinesNumber
    <3>2. known'[<<g, i>>] = IF g = h /\ i = k /\ known[<<g, i>>] > 0 THEN known[<<g, i>>] - 1
                             ELSE known[<<g, i>>]
      BY <1>0, <1>2, RemoveCounts
    <3> QED
      BY <2>1, <3>1, <3>2
  <2> QED
    BY <2>1 DEF OneKeyPerHost
<1>3. ASSUME UNCHANGED known
      PROVE  OneKeyPerHost'
    BY <1>3 DEF OneKeyPerHost
<1>4. ASSUME NEW r \in Requests, NEW res \in SaveOutcomes, Commits(r, res)
      PROVE  OneKeyPerHost'
  <2>1. req[r].want.device.host \in Hosts /\ req[r].want.fingerprint \in Keys
    BY <1>4, WantedDevice DEF Commits, CommitPendingHostKey, TypeInv, RequestType
  <2> QED
    BY <1>1, <1>3, <1>4, <2>1 DEF Commits, CommitPendingHostKey, WritePrivate
<1>5. ASSUME NEW r \in Requests, NEW res \in SaveOutcomes, RollbackUnpin(r, res)
      PROVE  OneKeyPerHost'
  <2>1. req[r].want.device.host \in Hosts /\ req[r].want.fingerprint \in Keys
    BY <1>5, WantedDevice DEF RollbackUnpin, TypeInv, RequestType
  <2> QED
    BY <1>2, <1>3, <1>5, <2>1 DEF RollbackUnpin, WritePrivate
<1>6. ASSUME NEW p \in Processes, NEW k \in Keys, NEW res \in SaveOutcomes, AcceptNew(p, k, res)
      PROVE  OneKeyPerHost'
  <2>1. cli[p].loaded.host \in Hosts
    BY <1>6 DEF AcceptNew, Running, TypeInv, CommandType, Loaded, Device
  <2>2. verifyHostKeyLocked(known, cli[p].loaded.host, k, TRUE, NoKey) = "new" =>
          Lookup(known, cli[p].loaded.host, k) = "unknown"
    BY DEF verifyHostKeyLocked
  <2> QED
    BY <1>1, <1>3, <1>6, <2>1, <2>2 DEF AcceptNew, WritePrivate
<1>7. ASSUME NEW r \in Requests, EnrollStep(r)
      PROVE  OneKeyPerHost'
    BY <1>3, <1>4, <1>5, <1>7, EnrollFrame
<1>8. ASSUME NEW p \in Processes, CommandStep(p)
      PROVE  OneKeyPerHost'
    BY <1>3, <1>6, <1>8, CommandChanges
<1>9. ASSUME InboxStep \/ Crash \/ Start
      PROVE  OneKeyPerHost'
    BY <1>3, <1>9, InboxFrame, ProcessFrame DEF fileVars
<1> QED
    BY <1>7, <1>8, <1>9 DEF Next

-----------------------------------------------------------------------------
(* Candidates *)

\* What a step of an enrollment does with the candidates: MarkVerified
\* changes a candidate that is there, and a claim is made and given up.
LEMMA CandidateMoves ==
    ASSUME TypeInv, NEW r \in Requests, EnrollStep(r)
    PROVE  /\ \/ candidate' = candidate
              \/ /\ req[r].pc = "finishing"
                 /\ candidate' = [candidate EXCEPT ![req[r].want.id] = IF @ = "gone" THEN @ ELSE "verified"]
           /\ \/ req[r].pc = "idle" /\ req'[r].want.id \notin enrolling
                 /\ enrolling' = enrolling \cup {req'[r].want.id}
                 /\ validateEnrollment(req'[r].want)
              \/ req[r].pc = "ending" /\ enrolling' = enrolling \ {req[r].want.id}
              \/ req[r].pc \notin {"idle", "ending"} /\ enrolling' = enrolling
<1>1. \/ candidate' = candidate
      \/ /\ req[r].pc = "finishing"
         /\ candidate' = [candidate EXCEPT ![req[r].want.id] = IF @ = "gone" THEN @ ELSE "verified"]
    BY EnrollFrame DEF Enrolled
<1>2. ASSUME NEW w \in Wanted, BeginEnrollment(r, w)
      PROVE  /\ req[r].pc = "idle" /\ req'[r].want.id \notin enrolling
             /\ enrolling' = enrolling \cup {req'[r].want.id}
             /\ validateEnrollment(req'[r].want)
  <2>1. req'[r].want = w
    BY <1>2, BeginMoves DEF TypeInv
  <2> QED
    BY <1>2, <2>1 DEF BeginEnrollment
<1>3. CASE req[r].pc = "idle"
    BY <1>1, <1>2, <1>3, Leaves
<1>4. CASE req[r].pc = "ending"
    BY <1>1, <1>4, Leaves DEF endEnrollment
<1>5. CASE req[r].pc \notin {"idle", "ending"}
    BY <1>1, <1>5, EnrollFrame DEF endEnrollment, BeginEnrollment
<1> QED
    BY <1>3, <1>4, <1>5

\* The inbox never brings a candidate back, and never shows two of one key.
LEMMA InboxMoves ==
    ASSUME TypeInv, InboxStep
    PROVE  \E c \in Candidates :
             /\ \A d \in Candidates \ {c} : candidate'[d] = candidate[d]
             /\ candidate[c] # "gone" /\ candidate'[c] # "absent"
             /\ \/ candidate[c] \in Present
                \/ \A d \in Candidates : CandidateKey[d] = CandidateKey[c] => candidate[d] \notin Present
<1>1. candidate \in [Candidates -> {"absent", "new", "ignored", "verified", "gone"}]
    BY DEF TypeInv, DaemonType
<1>2. PICK c \in Candidates : Discover(c) \/ Expire(c) \/ handleIgnore(c) \/ handleRestore(c)
    BY DEF InboxStep
<1>3. CASE Discover(c)
    BY <1>1, <1>3 DEF Discover, Present
<1>4. CASE Expire(c) \/ handleIgnore(c) \/ handleRestore(c)
    BY <1>1, <1>4 DEF Expire, handleIgnore, handleRestore, Present
<1> QED
    BY <1>2, <1>3, <1>4

\* BeginEnrollment refuses a candidate that is claimed; endEnrollment gives up
\* its own claim only.
LEMMA ClaimStep ==
    ASSUME TypeInv, ClaimInv, Next
    PROVE  ClaimInv'
<1>0. RequestType
    BY DEF TypeInv
<1>1. ASSUME NEW r \in Requests, EnrollStep(r)
      PROVE  ClaimInv'
  <2>1. \A s \in Requests \ {r} : req'[s] = req[s]
    BY <1>0, <1>1, OneRequest
  <2>2. CASE req[r].pc = "idle"
    <3>1. req'[r].want.id \notin enrolling /\ enrolling' = enrolling \cup {req'[r].want.id}
      BY <1>1, <2>2, CandidateMoves
    <3> QED
      BY <2>1, <3>1 DEF ClaimInv
  <2>3. CASE req[r].pc = "ending"
    <3>1. enrolling' = enrolling \ {req[r].want.id}
      BY <1>1, <2>3, CandidateMoves
    <3>2. req'[r].pc = "done"
      BY <1>0, <1>1, <2>3, Transitions DEF Transition
    <3> QED
      BY <2>1, <2>3, <3>1, <3>2 DEF ClaimInv
  <2>4. CASE req[r].pc \notin {"idle", "ending"}
    <3>1. enrolling' = enrolling
      BY <1>1, <2>4, CandidateMoves
    <3>2. req'[r].want = req[r].want
      BY <1>0, <1>1, <2>4, OneRequest
    <3>3. req[r].pc # "done"
      BY <1>0, <1>1, Transitions DEF Transition
    <3> QED
      BY <2>1, <2>4, <3>1, <3>2, <3>3 DEF ClaimInv
  <2> QED
    BY <2>2, <2>3, <2>4
<1>2. ASSUME UNCHANGED <<req, enrolling>>
      PROVE  ClaimInv'
    BY <1>2 DEF ClaimInv
<1>3. CASE Crash
  <2>1. \A s \in Requests : req'[s].pc \in {"idle", "done"}
    BY <1>0, <1>3, CrashMoves
  <2> QED
    BY <2>1 DEF ClaimInv
<1>4. CASE Start
    BY <1>2, <1>4 DEF Start
<1> QED
    BY <1>1, <1>2, <1>3, <1>4, CommandFrame, InboxFrame DEF Next

\* A candidate that a request has taken up is never "absent" again.
LEMMA KeyStep ==
    ASSUME TypeInv, KeyInv, Next
    PROVE  KeyInv'
<1>0. RequestType /\ candidate \in [Candidates -> {"absent", "new", "ignored", "verified", "gone"}]
    BY DEF TypeInv, DaemonType
<1>1. \A c \in Candidates : candidate[c] # "absent" => candidate'[c] # "absent"
  <2>1. ASSUME NEW r \in Requests, EnrollStep(r)
        PROVE  \A c \in Candidates : candidate[c] # "absent" => candidate'[c] # "absent"
    BY <1>0, <2>1, CandidateMoves
  <2>2. CASE InboxStep
    BY <2>2, InboxMoves
  <2>3. ASSUME UNCHANGED candidate
        PROVE  \A c \in Candidates : candidate[c] # "absent" => candidate'[c] # "absent"
    BY <2>3
  <2> QED
    BY <2>1, <2>2, <2>3, CommandFrame, ProcessFrame DEF Next
<1>2. \A s \in Requests : req[s].pc # "idle" => req[s].want.id \in Candidates
    BY <1>0, WantedDevice DEF RequestType
<1>3. ASSUME NEW r \in Requests, EnrollStep(r), NEW s \in Requests, req'[s].pc # "idle"
      PROVE  /\ candidate'[req'[s].want.id] # "absent"
             /\ req'[s].want.fingerprint = CandidateKey[req'[s].want.id]
  <2>1. CASE s = r /\ req[r].pc = "idle"
    <3>1. validateEnrollment(req'[r].want) /\ req'[r].want \in Wanted
      BY <1>0, <1>3, <2>1, CandidateMoves, OneRequest
    <3>2. /\ candidate[req'[r].want.id] \in {"new", "verified"}
          /\ req'[r].want.fingerprint = CandidateKey[req'[r].want.id]
      BY <3>1 DEF validateEnrollment
    <3> QED
      BY <1>1, <2>1, <3>1, <3>2, WantedDevice
  <2>2. CASE ~(s = r /\ req[r].pc = "idle")
    <3>1. req'[s].want = req[s].want /\ req[s].pc # "idle"
      BY <1>0, <1>3, <2>2, OneRequest
    <3> QED
      BY <1>1, <1>2, <3>1 DEF KeyInv
  <2> QED
    BY <2>1, <2>2
<1>4. ASSUME \A s \in Requests : req'[s].want = req[s].want /\ (req[s].pc = "idle" => req'[s].pc = "idle")
      PROVE  KeyInv'
    BY <1>1, <1>2, <1>4 DEF KeyInv
<1>5. CASE Crash
    BY <1>0, <1>4, <1>5, CrashMoves
<1>6. ASSUME UNCHANGED req
      PROVE  KeyInv'
    BY <1>4, <1>6
<1> QED
    BY <1>3, <1>5, <1>6, CommandFrame, InboxFrame DEF Next, Start, KeyInv

\* Discover adds a candidate only for a key that has none in the inbox.
LEMMA OnePerKeyStep ==
    ASSUME TypeInv, KeyInv, OnePerKey, Next
    PROVE  OnePerKey'
<1>0. RequestType /\ candidate \in [Candidates -> {"absent", "new", "ignored", "verified", "gone"}]
    BY DEF TypeInv, DaemonType
<1>1. ASSUME NEW r \in Requests, EnrollStep(r)
      PROVE  OnePerKey'
  <2>1. CASE candidate' = candidate
    BY <2>1 DEF OnePerKey
  <2>2. CASE /\ req[r].pc = "finishing"
             /\ candidate' = [candidate EXCEPT ![req[r].want.id] = IF @ = "gone" THEN @ ELSE "verified"]
    <3>1. candidate[req[r].want.id] # "absent"
      BY <2>2 DEF KeyInv
    <3>2. \A c \in Candidates : candidate'[c] \in Present => candidate[c] \in Present
      BY <1>0, <2>2, <3>1 DEF Present
    <3> QED
      BY <3>2 DEF OnePerKey
  <2> QED
    BY <1>1, <2>1, <2>2, CandidateMoves
<1>2. CASE InboxStep
    BY <1>2, InboxMoves DEF OnePerKey
<1>3. ASSUME UNCHANGED candidate
      PROVE  OnePerKey'
    BY <1>3 DEF OnePerKey
<1> QED
    BY <1>1, <1>2, <1>3, CommandFrame, ProcessFrame DEF Next

\* IDs are random: a candidate that has gone stays away.
LEMMA GoneStays ==
    ASSUME TypeInv, Next, NEW c \in Candidates, candidate[c] = "gone"
    PROVE  candidate'[c] = "gone"
<1>0. candidate \in [Candidates -> {"absent", "new", "ignored", "verified", "gone"}]
    BY DEF TypeInv, DaemonType
<1>1. ASSUME NEW r \in Requests, EnrollStep(r)
      PROVE  candidate'[c] = "gone"
    BY <1>0, <1>1, CandidateMoves
<1>2. CASE InboxStep
    BY <1>2, InboxMoves
<1> QED
    BY <1>1, <1>2, CommandFrame, ProcessFrame DEF Next

\* The second check, under mutationMu, sees the candidate.
LEMMA Rechecked ==
    ASSUME TypeInv, NEW r \in Requests, EnrollStep(r), req[r].pc = "probed", req'[r].pc = "adding"
    PROVE  validateEnrollment(req[r].want) /\ UNCHANGED <<candidate, known>>
<1>1. Recheck(r)
    BY Leaves
<1>2. Answer(r, "refused") => req'[r].pc = "ending"
    BY AnswerMoves DEF TypeInv, Moves, Outcomes
<1> QED
    BY <1>1, <1>2 DEF Recheck, fileVars

\* Recheck sees the candidate in the inbox under mutationMu, so that no other
\* candidate of its key is there.
LEMMA RivalStep ==
    ASSUME TypeInv, MutexInv, CandidateInv, RivalInv, Next
    PROVE  RivalInv'
<1>0. RequestType
    BY DEF TypeInv
<1>1. ASSUME NEW t \in Requests, EnrollStep(t), NEW r \in Requests, NEW s \in Requests,
             r # s, req'[r].pc \in {"probing", "probed"}, req'[s].pc \in Holding,
             req'[r].want.fingerprint = req'[s].want.fingerprint
      PROVE  candidate'[req'[r].want.id] = "gone"
  <2>1. \A q \in Requests \ {t} : req'[q] = req[q]
    BY <1>0, <1>1, OneRequest
  <2>2. Transition(t)
    BY <1>0, <1>1, Transitions
  <2>3. req[t].pc # "idle" => req'[t].want = req[t].want
    BY <1>0, <1>1, OneRequest
  <2>4. req[r].pc # "idle" /\ req[s].pc # "idle"
    <3>1. CASE r = t
      <4>1. req[s].pc \in Holding /\ mutationMu = s
        BY <1>1, <2>1, <3>1 DEF MutexInv
      <4>2. s # NoOne
        BY EnrollmentAssumption
      <4> QED
        BY <1>1, <2>2, <3>1, <4>1, <4>2 DEF Transition, MutationFree, Holding
    <3>2. CASE s = t
      BY <1>1, <2>1, <2>2, <3>2 DEF Transition, Holding
    <3>3. CASE t \notin {r, s}
      BY <1>1, <2>1, <3>3 DEF Holding
    <3> QED
      BY <3>1, <3>2, <3>3
  <2>5. req'[r].want = req[r].want /\ req'[s].want = req[s].want
    BY <2>1, <2>3, <2>4
  <2>6. req[r].pc \in {"probing", "probed"}
    BY <1>1, <2>1, <2>2, <2>4 DEF Transition
  <2>7. req[r].want.id \in Candidates /\ req[s].want.id \in Candidates
    BY <1>0, <2>4, WantedDevice DEF RequestType
  <2>8. CASE req[s].pc \in Holding
    <3>1. candidate[req[r].want.id] = "gone"
      BY <1>1, <2>5, <2>6, <2>8 DEF RivalInv
    <3> QED
      BY <1>1, <2>5, <2>7, <3>1, GoneStays DEF Next
  <2>9. CASE req[s].pc \notin Holding
    <3>1. s = t /\ req[t].pc = "probed" /\ req'[t].pc = "adding"
      BY <1>1, <2>1, <2>2, <2>9 DEF Transition, Holding
    <3>2. candidate[req[s].want.id] \in Present /\ candidate' = candidate
      BY <1>1, <3>1, Rechecked DEF validateEnrollment, Present
    <3>3. req[r].want.id # req[s].want.id
      BY <1>1, <2>6, <3>1 DEF CandidateInv, ClaimInv
    <3>4. CandidateKey[req[r].want.id] = CandidateKey[req[s].want.id]
      BY <1>1, <2>4, <2>5 DEF CandidateInv, KeyInv
    <3>5. candidate[req[r].want.id] \notin Present \cup {"absent"}
      BY <2>4, <2>7, <3>2, <3>3, <3>4 DEF CandidateInv, KeyInv, OnePerKey
    <3> QED
      BY <2>5, <2>7, <3>2, <3>5 DEF TypeInv, DaemonType, Present
  <2> QED
    BY <2>8, <2>9
<1>2. CASE Crash
  <2>1. \A s \in Requests : req'[s].pc \in {"idle", "done"}
    BY <1>0, <1>2, CrashMoves
  <2> QED
    BY <2>1 DEF RivalInv, Holding
<1>3. ASSUME UNCHANGED req
      PROVE  RivalInv'
  <2>1. ASSUME NEW r \in Requests, req[r].pc # "idle", candidate[req[r].want.id] = "gone"
        PROVE  candidate'[req[r].want.id] = "gone"
    BY <1>0, <2>1, GoneStays, WantedDevice DEF RequestType
  <2> QED
    BY <1>3, <2>1 DEF RivalInv
<1>4. ASSUME NEW t \in Requests, EnrollStep(t)
      PROVE  RivalInv'
    BY <1>1, <1>4 DEF RivalInv
<1> QED
    BY <1>2, <1>3, <1>4, CommandFrame, InboxFrame DEF Next, Start

-----------------------------------------------------------------------------
(* The line a request relies on *)

\* Only a rollback takes a line away, and only one of its own host and key.
LEMMA LineKept ==
    ASSUME TypeInv, Next, NEW w \in Wanted, PinnedIn(known, w),
           ~\E r \in Requests : /\ req[r].pc = "unpin" /\ req'[r].pc # req[r].pc
                                /\ req[r].want.fingerprint = w.fingerprint
    PROVE  PinnedIn(known', w)
<1> DEFINE g == w.device.host
           q == w.fingerprint
<1>0. known \in Lines /\ g \in Hosts /\ q \in Keys /\ known[<<g, q>>] > 0
    BY WantedDevice DEF TypeInv, FileType, PinnedIn
<1>1. known[<<g, q>>] \in Nat
    BY <1>0, LinesNumber
<1>2. ASSUME NEW h \in Hosts, NEW k \in Keys, known' = appendKnownHost(known, h, k)
      PROVE  known'[<<g, q>>] > 0
  <2>1. known'[<<g, q>>] = IF g = h /\ q = k THEN known[<<g, q>>] + 1 ELSE known[<<g, q>>]
    BY <1>0, <1>2, AppendCounts
  <2> QED
    BY <1>0, <1>1, <2>1
<1>3. ASSUME NEW r \in Requests, NEW res \in SaveOutcomes, Commits(r, res)
      PROVE  known'[<<g, q>>] > 0
  <2>1. req[r].want.device.host \in Hosts /\ req[r].want.fingerprint \in Keys
    BY <1>3, WantedDevice DEF Commits, CommitPendingHostKey, TypeInv, RequestType
  <2> QED
    BY <1>0, <1>2, <1>3, <2>1 DEF Commits, CommitPendingHostKey, WritePrivate
<1>4. ASSUME NEW r \in Requests, NEW res \in SaveOutcomes, RollbackUnpin(r, res)
      PROVE  known'[<<g, q>>] > 0
  <2>1. req[r].want.device.host \in Hosts /\ req[r].want.fingerprint \in Keys /\ req[r].pc = "unpin"
    BY <1>4, WantedDevice DEF RollbackUnpin, TypeInv, RequestType
  <2>2. req'[r].pc = "unregister"
    BY <1>4, UnpinMoves DEF TypeInv, Moves
  <2>3. req[r].want.fingerprint # q
    BY <2>1, <2>2
  <2>4. \/ known' = known
        \/ known' = removeKnownHost(known, req[r].want.device.host, req[r].want.fingerprint)
    BY <1>4 DEF RollbackUnpin, WritePrivate
  <2> QED
    BY <1>0, <2>1, <2>3, <2>4, RemoveCounts
<1>5. ASSUME NEW p \in Processes, NEW k \in Keys, NEW res \in SaveOutcomes, AcceptNew(p, k, res)
      PROVE  known'[<<g, q>>] > 0
  <2>1. cli[p].loaded.host \in Hosts
    BY <1>5 DEF AcceptNew, Running, TypeInv, CommandType, Loaded, Device
  <2> QED
    BY <1>0, <1>2, <1>5, <2>1 DEF AcceptNew, WritePrivate
<1>6. known'[<<g, q>>] > 0
    BY <1>0, <1>3, <1>4, <1>5, EnrollFrame, CommandChanges, InboxFrame, ProcessFrame
    DEF Next, fileVars
<1> QED
    BY <1>6 DEF PinnedIn

\* A host and a key match when known_hosts has a line for them.
LEMMA LookupMatches ==
    ASSUME NEW h, NEW k
    PROVE  Lookup(known, h, k) = "match" <=> known[<<h, k>>] > 0
  BY DEF Lookup

\* The moves of a request that bring it closer to success.
LEMMA LineHeldHere ==
    ASSUME TypeInv, LineHeldInv, NEW r \in Requests, EnrollStep(r)
    PROVE  /\ req'[r].pc = "probed" /\ ~req'[r].pending => PinnedIn(known', req'[r].want)
           /\ req'[r].pc \in {"adding", "added", "pinning"} /\ ~req'[r].pending => PinnedIn(known', req'[r].want)
           /\ req'[r].pc \in {"pinned", "finishing"} => PinnedIn(known', req'[r].want)
<1>0. RequestType
    BY DEF TypeInv
<1>1. Transition(r)
    BY <1>0, Transitions
<1>2. ASSUME req[r].pc # "idle"
      PROVE  req[r].want \in Wanted /\ req'[r].want = req[r].want
    BY <1>0, <1>2, OneRequest DEF RequestType
<1>3. ASSUME PinnedIn(known, req[r].want), req[r].pc \notin {"idle", "unpin"}
      PROVE  PinnedIn(known', req'[r].want)
  <2>1. \A s \in Requests \ {r} : req'[s] = req[s]
    BY <1>0, OneRequest
  <2>2. PinnedIn(known', req[r].want)
    BY <1>2, <1>3, <2>1, LineKept DEF Next
  <2> QED
    BY <1>2, <1>3, <2>2 DEF PinnedIn
<1>4. CASE req'[r].pc = "probed"
  <2>1. req[r].pc = "probing"
    BY <1>1, <1>4 DEF Transition
  <2>2. PICK k \in Keys : ProbeExpectedHostKey(r, k)
    BY <1>0, <1>4, <2>1, AnswerMoves, Leaves DEF ProbeFails, Moves, Outcomes
  <2> DEFINE verdict == verifyHostKeyLocked(known, req[r].want.device.host, k, TRUE,
                                            req[r].want.fingerprint)
  <2>3. verdict # "refused" /\ known' = known
    BY <2>2 DEF ProbeExpectedHostKey, fileVars
  <2>4. req'[r].pending <=> verdict = "new"
    BY <1>0, <2>2, ProbeMoves
  <2>5. req[r].want.fingerprint \in Keys
    BY <1>2, <2>1, WantedDevice
  <2>6. ASSUME ~req'[r].pending
        PROVE  Lookup(known, req[r].want.device.host, req[r].want.fingerprint) = "match"
    BY <2>3, <2>4, <2>5, <2>6, FilesAssumption DEF verifyHostKeyLocked
  <2>7. ASSUME ~req'[r].pending
        PROVE  PinnedIn(known', req'[r].want)
    BY <1>2, <2>1, <2>3, <2>6, <2>7, LookupMatches DEF PinnedIn
  <2> QED
    BY <1>4, <2>7
<1>5. CASE req'[r].pc = "adding"
  <2>1. req[r].pc = "probed" /\ (req'[r].pending <=> req[r].pending)
    BY <1>1, <1>5 DEF Transition
  <2>2. candidate[req[r].want.id] # "gone"
    BY <1>5, <2>1, Rechecked DEF validateEnrollment
  <2>3. ~req'[r].pending => PinnedIn(known', req'[r].want)
    BY <1>3, <2>1, <2>2 DEF LineHeldInv
  <2> QED
    BY <1>5, <2>3
<1>6. CASE req'[r].pc \in {"added", "pinning"}
  <2>1. req[r].pc \in {"adding", "added"} /\ (req'[r].pending <=> req[r].pending)
    BY <1>1, <1>6 DEF Transition
  <2>2. ~req'[r].pending => PinnedIn(known', req'[r].want)
    BY <1>3, <2>1 DEF LineHeldInv
  <2> QED
    BY <1>6, <2>2
<1>7. CASE req'[r].pc = "finishing"
  <2>1. req[r].pc = "pinned"
    BY <1>1, <1>7 DEF Transition
  <2> QED
    BY <1>3, <1>7, <2>1 DEF LineHeldInv
<1>8. CASE req'[r].pc = "pinned"
  <2>1. req[r].pc = "pinning"
    BY <1>1, <1>8 DEF Transition
  <2>2. CASE CommitNothing(r)
    <3>1. PinnedIn(known, req[r].want)
      BY <2>1, <2>2, LookupMatches DEF CommitNothing, LineHeldInv, PinnedIn
    <3> QED
      BY <1>3, <1>8, <2>1, <3>1
  <2>3. ASSUME NEW res \in SaveOutcomes, Commits(r, res)
        PROVE  PinnedIn(known', req'[r].want)
    <3> DEFINE h == req[r].want.device.host
               k == req[r].want.fingerprint
    <3>1. res = "ok"
      BY <1>0, <1>8, <2>3, CommitMoves DEF Moves
    <3>2. known' = appendKnownHost(known, h, k)
      BY <2>3, <3>1 DEF Commits, CommitPendingHostKey, WritePrivate
    <3>3. known \in Lines /\ h \in Hosts /\ k \in Keys
      BY <1>2, <2>1, WantedDevice DEF TypeInv, FileType
    <3>4. known[<<h, k>>] \in Nat /\ known'[<<h, k>>] = known[<<h, k>>] + 1
      BY <3>2, <3>3, AppendCounts, LinesNumber
    <3>5. known'[<<h, k>>] > 0
      BY <3>4
    <3> QED
      BY <1>2, <2>1, <3>5 DEF PinnedIn
  <2>4. ~CommitRefused(r)
    BY <1>0, <1>8, FailureMoves DEF CommitRefused, Moves
  <2> QED
    BY <1>8, <2>1, <2>2, <2>3, <2>4, Leaves
<1> QED
    BY <1>4, <1>5, <1>6, <1>7, <1>8

\* No rival takes the line away on which an enrollment relies.
LEMMA LineHeldStep ==
    ASSUME TypeInv, MutexInv, RivalInv, LineHeldInv, Next
    PROVE  LineHeldInv'
<1>0. RequestType
    BY DEF TypeInv
<1>1. ASSUME NEW t \in Requests, EnrollStep(t), NEW r \in Requests \ {t}
      PROVE  /\ req'[r].pc = "probed" /\ ~req'[r].pending /\ candidate'[req'[r].want.id] # "gone"
                  => PinnedIn(known', req'[r].want)
             /\ req'[r].pc \in {"adding", "added", "pinning"} /\ ~req'[r].pending => PinnedIn(known', req'[r].want)
             /\ req'[r].pc \in {"pinned", "finishing"} => PinnedIn(known', req'[r].want)
  <2>1. \A s \in Requests \ {t} : req'[s] = req[s]
    BY <1>0, <1>1, OneRequest
  <2>2. CASE req[r].pc = "idle"
    BY <1>1, <2>1, <2>2
  <2>3. CASE req[r].pc # "idle"
    <3>1. req[r].want \in Wanted /\ req[r].want.id \in Candidates
      BY <1>0, <2>3, WantedDevice DEF RequestType
    <3>2. ASSUME PinnedIn(known, req[r].want), ~(req[t].pc = "unpin" /\ req[t].want.fingerprint = req[r].want.fingerprint)
          PROVE  PinnedIn(known', req'[r].want)
      <4>1. PinnedIn(known', req[r].want)
        BY <1>1, <2>1, <3>1, <3>2, LineKept DEF Next
      <4> QED
        BY <1>1, <2>1, <4>1 DEF PinnedIn
    <3>3. ASSUME req[r].pc \in Holding
          PROVE  req[t].pc # "unpin"
      BY <1>1, <3>3 DEF MutexInv, Holding
    <3>4. ASSUME req[r].pc = "probed", candidate'[req[r].want.id] # "gone"
          PROVE  /\ candidate[req[r].want.id] # "gone"
                 /\ ~(req[t].pc = "unpin" /\ req[t].want.fingerprint = req[r].want.fingerprint)
      <4>1. candidate[req[r].want.id] # "gone"
        BY <1>1, <3>1, <3>4, GoneStays DEF Next
      <4> QED
        BY <1>1, <3>4, <4>1 DEF RivalInv, Holding
    <3>5. req'[r] = req[r]
      BY <1>1, <2>1
    <3> QED
      BY <3>2, <3>3, <3>4, <3>5 DEF LineHeldInv, Holding
  <2> QED
    BY <2>2, <2>3
<1>2. CASE Crash
  <2>1. \A s \in Requests : req'[s].pc \in {"idle", "done"}
    BY <1>0, <1>2, CrashMoves
  <2> QED
    BY <2>1 DEF LineHeldInv
<1>3. ASSUME UNCHANGED req
      PROVE  LineHeldInv'
  <2>1. ASSUME NEW r \in Requests, req[r].pc # "idle", PinnedIn(known, req[r].want)
        PROVE  PinnedIn(known', req[r].want)
    BY <1>0, <1>3, <2>1, LineKept DEF RequestType
  <2>2. ASSUME NEW r \in Requests, req[r].pc # "idle", candidate'[req[r].want.id] # "gone"
        PROVE  candidate[req[r].want.id] # "gone"
    BY <1>0, <2>2, GoneStays, WantedDevice DEF RequestType
  <2>3. ASSUME NEW r \in Requests, PinnedIn(known', req[r].want)
        PROVE  PinnedIn(known', req'[r].want)
    BY <1>3, <2>3 DEF PinnedIn
  <2> QED
    BY <1>3, <2>1, <2>2, <2>3 DEF LineHeldInv
<1>4. ASSUME NEW t \in Requests, EnrollStep(t)
      PROVE  LineHeldInv'
    BY <1>1, <1>4, LineHeldHere DEF LineHeldInv
<1> QED
    BY <1>2, <1>3, <1>4, CommandFrame, InboxFrame DEF Next, Start

-----------------------------------------------------------------------------
(* The entries of devices.json *)

\* The names of valid devices are different.
LEMMA NamesDiffer ==
    ASSUME NEW devs, validateDevices(devs), NEW d \in devs, NEW e \in devs, d.name = e.name
    PROVE  d = e
  BY DEF validateDevices

\* What a write makes of the author of a name.
LEMMA WriteAuthor ==
    ASSUME NEW who, NEW next, NEW res, Write(who, next, res), NEW n \in Names
    PROVE  \/ Named(config', n) = Named(config, n) /\ author'[n] = author[n]
           \/ Named(config', n) = {} /\ author'[n] = NoOne /\ Named(config, n) # {}
           \/ Named(config', n) # {} /\ author'[n] = who /\ Named(config', n) # Named(config, n)
  BY WriteEffect

\* Every change of devices.json is a write by the one who steps.
LEMMA Writers ==
    ASSUME Next
    PROVE  \/ UNCHANGED <<config, author>>
           \/ \E who \in Requests \cup Processes : \E next, res : Write(who, next, res)
<1>1. ASSUME NEW r \in Requests, EnrollStep(r)
      PROVE  UNCHANGED <<config, author>> \/ \E next, res : Write(r, next, res)
    BY <1>1, EnrollFrame DEF AddContext, RollbackUnregister
<1>2. ASSUME NEW p \in Processes, CommandStep(p)
      PROVE  UNCHANGED <<config, author>> \/ \E next, res : Write(p, next, res)
    BY <1>2, CommandChanges DEF AddSave, AutoUnlock, Apply, RemoveDevice, Mutate
<1> QED
    BY <1>1, <1>2, InboxFrame, ProcessFrame DEF Next, fileVars, historyVars

\* An entry that goes takes its author with it.
LEMMA EntryStep ==
    ASSUME EntryInv, Next
    PROVE  EntryInv'
<1>1. CASE UNCHANGED <<config, author>>
    BY <1>1 DEF EntryInv
<1>2. ASSUME NEW who, NEW next, NEW res, Write(who, next, res)
      PROVE  EntryInv'
    BY <1>2, WriteAuthor DEF EntryInv
<1> QED
    BY <1>1, <1>2, Writers

\* AddContext adds an entry under a name that had none.
LEMMA OwnedAdd ==
    ASSUME TypeInv, MutexInv, PinnedInv, OwnedInv, EntryInv, NEW t \in Requests,
           NEW res \in SaveOutcomes, AddContext(t, res)
    PROVE  OwnedInv'
<1> DEFINE d == req[t].want.device
<1>1. /\ req[t].pc = "adding" /\ add(config, d).verdict = "save" /\ Write(t, add(config, d).next, res)
      /\ UNCHANGED <<line, excused, unread>>
    BY DEF AddContext
<1>2. d \in Device /\ d.name \in Names
    BY <1>1, WantedDevice DEF TypeInv, RequestType
<1>3. Named(config, d.name) = {} /\ add(config, d).next = config \cup {d}
    BY <1>1, <1>2, AddKeepsValid DEF TypeInv, FileType
<1>4. \/ config' = config /\ res = "failOld"
      \/ config' = config \cup {d} /\ res # "failOld"
    BY <1>1, <1>3 DEF Write, WritePrivate
<1>5. \A n \in Names : n # d.name => author'[n] = author[n]
  <2>1. \A n \in Names : n # d.name => Named(config', n) = Named(config, n)
    BY <1>4 DEF Named
  <2> QED
    BY <1>1, <2>1, WriteAuthor
<1>6. /\ author'[d.name] \in {author[d.name], t}
      /\ config' # config => author'[d.name] = t /\ d \in config'
    BY <1>1, <1>2, <1>3, <1>4, WriteAuthor DEF Named
<1>7. EnrollStep(t) /\ RequestType
    BY DEF EnrollStep, TypeInv
<1>8. \A s \in Requests \ {t} : req'[s] = req[s] /\ req[s].pc \notin Holding
    BY <1>1, <1>7, OneRequest DEF MutexInv, Holding
<1>9. ASSUME NEW s \in Requests \ {t}
      PROVE  Owned(s)'
  <2>1. Owned(s) /\ req'[s] = req[s] /\ req[s].pc \notin Holding
    BY <1>8 DEF OwnedInv
  <2>2. ASSUME s \in line, s \notin excused, s \notin unread
        PROVE  req[s].want.device \in config' /\ author'[req[s].want.device.name] = s
    <3>1. req[s].want.device \in config /\ author[req[s].want.device.name] = s
      BY <2>1, <2>2 DEF Owned
    <3>2. req[s].want.device.name \in Names /\ req[s].want.device.name # d.name
      BY <1>3, <3>1 DEF TypeInv, FileType, Device, Named
    <3> QED
      BY <1>4, <1>5, <3>1, <3>2
  <2>3. ASSUME NEW n \in Names, author'[n] = s
        PROVE  author[n] = s
    BY <1>5, <1>6, <2>3
  <2> QED
    BY <1>1, <2>1, <2>2, <2>3 DEF Owned, Holding
<1>10. Owned(t)'
  <2>1. Owned(t) /\ t \notin line /\ req'[t].want = req[t].want /\ req[t].result = "none"
    BY <1>1, <1>7, OneRequest DEF OwnedInv, PinnedInv, Pinned
  <2>2. \/ res = "ok" /\ req'[t].pc = "added" /\ req'[t].result = "none"
        \/ res # "ok" /\ req'[t].pc = "ending" /\ req'[t].result = "refused"
    BY <1>7, <2>1, StepMoves, AnswerMoves DEF AddContext, Moves, Positions, Outcomes
  <2>3. ASSUME NEW n \in Names, author'[n] = t
        PROVE  n = d.name
    BY <1>1, <1>5, <2>1, <2>3 DEF Owned
  <2>4. res = "ok" => author'[d.name] = t /\ d \in config'
    <3>1. d \notin config
      BY <1>3 DEF Named
    <3> QED
      BY <1>4, <1>6, <3>1
  <2> QED
    BY <1>1, <2>1, <2>2, <2>3, <2>4 DEF Owned
<1> QED
    BY <1>9, <1>10 DEF OwnedInv

\* RemoveIfUnchangedContext removes the entry of its own enrollment only.
LEMMA OwnedRemove ==
    ASSUME TypeInv, MutexInv, PinnedInv, OwnedInv, EntryInv, NEW t \in Requests,
           NEW res \in SaveOutcomes, RollbackUnregister(t, res)
    PROVE  OwnedInv'
<1> DEFINE d == req[t].want.device
           out == RemoveIfUnchanged(config, d)
<1>1. /\ req[t].pc = "unregister" /\ UNCHANGED <<line, excused, unread>>
      /\ Rollback(t, out.verdict = "satisfied" \/ (out.verdict = "save" /\ res = "ok"))
      /\ IF out.verdict = "save" THEN Write(t, out.next, res) ELSE UNCHANGED <<config, author>>
    BY DEF RollbackUnregister
<1>2. d \in Device /\ d.name \in Names
    BY <1>1, WantedDevice DEF TypeInv, RequestType
<1>3. /\ out.verdict = "satisfied" => Named(config, d.name) = {}
      /\ out.verdict = "save" => d \in config /\ out.next = config \ {d}
    BY <1>2, RemoveIfUnchangedKeepsValid DEF TypeInv, FileType
<1>4. \A e \in config : e.name = d.name /\ d \in config => e = d
    BY NamesDiffer DEF TypeInv, FileType
<1> HIDE DEF out
<1>5. \/ UNCHANGED <<config, author>> /\ out.verdict # "save"
      \/ /\ out.verdict = "save" /\ Write(t, out.next, res) /\ d \in config
         /\ \/ config' = config /\ res = "failOld"
            \/ config' = config \ {d} /\ res # "failOld"
    BY <1>1, <1>3 DEF Write, WritePrivate
<1>6. \A n \in Names : n # d.name => Named(config', n) = Named(config, n)
    BY <1>5 DEF Named
<1>7. \A n \in Names : n # d.name => author'[n] = author[n]
    BY <1>5, <1>6, WriteAuthor
<1>8. /\ author'[d.name] \in {author[d.name], NoOne}
      /\ out.verdict = "save" /\ res = "ok" => author'[d.name] = NoOne
  <2>1. CASE config' = config
    BY <1>2, <1>5, <2>1, WriteAuthor
  <2>2. CASE config' = config \ {d} /\ d \in config
    <3>1. Named(config', d.name) = {} /\ Named(config, d.name) # {}
      BY <1>4, <2>2 DEF Named
    <3> QED
      BY <1>2, <1>5, <3>1, WriteAuthor
  <2> QED
    BY <1>5, <2>1, <2>2
<1>9. EnrollStep(t) /\ RequestType
    BY DEF EnrollStep, TypeInv
<1>10. \A s \in Requests \ {t} : req'[s] = req[s] /\ req[s].pc \notin Holding
    BY <1>1, <1>9, OneRequest DEF MutexInv, Holding
<1>11. ASSUME NEW s \in Requests \ {t}
       PROVE  Owned(s)'
  <2>1. Owned(s) /\ req'[s] = req[s] /\ req[s].pc \notin Holding /\ s # NoOne /\ s \notin Processes
    BY <1>10, EnrollmentAssumption DEF OwnedInv
  <2>2. ASSUME s \in line, s \notin excused, s \notin unread
        PROVE  req[s].want.device \in config' /\ author'[req[s].want.device.name] = s
    <3>1. req[s].want.device \in config /\ author[req[s].want.device.name] = s
      BY <2>1, <2>2 DEF Owned
    <3>2. author[d.name] \in {t, NoOne} \cup Processes
      BY <1>1 DEF OwnedInv, Owned
    <3>3. req[s].want.device.name \in Names /\ req[s].want.device.name # d.name
      BY <2>1, <3>1, <3>2 DEF TypeInv, FileType, Device
    <3>4. req[s].want.device \in config'
      BY <1>5, <3>1, <3>3
    <3> QED
      BY <1>7, <3>1, <3>3, <3>4
  <2>3. ASSUME NEW n \in Names, author'[n] = s
        PROVE  author[n] = s
    BY <1>7, <1>8, <2>1, <2>3
  <2> QED
    BY <1>1, <2>1, <2>2, <2>3 DEF Owned, Holding
<1>12. Owned(t)'
  <2>1. Owned(t) /\ req'[t].want = req[t].want /\ (t \in line => t \in excused \cup unread) /\ t # NoOne
    BY <1>1, <1>9, OneRequest, EnrollmentAssumption DEF OwnedInv, PinnedInv, Pinned
  <2>2. /\ req'[t].pc = "ending"
        /\ req'[t].result = "rolled-back" =>
             out.verdict = "satisfied" \/ (out.verdict = "save" /\ res = "ok")
    BY <1>1, <1>9, RollbackMoves DEF Moves
  <2>3. ASSUME NEW n \in Names, author'[n] = t
        PROVE  n = d.name /\ req'[t].result # "rolled-back"
    <3>1. author[n] = t
      BY <1>7, <1>8, <2>1, <2>3
    <3>2. n = d.name /\ Named(config, n) # {}
      BY <2>1, <3>1 DEF Owned, EntryInv
    <3> QED
      BY <1>3, <1>8, <2>1, <2>2, <2>3, <3>2
  <2> QED
    BY <1>1, <2>1, <2>2, <2>3 DEF Owned
<1> QED
    BY <1>11, <1>12 DEF OwnedInv

\* A command that adds a device takes no name of an enrollment; the others
\* say so.
LEMMA OwnedCommand ==
    ASSUME TypeInv, OwnedInv, EntryInv, NEW p \in Processes, CommandStep(p)
    PROVE  OwnedInv'
<1>1. UNCHANGED <<req, line, unread>> /\ p \notin Requests /\ p # NoOne /\ NoOne \notin Requests
    BY CommandFrame, EnrollmentAssumption
<1>2. ASSUME UNCHANGED <<config, author>>, excused \subseteq excused'
      PROVE  OwnedInv'
    BY <1>1, <1>2 DEF OwnedInv, Owned
<1>3. ASSUME NEW next, NEW res, Write(p, next, res), excused \subseteq excused',
             \A s \in Requests, n \in Names :
               author[n] = s /\ s \notin excused' => Named(config', n) = Named(config, n)
      PROVE  OwnedInv'
  <2> SUFFICES ASSUME NEW s \in Requests PROVE Owned(s)'
    BY DEF OwnedInv
  <2>1. Owned(s)
    BY DEF OwnedInv
  <2>2. \A n \in Names : author'[n] \in {author[n], NoOne, p}
    BY <1>3, WriteAuthor
  <2>3. ASSUME req[s].want.device \in config, author[req[s].want.device.name] = s, s \notin excused'
        PROVE  req[s].want.device \in config' /\ author'[req[s].want.device.name] = s
    <3>1. req[s].want.device.name \in Names
      BY <2>3 DEF TypeInv, FileType, Device
    <3>2. Named(config', req[s].want.device.name) = Named(config, req[s].want.device.name)
      BY <1>3, <2>3, <3>1
    <3> QED
      BY <1>3, <2>3, <3>1, <3>2, WriteAuthor DEF Named
  <2>4. \A n \in Names : author'[n] = s => author[n] = s
    BY <1>1, <2>2
  <2>5. req[s].pc # "idle" => req[s].want.device.name \in Names
    BY WantedDevice DEF TypeInv, RequestType
  <2> QED
    BY <1>1, <1>3, <2>1, <2>2, <2>3, <2>4, <2>5 DEF Owned
<1>4. ASSUME NEW res \in SaveOutcomes, AddSave(p, res)
      PROVE  OwnedInv'
  <2> DEFINE d == cli[p].loaded
  <2>1. Write(p, add(config, d).next, res) /\ UNCHANGED excused
    BY <1>4 DEF AddSave
  <2>2. d \in Device
    BY <1>4 DEF AddSave, Running, TypeInv, CommandType, Loaded
  <2>3. \/ config' = config
        \/ config' = config \cup {d} /\ Named(config, d.name) = {}
    BY <2>1, <2>2, AddKeepsValid DEF Write, WritePrivate, TypeInv, FileType
  <2>4. ASSUME NEW n \in Names, author[n] # NoOne
        PROVE  Named(config', n) = Named(config, n)
    BY <2>3, <2>4 DEF EntryInv, Named
  <2> QED
    BY <1>1, <1>3, <2>1, <2>4
<1>5. ASSUME NEW next, NEW res \in SaveOutcomes, Mutate(p, res, next)
      PROVE  OwnedInv'
  <2>1. Write(p, next, res) /\ excused' = excused \cup Abandoned
    BY <1>5 DEF Mutate
  <2>2. ASSUME NEW s \in Requests, NEW n \in Names, author[n] = s, s \notin excused'
        PROVE  Named(config', n) = Named(config, n)
    <3>1. author'[n] = s
      BY <2>1, <2>2 DEF Abandoned
    <3> QED
      BY <1>1, <2>1, <3>1, WriteAuthor
  <2> QED
    BY <1>3, <2>1, <2>2
<1> QED
    BY <1>2, <1>4, <1>5, CommandChanges DEF AutoUnlock, Apply, RemoveDevice

\* No writer takes the device of an enrollment away unless it is excused.
LEMMA OwnedStep ==
    ASSUME TypeInv, MutexInv, PinnedInv, OwnedInv, EntryInv, Next
    PROVE  OwnedInv'
<1>0. RequestType
    BY DEF TypeInv
<1>1. ASSUME NEW t \in Requests, EnrollStep(t),
             ~\E res \in SaveOutcomes : AddContext(t, res) \/ RollbackUnregister(t, res)
      PROVE  OwnedInv'
  <2>1. Transition(t) /\ \A s \in Requests \ {t} : req'[s] = req[s]
    BY <1>0, <1>1, Transitions, OneRequest
  <2>2. /\ UNCHANGED <<config, author>>
        /\ line' \in {line, line \cup {t}, line \ {t}} /\ excused' \in {excused, excused \cup {t}}
        /\ unread \subseteq unread'
    BY <1>1, EnrollFrame DEF Commits, CommitPendingHostKey, RollbackUnpin
  <2>3. ASSUME NEW s \in Requests \ {t}
        PROVE  Owned(s)'
    BY <2>1, <2>2 DEF OwnedInv, Owned
  <2>4. t \in line' \ line => req[t].pc = "pinning"
    BY <1>1, EnrollFrame DEF Commits, CommitPendingHostKey, RollbackUnpin
  <2>5. ~(req[t].pc = "adding" /\ req'[t].pc = "added")
    BY <1>0, <1>1, Leaves, AnswerMoves DEF AddRefused, Moves, Outcomes
  <2>6. ~(req[t].pc = "unregister" /\ req'[t].result = "rolled-back")
    BY <1>0, <1>1, Leaves, RollbackMoves DEF RollbackTimesOut, Moves
  <2>7. req[t].pc # "idle" => req'[t].want = req[t].want
    BY <1>0, <1>1, OneRequest
  <2>8. Owned(t) /\ Pinned(t)
    BY DEF OwnedInv, PinnedInv
  <2>9. Owned(t)'
    <3>1. (t \in line' \/ req'[t].pc \in {"added", "pinning", "pinned", "finishing", "unpin"}) =>
            /\ t \in line \/ req[t].pc \in {"added", "pinning", "pinned", "finishing", "unpin"}
            /\ req[t].pc # "idle"
      BY <2>1, <2>2, <2>4, <2>5, <2>8 DEF Transition, Pinned
    <3>2. req'[t].pc \in {"added", "pinning", "pinned", "finishing", "unpin", "unregister"} =>
            req[t].pc \in {"added", "pinning", "pinned", "finishing", "unpin", "unregister"}
      BY <2>1, <2>5 DEF Transition
    <3>3. req[t].pc \notin {"idle", "probing", "probed", "adding"} =>
            req'[t].pc \notin {"idle", "probing", "probed", "adding"}
      BY <2>1 DEF Transition
    <3>4. req[t].result # "rolled-back" => req'[t].result # "rolled-back"
      BY <2>1, <2>6 DEF Transition
    <3> QED
      BY <2>2, <2>7, <2>8, <3>1, <3>2, <3>3, <3>4 DEF Owned
  <2> QED
    BY <2>3, <2>9 DEF OwnedInv
<1>2. ASSUME UNCHANGED <<req, config, author, line, excused, unread>>
      PROVE  OwnedInv'
    BY <1>2 DEF OwnedInv, Owned
<1>3. CASE Crash
  <2>1. UNCHANGED <<config, author, line, excused, unread>>
    BY <1>3, ProcessFrame DEF fileVars, historyVars
  <2> QED
    BY <1>0, <1>3, <2>1, CrashMoves DEF OwnedInv, Owned
<1>4. CASE Start
    BY <1>2, <1>4 DEF Start, fileVars, historyVars
<1>5. CASE InboxStep
    BY <1>2, <1>5, InboxFrame DEF fileVars, historyVars
<1>6. ASSUME NEW t \in Requests, EnrollStep(t)
      PROVE  OwnedInv'
    BY <1>1, <1>6, OwnedAdd, OwnedRemove
<1> QED
    BY <1>3, <1>4, <1>5, <1>6, OwnedCommand DEF Next

-----------------------------------------------------------------------------
(* Passwords *)

\* An enrollment writes devices.json when nobody holds its lock.
LEMMA EnrollNeedsLock ==
    ASSUME NEW r \in Requests, EnrollStep(r)
    PROVE  config' = config \/ configLock = NoOne
  BY EnrollFrame DEF AddContext, RollbackUnregister, ConfigFree

\* What the commands that write devices.json find and do.
LEMMA CommandWrites ==
    ASSUME TypeInv, PreparedInv, NEW p \in Processes, CommandStep(p)
    PROVE  /\ config' = config \/ configLock \in {p, NoOne}
           /\ UNCHANGED configLock \/ configLock \in {p, NoOne}
           /\ keyring' = keyring \/ configLock = NoOne \/ cli[p].pc = "forget"
<1>1. ASSUME NEW res \in SaveOutcomes, AddSave(p, res)
      PROVE  configLock = p
    BY <1>1 DEF AddSave, Running, PreparedInv
<1>2. ASSUME NEW next, NEW res, Mutate(p, res, next)
      PROVE  configLock = NoOne
    BY <1>2 DEF Mutate, ConfigFree
<1>3. config' = config \/ configLock \in {p, NoOne}
    BY <1>1, <1>2, CommandChanges DEF AutoUnlock, Apply, RemoveDevice
<1>4. UNCHANGED configLock \/ configLock \in {p, NoOne}
    BY <1>1, CommandChanges
<1>5. keyring' = keyring \/ configLock = NoOne \/ cli[p].pc = "forget"
    BY CommandChanges DEF AddPrepared, deleteStoredCredential, ConfigFree
<1> QED
    BY <1>3, <1>4, <1>5

\* The lock is held across steps by an add that passed the check only.
LEMMA OnlyPrepared ==
    ASSUME FileType, CommandType, NEW q \in Processes, CommandStep(q), cli'[q].pc = "prepared"
    PROVE  AddPrepared(q) /\ add(config, cli[q].loaded).verdict = "save"
<1>1. ASSUME cli' = [cli EXCEPT ![q].pc = "done"] \/ cli' = [cli EXCEPT ![q].pc = "forget"]
      PROVE  FALSE
    BY <1>1 DEF CommandType, CommandRecord
<1>2. ASSUME NEW cmd \in Commands, Load(q, cmd)
      PROVE  FALSE
    BY <1>2, LoadMoves
<1>3. ASSUME NEW res \in SaveOutcomes, RemoveDevice(q, res)
      PROVE  FALSE
    BY <1>1, <1>3 DEF RemoveDevice
<1>4. ~Exit(q)
    BY <1>1 DEF Exit
<1> QED
    BY <1>2, <1>3, <1>4 DEF CommandStep, AddPrepared, AddSave, AutoUnlock, Apply, AcceptNew,
       deleteStoredCredential, CommandDies

\* While an add holds the lock nobody takes its name or its password.
LEMMA PreparedStep ==
    ASSUME TypeInv, PreparedInv, Next
    PROVE  PreparedInv'
<1>0. /\ \A p \in Processes : p # NoOne
      /\ FileType /\ CommandType
    BY EnrollmentAssumption DEF TypeInv
<1>1. ASSUME NEW r \in Requests, EnrollStep(r)
      PROVE  PreparedInv'
  <2>1. UNCHANGED <<keyring, configLock, cli>> /\ (config' = config \/ configLock = NoOne)
    BY <1>1, EnrollFrame, EnrollNeedsLock
  <2> QED
    BY <1>0, <2>1 DEF PreparedInv
<1>2. ASSUME NEW q \in Processes, CommandStep(q)
      PROVE  PreparedInv'
  <2>1. /\ \A p \in Processes \ {q} : cli'[p] = cli[p]
        /\ cli[q].pc # "idle" => cli'[q].cmd = cli[q].cmd /\ cli'[q].loaded = cli[q].loaded
    BY <1>0, <1>2, OneCommand
  <2>2. ASSUME NEW p \in Processes \ {q}, cli'[p].pc = "prepared"
        PROVE  /\ configLock' = p
               /\ cli'[p].cmd.op = "add"
               /\ Named(config', cli'[p].loaded.name) = {}
               /\ cli'[p].loaded.source = "keyring" => keyring'[cli'[p].loaded.name] \in {p, NoOne}
    <3>1. cli'[p] = cli[p] /\ cli[p].pc = "prepared" /\ configLock = p /\ p # NoOne
      BY <1>0, <2>1, <2>2 DEF PreparedInv
    <3>2. config' = config /\ configLock' = configLock
      BY <1>2, <2>2, <3>1, CommandWrites
    <3>3. keyring'[cli[p].loaded.name] \in {keyring[cli[p].loaded.name], NoOne}
      <4>1. keyring' = keyring \/ deleteStoredCredential(q)
        BY <1>2, <3>1, CommandChanges DEF AddPrepared, ConfigFree
      <4>2. cli[p].loaded.name \in Names
        BY <1>0, <3>1 DEF CommandType, Loaded, Device
      <4> QED
        BY <1>0, <4>1, <4>2 DEF deleteStoredCredential, FileType
    <3> QED
      BY <3>1, <3>2, <3>3 DEF PreparedInv
  <2>3. ASSUME cli'[q].pc = "prepared"
        PROVE  /\ configLock' = q
               /\ cli'[q].cmd.op = "add"
               /\ Named(config', cli'[q].loaded.name) = {}
               /\ cli'[q].loaded.source = "keyring" => keyring'[cli'[q].loaded.name] \in {q, NoOne}
    <3>1. AddPrepared(q) /\ add(config, cli[q].loaded).verdict = "save"
      BY <1>0, <1>2, <2>3, OnlyPrepared
    <3>2. cli[q].loaded \in Device /\ cli[q].loaded.name \in Names /\ cli[q].pc = "loaded" /\ cli[q].cmd.op = "add"
      BY <1>0, <3>1 DEF AddPrepared, Running, CommandType, Loaded, Device
    <3>3. Named(config, cli[q].loaded.name) = {}
      BY <1>0, <3>1, <3>2, AddKeepsValid DEF FileType
    <3>4. /\ configLock' = q /\ config' = config
          /\ cli[q].loaded.source = "keyring" => keyring' = [keyring EXCEPT ![cli[q].loaded.name] = q]
      BY <3>1 DEF AddPrepared
    <3> QED
      BY <1>0, <2>1, <3>2, <3>3, <3>4 DEF FileType
  <2> QED
    BY <2>2, <2>3 DEF PreparedInv
<1>3. ASSUME UNCHANGED <<config, configLock, keyring, cli>>
      PROVE  PreparedInv'
    BY <1>3 DEF PreparedInv
<1> QED
    BY <1>1, <1>2, <1>3, InboxFrame, ProcessFrame DEF Next, fileVars

\* A command signs an entry only after it has begun.
LEMMA AuthorStep ==
    ASSUME TypeInv, AuthorInv, Next
    PROVE  AuthorInv'
<1>0. FileType /\ CommandType /\ Requests \cap Processes = {} /\ NoOne \notin Processes
    BY EnrollmentAssumption DEF TypeInv
<1>1. ASSUME NEW r \in Requests, EnrollStep(r)
      PROVE  AuthorInv'
  <2>1. UNCHANGED cli /\ (UNCHANGED author \/ \E next, res : Write(r, next, res))
    BY <1>1, EnrollFrame DEF AddContext, RollbackUnregister
  <2>2. \A n \in Names : author'[n] \in {author[n], NoOne, r}
    BY <2>1, WriteAuthor
  <2> QED
    BY <1>0, <2>1, <2>2 DEF AuthorInv
<1>2. ASSUME NEW p \in Processes, CommandStep(p)
      PROVE  AuthorInv'
  <2>1. UNCHANGED author \/ \E next, res : Write(p, next, res)
    BY <1>2, CommandChanges DEF AddSave, AutoUnlock, Apply, RemoveDevice, Mutate
  <2>2. \A n \in Names : author'[n] \in {author[n], NoOne, p}
    BY <2>1, WriteAuthor
  <2>3. cli'[p].pc # "idle" /\ \A q \in Processes \ {p} : cli'[q] = cli[q]
    BY <1>0, <1>2, OneCommand
  <2> QED
    BY <1>0, <2>2, <2>3 DEF AuthorInv
<1>3. ASSUME UNCHANGED <<author, cli>>
      PROVE  AuthorInv'
    BY <1>3 DEF AuthorInv
<1> QED
    BY <1>1, <1>2, <1>3, InboxFrame, ProcessFrame DEF Next, historyVars

\* No step gives a device the password of another command.
LEMMA CredentialStep ==
    ASSUME TypeInv, PreparedInv, AuthorInv, CredentialBelongs, Next
    PROVE  CredentialBelongs'
<1>0. FileType /\ CommandType /\ Requests \cap Processes = {} /\ NoOne \notin Processes
    BY EnrollmentAssumption DEF TypeInv
<1>1. \A d \in config : d.name \in Names
    BY <1>0 DEF FileType, Device
<1>2. ASSUME NEW r \in Requests, EnrollStep(r)
      PROVE  CredentialBelongs'
  <2>1. /\ UNCHANGED <<cli, keyring>>
        /\ UNCHANGED <<config, author>> \/ \E next, res : Write(r, next, res)
    BY <1>2, EnrollFrame DEF AddContext, RollbackUnregister
  <2>2. ASSUME NEW d \in config', author'[d.name] \in Processes
        PROVE  d \in config /\ author'[d.name] = author[d.name]
    <3>1. d.name \in Names
      BY <2>2, FileTypeStep, <1>2 DEF TypeInv, FileType, Device, Next
    <3>2. CASE UNCHANGED <<config, author>>
      BY <2>2, <3>2
    <3>3. ASSUME NEW next, NEW res, Write(r, next, res)
          PROVE  d \in config /\ author'[d.name] = author[d.name]
      <4>1. Named(config', d.name) = Named(config, d.name) /\ author'[d.name] = author[d.name]
        BY <1>0, <2>2, <3>1, <3>3, WriteAuthor
      <4> QED
        BY <2>2, <4>1 DEF Named
    <3> QED
      BY <2>1, <3>2, <3>3
  <2> QED
    BY <2>1, <2>2 DEF CredentialBelongs
<1>3. ASSUME NEW q \in Processes, CommandStep(q)
      PROVE  CredentialBelongs'
  <2>1. \A p \in Processes : cli[p].pc # "idle" => cli'[p].cmd = cli[p].cmd /\ cli'[p].loaded = cli[p].loaded
    BY <1>0, <1>3, OneCommand
  <2>2. ASSUME UNCHANGED <<config, author>>, NEW d \in config, d.source = "keyring",
               author[d.name] \in Processes, cli'[author[d.name]].cmd.op = "add"
        PROVE  keyring'[d.name] \in {author[d.name], NoOne}
    <3>1. cli[author[d.name]].cmd.op = "add"
      BY <1>1, <2>1, <2>2 DEF AuthorInv
    <3>2. keyring[d.name] \in {author[d.name], NoOne}
      BY <2>2, <3>1 DEF CredentialBelongs
    <3>3. CASE AddPrepared(q)
      <4> DEFINE e == cli[q].loaded
      <4>1. e \in Device /\ cli[q].pc = "loaded"
        BY <1>0, <3>3 DEF AddPrepared, Running, CommandType, Loaded
      <4>2. \/ keyring' = keyring
            \/ keyring' = [keyring EXCEPT ![e.name] = q] /\ add(config, e).verdict = "save"
        BY <3>3 DEF AddPrepared
      <4>3. add(config, e).verdict = "save" => e.name # d.name
        BY <1>0, <2>2, <4>1, AddKeepsValid DEF FileType, Named
      <4> QED
        BY <1>0, <1>1, <2>2, <3>2, <4>2, <4>3 DEF FileType
    <3>4. CASE deleteStoredCredential(q)
      BY <1>0, <1>1, <2>2, <3>2, <3>4 DEF deleteStoredCredential, FileType
    <3> QED
      BY <1>3, <3>2, <3>3, <3>4, CommandChanges
  <2>3. ASSUME NEW next, NEW res, Write(q, next, res), UNCHANGED keyring, cli[q].pc # "idle",
               cli[q].cmd.op = "add" =>
                 \A e \in config' \ config :
                   e.source = "keyring" => keyring[e.name] \in {q, NoOne},
               NEW d \in config', d.source = "keyring",
               author'[d.name] \in Processes, cli'[author'[d.name]].cmd.op = "add"
        PROVE  keyring'[d.name] \in {author'[d.name], NoOne}
    <3>1. d.name \in Names
      BY <2>3, FileTypeStep, <1>3 DEF TypeInv, FileType, Device, Next
    <3>2. CASE Named(config', d.name) = Named(config, d.name) /\ author'[d.name] = author[d.name]
      <4>1. d \in config /\ author[d.name] \in Processes
        BY <2>3, <3>2 DEF Named
      <4>2. cli[author[d.name]].cmd.op = "add"
        BY <2>1, <2>3, <3>1, <3>2, <4>1 DEF AuthorInv
      <4> QED
        BY <2>3, <3>2, <4>1, <4>2 DEF CredentialBelongs
    <3>3. CASE author'[d.name] = q /\ Named(config', d.name) # Named(config, d.name)
      <4>1. cli[q].cmd.op = "add"
        BY <2>1, <2>3, <3>3
      <4>2. CASE d \notin config
        BY <2>3, <3>3, <4>1, <4>2
      <4>3. CASE d \in config
        <5>1. \A e \in config : e.name = d.name => e = d
          BY <1>0, <4>3, NamesDiffer DEF FileType
        <5>2. \A e \in config' : e.name = d.name => e = d
          BY <1>3, <2>3, FileTypeStep, NamesDiffer DEF TypeInv, FileType, Next
        <5> QED
          BY <2>3, <3>3, <4>3, <5>1, <5>2 DEF Named
      <4> QED
        BY <4>2, <4>3
    <3> QED
      BY <1>0, <2>3, <3>1, <3>2, <3>3, WriteAuthor
  <2>4. ASSUME NEW res \in SaveOutcomes, AddSave(q, res)
        PROVE  CredentialBelongs'
    <3> DEFINE e == cli[q].loaded
    <3>1. Write(q, add(config, e).next, res) /\ UNCHANGED keyring /\ cli[q].pc = "prepared"
      BY <2>4 DEF AddSave, Running
    <3>2. e \in Device
      BY <1>0, <3>1 DEF CommandType, Loaded
    <3>3. config' \in {config, config \cup {e}}
      BY <1>0, <3>1, <3>2, AddKeepsValid, WriteEffect DEF FileType
    <3>4. \A x \in config' \ config : x.source = "keyring" => keyring[x.name] \in {q, NoOne}
      BY <3>1, <3>3 DEF PreparedInv
    <3> QED
      BY <2>3, <3>1, <3>4 DEF CredentialBelongs
  <2>5. ASSUME NEW next, NEW res, Mutate(q, res, next), cli[q].pc # "idle", cli[q].cmd.op # "add"
        PROVE  CredentialBelongs'
    BY <2>3, <2>5 DEF Mutate, CredentialBelongs
  <2>6. ASSUME NEW res \in SaveOutcomes, AutoUnlock(q, res) \/ Apply(q, res) \/ RemoveDevice(q, res)
        PROVE  /\ \E next : Mutate(q, res, next)
               /\ cli[q].pc # "idle" /\ cli[q].cmd.op # "add"
    BY <2>6 DEF AutoUnlock, Apply, RemoveDevice, Running
  <2> QED
    BY <1>3, <2>2, <2>4, <2>5, <2>6, CommandChanges DEF CredentialBelongs
<1>4. ASSUME UNCHANGED <<config, author, cli, keyring>>
      PROVE  CredentialBelongs'
    BY <1>4 DEF CredentialBelongs
<1> QED
    BY <1>2, <1>3, <1>4, InboxFrame, ProcessFrame DEF Next, fileVars, historyVars

-----------------------------------------------------------------------------
(* The inductive invariant *)

\* The inductive invariant.
EnrollInv ==
    /\ TypeInv /\ MutexInv /\ AdapterInv /\ PinnedInv /\ AccountInv
    /\ CandidateInv /\ RivalInv /\ LineHeldInv
    /\ EntryInv /\ OwnedInv
    /\ PreparedInv /\ AuthorInv /\ CredentialBelongs

\* It holds at the start.
LEMMA EnrollInit ==
    ASSUME Init
    PROVE  EnrollInv
<1>1. \A r \in Requests : /\ req[r].pc = "idle" /\ ~req[r].inserted /\ req[r].result = "none"
    BY DEF Init, IdleRequest
<1>2. \A p \in Processes : cli[p].pc = "idle"
    BY DEF Init
<1>3. \A n \in Names : author[n] = NoOne
    BY DEF Init
<1>4. TypeInv
    BY TypeInit
<1>5. MutexInv
    BY <1>1, EnrollmentAssumption DEF Init, MutexInv, Holding
<1>6. AdapterInv
    BY DEF Init, AdapterInv
<1>7. PinnedInv
    BY <1>1 DEF Init, PinnedInv, Pinned
<1>8. AccountInv
  <2>1. line = {} /\ known = foreign /\ known \in Lines
    BY EnrollmentAssumption DEF Init
  <2>2. IsFiniteSet(line) /\ Cardinality({}) = 0
    BY <2>1, FS_EmptySet
  <2>3. ASSUME NEW h \in Hosts, NEW k \in Keys
        PROVE  known[<<h, k>>] = foreign[<<h, k>>] + Cardinality(Owners(h, k))
    <3>1. Owners(h, k) = {}
      BY <2>1 DEF Owners
    <3>2. foreign[<<h, k>>] \in Nat
      BY <2>1, LinesNumber
    <3> QED
      BY <2>1, <2>2, <3>1, <3>2
  <2> QED
    BY <2>2, <2>3 DEF AccountInv, LinesAccounted, Owners
<1>9. CandidateInv
  <2>1. OnePerKey
    BY DEF Init, OnePerKey, Present
  <2> QED
    BY <1>1, <2>1 DEF CandidateInv, KeyInv, ClaimInv
<1>10. RivalInv /\ LineHeldInv
    BY <1>1 DEF RivalInv, LineHeldInv
<1>11. EntryInv /\ OwnedInv
    BY <1>1, <1>3, EnrollmentAssumption DEF Init, EntryInv, OwnedInv, Owned
<1>12. PreparedInv /\ AuthorInv
    BY <1>2, <1>3, EnrollmentAssumption DEF PreparedInv, AuthorInv
<1>13. CredentialBelongs
  <2>1. \A d \in config : d.name \in Names
    BY EnrollmentAssumption DEF Init, Device
  <2> QED
    BY <1>3, <2>1, EnrollmentAssumption DEF CredentialBelongs
<1> QED
    BY <1>4, <1>5, <1>6, <1>7, <1>8, <1>9, <1>10, <1>11, <1>12, <1>13 DEF EnrollInv

\* It holds when nothing changes.
LEMMA EnrollUntouched ==
    ASSUME EnrollInv, UNCHANGED vars
    PROVE  EnrollInv'
<1> USE DEF vars, fileVars, daemonVars, historyVars
<1>1. TypeInv'
    BY TypeUntouched DEF EnrollInv
<1>2. MutexInv' /\ AdapterInv'
    BY DEF EnrollInv, MutexInv, AdapterInv
<1>3. PinnedInv'
    BY DEF EnrollInv, PinnedInv, Pinned
<1>4. AccountInv'
    BY AccountUntouched DEF EnrollInv
<1>5. CandidateInv' /\ RivalInv'
    BY DEF EnrollInv, CandidateInv, OnePerKey, KeyInv, ClaimInv, RivalInv
<1>6. LineHeldInv'
    BY DEF EnrollInv, LineHeldInv
<1>7. EntryInv' /\ OwnedInv'
    BY DEF EnrollInv, EntryInv, OwnedInv, Owned
<1>8. PreparedInv' /\ AuthorInv' /\ CredentialBelongs'
    BY DEF EnrollInv, PreparedInv, AuthorInv, CredentialBelongs
<1> QED
    BY <1>1, <1>2, <1>3, <1>4, <1>5, <1>6, <1>7, <1>8 DEF EnrollInv

\* Every step keeps it.
LEMMA EnrollStepKeeps ==
    ASSUME EnrollInv, Next
    PROVE  EnrollInv'
<1>1. TypeInv'
    BY FileTypeStep, DaemonTypeStep, HistoryTypeStep, RequestTypeStep, CommandTypeStep
    DEF EnrollInv, TypeInv
<1>2. MutexInv' /\ AdapterInv' /\ PinnedInv' /\ AccountInv'
    BY MutexStep, AdapterStep, PinnedStep, AccountStep DEF EnrollInv
<1>3. CandidateInv' /\ RivalInv' /\ LineHeldInv'
    BY OnePerKeyStep, KeyStep, ClaimStep, RivalStep, LineHeldStep DEF EnrollInv, CandidateInv
<1>4. EntryInv' /\ OwnedInv'
    BY EntryStep, OwnedStep DEF EnrollInv
<1>5. PreparedInv' /\ AuthorInv' /\ CredentialBelongs'
    BY PreparedStep, AuthorStep, CredentialStep DEF EnrollInv
<1> QED
    BY <1>1, <1>2, <1>3, <1>4, <1>5 DEF EnrollInv

\* Whatever enrollments, commands, failing saves, crashes and restarts follow
\* one another, the inductive invariant holds.
THEOREM EnrollInvariant == Spec => []EnrollInv
<1>1. EnrollInv /\ [Next]_vars => EnrollInv'
    BY EnrollUntouched, EnrollStepKeeps
<1> QED
    BY <1>1, EnrollInit, PTL DEF Spec

-----------------------------------------------------------------------------
(* What the invariant shows *)

\* known_hosts always holds the lines of others and one line for each
\* enrollment that pinned a key and did not take it back, whatever other
\* processes write between the steps: appendKnownHost duplicates nothing and
\* removeKnownHost takes nothing that is not the enrollment's own.
THEOREM LinesAreAccounted == Spec => []LinesAccounted
<1>1. EnrollInv => LinesAccounted
    BY DEF EnrollInv, AccountInv
<1> QED
    BY <1>1, EnrollInvariant, PTL

\* Known_hosts holds at most one key for each host, when it did so at the start.
OneKeyAtStart ==
    \A h \in Hosts, k, q \in Keys : InitialLines[<<h, k>>] > 0 /\ InitialLines[<<h, q>>] > 0 => k = q

\* Enrollments and `status --accept-new-host-key` never give a host a second
\* key: each looks under the lock of known_hosts before it appends.
THEOREM OneKeyIsKept == OneKeyAtStart => (Spec => []OneKeyPerHost)
<1> SUFFICES ASSUME OneKeyAtStart PROVE Spec => []OneKeyPerHost
    OBVIOUS
<1>1. Init => OneKeyPerHost
    BY DEF Init, OneKeyPerHost, OneKeyAtStart
<1>2. EnrollInv /\ OneKeyPerHost /\ [Next]_vars => OneKeyPerHost'
  <2>1. ASSUME OneKeyPerHost, UNCHANGED vars
        PROVE  OneKeyPerHost'
    BY <2>1 DEF OneKeyPerHost, vars, fileVars
  <2> QED
    BY <2>1, OneKeyStep DEF EnrollInv
<1> QED
    BY <1>1, <1>2, EnrollInvariant, PTL DEF Spec

\* Register first, pin second, the reverse in a rollback: a key that an
\* enrollment pinned never lacks its device, after any crash and any failed
\* save, unless a command took the device away, the unpinning failed, or the
\* line came from an append that failed and could not be read back.
THEOREM TrustIsBacked == Spec => []TrustBacked
<1>1. EnrollInv => TrustBacked
    BY DEF EnrollInv, OwnedInv, Owned, TrustBacked, TypeInv, HistoryType
<1> QED
    BY <1>1, EnrollInvariant, PTL

\* rollbackEnrollment reports success only when neither an entry of
\* devices.json nor a line of known_hosts of its enrollment is left, but for a
\* line that the append wrote in spite of its error and that could not be read
\* back.
THEOREM RollbackIsComplete == Spec => []RollbackComplete
<1>1. EnrollInv => RollbackComplete
    BY DEF EnrollInv, OwnedInv, Owned, PinnedInv, Pinned, RollbackComplete
<1> QED
    BY <1>1, EnrollInvariant, PTL

\* Whenever mutationMu is free the adapter serves monitored devices only.
THEOREM AdapterIsMonitored == Spec => []AdapterMonitored
<1>1. EnrollInv => AdapterMonitored
    BY EnrollmentAssumption DEF EnrollInv, AdapterInv, AdapterMonitored, MutationFree
<1> QED
    BY <1>1, EnrollInvariant, PTL

\* The password under the name of a device that `config add` wrote is the
\* one it was given: AddPrepared holds the lock from the check to the save.
THEOREM CredentialsBelong == Spec => []CredentialBelongs
<1>1. EnrollInv => CredentialBelongs
    BY DEF EnrollInv
<1> QED
    BY <1>1, EnrollInvariant, PTL

\* A step that answers with success does so from the end of handleEnroll.
LEMMA EnrolledStep ==
    ASSUME EnrollInv, Next, NEW r \in Requests,
           req'[r].result = "enrolled", req[r].result # "enrolled"
    PROVE  Lookup(known, req[r].want.device.host, req[r].want.fingerprint) = "match"
<1>0. RequestType
    BY DEF EnrollInv, TypeInv
<1>1. ASSUME NEW t \in Requests, EnrollStep(t)
      PROVE  req[r].pc = "finishing"
  <2>1. Transition(t) /\ \A s \in Requests \ {t} : req'[s] = req[s]
    BY <1>0, <1>1, Transitions, OneRequest
  <2> QED
    BY <2>1 DEF Transition
<1>2. ~Crash
    BY <1>0, CrashMoves
<1>3. req[r].pc = "finishing"
    BY <1>1, <1>2, CommandFrame, InboxFrame DEF Next, Start
<1> QED
    BY <1>3, LookupMatches DEF EnrollInv, LineHeldInv, PinnedIn

\* An enrollment answered with success has its host pinned to the key the
\* operator verified: no rollback of a rival takes the line away between the
\* probe, which runs without mutationMu, and the answer.
THEOREM SuccessMeansPinned == Spec => EnrolledMeansPinned
<1>1. EnrollInv /\ [Next]_vars =>
        [\A r \in Requests :
           req'[r].result = "enrolled" /\ req[r].result # "enrolled" =>
             Lookup(known, req[r].want.device.host, req[r].want.fingerprint) = "match"]_vars
    BY EnrolledStep
<1> QED
    BY <1>1, EnrollInvariant, PTL DEF Spec, EnrolledMeansPinned

\* A write of devices.json changes the entry it is about.
LEMMA OtherDevicesStep ==
    ASSUME TypeInv, Next, NEW n \in Names, Named(config', n) # Named(config, n)
    PROVE  \/ \E r \in Requests : req'[r] # req[r] /\ req[r].want.device.name = n
           \/ \E p \in Processes : cli'[p] # cli[p] /\
                 (cli[p].cmd.op = "apply" \/ cli[p].cmd.device.name = n)
<1>0. FileType /\ RequestType /\ CommandType /\ config \subseteq Device /\ validateDevices(config)
    BY DEF TypeInv, FileType
<1>1. ASSUME NEW r \in Requests, EnrollStep(r)
      PROVE  req'[r] # req[r] /\ req[r].want.device.name = n
  <2>1. req'[r] # req[r]
    BY <1>0, <1>1, Transitions DEF Transition
  <2>2. req[r].pc \in {"adding", "unregister"} /\ config' # config
    BY <1>1, EnrollFrame DEF AddContext, RollbackUnregister
  <2>3. req[r].want.device \in Device
    BY <1>0, <2>2, WantedDevice DEF RequestType
  <2>4. config' \in {config \cup {req[r].want.device}, config \ {req[r].want.device}}
    <3>1. ASSUME NEW res \in SaveOutcomes, AddContext(r, res)
          PROVE  config' = config \cup {req[r].want.device}
      <4>1. Write(r, add(config, req[r].want.device).next, res)
        BY <3>1 DEF AddContext
      <4> QED
        BY <1>0, <2>2, <2>3, <4>1, AddKeepsValid, WriteEffect
    <3>2. ASSUME NEW res \in SaveOutcomes, RollbackUnregister(r, res)
          PROVE  config' = config \ {req[r].want.device}
      <4>1. Write(r, RemoveIfUnchanged(config, req[r].want.device).next, res)
        BY <2>2, <3>2 DEF RollbackUnregister
      <4> QED
        BY <1>0, <2>2, <2>3, <4>1, RemoveIfUnchangedKeepsValid, WriteEffect
    <3> QED
      BY <1>1, <2>2, <3>1, <3>2, EnrollFrame
  <2> QED
    BY <2>1, <2>4 DEF Named
<1>2. ASSUME NEW p \in Processes, CommandStep(p)
      PROVE  cli'[p] # cli[p] /\ (cli[p].cmd.op = "apply" \/ cli[p].cmd.device.name = n)
  <2>1. config' # config
    BY DEF Named
  <2>2. ASSUME cli[p].pc # "idle", NEW d, d.name = cli[p].loaded.name, NEW next, NEW res,
               Write(p, next, res),
               next \in {config, config \cup {d}, config \ Named(config, d.name),
                         (config \ Named(config, d.name)) \cup {d}}
        PROVE  cli[p].cmd.device.name = n
    <3>1. cli[p].cmd.device.name = d.name
      BY <1>0, <2>2 DEF CommandType, Loaded
    <3>2. config' \in {config \cup {d}, config \ Named(config, d.name),
                       (config \ Named(config, d.name)) \cup {d}}
      BY <2>1, <2>2, WriteEffect
    <3> QED
      BY <3>1, <3>2 DEF Named
  <2>3. ASSUME NEW res \in SaveOutcomes, AddSave(p, res)
        PROVE  cli[p].pc # "idle" /\ cli[p].pc # "loaded" /\ cli[p].cmd.device.name = n
    <3>1. cli[p].pc = "prepared" /\ Write(p, add(config, cli[p].loaded).next, res)
      BY <2>3 DEF AddSave, Running
    <3>2. cli[p].loaded \in Device
      BY <1>0, <3>1 DEF CommandType, Loaded
    <3>3. add(config, cli[p].loaded).next \in {config, config \cup {cli[p].loaded}}
      BY <1>0, <3>2, AddKeepsValid
    <3> QED
      BY <2>2, <3>1, <3>3
  <2>4. ASSUME NEW res \in SaveOutcomes, AutoUnlock(p, res)
        PROVE  cli[p].cmd.device.name = n
    <3> DEFINE d == [cli[p].loaded EXCEPT !.auto = cli[p].cmd.device.auto]
    <3>1. cli[p].pc = "loaded" /\ Write(p, Update(config, d).next, res)
      BY <2>4 DEF AutoUnlock, Running, Mutate
    <3>2. cli[p].loaded \in Device /\ cli[p].cmd.device \in Device
      BY <1>0, <3>1, CommandDevice DEF CommandType, Loaded
    <3>3. d \in Device /\ d.name = cli[p].loaded.name
      BY <3>2 DEF Device
    <3> HIDE DEF d
    <3>4. Update(config, d).next \in {config, (config \ Named(config, d.name)) \cup {d}}
      BY <1>0, <3>3, UpdateKeepsValid
    <3> QED
      BY <2>2, <3>1, <3>3, <3>4
  <2>5. ASSUME NEW res \in SaveOutcomes, RemoveDevice(p, res)
        PROVE  cli[p].cmd.device.name = n
    <3>1. cli[p].pc = "loaded" /\ Write(p, Remove(config, cli[p].loaded.name).next, res)
      BY <2>5 DEF RemoveDevice, Running, Mutate
    <3>2. Remove(config, cli[p].loaded.name).next \in {config, config \ Named(config, cli[p].loaded.name)}
      BY <1>0, RemoveKeepsValid
    <3> QED
      BY <2>2, <3>1, <3>2
  <2>6. ASSUME NEW res \in SaveOutcomes, Apply(p, res)
        PROVE  cli[p].cmd.op = "apply"
    BY <2>6 DEF Apply, Running
  <2>7. cli[p].cmd.op = "apply" \/ cli[p].cmd.device.name = n
    BY <1>2, <2>1, <2>3, <2>4, <2>5, <2>6, CommandChanges
  <2>8. cli[p].pc \in {"loaded", "prepared"} /\ cli'[p].pc \in {"forget", "done"}
    <3>1. cli[p].pc \in {"loaded", "prepared"}
      BY <1>2, <2>1, CommandChanges DEF AddSave, AutoUnlock, Apply, RemoveDevice, Running
    <3>2. cli' \in {[cli EXCEPT ![p].pc = "done"], [cli EXCEPT ![p].pc = "forget"]}
      BY <1>2, <2>1, CommandChanges DEF AddSave, AutoUnlock, Apply, RemoveDevice, Exit
    <3> QED
      BY <1>0, <3>1, <3>2 DEF CommandType, CommandRecord
  <2> QED
    BY <2>7, <2>8
<1>3. config' # config
    BY DEF Named
<1> QED
    BY <1>1, <1>2, <1>3, InboxFrame, ProcessFrame DEF Next, fileVars

\* However old the copy it loaded, no writer of devices.json but `config
\* apply` changes the entry of a device that it is not about: mutate reads
\* the file again under the lock.
THEOREM OtherEntriesAreKept == Spec => OtherDevicesKept
<1>1. TypeInv /\ [Next]_vars =>
        [\A n \in Names : Named(config', n) # Named(config, n) =>
           \/ \E r \in Requests : req'[r] # req[r] /\ req[r].want.device.name = n
           \/ \E p \in Processes : cli'[p] # cli[p] /\
                 (cli[p].cmd.op = "apply" \/ cli[p].cmd.device.name = n)]_vars
    BY OtherDevicesStep
<1> QED
    BY <1>1, TypeInvariant, PTL DEF Spec, OtherDevicesKept
=============================================================================
