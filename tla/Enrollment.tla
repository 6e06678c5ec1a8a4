------------------------------ MODULE Enrollment ------------------------------
(***************************************************************************)
(* Enrollment of a discovered Mac through the daemon's control API, and    *)
(* the commands of other processes that change the same files meanwhile    *)
(* (cmd/fv-ssh-unlock: daemon.go, hostkey.go, main.go, automation.go).     *)
(*                                                                         *)
(* handleEnroll changes devices.json, the adapter, known_hosts and the     *)
(* engine one after the other and undoes them when a later one fails.      *)
(* Every change of a file is a step of its own, so that a crash or another *)
(* process can come between any two.  A file is read, changed and replaced *)
(* under its lock, which is one step; only `config add` does something     *)
(* else while it holds the lock of devices.json.                           *)
(*                                                                         *)
(* The request's context may have ended wherever the code looks at it:     *)
(* the request is then over but for the rollback, which has a context of   *)
(* its own, so no variable is needed for it.                               *)
(***************************************************************************)
EXTENDS TrustFiles, FiniteSets

CONSTANTS
    Candidates,     \* candidate IDs
    CandidateKey,   \* their fingerprints
    Requests,       \* enrollment requests
    Wanted,         \* what a request may ask for: candidate, device and the
                    \* fingerprint the operator verified
    Processes,      \* command-line processes
    Commands,       \* what they may run: an operation and a device
    NoOne,          \* nobody
    SaveOutcomes,   \* what a write of a file may do, of SaveResults
    InitialConfig,  \* devices.json and known_hosts at the start
    InitialLines,
    MaxOperations   \* bound on requests and commands together

ASSUME EnrollmentAssumption ==
    /\ CandidateKey \in [Candidates -> Keys]
    /\ Wanted \subseteq [id : Candidates, device : Device, fingerprint : Keys]
    /\ Commands \subseteq [op : {"add", "remove", "auto-unlock", "apply", "accept"}, device : Device]
    /\ SaveOutcomes \subseteq SaveResults
    /\ InitialConfig \subseteq Device /\ validateDevices(InitialConfig)
    /\ InitialLines \in Lines
    /\ NoOne \notin Requests \cup Processes /\ Requests \cap Processes = {}

VARIABLES
    config,      \* devices.json
    configLock,  \* the process that holds its lock across steps
    known,       \* known_hosts
    keyring,     \* whose password is stored under each name
    up,          \* the daemon runs
    candidate,   \* the state of each candidate in the inbox
    labels,      \* Inbox.configured: device names by fingerprint
    mutationMu,  \* the request that holds daemonAPI.mutationMu
    enrolling,   \* daemonAPI.enrolling
    adapter,     \* daemonAdapter.devices
    engine,      \* the names of Engine.devices
    req,         \* each request: position, demand, pending and inserted key
    cli,         \* each command: position, command, the device it loaded
    (***********************************************************************)
    (* History variables.                                                  *)
    (***********************************************************************)
    author,      \* who wrote the entry a name has in devices.json
    line,        \* the requests whose line is in known_hosts
    foreign,     \* the lines of others
    excused,     \* requests whose device a command changed, or whose unpinning failed
    unread       \* requests whose line was written, but could not be read back

fileVars    == <<config, known, keyring>>
daemonVars  == <<up, candidate, labels, mutationMu, enrolling, adapter, engine>>
historyVars == <<author, line, foreign, excused, unread>>
vars        == <<fileVars, configLock, daemonVars, req, cli, historyVars>>

Outcomes == {"none", "refused", "enrolled", "rolled-back", "rollback-failed", "crashed"}

TypeOK ==
    /\ config \subseteq Device /\ validateDevices(config)
    /\ configLock \in Processes \cup {NoOne}
    /\ known \in Lines
    /\ keyring \in [Names -> Processes \cup {NoOne}]
    /\ up \in BOOLEAN
    /\ candidate \in [Candidates -> {"absent", "new", "ignored", "verified", "gone"}]
    /\ labels \in [Keys -> SUBSET Names]
    /\ mutationMu \in Requests \cup {NoOne}
    /\ enrolling \subseteq Candidates
    /\ adapter \subseteq Device
    /\ engine \subseteq Names
    /\ \A r \in Requests :
        /\ req[r].pc \in {"idle", "probing", "probed", "adding", "added", "pinning", "pinned",
                          "finishing", "unpin", "unregister", "ending", "done"}
        /\ req[r].pc # "idle" => req[r].want \in Wanted
        /\ req[r].pending \in BOOLEAN /\ req[r].inserted \in BOOLEAN
        /\ req[r].result \in Outcomes
    /\ \A p \in Processes :
        /\ cli[p].pc \in {"idle", "loaded", "prepared", "forget", "done"}
        /\ cli[p].pc # "idle" => cli[p].cmd \in Commands /\ cli[p].loaded \in Device
    /\ author \in [Names -> Requests \cup Processes \cup {NoOne}]
    /\ line \subseteq Requests
    /\ foreign \in Lines
    /\ excused \subseteq Requests /\ unread \subseteq Requests

IdleRequest == [pc |-> "idle", want |-> NoOne, pending |-> FALSE, inserted |-> FALSE, result |-> "none"]

Init ==
    /\ config = InitialConfig /\ configLock = NoOne
    /\ known = InitialLines
    /\ keyring = [n \in Names |-> NoOne]
    /\ up = TRUE
    /\ candidate \in [Candidates -> {"absent", "new"}]
    /\ \A c, d \in Candidates :
        c # d /\ CandidateKey[c] = CandidateKey[d] => "absent" \in {candidate[c], candidate[d]}
    /\ labels = matchPinnedTargetNames(known, config)
    /\ mutationMu = NoOne /\ enrolling = {}
    /\ adapter = config /\ engine = {d.name : d \in config}
    /\ req = [r \in Requests |-> IdleRequest]
    /\ cli = [p \in Processes |-> [pc |-> "idle", cmd |-> NoOne, loaded |-> NoOne]]
    /\ author = [n \in Names |-> NoOne]
    /\ line = {} /\ foreign = InitialLines /\ excused = {} /\ unread = {}

-----------------------------------------------------------------------------
(* Helpers *)

Started == Cardinality({r \in Requests : req[r].pc # "idle"}) +
           Cardinality({p \in Processes : cli[p].pc # "idle"})

MutationFree == up /\ mutationMu = NoOne

\* The lock of devices.json can be taken.
ConfigFree == configLock = NoOne

Step(r, pc) == req' = [req EXCEPT ![r].pc = pc]

\* The answer is written: mutationMu is released before the claim on the
\* candidate is.
Answer(r, result) ==
    /\ req' = [req EXCEPT ![r].pc = "ending", ![r].result = result]
    /\ mutationMu' = IF mutationMu = r THEN NoOne ELSE mutationMu

\* Faulty variant: the pinned key is forgotten.
failEnrollmentPinned(r, owned) ==
    req' = [req EXCEPT ![r].pc = "unregister", ![r].inserted = owned]

\* failEnrollment begins a rollback; owned says whether a line must go.
failEnrollment(r, owned) ==
    req' = [req EXCEPT ![r].pc = IF owned THEN "unpin" ELSE "unregister", ![r].inserted = owned]

\* Whoever replaces devices.json is the author of what it changed.
Write(who, next, res) ==
    /\ config' = WritePrivate(config, next, res)
    /\ author' = [n \in Names |-> IF Named(config', n) = Named(config, n) THEN author[n]
                                  ELSE IF Named(config', n) = {} THEN NoOne ELSE who]

-----------------------------------------------------------------------------
(* handleEnroll *)

validateEnrollment(w) ==
    /\ candidate[w.id] \in {"new", "verified"}
    /\ labels[CandidateKey[w.id]] = {}
    /\ w.fingerprint = CandidateKey[w.id]
    /\ w.device.source # "keyring"
    /\ add(config, w.device).verdict = "save"

\* Faulty variant: nothing is claimed while the probe runs.
BeginEnrollmentUnclaimed(r, w) ==
    /\ MutationFree
    /\ req[r].pc = "idle" /\ Started < MaxOperations
    /\ validateEnrollment(w)
    /\ req' = [req EXCEPT ![r].pc = "probing", ![r].want = w]
    /\ UNCHANGED <<fileVars, configLock, up, candidate, labels, mutationMu, enrolling, adapter,
                   engine, cli, historyVars>>

\* beginEnrollment; a request it refuses changes nothing.
BeginEnrollment(r, w) ==
    /\ MutationFree
    /\ req[r].pc = "idle" /\ Started < MaxOperations
    /\ w.id \notin enrolling
    /\ validateEnrollment(w)
    /\ enrolling' = enrolling \cup {w.id}
    /\ req' = [req EXCEPT ![r].pc = "probing", ![r].want = w]
    /\ UNCHANGED <<fileVars, configLock, up, candidate, labels, mutationMu, adapter, engine,
                   cli, historyVars>>

\* probeExpectedHostKey, with no lock held: the host presents a key.  A key
\* that passes but is not in known_hosts is pending.
ProbeExpectedHostKey(r, k) ==
    LET w       == req[r].want
        verdict == verifyHostKeyLocked(known, w.device.host, k, TRUE, w.fingerprint)
    IN  /\ req[r].pc = "probing"
        /\ verdict # "refused"
        /\ req' = [req EXCEPT ![r].pc = "probed", ![r].pending = (verdict = "new")]
        /\ UNCHANGED <<fileVars, configLock, daemonVars, cli, historyVars>>

\* Another key, an unreachable host, or the context has ended.
ProbeFails(r) ==
    /\ req[r].pc = "probing"
    /\ Answer(r, "refused")
    /\ UNCHANGED <<fileVars, configLock, up, candidate, labels, enrolling, adapter, engine, cli,
                   historyVars>>

Recheck(r) ==
    /\ req[r].pc = "probed" /\ MutationFree
    /\ \/ /\ validateEnrollment(req[r].want)
          /\ mutationMu' = r
          /\ Step(r, "adding")
       \/ Answer(r, "refused")
    /\ UNCHANGED <<fileVars, configLock, up, candidate, labels, enrolling, adapter, engine, cli,
                   historyVars>>

\* store.AddContext.  Any error, that of a write that took place included,
\* is answered without a rollback.
AddContext(r, res) ==
    LET out == add(config, req[r].want.device)
    IN  /\ req[r].pc = "adding" /\ ConfigFree
        /\ out.verdict = "save"
        /\ Write(r, out.next, res)
        /\ IF res = "ok" THEN Step(r, "added") /\ UNCHANGED mutationMu ELSE Answer(r, "refused")
        /\ UNCHANGED <<known, keyring, configLock, up, candidate, labels, enrolling, adapter,
                       engine, cli, line, foreign, excused, unread>>

\* The name is taken by now, or the context ended in the wait for the lock.
AddRefused(r) ==
    /\ req[r].pc = "adding"
    /\ Answer(r, "refused")
    /\ UNCHANGED <<fileVars, configLock, up, candidate, labels, enrolling, adapter, engine, cli,
                   historyVars>>

addDevice(r) ==
    LET d == req[r].want.device
    IN  /\ req[r].pc = "added"
        /\ adapter' = (adapter \ Named(adapter, d.name)) \cup {d}
        /\ Step(r, "pinning")
        /\ UNCHANGED <<fileVars, configLock, up, candidate, labels, mutationMu, enrolling,
                       engine, cli, historyVars>>

\* The context has ended after AddContext, or after the key was pinned.
EnrollmentCancelled(r) ==
    /\ \/ req[r].pc = "added" /\ failEnrollment(r, FALSE)
       \/ req[r].pc = "pinned" /\ failEnrollment(r, req[r].inserted)
    /\ UNCHANGED <<fileVars, configLock, daemonVars, cli, historyVars>>

\* Faulty variant: the key was checked by the probe.
CommitPendingUnchecked(r, res, readable) ==
    LET h == req[r].want.device.host
        k == req[r].want.fingerprint
    IN  /\ req[r].pc = "pinning" /\ req[r].pending
        /\ known' = WritePrivate(known, appendKnownHost(known, h, k), res)
        /\ line' = IF res = "failOld" THEN line ELSE line \cup {r}
        /\ unread' = IF res = "failNew" /\ ~readable THEN unread \cup {r} ELSE unread
        /\ IF res = "ok" THEN req' = [req EXCEPT ![r].pc = "pinned", ![r].inserted = TRUE]
                         ELSE failEnrollment(r, res = "failNew" /\ readable)
        /\ UNCHANGED <<config, keyring, configLock, daemonVars, cli, author, foreign, excused>>

\* Faulty variant: an error means that nothing was written.
CommitPendingTrusting(r, res, readable) ==
    LET h == req[r].want.device.host
        k == req[r].want.fingerprint
    IN  /\ req[r].pc = "pinning" /\ req[r].pending
        /\ Lookup(known, h, k) = "unknown"
        /\ known' = WritePrivate(known, appendKnownHost(known, h, k), res)
        /\ line' = IF res = "failOld" THEN line ELSE line \cup {r}
        /\ unread' = IF res = "failNew" /\ ~readable THEN unread \cup {r} ELSE unread
        /\ IF res = "ok" THEN req' = [req EXCEPT ![r].pc = "pinned", ![r].inserted = TRUE]
                         ELSE failEnrollment(r, FALSE)
        /\ UNCHANGED <<config, keyring, configLock, daemonVars, cli, author, foreign, excused>>

\* commitPendingHostKey appends the line: the host still has none.  After an
\* error knownHostLinePresent looks whether the line was written, and then it is
\* owned; but if the file cannot be read either, nothing is owned.
CommitPendingHostKey(r, res, readable) ==
    LET h == req[r].want.device.host
        k == req[r].want.fingerprint
    IN  /\ req[r].pc = "pinning" /\ req[r].pending
        /\ Lookup(known, h, k) = "unknown"
        /\ known' = WritePrivate(known, appendKnownHost(known, h, k), res)
        /\ line' = IF res = "failOld" THEN line ELSE line \cup {r}
        /\ unread' = IF res = "failNew" /\ ~readable THEN unread \cup {r} ELSE unread
        /\ IF res = "ok" THEN req' = [req EXCEPT ![r].pc = "pinned", ![r].inserted = TRUE]
                         ELSE failEnrollment(r, res = "failNew" /\ readable)
        /\ UNCHANGED <<config, keyring, configLock, daemonVars, cli, author, foreign, excused>>

\* Faulty variant: a line somebody else wrote meanwhile counts as inserted.
CommitNothingOwned(r) ==
    /\ req[r].pc = "pinning"
    /\ req[r].pending => Lookup(known, req[r].want.device.host, req[r].want.fingerprint) = "match"
    /\ req' = [req EXCEPT ![r].pc = "pinned", ![r].inserted = req[r].pending]
    /\ UNCHANGED <<fileVars, configLock, daemonVars, cli, historyVars>>

\* It appends nothing: the probe found the line, or somebody wrote it since.
CommitNothing(r) ==
    /\ req[r].pc = "pinning"
    /\ req[r].pending => Lookup(known, req[r].want.device.host, req[r].want.fingerprint) = "match"
    /\ Step(r, "pinned")
    /\ UNCHANGED <<fileVars, configLock, daemonVars, cli, historyVars>>

\* The host has another key by now, or the lock could not be had in time.
CommitRefused(r) ==
    /\ req[r].pc = "pinning" /\ req[r].pending
    /\ failEnrollment(r, FALSE)
    /\ UNCHANGED <<fileVars, configLock, daemonVars, cli, historyVars>>

\* engine.AddDevice; the engine's own file is in MonitorEngine.
EngineAddDevice(r) ==
    LET name == req[r].want.device.name
    IN  /\ req[r].pc = "pinned"
        /\ name \notin engine
        /\ engine' = engine \cup {name}
        /\ Step(r, "finishing")
        /\ UNCHANGED <<fileVars, configLock, up, candidate, labels, mutationMu, enrolling,
                       adapter, cli, historyVars>>

\* The engine has a device of this name, or cannot save.
EngineAddFails(r) ==
    /\ req[r].pc = "pinned"
    /\ failEnrollment(r, req[r].inserted)
    /\ UNCHANGED <<fileVars, configLock, daemonVars, cli, historyVars>>

\* MarkVerified and refreshConfiguredCandidates: their errors are logged, and
\* MarkVerified has one when the candidate expired meanwhile.
Enrolled(r) ==
    LET c == req[r].want.id
    IN  /\ req[r].pc = "finishing"
        /\ candidate' \in {candidate, [candidate EXCEPT ![c] = IF @ = "gone" THEN @ ELSE "verified"]}
        /\ labels' \in {labels, matchPinnedTargetNames(known, config)}
        /\ Answer(r, "enrolled")
        /\ UNCHANGED <<fileVars, configLock, up, enrolling, adapter, engine, cli, historyVars>>

endEnrollment(r) ==
    /\ req[r].pc = "ending" /\ MutationFree
    /\ enrolling' = enrolling \ {req[r].want.id}
    /\ Step(r, "done")
    /\ UNCHANGED <<fileVars, configLock, up, candidate, labels, mutationMu, adapter, engine, cli,
                   historyVars>>

-----------------------------------------------------------------------------
(* rollbackEnrollment *)

\* Faulty variant: only the files are rolled back.
UnadaptNothing(r) == adapter' = adapter /\ req[r].pc # "idle"

Unadapt(r) == adapter' = adapter \ Named(adapter, req[r].want.device.name)

\* removeDevice and removeKnownHost.  An error is kept for the report.
RollbackUnpin(r, res) ==
    LET h == req[r].want.device.host
        k == req[r].want.fingerprint
    IN  /\ req[r].pc = "unpin"
        /\ Unadapt(r)
        /\ known' = WritePrivate(known, removeKnownHost(known, h, k), res)
        /\ line' = IF res = "failOld" THEN line ELSE line \ {r}
        /\ excused' = IF res = "failOld" THEN excused \cup {r} ELSE excused
        /\ req' = [req EXCEPT ![r].pc = "unregister",
                              ![r].result = IF res = "ok" THEN @ ELSE "rollback-failed"]
        /\ UNCHANGED <<config, keyring, configLock, up, candidate, labels, mutationMu, enrolling,
                       engine, cli, author, foreign, unread>>

\* The report of a rollback step with or without an error.
Rollback(r, ok) ==
    Answer(r, IF ok /\ req[r].result = "none" THEN "rolled-back" ELSE "rollback-failed")

\* RemoveIfUnchangedContext.  Without a line to remove this is the first step
\* of the rollback, and removeDevice belongs to it.
RollbackUnregister(r, res) ==
    LET out == RemoveIfUnchanged(config, req[r].want.device)
    IN  /\ req[r].pc = "unregister" /\ ConfigFree
        /\ Unadapt(r)
        /\ IF out.verdict = "save" THEN Write(r, out.next, res) ELSE UNCHANGED <<config, author>>
        /\ Rollback(r, out.verdict = "satisfied" \/ (out.verdict = "save" /\ res = "ok"))
        /\ UNCHANGED <<known, keyring, configLock, up, candidate, labels, enrolling, engine, cli,
                       line, foreign, excused, unread>>

\* The lock of devices.json was not to be had within the rollback's timeout.
RollbackTimesOut(r) ==
    /\ req[r].pc = "unregister" /\ ~ConfigFree
    /\ Unadapt(r)
    /\ Rollback(r, FALSE)
    /\ UNCHANGED <<fileVars, configLock, up, candidate, labels, enrolling, engine, cli,
                   historyVars>>

-----------------------------------------------------------------------------
(* The inbox, as the handlers see it *)

\* Discovery does not take mutationMu.  One key has at most one candidate at
\* a time.  IDs are random: one that has gone does not come back.
Discover(c) ==
    /\ up
    /\ candidate[c] = "absent"
    /\ \A d \in Candidates : CandidateKey[d] = CandidateKey[c] => candidate[d] \in {"absent", "gone"}
    /\ candidate' = [candidate EXCEPT ![c] = "new"]
    /\ UNCHANGED <<fileVars, configLock, up, labels, mutationMu, enrolling, adapter, engine, req,
                   cli, historyVars>>

Expire(c) ==
    /\ up
    /\ candidate[c] \in {"new", "verified"}
    /\ candidate' = [candidate EXCEPT ![c] = "gone"]
    /\ UNCHANGED <<fileVars, configLock, up, labels, mutationMu, enrolling, adapter, engine, req,
                   cli, historyVars>>

handleIgnore(c) ==
    /\ MutationFree
    /\ candidate[c] \in {"new", "verified"} /\ labels[CandidateKey[c]] = {}
    /\ candidate' = [candidate EXCEPT ![c] = "ignored"]
    /\ UNCHANGED <<fileVars, configLock, up, labels, mutationMu, enrolling, adapter, engine, req,
                   cli, historyVars>>

handleRestore(c) ==
    /\ MutationFree
    /\ candidate[c] = "ignored"
    /\ candidate' = [candidate EXCEPT ![c] = "new"]
    /\ UNCHANGED <<fileVars, configLock, up, labels, mutationMu, enrolling, adapter, engine, req,
                   cli, historyVars>>

-----------------------------------------------------------------------------
(* The commands of other processes *)

Selected(cmd) == Named(config, cmd.device.name)

\* The command loads the devices, outside the lock, and checks its arguments
\* against them; `apply` has nothing to do when nothing differs.
Load(p, cmd) ==
    /\ cli[p].pc = "idle" /\ Started < MaxOperations
    /\ CASE cmd.op = "add"   -> add(config, cmd.device).verdict = "save"
         [] cmd.op = "apply" -> config # {cmd.device} /\ validateDevices({cmd.device})
         [] OTHER            -> Selected(cmd) # {}
    /\ cli' = [cli EXCEPT ![p] = [pc |-> "loaded", cmd |-> cmd,
                                  loaded |-> IF cmd.op \in {"add", "apply"} THEN cmd.device
                                             ELSE CHOOSE d \in Selected(cmd) : TRUE]]
    /\ UNCHANGED <<fileVars, configLock, daemonVars, req, historyVars>>

Running(p, op, pc) == cli[p].pc = pc /\ cli[p].cmd.op = op

Exit(p) == cli' = [cli EXCEPT ![p].pc = "done"]

\* Faulty variant: the password is stored before the check for duplicates.
AddPreparedEarly(p) ==
    LET d == cli[p].loaded
    IN  /\ Running(p, "add", "loaded") /\ ConfigFree
        /\ keyring' = IF d.source = "keyring" THEN [keyring EXCEPT ![d.name] = p] ELSE keyring
        /\ IF add(config, d).verdict = "save"
             THEN configLock' = p /\ cli' = [cli EXCEPT ![p].pc = "prepared"]
             ELSE Exit(p) /\ UNCHANGED configLock
        /\ UNCHANGED <<config, known, daemonVars, req, historyVars>>

\* AddPrepared up to the save: the lock, the check, and prepare, which stores
\* the password in the keyring.
AddPrepared(p) ==
    LET d == cli[p].loaded
    IN  /\ Running(p, "add", "loaded") /\ ConfigFree
        /\ IF add(config, d).verdict = "save"
             THEN /\ configLock' = p
                  /\ cli' = [cli EXCEPT ![p].pc = "prepared"]
                  /\ keyring' = IF d.source = "keyring" THEN [keyring EXCEPT ![d.name] = p]
                                ELSE keyring
             ELSE Exit(p) /\ UNCHANGED <<configLock, keyring>>
        /\ UNCHANGED <<config, known, daemonVars, req, historyVars>>

AddSave(p, res) ==
    /\ Running(p, "add", "prepared")
    /\ Write(p, add(config, cli[p].loaded).next, res)
    /\ configLock' = NoOne
    /\ Exit(p)
    /\ UNCHANGED <<known, keyring, daemonVars, req, line, foreign, excused, unread>>

\* The requests whose entry the step takes away or changes.
Abandoned == {r \in Requests : \E n \in Names : author[n] = r /\ author'[n] # r}

Mutate(p, res, next) ==
    /\ ConfigFree
    /\ Write(p, next, res)
    /\ excused' = excused \cup Abandoned
    /\ UNCHANGED <<known, keyring, configLock, daemonVars, req, line, foreign, unread>>

\* `config auto-unlock` writes back the device it loaded, with the flag.
AutoUnlock(p, res) ==
    LET out == Update(config, [cli[p].loaded EXCEPT !.auto = cli[p].cmd.device.auto])
    IN  /\ Running(p, "auto-unlock", "loaded")
        /\ Mutate(p, res, out.next)
        /\ Exit(p)

\* `config apply` replaces the whole inventory.
Apply(p, res) ==
    /\ Running(p, "apply", "loaded")
    /\ Mutate(p, res, {cli[p].cmd.device})
    /\ Exit(p)

\* `config remove`; a password in the keyring is deleted after the lock was
\* released, if the removal was reported as a success.
RemoveDevice(p, res) ==
    LET out  == Remove(config, cli[p].loaded.name)
        gone == out.verdict = "save" /\ res = "ok"
    IN  /\ Running(p, "remove", "loaded")
        /\ Mutate(p, res, out.next)
        /\ cli' = [cli EXCEPT ![p].pc = IF gone /\ cli[p].loaded.source = "keyring"
                                          THEN "forget" ELSE "done"]

deleteStoredCredential(p) ==
    /\ cli[p].pc = "forget"
    /\ keyring' = [keyring EXCEPT ![cli[p].loaded.name] = NoOne]
    /\ Exit(p)
    /\ UNCHANGED <<config, known, configLock, daemonVars, req, historyVars>>

\* `status --accept-new-host-key`: the host presents a key.
AcceptNew(p, k, res) ==
    LET h == cli[p].loaded.host
    IN  /\ Running(p, "accept", "loaded")
        /\ IF verifyHostKeyLocked(known, h, k, TRUE, NoKey) = "new"
             THEN /\ known' = WritePrivate(known, appendKnownHost(known, h, k), res)
                  /\ foreign' = WritePrivate(foreign, appendKnownHost(foreign, h, k), res)
             ELSE UNCHANGED <<known, foreign>>
        /\ Exit(p)
        /\ UNCHANGED <<config, keyring, configLock, daemonVars, req, author, line, excused, unread>>

\* The process is killed, or its provider refuses the password; the kernel
\* releases its lock.
CommandDies(p) ==
    /\ cli[p].pc \in {"loaded", "prepared", "forget"}
    /\ configLock' = IF configLock = p THEN NoOne ELSE configLock
    /\ Exit(p)
    /\ UNCHANGED <<fileVars, daemonVars, req, historyVars>>

-----------------------------------------------------------------------------
(* The daemon's process *)

Crash ==
    /\ up
    /\ up' = FALSE
    /\ mutationMu' = NoOne /\ enrolling' = {} /\ adapter' = {} /\ engine' = {}
    /\ req' = [r \in Requests |->
                  IF req[r].pc \in {"idle", "done"} THEN req[r]
                  ELSE [req[r] EXCEPT !.pc = "done",
                                      !.result = IF @ = "none" THEN "crashed" ELSE @]]
    /\ UNCHANGED <<fileVars, configLock, candidate, labels, cli, historyVars>>

\* runDaemon builds adapter and engine from devices.json.  It refuses to
\* start while a device with automatic unlock lacks its credential.
Start ==
    /\ ~up
    /\ \A d \in config : d.auto /\ d.source = "keyring" => keyring[d.name] # NoOne
    /\ up' = TRUE
    /\ adapter' = config /\ engine' = {d.name : d \in config}
    /\ labels' = matchPinnedTargetNames(known, config)
    /\ UNCHANGED <<fileVars, configLock, candidate, mutationMu, enrolling, req, cli, historyVars>>

-----------------------------------------------------------------------------
EnrollStep(r) ==
    \/ \E w \in Wanted : BeginEnrollment(r, w)
    \/ \E k \in Keys : ProbeExpectedHostKey(r, k)
    \/ ProbeFails(r)
    \/ Recheck(r)
    \/ \E res \in SaveOutcomes :
          \/ AddContext(r, res)
          \/ \E readable \in BOOLEAN : CommitPendingHostKey(r, res, readable)
          \/ RollbackUnpin(r, res)
          \/ RollbackUnregister(r, res)
    \/ AddRefused(r)
    \/ addDevice(r)
    \/ EnrollmentCancelled(r)
    \/ CommitNothing(r)
    \/ CommitRefused(r)
    \/ EngineAddDevice(r)
    \/ EngineAddFails(r)
    \/ Enrolled(r)
    \/ RollbackTimesOut(r)
    \/ endEnrollment(r)

CommandStep(p) ==
    \/ \E cmd \in Commands : Load(p, cmd)
    \/ AddPrepared(p)
    \/ \E res \in SaveOutcomes :
          \/ AddSave(p, res)
          \/ AutoUnlock(p, res)
          \/ Apply(p, res)
          \/ RemoveDevice(p, res)
          \/ \E k \in Keys : AcceptNew(p, k, res)
    \/ deleteStoredCredential(p)
    \/ CommandDies(p)

InboxStep == \E c \in Candidates : Discover(c) \/ Expire(c) \/ handleIgnore(c) \/ handleRestore(c)

Next ==
    \/ \E r \in Requests : EnrollStep(r)
    \/ \E p \in Processes : CommandStep(p)
    \/ InboxStep
    \/ Crash
    \/ Start

Spec == Init /\ [][Next]_vars

-----------------------------------------------------------------------------
(* Properties *)

\* known_hosts holds the lines of others and, for each enrollment, the one
\* line it still owns: no rollback removes, and no enrollment duplicates, a
\* line that another process wrote at any moment of the enrollment.
LinesAccounted ==
    \A h \in Hosts, k \in Keys :
        known[<<h, k>>] = foreign[<<h, k>>] +
            Cardinality({r \in line : req[r].want.device.host = h /\ req[r].want.fingerprint = k})

\* A key is pinned only for a host that has none: whoever comes second, the
\* enrollment or the status command, never adds another key to a pinned host.
OneKeyPerHost ==
    \A h \in Hosts, k, q \in Keys : known[<<h, k>>] > 0 /\ known[<<h, q>>] > 0 => k = q

\* Register first, pin second, and the reverse in a rollback: at no moment,
\* and after no crash, does a key that an enrollment pinned lack the device
\* it was pinned for, unless a command took the device away, a failed
\* unpinning was reported, or the line was written by an append that failed
\* and could then not be read back, which the answer says.
TrustBacked == \A r \in line \ (excused \cup unread) : req[r].want.device \in config

\* A rollback reported as complete has left neither an entry nor a line of
\* its enrollment behind, but for a line that could not be read back.
RollbackComplete ==
    \A r \in Requests : req[r].result = "rolled-back" =>
        (r \in line => r \in unread) /\ \A n \in Names : author[n] # r

\* Between requests the adapter serves no device that the engine does not
\* monitor: a failed enrollment leaves no endpoint behind that manual polls
\* or unlocks could be sent to.
AdapterMonitored == MutationFree => {d.name : d \in adapter} \subseteq engine

\* The password under a device's name is the one given when the device was
\* added, or none: an add that loses the race for the name leaves no trace.
CredentialBelongs ==
    \A d \in config :
        d.source = "keyring" /\ author[d.name] \in Processes /\ cli[author[d.name]].cmd.op = "add"
            => keyring[d.name] \in {author[d.name], NoOne}

\* An enrollment that is answered with success has its host pinned to the
\* key that the operator verified, whatever happened between the probe,
\* which may have found the line of somebody else, and the answer.
EnrolledMeansPinned ==
    [][\A r \in Requests :
          req'[r].result = "enrolled" /\ req[r].result # "enrolled" =>
              Lookup(known, req[r].want.device.host, req[r].want.fingerprint) = "match"]_vars

\* No writer but `config apply` changes the entry of a device it is not
\* about, however old the copy it loaded.
OtherDevicesKept ==
    [][\A n \in Names : Named(config', n) # Named(config, n) =>
          \/ \E r \in Requests : req'[r] # req[r] /\ req[r].want.device.name = n
          \/ \E p \in Processes : cli'[p] # cli[p] /\
                (cli[p].cmd.op = "apply" \/ cli[p].cmd.device.name = n)]_vars

\* "an enrollment that fails after this point is rolled back completely, so
\* configuration and trust state never diverge" (handleEnroll, before
\* AddContext): an enrollment that failed without complaint about its
\* rollback is the author of nothing in devices.json.
FailedEnrollmentRolledBack ==
    \A r \in Requests : req[r].result \in {"refused", "rolled-back"} =>
        \A n \in Names : author[n] # r

\* "re-reading the file under the lock so a concurrent writer's device is
\* never overwritten from a stale in-memory copy" (mutate in config.go):
\* `config auto-unlock` changes nothing but the flag.
OnlyTheFlagChanges ==
    [][\A p \in Processes : cli'[p] # cli[p] /\ Running(p, "auto-unlock", "loaded") =>
          \A d \in config' \ config : [d EXCEPT !.auto = ~@] \in config]_vars
=============================================================================
