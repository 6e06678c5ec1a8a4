--------------------------- MODULE CandidateInbox ---------------------------
(***************************************************************************)
(* The discovery inbox of the daemon (internal/candidates/inbox.go and     *)
(* store.go): rounds of observations, the operator's review, the labels of *)
(* configured keys, expiration, the event history, the file, and crashes   *)
(* and restarts of the process.                                            *)
(*                                                                         *)
(* Every method runs under Inbox.mu and is one step, its save included,    *)
(* except IngestMany: a round is a step per observation, so that a crash   *)
(* or an error may end it anywhere, and nothing else runs meanwhile.       *)
(* handleIgnore (cmd/fv-ssh-unlock/daemon.go) is two steps: it decides on  *)
(* a snapshot and acts later.                                              *)
(*                                                                         *)
(* Candidate IDs are random in the code.  Here a candidate has the number  *)
(* of the event that announced it, and where the code goes by the order of *)
(* IDs, any of the candidates concerned may come first.                    *)
(***************************************************************************)
EXTENDS CandidateRecord, Sequences, FiniteSets

CONSTANTS
    Sightings,     \* the observations that discovery may report
    MaxEntries,    \* Options.MaxCandidates
    MaxEvents,     \* Options.MaxEvents
    SaveOutcomes,  \* what a save may do, of SaveResults
    MaxDelay,      \* bound on the time a round waits for the lock
    MaxSequence,   \* bound on the event numbers
    MaxNow         \* bound on the clock

\* WritePrivate: an error leaves the old file ("failOld") or, when only the
\* sync of the directory fails, the new one ("failNew").  saveState refuses a
\* file of more than 4 MiB, which is "failOld" too.
SaveResults == {"ok", "failOld", "failNew"}

ASSUME InboxAssumption ==
    /\ Sightings \subseteq Observations
    /\ MaxEntries \in Nat \ {0}
    /\ MaxEvents \in Nat \ {0}
    /\ SaveOutcomes \subseteq SaveResults
    /\ MaxDelay \in Nat
    /\ MaxSequence \in Nat
    /\ MaxNow \in Nat

VARIABLES
    up,          \* the daemon runs with an open inbox
    entries,     \* Inbox.entries
    configured,  \* Inbox.configured
    sequence,    \* Inbox.sequence
    events,      \* Inbox.events
    disk,        \* candidates.json
    ingesting,   \* IngestMany holds the lock
    observedAt,  \* ObservedAt of its observations
    before,      \* its beforeEntries and beforeSequence
    touched,     \* its touched
    pending,     \* its pending
    ignoring,    \* the candidate handleIgnore decided to ignore, or 0
    now,         \* the clock
    vouched      \* history: keys that an operator verified

memVars    == <<entries, configured, sequence, events>>
roundVars  == <<ingesting, observedAt, before, touched, pending>>
vars       == <<up, memVars, disk, roundVars, ignoring, now, vouched>>

Ids     == 1 .. MaxSequence
Configs == [Keys -> SUBSET DeviceNames]

None   == [i \in {} |-> NewCandidate(0)]
NoFile == [entries |-> None, configured |-> [k \in Keys |-> {}], sequence |-> 0]
NoRound == [entries |-> None, sequence |-> 0]

\* The daemon has not been started and there is no file.
Init ==
    /\ up = FALSE
    /\ entries = None
    /\ configured = NoFile.configured
    /\ sequence = 0
    /\ events = <<>>
    /\ disk = NoFile
    /\ ingesting = FALSE
    /\ observedAt = 0
    /\ before = NoRound
    /\ touched = {}
    /\ pending = <<>>
    /\ ignoring = 0
    /\ now = 0
    /\ vouched = {}

-----------------------------------------------------------------------------
(* Events and saves *)

Without(es, S) == [i \in DOMAIN es \ S |-> es[i]]
With(es, i, c) == [j \in DOMAIN es \cup {i} |-> IF j = i THEN c ELSE es[j]]

\* makeEventLocked, as the n-th event
Event(n, type, i, seen, merged) ==
    [sequence |-> n, type |-> type, id |-> i, view |-> seen, merged |-> merged]

\* One event for each element of S, in some order.
Orders(S) ==
    {s \in [1 .. Cardinality(S) -> S] :
        \A m, n \in 1 .. Cardinality(S) : s[m] = s[n] => m = n}

Removals(order, type) ==
    [n \in DOMAIN order |-> Event(sequence + n, type, order[n], {}, {})]

\* appendEventsLocked
Retained(evs) ==
    IF Len(evs) > MaxEvents
      THEN SubSeq(evs, Len(evs) - MaxEvents + 1, Len(evs)) ELSE evs

\* Faulty variant: the counter is not part of the file.
SavedUncounted(es, cf, sq, res) ==
    disk' = IF res = "failOld" THEN disk
            ELSE [entries |-> es, configured |-> cf, sequence |-> 0]

Saved(es, cf, sq, res) ==
    disk' = IF res = "failOld" THEN disk
            ELSE [entries |-> es, configured |-> cf, sequence |-> sq]

\* saveLocked and what every method does with its result: publish the events,
\* or put the old state back.
Commit(es, cf, evs, res) ==
    /\ res \in SaveOutcomes
    /\ Saved(es, cf, sequence + Len(evs), res)
    /\ IF res = "ok"
         THEN /\ entries' = es
              /\ configured' = cf
              /\ sequence' = sequence + Len(evs)
              /\ events' = Retained(events \o evs)
         ELSE UNCHANGED memVars

-----------------------------------------------------------------------------
(* IngestMany *)

Stale == {i \in DOMAIN entries : Expired(entries[i], now)}

Unlocked == up /\ ~ingesting

RoundIsOver ==
    /\ ingesting' = FALSE
    /\ observedAt' = 0
    /\ before' = NoRound
    /\ touched' = {}
    /\ pending' = <<>>

\* The copies for a rollback, and expireLocked.  The daemon stamped the
\* observations of the round before it waited for the lock.
IngestBegin ==
    /\ Unlocked
    /\ sequence + Cardinality(Stale) < MaxSequence
    /\ ingesting' = TRUE
    /\ observedAt' \in {t \in 0 .. now : now <= t + MaxDelay}
    /\ before' = [entries |-> entries, sequence |-> sequence]
    /\ entries' = Without(entries, Stale)
    /\ sequence' = sequence + Cardinality(Stale)
    /\ \E order \in Orders(Stale) : pending' = Removals(order, "expired")
    /\ UNCHANGED <<up, configured, events, disk, touched, ignoring, now, vouched>>

Matching(o) == {i \in DOMAIN entries : Matches(o, entries[i])}
Bare(S)     == {i \in S : entries[i].fingerprint = NoKey}

\* The candidates that ingestLocked may take the observation for.  Without a
\* key it does not choose among several identities.
Chosen(o) ==
    LET m    == Matching(o)
        same == {i \in m : entries[i].fingerprint = o.fingerprint}
    IN  IF o.fingerprint = NoKey
          THEN IF Cardinality(m) = 1 THEN m ELSE Bare(m)
          ELSE IF same # {} THEN same ELSE Bare(m)

\* evictionTargetLocked: the least recently seen of the unprotected ones.
EvictionTargets ==
    LET free == {i \in DOMAIN entries \ touched : ~candidatePinned(entries[i])}
    IN  {i \in free : \A j \in free : entries[i].lastSeen <= entries[j].lastSeen}

Full == Cardinality(DOMAIN entries) >= MaxEntries

\* An observation of the round, with n events.
InRound(n) ==
    /\ ingesting
    /\ sequence + n <= MaxSequence
    /\ UNCHANGED <<up, configured, events, disk, ingesting, observedAt, before,
                   ignoring, now, vouched>>

\* The observation is of a known candidate; pending aliases of the same host
\* are folded into it once it has a key.
IngestKnown(o) ==
    /\ InRound(1)
    /\ \E i \in Chosen(o) :
        LET seen  == Observed(entries[i], o, configured, observedAt)
            folded == IF seen.fingerprint = NoKey THEN {}
                      ELSE Bare(Matching(o)) \ {i}
            c     == Absorb(seen, {entries[j] : j \in folded})
            type  == IF folded = {} THEN "updated" ELSE "merged"
        IN  /\ entries' = With(Without(entries, folded), i, c)
            /\ pending' = Append(pending, Event(sequence + 1, type, i, {c}, folded))
            /\ sequence' = sequence + 1
            /\ touched' = touched \cup {i}

\* A new candidate, under the number of the event that announces it.
Create(o, es, evs) ==
    LET n == sequence + Len(evs) + 1
        c == Observed(NewCandidate(observedAt), o, configured, observedAt)
    IN  /\ entries' = With(es, n, c)
        /\ pending' = pending \o Append(evs, Event(n, "discovered", n, {c}, {}))
        /\ sequence' = n
        /\ touched' = touched \cup {n}

IngestNew(o) ==
    /\ InRound(1)
    /\ Chosen(o) = {}
    /\ ~Full
    /\ Create(o, entries, <<>>)

\* The inbox never holds more than MaxEntries, so one eviction makes room.
IngestEvicting(o) ==
    /\ InRound(2)
    /\ Chosen(o) = {}
    /\ Full
    /\ \E v \in EvictionTargets :
        Create(o, Without(entries, {v}),
               <<Event(sequence + 1, "evicted", v, {}, {})>>)

IngestDropped(o) ==
    /\ InRound(1)
    /\ Chosen(o) = {}
    /\ Full
    /\ EvictionTargets = {}
    /\ pending' = Append(pending, Event(sequence + 1, "dropped", 0, {}, {}))
    /\ sequence' = sequence + 1
    /\ UNCHANGED <<entries, touched>>

Rollback ==
    /\ entries' = before.entries
    /\ sequence' = before.sequence
    /\ UNCHANGED <<configured, events>>

\* newCandidateID fails.
IngestAborted(o) ==
    /\ ingesting
    /\ Chosen(o) = {}
    /\ Full => EvictionTargets # {}
    /\ Rollback
    /\ RoundIsOver
    /\ UNCHANGED <<up, disk, ignoring, now, vouched>>

\* A round has at least one observation, and every observation an event.
IngestEnd(res) ==
    /\ ingesting
    /\ \E n \in DOMAIN pending : pending[n].type # "expired"
    /\ res \in SaveOutcomes
    /\ Saved(entries, configured, sequence, res)
    /\ IF res = "ok"
         THEN /\ events' = Retained(events \o pending)
              /\ UNCHANGED <<entries, configured, sequence>>
         ELSE Rollback
    /\ RoundIsOver
    /\ UNCHANGED <<up, ignoring, now, vouched>>

-----------------------------------------------------------------------------
(* Review, labels, expiration *)

Outside == UNCHANGED <<up, roundVars, now>>

\* transition: the candidate becomes c.
Transition(i, type, c, res) ==
    /\ Unlocked
    /\ sequence < MaxSequence
    /\ i \in DOMAIN entries
    /\ Commit([entries EXCEPT ![i] = c], configured,
              <<Event(sequence + 1, type, i, {c}, {})>>, res)
    /\ Outside

\* At the end of an enrollment, under daemonAPI.mutationMu.
MarkVerified(i, res) ==
    /\ ignoring = 0
    /\ i \in DOMAIN entries
    /\ entries[i].fingerprint # NoKey
    /\ Transition(i, "verified", Marked(entries[i]), res)
    /\ vouched' = vouched \cup {entries[i].fingerprint}
    /\ UNCHANGED ignoring

Restore(i, res) ==
    /\ ignoring = 0
    /\ i \in DOMAIN entries
    /\ entries[i].state = "ignored"
    /\ Transition(i, "restored", Restored(entries[i]), res)
    /\ UNCHANGED <<ignoring, vouched>>

\* handleIgnore looks at a snapshot; mutationMu keeps other requests out, but
\* not discovery.
IgnoreDecide(i) ==
    /\ Unlocked
    /\ ignoring = 0
    /\ i \in DOMAIN entries
    /\ entries[i].configuredNames = {}
    /\ entries[i].state # "ignored"
    /\ ignoring' = i
    /\ UNCHANGED <<up, memVars, disk, roundVars, now, vouched>>

Ignore(res) ==
    /\ ignoring # 0
    /\ Unlocked
    /\ Transition(ignoring, "ignored", Ignored(entries[ignoring]), res)
    /\ ignoring' = 0
    /\ UNCHANGED vouched

\* The candidate is gone by the time Inbox.Ignore looks for it.
IgnoreNotFound ==
    /\ ignoring # 0
    /\ Unlocked
    /\ ignoring \notin DOMAIN entries
    /\ ignoring' = 0
    /\ UNCHANGED <<up, memVars, disk, roundVars, now, vouched>>

LabelOf(cf, c) == IF c.fingerprint = NoKey THEN {} ELSE cf[c.fingerprint]

\* At startup and after an enrollment, under mutationMu.
ReplaceConfiguredFingerprints(next, res) ==
    LET es      == [i \in DOMAIN entries |->
                        Relabelled(entries[i], LabelOf(next, entries[i]))]
        changed == {i \in DOMAIN entries :
                        es[i].configuredNames # entries[i].configuredNames}
    IN  /\ Unlocked
        /\ ignoring = 0
        /\ sequence + Cardinality(changed) <= MaxSequence
        /\ changed # {} \/ next # configured
        /\ \E order \in Orders(changed) :
            Commit(es, next,
                   [n \in DOMAIN order |->
                        Event(sequence + n, "configured_changed", order[n],
                              {es[order[n]]}, {})],
                   res)
        /\ Outside
        /\ UNCHANGED <<ignoring, vouched>>

Expire(res) ==
    /\ Unlocked
    /\ Stale # {}
    /\ sequence + Cardinality(Stale) <= MaxSequence
    /\ \E order \in Orders(Stale) :
        Commit(Without(entries, Stale), configured, Removals(order, "expired"), res)
    /\ Outside
    /\ UNCHANGED <<ignoring, vouched>>

-----------------------------------------------------------------------------
(* The process, the clock *)

\* What Open requires of the file; otherwise the daemon does not start.
Loads(d) ==
    /\ Cardinality(DOMAIN d.entries) <= MaxEntries
    /\ \A i \in DOMAIN d.entries :
        /\ validCandidate(d.entries[i])
        /\ readableCandidate(d.entries[i])
        /\ d.entries[i].configuredNames = LabelOf(d.configured, d.entries[i])
        /\ \A j \in DOMAIN d.entries \ {i} :
            d.entries[i].fingerprint # NoKey =>
                d.entries[i].fingerprint # d.entries[j].fingerprint

Open ==
    /\ ~up
    /\ Loads(disk)
    /\ up' = TRUE
    /\ entries' = disk.entries
    /\ configured' = disk.configured
    /\ sequence' = disk.sequence
    /\ UNCHANGED <<events, disk, roundVars, ignoring, now, vouched>>

Crash ==
    /\ up
    /\ up' = FALSE
    /\ entries' = None
    /\ configured' = NoFile.configured
    /\ sequence' = 0
    /\ events' = <<>>
    /\ RoundIsOver
    /\ ignoring' = 0
    /\ UNCHANGED <<disk, now, vouched>>

ClockTick ==
    /\ now < MaxNow
    /\ ~ingesting
    /\ now' = now + 1
    /\ UNCHANGED <<up, memVars, disk, roundVars, ignoring, vouched>>

Next ==
    \/ IngestBegin
    \/ \E o \in Sightings : IngestKnown(o)
    \/ \E o \in Sightings : IngestNew(o)
    \/ \E o \in Sightings : IngestEvicting(o)
    \/ \E o \in Sightings : IngestDropped(o)
    \/ \E o \in Sightings : IngestAborted(o)
    \/ \E res \in SaveResults : IngestEnd(res)
    \/ \E i \in DOMAIN entries, res \in SaveResults : MarkVerified(i, res)
    \/ \E i \in DOMAIN entries, res \in SaveResults : Restore(i, res)
    \/ \E i \in DOMAIN entries : IgnoreDecide(i)
    \/ \E res \in SaveResults : Ignore(res)
    \/ IgnoreNotFound
    \/ \E cf \in Configs, res \in SaveResults : ReplaceConfiguredFingerprints(cf, res)
    \/ \E res \in SaveResults : Expire(res)
    \/ Open
    \/ Crash
    \/ ClockTick

Spec == Init /\ [][Next]_vars

-----------------------------------------------------------------------------
(* Properties *)

\* Nothing but an unreadable text keeps the daemon from starting again: whatever
\* sequence of rounds, merges, reviews, relabellings and failed saves produced
\* the file, if its texts come back as they were, it passes the checks of
\* Open, which refuses the whole file for one bad candidate.
SavedStateLoads ==
    (\A i \in DOMAIN disk.entries : readableCandidate(disk.entries[i])) => Loads(disk)

\* Discovery cannot verify a key by itself: a candidate shown as verified has
\* a key that an operator verified or that a configured device pins, also
\* after merges, a restore or a restart.
VerifiedByOperator ==
    \A i \in DOMAIN entries :
        LET c == entries[i]
        IN  /\ c.state = "verified" =>
                 c.fingerprint \in vouched \/ LabelOf(configured, c) # {}
            /\ c.verifiedAt => c.fingerprint \in vouched

\* What a Snapshot shows: a round becomes visible when its save succeeded.
Public         == IF ingesting THEN before.entries ELSE entries
PublicSequence == IF ingesting THEN before.sequence ELSE sequence

Reviewed(c) == c.state \in {"verified", "ignored"}

OperatorLifts(i) ==
    /\ events' # events
    /\ LET e == events'[Len(events')]
       IN  e.id = i /\ e.type \in {"restored", "verified"}

\* However many hosts a round reports, in whichever order, and whether or not
\* it is rolled back, it does not undo a review.  A reviewed candidate with a
\* key stays, under its ID and with its key, until it expires.  An ignored one
\* stays ignored until the operator lifts that, or an ignored one takes over
\* everything it was known by.
ReviewSurvives ==
    [][up /\ up' =>
        \A i \in DOMAIN Public :
            LET c == Public[i]
            IN  /\ Reviewed(c) /\ c.fingerprint # NoKey /\ ~Expired(c, now) =>
                     /\ i \in DOMAIN Public'
                     /\ Public'[i].fingerprint = c.fingerprint
                /\ c.state = "ignored" /\ ~OperatorLifts(i) =>
                     \E j \in DOMAIN Public' :
                         /\ Public'[j].state = "ignored"
                         /\ c.aliases \subseteq Public'[j].aliases
                         /\ i # j => c.fingerprint = NoKey]_vars

\* Faulty variant: one lost event goes unnoticed.
ResetRequiredLate(n) ==
    n < sequence /\ (events = <<>> \/ n + 2 < events[1].sequence)

\* EventsSince
ResetRequired(n) ==
    n < sequence /\ (events = <<>> \/ n + 1 < events[1].sequence)

Since(n) == {e \in {events[m] : m \in DOMAIN events} : e.sequence > n}

\* The snapshot v taken at n, with the events since applied: the last one that
\* mentions a candidate decides.
Replayed(v, n) ==
    LET mentions(i) == {e \in Since(n) : e.id = i \/ i \in e.merged}
        last(i)     == CHOOSE e \in mentions(i) :
                           \A f \in mentions(i) : f.sequence <= e.sequence
        after(i)    == IF mentions(i) = {}
                         THEN {v[j] : j \in DOMAIN v \cap {i}}
                         ELSE IF last(i).id = i THEN last(i).view ELSE {}
    IN  [i \in {j \in Ids : after(j) # {}} |-> CHOOSE c \in after(i) : TRUE]

\* A client with a snapshot that is not told to take another one can rebuild
\* the inbox from the events since: whatever a round, a merge, a review or a
\* rollback does to the inbox, its events tell, or the bounded history has
\* lost some of them and says so.
CursorComplete ==
    [][up =>
        \A v \in {Public}, n \in {PublicSequence} :
            (Unlocked /\ ~ResetRequired(n) => Replayed(v, n) = entries)']_vars

\* A snapshot from before a restart is not mistaken for one of the inbox that
\* is loaded: the file is never behind what clients have seen, and at the same
\* number it holds the same candidates, also after saves that failed.
RestartKeepsNumbers ==
    up => /\ disk.sequence >= PublicSequence
          /\ disk.sequence = PublicSequence => disk.entries = Public
=============================================================================
