---------------------------- MODULE DeviceRecord ----------------------------
(***************************************************************************)
(* The durable record the monitor keeps for one Mac and what each policy   *)
(* step does to it (internal/monitor/types.go, engine.go).  Everything     *)
(* here is a function of record values; MonitorEngine decides when the     *)
(* steps happen, who takes them and what reaches the disk.                 *)
(*                                                                         *)
(* Data abstraction.  Timestamps and texts that no decision reads are left *)
(* out.  NextUnlockEligibleAt is kept as the time still to wait until it,  *)
(* max(0, NextUnlockEligibleAt - now): the code only ever asks whether it  *)
(* has passed.  Latched and LatchKind are assigned together in the code    *)
(* and are one field here, LatchKind, with "none" for an open latch.       *)
(* ConsecutiveFailures only paces the polls and is left out.               *)
(***************************************************************************)
EXTENDS Integers, Unlocker

CONSTANTS
    Cooldown,           \* Options.UnlockCooldown, in clock ticks
    BackoffInitial,     \* Options.BackoffInitial
    BackoffMax,         \* Options.BackoffMax
    MaxEpisodes,        \* bound on LockEpisode
    MaxConnectFailures  \* bound on UnlockConnectFailures

Observations == {"booted", "locked", "indeterminate", "unreachable"}

States == Observations \cup {"unlocking", "booting", "credential-failed", "error"}

LatchingKinds == {"credential", "host-key"}

DeviceRecords ==
    [State                 : States,
     LastObservation       : Observations \cup {"none"},
     LockEpisode           : Nat,
     LockEpisodeOpen       : BOOLEAN,
     UnlockAttempted       : BOOLEAN,
     UnlockConnectFailures : Nat,
     EndpointDown          : BOOLEAN,
     LatchKind             : LatchingKinds \cup {"none"},
     EligibleIn            : Nat]

\* What New and AddDevice give a device without a persisted record.
FreshRecord ==
    [State                 |-> "indeterminate",
     LastObservation       |-> "none",
     LockEpisode           |-> 0,
     LockEpisodeOpen       |-> FALSE,
     UnlockAttempted       |-> FALSE,
     UnlockConnectFailures |-> 0,
     EndpointDown          |-> FALSE,
     LatchKind             |-> "none",
     EligibleIn            |-> 0]

Latched(r) == r.LatchKind # "none"

stateForLatch(kind) == IF kind = "credential" THEN "credential-failed" ELSE "error"

stateForObservation(s) == IF s \in Observations THEN s ELSE "indeterminate"

-----------------------------------------------------------------------------
(* Probing *)

\* What Prober.Probe may return: an observation without an error, a state
\* outside validProbeState, or an error of one of the four failure kinds.
\* "down" is ProbeResult.EndpointDown, set only beside an unreachable error.
ProbeOutcomes ==
         [kind : {"observed"}, state : Observations, down : {FALSE}]
    \cup [kind : {"invalid", "credential", "host-key", "transient"},
          state : {"none"}, down : {FALSE}]
    \cup [kind : {"unreachable"}, state : {"unreachable"}, down : BOOLEAN]

\* Faulty variant: every locked observation grants a new attempt.
ObserveRenews(r, s) ==
    [r EXCEPT !.State = s, !.LastObservation = s, !.EndpointDown = FALSE,
              !.LockEpisode = IF s = "locked" /\ ~r.LockEpisodeOpen THEN @ + 1 ELSE @,
              !.LockEpisodeOpen = IF s \in {"locked", "booted"} THEN s = "locked" ELSE @,
              !.UnlockAttempted = IF s \in {"locked", "booted"} THEN FALSE ELSE @,
              !.UnlockConnectFailures = IF s = "booted" THEN 0 ELSE @]

\* Faulty variant: a boot starts the numbering of episodes again.
ObserveRenumbers(r, s) ==
    [r EXCEPT !.State = s, !.LastObservation = s, !.EndpointDown = FALSE,
              !.LockEpisode = IF s = "booted" THEN 0
                              ELSE IF s = "locked" /\ ~r.LockEpisodeOpen THEN @ + 1 ELSE @,
              !.LockEpisodeOpen = IF s \in {"locked", "booted"} THEN s = "locked" ELSE @,
              !.UnlockAttempted = IF s = "booted" \/ ~r.LockEpisodeOpen THEN FALSE ELSE @]

\* An error-free probe with a valid state.
Observe(r, s) ==
    LET opens == s = "locked" /\ ~r.LockEpisodeOpen
    IN  [r EXCEPT
           !.State = s,
           !.LastObservation = s,
           !.EndpointDown = FALSE,
           !.LockEpisode = IF opens THEN @ + 1 ELSE @,
           !.LockEpisodeOpen = IF s \in {"locked", "booted"} THEN s = "locked" ELSE @,
           !.UnlockAttempted = IF opens \/ s = "booted" THEN FALSE ELSE @,
           !.UnlockConnectFailures = IF s = "booted" THEN 0 ELSE @]

\* Faulty variant: a changed host key is reported and does not latch.
ProbeFailedUnlatched(r, kind, down) ==
    [r EXCEPT !.State = IF kind = "unreachable" THEN "unreachable" ELSE "error",
              !.LastObservation = IF kind = "unreachable" THEN "unreachable" ELSE @,
              !.EndpointDown = down,
              !.LatchKind = IF kind = "credential" THEN kind ELSE @]

\* A probe error.  An unreachable error is also an observation.
ProbeFailed(r, kind, down) ==
    [r EXCEPT
       !.State = CASE kind = "unreachable" -> "unreachable"
                   [] kind = "credential"  -> "credential-failed"
                   [] OTHER                -> "error",
       !.LastObservation = IF kind = "unreachable" THEN "unreachable" ELSE @,
       !.EndpointDown = down,
       !.LatchKind = IF kind \in LatchingKinds THEN kind ELSE @]

\* The prober broke its contract: the state it returned is not one it may
\* report.
InvalidProbe(r) ==
    [r EXCEPT !.State = "error", !.EndpointDown = FALSE]

\* Faulty variant: a later probe hides the failure.
ShowLatchNot(r) == r

\* A latched record keeps showing its security failure.
ShowLatch(r) ==
    IF Latched(r) THEN [r EXCEPT !.State = stateForLatch(r.LatchKind)] ELSE r

ProbedRecord(r, o) ==
    ShowLatch(CASE o.kind = "observed" -> Observe(r, o.state)
                [] o.kind = "invalid"  -> InvalidProbe(r)
                [] OTHER               -> ProbeFailed(r, o.kind, o.down))

\* Bound of the model: no lock episode is opened past the last.
ProbeWithinBounds(r, o) == ProbedRecord(r, o).LockEpisode <= MaxEpisodes

\* The fields whose change makes applyProbe write the state file.  Two more
\* are compared in the code: StateChangedAt changes exactly with State, and
\* LatchReason is a text, whose change is a choice of MonitorEngine.
PersistedFields ==
    {"State", "LastObservation", "LockEpisode", "LockEpisodeOpen",
     "UnlockAttempted", "UnlockConnectFailures", "EndpointDown",
     "LatchKind", "EligibleIn"}

persistenceRelevantChanged(before, after) ==
    \E f \in PersistedFields : before[f] # after[f]

-----------------------------------------------------------------------------
(* Unlocking *)

\* Faulty variant: an attempt given back is never used.
MayUnlockOnce(r) ==
    ~Latched(r) /\ ~r.UnlockAttempted /\ r.EligibleIn = 0 /\ r.UnlockConnectFailures = 0

\* The policy both applyProbe and markUnlockStarted apply to a record that
\* was just observed locked.
MayUnlock(r) == ~Latched(r) /\ ~r.UnlockAttempted /\ r.EligibleIn = 0

\* The attempt marker.
Marked(r) == [r EXCEPT !.UnlockAttempted = TRUE,
                       !.EligibleIn = Cooldown,
                       !.State = "unlocking"]

\* The doubling loop of exponentialBackoff in closed form: the value before
\* the last doubling decides whether the maximum is reached.
exponentialBackoff(failures) ==
    IF failures <= 1
    THEN BackoffInitial
    ELSE LET value == BackoffInitial * 2^(failures - 2)
         IN  IF value >= BackoffMax \div 2 THEN BackoffMax ELSE 2 * value

\* Nothing was submitted: the episode gets its attempt back after a backoff.
markPreSubmissionRetry(r) ==
    [r EXCEPT !.UnlockAttempted = FALSE,
              !.UnlockConnectFailures = @ + 1,
              !.EligibleIn = exponentialBackoff(r.UnlockConnectFailures + 1)]

UnlockedRecord(r, o) ==
    CASE o = "credential"  -> [r EXCEPT !.State = "credential-failed", !.LatchKind = o]
      [] o = "host-key"    -> [r EXCEPT !.State = "error", !.LatchKind = o]
      [] o = "accepted"    -> [r EXCEPT !.State = "booting", !.UnlockConnectFailures = 0]
      [] o = "unreachable" -> markPreSubmissionRetry(
                                [r EXCEPT !.State = "unreachable"])
      [] o = "transient"   -> markPreSubmissionRetry(
                                [r EXCEPT !.State = "error"])
      [] OTHER             -> [r EXCEPT !.State = "error"]

\* Bound of the model: failed connections of one episode.
UnlockWithinBounds(r, o) ==
    UnlockedRecord(r, o).UnlockConnectFailures <= MaxConnectFailures

-----------------------------------------------------------------------------
(* Operator acknowledgement *)

\* ClearLatch has something to clear.
Clearable(r) == Latched(r) \/ (r.LockEpisodeOpen /\ r.UnlockAttempted)

\* Faulty variant: the acknowledgement also forgives the cooldown.
ClearedRecordAtOnce(r) ==
    [r EXCEPT !.LatchKind = "none",
              !.State = stateForObservation(r.LastObservation),
              !.UnlockAttempted = IF r.LockEpisodeOpen THEN FALSE ELSE @,
              !.EligibleIn = 0]

\* The cooldown is kept.
ClearedRecord(r) ==
    [r EXCEPT !.LatchKind = "none",
              !.State = stateForObservation(r.LastObservation),
              !.UnlockAttempted = IF r.LockEpisodeOpen THEN FALSE ELSE @]

-----------------------------------------------------------------------------
(* Time *)

\* One tick of the wall clock, seen from a stored deadline.
TickDown(n) == IF n > 0 THEN n - 1 ELSE 0

AgedRecord(r) == [r EXCEPT !.EligibleIn = TickDown(@)]

\* The constants are those validateOptions accepts, and the backoff of every
\* failure count within the bounds is a duration of at most BackoffMax.
ASSUME RecordAssumption ==
    /\ Cooldown \in Nat
    /\ BackoffInitial \in Nat \ {0}
    /\ BackoffMax \in Nat /\ BackoffMax >= BackoffInitial
    /\ MaxEpisodes \in Nat /\ MaxConnectFailures \in Nat
    /\ \A n \in 1..MaxConnectFailures :
          exponentialBackoff(n) \in BackoffInitial..BackoffMax
=============================================================================
