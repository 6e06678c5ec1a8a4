--------------------------- MODULE CandidateRecord ---------------------------
(***************************************************************************)
(* A candidate of the discovery inbox (internal/candidates/types.go), and  *)
(* what observations, merges and the operator's review do to it, as        *)
(* functions (inbox.go, store.go).                                         *)
(*                                                                         *)
(* Endpoints, hostnames and names are model values: two spellings that the *)
(* code treats as equal are one value.  VerifiedAt and IgnoredAt are kept  *)
(* as whether they are set; the daemon sets them from its clock.  Sources, *)
(* key type and evidence are left out: nothing decides on them, and the    *)
(* daemon's are short words of its own or of the SSH library, which the    *)
(* file gives back as they were.                                           *)
(***************************************************************************)
EXTENDS Naturals, FiniteSetsExt

CONSTANTS
    Keys,         \* SSH fingerprints
    NoKey,        \* the empty fingerprint
    Endpoints,    \* address and port
    Hostnames,
    Names,
    Unreadable,   \* texts that come back from the file as ones it may not hold
    DeviceNames,  \* names of configured devices
    TTL           \* Options.TTL

ASSUME CandidateAssumption ==
    /\ NoKey \notin Keys
    /\ Unreadable \subseteq Names \cup Hostnames
    /\ TTL \in Nat

Aliases == Endpoints \cup Hostnames \cup Names
States  == {"discovered", "identity_pending", "verified", "ignored"}

Candidates ==
    [state           : States,
     fingerprint     : Keys \cup {NoKey},
     aliases         : SUBSET Aliases,
     configuredNames : SUBSET DeviceNames,
     firstSeen       : Nat,
     lastSeen        : Nat,
     verifiedAt      : BOOLEAN,
     ignoredAt       : BOOLEAN]

\* What normalizeObservation lets through: something identifies the host.  It
\* bounds the bytes of a text (a name has at most 256, a hostname 253) and
\* takes one dot off a hostname, but does not ask for valid UTF-8.
Observations ==
    {o \in [fingerprint : Keys \cup {NoKey}, aliases : SUBSET Aliases] :
        o.fingerprint # NoKey \/ o.aliases # {}}

-----------------------------------------------------------------------------
(* Discovery *)

NewCandidate(at) ==
    [state |-> "discovered", fingerprint |-> NoKey, aliases |-> {},
     configuredNames |-> {}, firstSeen |-> at, lastSeen |-> at,
     verifiedAt |-> FALSE, ignoredAt |-> FALSE]

\* A name counts only when the observation has neither address nor hostname.
Hints(o) ==
    LET located == o.aliases \cap (Endpoints \cup Hostnames)
    IN  IF located # {} THEN located ELSE o.aliases

\* matchesLocked: two known keys are compared, anything else by its hints.
Matches(o, c) ==
    IF o.fingerprint # NoKey /\ c.fingerprint # NoKey
      THEN c.fingerprint = o.fingerprint
      ELSE c.aliases \cap Hints(o) # {}

\* A candidate whose key is configured under these names; an ignored one
\* stays ignored.
Label(c, names) ==
    [c EXCEPT !.configuredNames = names,
              !.state = IF names # {} /\ @ # "ignored" THEN "verified" ELSE @]

\* Faulty variant: observations are taken to arrive in the order of their times.
ObservedInOrder(c, o, configured, at) ==
    LET key   == IF o.fingerprint # NoKey THEN o.fingerprint ELSE c.fingerprint
        known == [c EXCEPT !.fingerprint = key,
                           !.aliases = @ \cup o.aliases,
                           !.lastSeen = at,
                           !.state = IF o.fingerprint # NoKey /\ @ = "discovered"
                                       THEN "identity_pending" ELSE @]
    IN  IF key \in Keys /\ configured[key] # {}
          THEN Label(known, configured[key]) ELSE known

\* ingestLocked and mergeObservation on the candidate that was chosen; at is
\* the observation's ObservedAt.
Observed(c, o, configured, at) ==
    LET key   == IF o.fingerprint # NoKey THEN o.fingerprint ELSE c.fingerprint
        known == [c EXCEPT !.fingerprint = key,
                           !.aliases = @ \cup o.aliases,
                           !.firstSeen = Min({@, at}),
                           !.lastSeen = Max({@, at}),
                           !.state = IF o.fingerprint # NoKey /\ @ = "discovered"
                                       THEN "identity_pending" ELSE @]
    IN  IF key \in Keys /\ configured[key] # {}
          THEN Label(known, configured[key]) ELSE known

\* mergeCandidates, for all the aliases S that an observation folds into c: an
\* ignored one makes c ignored.
Absorb(c, S) ==
    LET suppressed == \E s \in S : s.state = "ignored"
    IN  [c EXCEPT !.aliases = @ \cup UNION {s.aliases : s \in S},
                  !.firstSeen = Min({@} \cup {s.firstSeen : s \in S}),
                  !.lastSeen = Max({@} \cup {s.lastSeen : s \in S}),
                  !.state = IF suppressed THEN "ignored" ELSE @,
                  !.ignoredAt = suppressed \/ @]

\* expireLocked
Expired(c, now) == c.state # "ignored" /\ now > c.lastSeen + TTL

\* Faulty variant: a configured or once verified candidate is not protected.
PinnedByState(c) == c.state = "ignored"

candidatePinned(c) ==
    \/ c.state \in {"verified", "ignored"}
    \/ c.verifiedAt
    \/ c.configuredNames # {}

-----------------------------------------------------------------------------
(* Review *)

Marked(c) ==
    [c EXCEPT !.state = "verified", !.verifiedAt = TRUE, !.ignoredAt = FALSE]

Ignored(c) == [c EXCEPT !.state = "ignored", !.ignoredAt = TRUE]

Restored(c) ==
    [c EXCEPT
        !.ignoredAt = FALSE,
        !.state = IF c.fingerprint = NoKey THEN "discovered"
                  ELSE IF c.configuredNames # {} \/ c.verifiedAt THEN "verified"
                  ELSE "identity_pending"]

\* Faulty variant: a label that disappears leaves the verification it implied.
RelabelledSticky(c, names) == Label(c, names)

\* ReplaceConfiguredFingerprints on one candidate.
Relabelled(c, names) ==
    LET unlabelled == names = {} /\ c.configuredNames # {}
    IN  IF unlabelled /\ c.state = "verified" /\ ~c.verifiedAt
          THEN [c EXCEPT !.configuredNames = {}, !.state = "identity_pending"]
          ELSE Label(c, names)

-----------------------------------------------------------------------------
(* The file *)

\* validateCandidate on the state of a candidate and its times.
validCandidate(c) ==
    /\ c \in Candidates
    /\ c.state = "discovered" => c.fingerprint = NoKey
    /\ c.state \in {"identity_pending", "verified"} => c.fingerprint # NoKey
    /\ c.state = "ignored" <=> c.ignoredAt
    /\ c.configuredNames # {} => c.fingerprint # NoKey
    /\ c.fingerprint = NoKey => c.aliases # {}
    /\ c.firstSeen <= c.lastSeen

\* validateCandidate on the texts of a candidate, in the form that the file
\* gives back.  encoding/json writes every byte that is not UTF-8 as U+FFFD,
\* which has three bytes: a name with more than 85 of them passed
\* normalizeObservation and is too long now.  A hostname that ended in two
\* dots passed with one, which validateCandidate refuses.  An address was put
\* in the one form that netip gives it, and stays in it.
readableCandidate(c) == c.aliases \cap Unreadable = {}
=============================================================================
