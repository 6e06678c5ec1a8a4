-------------------------- MODULE MCCandidateInbox --------------------------
(* Instances of CandidateInbox for TLC. *)
EXTENDS CandidateInbox, TLC

CONSTANTS k1, k2, e1, h1, n1

Bonjour(aliases) == [fingerprint |-> NoKey, aliases |-> aliases]
Scan(k, e) == [fingerprint |-> k, aliases |-> {e}]

\* A scan reports a key at an address; Bonjour reports a host and perhaps an
\* address, and no key.
MixedSightings == {Scan(k1, e1), Scan(k2, e1), Bonjour({n1, h1}), Bonjour({n1, h1, e1})}

\* Both keys appear at the same address.
KeySymmetry == Permutations(Keys)

\* A save that failed with the new file in place has put the inbox back: what
\* may follow is what may follow a save that left the old file, except for a
\* restart, which loads the new one.  Only the restart is explored.
Ahead == up /\ disk # [entries |-> Public, configured |-> configured, sequence |-> PublicSequence]

RestartWhenAhead == Ahead => ~up'

\* A late observation differs from a timely one where another round has seen
\* the same candidate since, and only in its times, to which labels and a
\* pending ignore do not matter.  Late rounds are explored for just that, with
\* one observation.
LateWhenOvertaken ==
    /\ ~ingesting /\ ingesting' /\ observedAt' < now =>
         /\ \E i \in DOMAIN entries : entries[i].lastSeen > observedAt'
         /\ configured = NoFile.configured /\ ignoring = 0
    /\ ingesting /\ ingesting' /\ observedAt < now =>
         touched = {} /\ touched' \cap DOMAIN entries # {}
=============================================================================
