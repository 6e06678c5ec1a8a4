------------------------ MODULE CandidateInboxProofs ------------------------
(***************************************************************************)
(* The discovery inbox, for any observations, keys, devices and limits.    *)
(*                                                                         *)
(* What is in memory, in the file and in the copy for a rollback is always *)
(* a sound inbox: each of them becomes each of the others, by a save, a    *)
(* restart or a failure, so that the argument is made for all three at     *)
(* once (Sound).  A round is related to the inbox it began with by what    *)
(* it may not undo (Kept).                                                 *)
(***************************************************************************)
EXTENDS CandidateInbox, FiniteSetTheorems, WellFoundedInduction, TLAPS

-----------------------------------------------------------------------------
(* The inductive invariant *)

\* What the clock shows.
Times == 0 .. MaxNow

\* A candidate that Open accepts if it can read it, whose state says what its
\* label and its review say, and which was not seen in the future.
SoundCandidate(c, cf) ==
    /\ validCandidate(c)
    /\ c.lastSeen \in Times
    /\ c.configuredNames = LabelOf(cf, c)
    /\ c.configuredNames # {} => c.state \in {"verified", "ignored"}

\* A verification has its reason.
Justified(c, keys) ==
    /\ c.state = "verified" => c.fingerprint \in keys \/ c.configuredNames # {}
    /\ c.verifiedAt => c.fingerprint \in keys

\* No two candidates have one key.
DistinctKeys(es) ==
    \A i, j \in DOMAIN es :
        i # j /\ es[i].fingerprint # NoKey => es[i].fingerprint # es[j].fingerprint

\* An inbox, with its labels, the number of its last event and the keys that
\* an operator verified.
Sound(es, cf, sq, keys) ==
    /\ es = [i \in DOMAIN es |-> es[i]]
    /\ IsFiniteSet(DOMAIN es) /\ Cardinality(DOMAIN es) <= MaxEntries
    /\ DOMAIN es \subseteq 1 .. sq
    /\ \A i \in DOMAIN es : SoundCandidate(es[i], cf) /\ Justified(es[i], keys)
    /\ DistinctKeys(es)

\* The events of the inbox.
EventTypes == {"discovered", "updated", "merged", "evicted", "dropped", "expired", "verified",
               "restored", "ignored", "configured_changed"}

\* What makeEventLocked makes.
EventRecord ==
    [sequence : Nat, type : EventTypes, id : Nat, view : SUBSET Candidates, merged : SUBSET Nat]

\* Only a running daemon ingests.
FlagInv ==
    /\ up \in BOOLEAN /\ ingesting \in BOOLEAN
    /\ ingesting => up

\* The types that the arguments need, and the numbers begin with the inbox.
TypeInv ==
    /\ FlagInv
    /\ ~up => sequence = 0
    /\ now \in Times /\ observedAt \in Times /\ vouched \subseteq Keys
    /\ sequence \in Nat /\ before.sequence \in Nat /\ disk.sequence \in Nat
    /\ configured \in Configs /\ disk.configured \in Configs

\* Memory, file and copy are sound.
SoundInv ==
    /\ Sound(entries, configured, sequence, vouched)
    /\ Sound(disk.entries, disk.configured, disk.sequence, vouched)
    /\ ingesting => Sound(before.entries, configured, before.sequence, vouched)

\* Events with numbers up to sq.
Numbered(evs, sq) ==
    evs \in Seq(EventRecord) /\ \A m \in DOMAIN evs : evs[m].sequence <= sq

\* Every event of a round has its number; the ones that were published have
\* the numbers that a snapshot shows.
EventInv ==
    /\ Numbered(events, PublicSequence)
    /\ ingesting => Numbered(pending, sequence) /\ sequence = before.sequence + Len(pending)

\* The inductive invariant.
InboxInv == TypeInv /\ SoundInv /\ EventInv /\ RestartKeepsNumbers

\* What a round has made of the inbox it began with.
KeptKey(c, es, i) ==
    i \in DOMAIN es /\ es[i].fingerprint = c.fingerprint /\ Reviewed(es[i])

\* Somebody is ignored for all that c was known by.
KeptIgnored(c, es, i) ==
    \E j \in DOMAIN es :
        /\ es[j].state = "ignored"
        /\ c.aliases \subseteq es[j].aliases
        /\ i # j => c.fingerprint = NoKey

\* No review of old is undone in es.
Kept(old, es) ==
    \A i \in DOMAIN old :
        /\ Reviewed(old[i]) /\ old[i].fingerprint # NoKey /\ ~Expired(old[i], now)
             => KeptKey(old[i], es, i)
        /\ old[i].state = "ignored" => KeptIgnored(old[i], es, i)

\* A round undoes no review, at any point of it.
KeptInv == ingesting => Kept(before.entries, entries)

-----------------------------------------------------------------------------
(* What happens to one candidate *)

\* The labels are sets of names.
LEMMA LabelType ==
    ASSUME NEW cf \in Configs, NEW k \in Keys
    PROVE  cf[k] \subseteq DeviceNames
  BY DEF Configs

\* The natural numbers are well ordered.
LEMMA LeastExists ==
    ASSUME NEW T \in SUBSET Nat, T # {}
    PROVE  \E t \in T : \A u \in T : t <= u
<1> DEFINE R == {ss \in Nat \X Nat : ss[1] < ss[2]}
<1>1. IsWellFoundedOn(R, Nat)
    BY NatLessThanWellFounded, Zenon DEF OpToRel
<1>2. \A t, u \in Nat : t < u => <<t, u>> \in R
    OBVIOUS
<1> HIDE DEF R
<1>3. PICK t \in T : \A u \in T : ~(<<u, t>> \in R)
    BY <1>1, WFMin
<1>4. \A u \in T : ~(u < t)
    BY <1>2, <1>3
<1>5. \A u \in T : t <= u
    BY <1>4
<1> QED
    BY <1>5

\* The greatest number of a set is the least of its bounds.
LEMMA GreatestExists ==
    ASSUME NEW T \in SUBSET Nat, T # {}, NEW n \in Nat, \A t \in T : t <= n
    PROVE  \E t \in T : \A u \in T : u <= t
<1> DEFINE B == {b \in Nat : \A t \in T : t <= b}
<1>1. B \in SUBSET Nat /\ B # {}
    OBVIOUS
<1>2. PICK b \in B : \A a \in B : b <= a
  <2> HIDE DEF B
  <2> QED
    BY <1>1, LeastExists
<1>3. b \in T
  <2> SUFFICES ASSUME b \notin T PROVE FALSE
    OBVIOUS
  <2>1. PICK t \in T : TRUE
    OBVIOUS
  <2>2. b # 0
    BY <1>2, <2>1
  <2>3. b - 1 \in B
    BY <1>2, <2>2
  <2> QED
    BY <1>2, <2>3
<1> QED
    BY <1>2, <1>3

\* The earlier and the later of some times, as earlier and later find them.
LEMMA MinMaxTimes ==
    ASSUME NEW T \in SUBSET Nat, NEW first \in Nat, NEW U \in SUBSET Times, NEW last \in Times,
           first <= last
    PROVE  /\ Min({first} \cup T) \in Nat /\ Min({first} \cup T) <= first
           /\ Max({last} \cup U) \in Times /\ last <= Max({last} \cup U)
           /\ Min({first} \cup T) <= Max({last} \cup U)
<1> DEFINE A == {first} \cup T
           B == {last} \cup U
<1>1. A \in SUBSET Nat /\ A # {} /\ first \in A
    OBVIOUS
<1>2. B \in SUBSET Nat /\ B # {} /\ last \in B /\ B \subseteq Times /\ MaxNow \in Nat
      /\ \A t \in B : t <= MaxNow
    BY InboxAssumption DEF Times
<1> HIDE DEF A, B
<1>3. Min(A) \in A /\ \A t \in A : Min(A) <= t
    BY <1>1, LeastExists DEF Min
<1>4. \E t \in B : \A u \in B : u <= t
    BY <1>2, GreatestExists
<1>5. \E t \in B : \A u \in B : t >= u
    BY <1>2, <1>4
<1>6. Max(B) \in B /\ \A t \in B : Max(B) >= t
    BY <1>5 DEF Max
<1>7. /\ Min(A) \in Nat /\ Min(A) <= first /\ Max(B) \in Times /\ Max(B) \in Nat
      /\ last <= Max(B)
    BY <1>1, <1>2, <1>3, <1>6
<1>8. Min(A) <= Max(B)
    BY <1>7 DEF Times
<1> QED
    BY <1>7, <1>8 DEF A, B

\* An observation that the code takes for a candidate leaves it sound: either
\* had the key of the other, or none.  It adds aliases, and a review stays.
LEMMA ObservedSound ==
    ASSUME NEW c, NEW cf \in Configs, SoundCandidate(c, cf), Justified(c, vouched),
           vouched \subseteq Keys, NEW at \in Times, NEW o \in Observations,
           o.fingerprint # NoKey => c.fingerprint \in {NoKey, o.fingerprint}
    PROVE  /\ SoundCandidate(Observed(c, o, cf, at), cf)
           /\ Justified(Observed(c, o, cf, at), vouched)
           /\ Observed(c, o, cf, at).fingerprint =
                IF o.fingerprint # NoKey THEN o.fingerprint ELSE c.fingerprint
           /\ Observed(c, o, cf, at).aliases = c.aliases \cup o.aliases
           /\ Reviewed(c) => Reviewed(Observed(c, o, cf, at))
           /\ c.state = "ignored" => Observed(c, o, cf, at).state = "ignored"
<1> DEFINE key == IF o.fingerprint # NoKey THEN o.fingerprint ELSE c.fingerprint
           known == [c EXCEPT !.fingerprint = key,
                           !.aliases = @ \cup o.aliases,
                           !.firstSeen = Min({@, at}),
                           !.lastSeen = Max({@, at}),
                           !.state = IF o.fingerprint # NoKey /\ @ = "discovered"
                                       THEN "identity_pending" ELSE @]
           seen == Observed(c, o, cf, at)
<1> SUFFICES /\ SoundCandidate(seen, cf) /\ Justified(seen, vouched)
             /\ seen.fingerprint = key
             /\ seen.aliases = c.aliases \cup o.aliases
             /\ Reviewed(c) => Reviewed(seen)
             /\ c.state = "ignored" => seen.state = "ignored"
    BY DEF seen
<1>1. c \in Candidates /\ NoKey \notin Keys
    BY CandidateAssumption DEF SoundCandidate, validCandidate
<1>2. o.fingerprint \in Keys \cup {NoKey} /\ o.aliases \subseteq Aliases
    BY DEF Observations
<1>3. /\ key \in Keys \cup {NoKey}
      /\ Min({c.firstSeen, at}) \in Nat /\ Max({c.lastSeen, at}) \in Times
      /\ Min({c.firstSeen, at}) <= Max({c.lastSeen, at})
  <2>1. /\ c.firstSeen \in Nat /\ c.lastSeen \in Times /\ c.firstSeen <= c.lastSeen
        /\ {at} \in SUBSET Nat /\ {at} \in SUBSET Times
    BY <1>1 DEF Candidates, SoundCandidate, validCandidate, Times
  <2>2. {c.firstSeen, at} = {c.firstSeen} \cup {at} /\ {c.lastSeen, at} = {c.lastSeen} \cup {at}
    OBVIOUS
  <2> QED
    BY <1>1, <1>2, <2>1, <2>2, MinMaxTimes DEF Candidates
<1>4. /\ known \in Candidates /\ known.fingerprint = key /\ known.aliases = c.aliases \cup o.aliases
      /\ known.state = IF o.fingerprint # NoKey /\ c.state = "discovered"
                         THEN "identity_pending" ELSE c.state
      /\ known.configuredNames = c.configuredNames
      /\ known.verifiedAt = c.verifiedAt /\ known.ignoredAt = c.ignoredAt
      /\ known.firstSeen <= known.lastSeen /\ known.lastSeen \in Times
  <2> DEFINE early == Min({c.firstSeen, at})
             late == Max({c.lastSeen, at})
  <2>1. /\ key \in Keys \cup {NoKey} /\ early \in Nat /\ late \in Times /\ early <= late
        /\ late \in Nat
    BY <1>3 DEF Times
  <2>2. known = [c EXCEPT !.fingerprint = key, !.aliases = c.aliases \cup o.aliases,
                          !.firstSeen = early, !.lastSeen = late,
                          !.state = IF o.fingerprint # NoKey /\ c.state = "discovered"
                                      THEN "identity_pending" ELSE c.state]
    BY <1>1 DEF Candidates
  <2> HIDE DEF early, late, known, key
  <2> QED
    BY <1>1, <1>2, <2>1, <2>2 DEF Candidates, States
<1>5. seen = IF key \in Keys /\ cf[key] # {} THEN Label(known, cf[key]) ELSE known
    BY DEF Observed
<1>6. CASE key \in Keys /\ cf[key] # {}
  <2>1. cf[key] \subseteq DeviceNames
    BY <1>6, LabelType
  <2>2. /\ seen \in Candidates /\ seen.fingerprint = key /\ seen.aliases = c.aliases \cup o.aliases
        /\ seen.state = IF known.state # "ignored" THEN "verified" ELSE known.state
        /\ seen.configuredNames = cf[key]
        /\ seen.verifiedAt = c.verifiedAt /\ seen.ignoredAt = c.ignoredAt
        /\ seen.firstSeen = known.firstSeen /\ seen.lastSeen = known.lastSeen
    <3> HIDE DEF known, key, seen
    <3> QED
      BY <1>4, <1>5, <1>6, <2>1 DEF Candidates, States, Label
  <2> HIDE DEF known, seen
  <2> QED
    BY <1>1, <1>2, <1>3, <1>4, <1>6, <2>2
    DEF SoundCandidate, Justified, validCandidate, LabelOf, Reviewed, Candidates
<1>7. CASE ~(key \in Keys /\ cf[key] # {})
  <2>1. seen = known
    BY <1>5, <1>7
  <2> HIDE DEF known, seen
  <2> QED
    BY <1>1, <1>2, <1>3, <1>4, <1>7, <2>1
    DEF SoundCandidate, Justified, validCandidate, LabelOf, Reviewed, Candidates, States, Observations
<1> QED
    BY <1>6, <1>7

\* A new candidate is sound once it has been observed.
LEMMA NewSound ==
    ASSUME NEW cf \in Configs, vouched \subseteq Keys, NEW at \in Times, NEW o \in Observations
    PROVE  /\ SoundCandidate(Observed(NewCandidate(at), o, cf, at), cf)
           /\ Justified(Observed(NewCandidate(at), o, cf, at), vouched)
           /\ Observed(NewCandidate(at), o, cf, at).fingerprint = o.fingerprint
<1> DEFINE known == [NewCandidate(at) EXCEPT !.fingerprint = o.fingerprint,
                           !.aliases = @ \cup o.aliases,
                           !.firstSeen = Min({@, at}),
                           !.lastSeen = Max({@, at}),
                           !.state = IF o.fingerprint # NoKey /\ @ = "discovered"
                                       THEN "identity_pending" ELSE @]
           seen == Observed(NewCandidate(at), o, cf, at)
<1> SUFFICES /\ SoundCandidate(seen, cf) /\ Justified(seen, vouched)
             /\ seen.fingerprint = o.fingerprint
    BY DEF seen
<1>1. /\ NoKey \notin Keys /\ at \in Nat
      /\ Min({at, at}) = at /\ Max({at, at}) = at
    BY CandidateAssumption DEF Times, Min, Max
<1>2. o.fingerprint \in Keys \cup {NoKey} /\ o.aliases \subseteq Aliases
    BY DEF Observations
<1>3. /\ known \in Candidates /\ known.fingerprint = o.fingerprint /\ known.aliases = o.aliases
      /\ known.state = IF o.fingerprint # NoKey THEN "identity_pending" ELSE "discovered"
      /\ known.configuredNames = {} /\ ~known.verifiedAt /\ ~known.ignoredAt
      /\ known.firstSeen = at /\ known.lastSeen = at
    BY <1>1, <1>2 DEF Candidates, States, NewCandidate
<1>4. seen = IF o.fingerprint \in Keys /\ cf[o.fingerprint] # {}
               THEN Label(known, cf[o.fingerprint]) ELSE known
    BY <1>1, <1>2 DEF Observed, NewCandidate
<1>5. CASE o.fingerprint \in Keys /\ cf[o.fingerprint] # {}
  <2>1. cf[o.fingerprint] \subseteq DeviceNames
    BY <1>5, LabelType
  <2>2. /\ seen \in Candidates /\ seen.fingerprint = o.fingerprint /\ seen.aliases = o.aliases
        /\ seen.state = "verified" /\ seen.configuredNames = cf[o.fingerprint]
        /\ ~seen.verifiedAt /\ ~seen.ignoredAt
        /\ seen.firstSeen = at /\ seen.lastSeen = at
    <3> HIDE DEF known, seen
    <3> QED
      BY <1>1, <1>3, <1>4, <1>5, <2>1 DEF Candidates, States, Label
  <2> HIDE DEF known, seen
  <2>3. validCandidate(seen)
    BY <1>1, <1>5, <2>2 DEF validCandidate
  <2>4. LabelOf(cf, seen) = cf[o.fingerprint]
    BY <1>1, <1>5, <2>2 DEF LabelOf
  <2> QED
    BY <1>5, <2>2, <2>3, <2>4 DEF SoundCandidate, Justified
<1>6. CASE ~(o.fingerprint \in Keys /\ cf[o.fingerprint] # {})
  <2>1. seen = known
    BY <1>4, <1>6
  <2> HIDE DEF known, seen
  <2>2. o.fingerprint = NoKey => o.aliases # {}
    BY DEF Observations
  <2>3. validCandidate(seen)
    BY <1>1, <1>2, <1>3, <2>1, <2>2 DEF validCandidate
  <2>4. LabelOf(cf, seen) = {}
    BY <1>2, <1>3, <1>6, <2>1 DEF LabelOf
  <2>5. SoundCandidate(seen, cf)
    BY <1>3, <2>1, <2>3, <2>4 DEF SoundCandidate
  <2>6. Justified(seen, vouched)
    BY <1>3, <2>1 DEF Justified
  <2> QED
    BY <1>3, <2>1, <2>5, <2>6
<1> QED
    BY <1>5, <1>6

\* Folding pending aliases into a candidate leaves it sound; it is ignored
\* when it was, or when one of them was.
LEMMA AbsorbSound ==
    ASSUME NEW c, NEW cf, SoundCandidate(c, cf), Justified(c, vouched),
           NEW S, S \subseteq Candidates, \A s \in S : s.lastSeen \in Times
    PROVE  /\ SoundCandidate(Absorb(c, S), cf) /\ Justified(Absorb(c, S), vouched)
           /\ Absorb(c, S).fingerprint = c.fingerprint
           /\ c.aliases \subseteq Absorb(c, S).aliases
           /\ \A s \in S : s.aliases \subseteq Absorb(c, S).aliases
           /\ Reviewed(c) => Reviewed(Absorb(c, S))
           /\ c.state = "ignored" \/ (\E s \in S : s.state = "ignored") =>
                Absorb(c, S).state = "ignored"
<1> DEFINE d == Absorb(c, S)
           all == c.aliases \cup UNION {s.aliases : s \in S}
           early == Min({c.firstSeen} \cup {s.firstSeen : s \in S})
           late == Max({c.lastSeen} \cup {s.lastSeen : s \in S})
<1> SUFFICES /\ SoundCandidate(d, cf) /\ Justified(d, vouched)
             /\ d.fingerprint = c.fingerprint
             /\ c.aliases \subseteq d.aliases
             /\ \A s \in S : s.aliases \subseteq d.aliases
             /\ Reviewed(c) => Reviewed(d)
             /\ c.state = "ignored" \/ (\E s \in S : s.state = "ignored") => d.state = "ignored"
    BY DEF d
<1>1. c \in Candidates /\ all \subseteq Aliases
    BY DEF SoundCandidate, validCandidate, Candidates
<1>4. early \in Nat /\ late \in Times /\ early <= late /\ late \in Nat
  <2> DEFINE T == {s.firstSeen : s \in S}
             U == {s.lastSeen : s \in S}
  <2>1. /\ T \in SUBSET Nat /\ U \in SUBSET Times
        /\ c.firstSeen \in Nat /\ c.lastSeen \in Times /\ c.firstSeen <= c.lastSeen
    BY DEF Candidates, SoundCandidate, validCandidate
  <2>2. early = Min({c.firstSeen} \cup T) /\ late = Max({c.lastSeen} \cup U)
    OBVIOUS
  <2> HIDE DEF early, late, T, U
  <2>3. early \in Nat /\ late \in Times /\ early <= late
    BY <2>1, <2>2, MinMaxTimes
  <2> QED
    BY <2>3 DEF Times
<1>2. CASE \E s \in S : s.state = "ignored"
  <2>1. d = [c EXCEPT !.aliases = all, !.firstSeen = early, !.lastSeen = late,
                    !.state = "ignored", !.ignoredAt = TRUE]
    BY <1>1, <1>2 DEF Absorb, Candidates
  <2>2. /\ d \in Candidates /\ d.fingerprint = c.fingerprint /\ d.aliases = all
        /\ d.state = "ignored" /\ d.ignoredAt /\ d.configuredNames = c.configuredNames
        /\ d.verifiedAt = c.verifiedAt /\ d.firstSeen = early /\ d.lastSeen = late
    <3> HIDE DEF d, all, early, late
    <3> QED
      BY <1>1, <1>4, <2>1 DEF Candidates, States
  <2>3. c.aliases \subseteq all /\ \A s \in S : s.aliases \subseteq all
    OBVIOUS
  <2> HIDE DEF d, all, early, late
  <2> QED
    BY <1>1, <1>2, <1>4, <2>2, <2>3
    DEF SoundCandidate, Justified, validCandidate, LabelOf, Reviewed
<1>3. CASE ~\E s \in S : s.state = "ignored"
  <2>1. d = [c EXCEPT !.aliases = all, !.firstSeen = early, !.lastSeen = late]
    BY <1>1, <1>3 DEF Absorb, Candidates
  <2>2. /\ d \in Candidates /\ d.fingerprint = c.fingerprint /\ d.aliases = all
        /\ d.state = c.state /\ d.ignoredAt = c.ignoredAt
        /\ d.configuredNames = c.configuredNames /\ d.verifiedAt = c.verifiedAt
        /\ d.firstSeen = early /\ d.lastSeen = late
    <3> HIDE DEF d, all, early, late
    <3> QED
      BY <1>1, <1>4, <2>1 DEF Candidates, States
  <2>3. c.aliases \subseteq all /\ \A s \in S : s.aliases \subseteq all
    OBVIOUS
  <2> HIDE DEF d, all, early, late
  <2> QED
    BY <1>1, <1>3, <1>4, <2>2, <2>3
    DEF SoundCandidate, Justified, validCandidate, LabelOf, Reviewed
<1> QED
    BY <1>2, <1>3

\* The operator's three decisions leave a candidate sound.
LEMMA MarkedSound ==
    ASSUME NEW c, NEW cf, SoundCandidate(c, cf), c.fingerprint # NoKey
    PROVE  /\ SoundCandidate(Marked(c), cf)
           /\ Justified(Marked(c), vouched \cup {c.fingerprint})
           /\ Marked(c).fingerprint = c.fingerprint
<1>1. c \in Candidates
    BY DEF SoundCandidate, validCandidate
<1>2. /\ Marked(c) \in Candidates /\ Marked(c).fingerprint = c.fingerprint
      /\ Marked(c).firstSeen = c.firstSeen /\ Marked(c).lastSeen = c.lastSeen
      /\ Marked(c).aliases = c.aliases /\ Marked(c).state = "verified"
      /\ ~Marked(c).ignoredAt /\ Marked(c).configuredNames = c.configuredNames
    BY <1>1 DEF Marked, Candidates, States
<1> QED
    BY <1>2 DEF SoundCandidate, Justified, validCandidate, LabelOf

\* An ignored candidate keeps what it is known by.
LEMMA IgnoredSound ==
    ASSUME NEW c, NEW cf, SoundCandidate(c, cf), Justified(c, vouched)
    PROVE  /\ SoundCandidate(Ignored(c), cf) /\ Justified(Ignored(c), vouched)
           /\ Ignored(c).fingerprint = c.fingerprint
           /\ Ignored(c).aliases = c.aliases /\ Ignored(c).state = "ignored"
<1>1. c \in Candidates
    BY DEF SoundCandidate, validCandidate
<1>2. /\ Ignored(c) \in Candidates /\ Ignored(c).fingerprint = c.fingerprint
      /\ Ignored(c).firstSeen = c.firstSeen /\ Ignored(c).lastSeen = c.lastSeen
      /\ Ignored(c).aliases = c.aliases /\ Ignored(c).state = "ignored"
      /\ Ignored(c).ignoredAt /\ Ignored(c).configuredNames = c.configuredNames
      /\ Ignored(c).verifiedAt = c.verifiedAt
    BY <1>1 DEF Ignored, Candidates, States
<1> QED
    BY <1>2 DEF SoundCandidate, Justified, validCandidate, LabelOf

\* A restored candidate has the state that its key and its labels call for.
LEMMA RestoredSound ==
    ASSUME NEW c, NEW cf, SoundCandidate(c, cf), Justified(c, vouched), vouched \subseteq Keys
    PROVE  /\ SoundCandidate(Restored(c), cf) /\ Justified(Restored(c), vouched)
           /\ Restored(c).fingerprint = c.fingerprint
<1>1. c \in Candidates
    BY DEF SoundCandidate, validCandidate
<1>2. /\ Restored(c) \in Candidates /\ Restored(c).fingerprint = c.fingerprint
      /\ Restored(c).firstSeen = c.firstSeen /\ Restored(c).lastSeen = c.lastSeen
      /\ Restored(c).aliases = c.aliases /\ ~Restored(c).ignoredAt
      /\ Restored(c).configuredNames = c.configuredNames
      /\ Restored(c).verifiedAt = c.verifiedAt
      /\ Restored(c).state = IF c.fingerprint = NoKey THEN "discovered"
                             ELSE IF c.configuredNames # {} \/ c.verifiedAt THEN "verified"
                             ELSE "identity_pending"
    BY <1>1 DEF Restored, Candidates, States
<1> HIDE DEF Restored
<1> QED
    BY <1>2 DEF SoundCandidate, Justified, validCandidate, LabelOf

\* New labels leave a candidate sound, and one whose label stays as it was.
LEMMA RelabelledSound ==
    ASSUME NEW c, NEW cf \in Configs, SoundCandidate(c, cf), Justified(c, vouched),
           NEW next \in Configs
    PROVE  /\ SoundCandidate(Relabelled(c, LabelOf(next, c)), next)
           /\ Justified(Relabelled(c, LabelOf(next, c)), vouched)
           /\ Relabelled(c, LabelOf(next, c)).fingerprint = c.fingerprint
           /\ Relabelled(c, LabelOf(next, c)).aliases = c.aliases
           /\ c.state = "ignored" => Relabelled(c, LabelOf(next, c)).state = "ignored"
           /\ Relabelled(c, LabelOf(next, c)).configuredNames = c.configuredNames =>
                Relabelled(c, LabelOf(next, c)) = c
<1> DEFINE names == LabelOf(next, c)
           d == Relabelled(c, names)
<1>1. c \in Candidates
    BY DEF SoundCandidate, validCandidate
<1>2. names \subseteq DeviceNames /\ (c.fingerprint = NoKey => names = {})
    BY <1>1, LabelType DEF LabelOf, Candidates
<1> HIDE DEF names
<1>3. CASE names = {} /\ c.configuredNames # {} /\ c.state = "verified" /\ ~c.verifiedAt
  <2>1. d = [c EXCEPT !.configuredNames = {}, !.state = "identity_pending"]
    BY <1>3 DEF Relabelled
  <2>2. /\ d \in Candidates /\ d.fingerprint = c.fingerprint /\ d.aliases = c.aliases
        /\ d.firstSeen = c.firstSeen /\ d.lastSeen = c.lastSeen
        /\ d.state = "identity_pending" /\ d.configuredNames = {}
        /\ d.verifiedAt = c.verifiedAt /\ d.ignoredAt = c.ignoredAt
    <3> HIDE DEF d
    <3> QED
      BY <1>1, <2>1 DEF Candidates, States
  <2>3. LabelOf(next, d) = names
    BY <2>2 DEF LabelOf, names
  <2> HIDE DEF d
  <2>4. SoundCandidate(d, next) /\ Justified(d, vouched) /\ d.fingerprint = c.fingerprint
        /\ d.aliases = c.aliases /\ c.state # "ignored" /\ d.configuredNames # c.configuredNames
    BY <1>3, <2>2, <2>3 DEF SoundCandidate, Justified, validCandidate
  <2> QED
    BY <2>4 DEF d, names
<1>4. CASE ~(names = {} /\ c.configuredNames # {} /\ c.state = "verified" /\ ~c.verifiedAt)
  <2>1. d = [c EXCEPT !.configuredNames = names,
                      !.state = IF names # {} /\ @ # "ignored" THEN "verified" ELSE @]
    BY <1>4 DEF Relabelled, Label
  <2>2. /\ d \in Candidates /\ d.fingerprint = c.fingerprint /\ d.aliases = c.aliases
        /\ d.firstSeen = c.firstSeen /\ d.lastSeen = c.lastSeen
        /\ d.state = IF names # {} /\ c.state # "ignored" THEN "verified" ELSE c.state
        /\ d.configuredNames = names
        /\ d.verifiedAt = c.verifiedAt /\ d.ignoredAt = c.ignoredAt
    <3> HIDE DEF d
    <3> QED
      BY <1>1, <1>2, <2>1 DEF Candidates, States
  <2>3. LabelOf(next, d) = names
    BY <2>2 DEF LabelOf, names
  <2>4. d.configuredNames = c.configuredNames => d = c
    <3>1. d.configuredNames = c.configuredNames => d.state = c.state /\ names = c.configuredNames
      BY <2>2 DEF SoundCandidate
    <3> HIDE DEF d
    <3> QED
      BY <1>1, <2>1, <2>2, <3>1 DEF Candidates
  <2> HIDE DEF d
  <2>5. SoundCandidate(d, next) /\ Justified(d, vouched)
    BY <1>2, <1>4, <2>2, <2>3 DEF SoundCandidate, Justified, validCandidate
  <2>6. c.state = "ignored" => d.state = "ignored"
    BY <2>2
  <2> QED
    BY <2>2, <2>4, <2>5, <2>6 DEF d, names
<1> QED
    BY <1>3, <1>4

-----------------------------------------------------------------------------
(* What happens to an inbox *)

\* An inbox stays sound while events are numbered and keys verified.
LEMMA SoundLater ==
    ASSUME NEW es, NEW cf, NEW sq \in Nat, NEW keys, Sound(es, cf, sq, keys),
           NEW n \in Nat, sq <= n, NEW more, keys \subseteq more
    PROVE  Sound(es, cf, n, more)
  BY DEF Sound, Justified

\* Candidates may go.
LEMMA SoundWithout ==
    ASSUME NEW es, NEW cf, NEW sq \in Nat, NEW keys, Sound(es, cf, sq, keys), NEW S
    PROVE  /\ Sound(Without(es, S), cf, sq, keys)
           /\ DOMAIN Without(es, S) = DOMAIN es \ S
           /\ \A i \in DOMAIN es \ S : Without(es, S)[i] = es[i]
<1>1. /\ DOMAIN Without(es, S) = DOMAIN es \ S
      /\ \A i \in DOMAIN es \ S : Without(es, S)[i] = es[i]
      /\ Without(es, S) = [i \in DOMAIN Without(es, S) |-> Without(es, S)[i]]
    BY DEF Without
<1>2. /\ IsFiniteSet(DOMAIN es \ S)
      /\ Cardinality(DOMAIN es \ S) \in Nat /\ Cardinality(DOMAIN es) \in Nat
      /\ Cardinality(DOMAIN es \ S) <= Cardinality(DOMAIN es)
    BY FS_Subset, FS_CardinalityType DEF Sound
<1>3. Cardinality(DOMAIN es \ S) <= MaxEntries
    BY <1>2, InboxAssumption DEF Sound
<1> QED
    BY <1>1, <1>2, <1>3 DEF Sound, DistinctKeys

\* A candidate may come or change, when there is room and no other has its key.
LEMMA SoundWith ==
    ASSUME NEW es, NEW cf, NEW sq \in Nat, NEW keys, Sound(es, cf, sq, keys),
           NEW i \in 1 .. sq, NEW c, SoundCandidate(c, cf), Justified(c, keys),
           i \in DOMAIN es \/ Cardinality(DOMAIN es) < MaxEntries,
           \A j \in DOMAIN es \ {i} : c.fingerprint # NoKey => es[j].fingerprint # c.fingerprint
    PROVE  /\ Sound(With(es, i, c), cf, sq, keys)
           /\ DOMAIN With(es, i, c) = DOMAIN es \cup {i}
           /\ With(es, i, c)[i] = c
           /\ \A j \in DOMAIN es \ {i} : With(es, i, c)[j] = es[j]
<1>1. /\ DOMAIN With(es, i, c) = DOMAIN es \cup {i}
      /\ With(es, i, c)[i] = c
      /\ \A j \in DOMAIN es \ {i} : With(es, i, c)[j] = es[j]
      /\ With(es, i, c) = [j \in DOMAIN With(es, i, c) |-> With(es, i, c)[j]]
    BY DEF With
<1>2. IsFiniteSet(DOMAIN es \cup {i}) /\ Cardinality(DOMAIN es \cup {i}) <= MaxEntries
  <2>1. CASE i \in DOMAIN es
    <3>1. DOMAIN es \cup {i} = DOMAIN es
      BY <2>1
    <3> QED
      BY <3>1 DEF Sound
  <2>2. CASE i \notin DOMAIN es
    <3>1. /\ IsFiniteSet(DOMAIN es \cup {i})
          /\ Cardinality(DOMAIN es \cup {i}) = Cardinality(DOMAIN es) + 1
      BY <2>2, FS_AddElement DEF Sound
    <3>2. Cardinality(DOMAIN es) \in Nat
      BY FS_CardinalityType DEF Sound
    <3> QED
      BY <2>2, <3>1, <3>2, InboxAssumption
  <2> QED
    BY <2>1, <2>2
<1>3. ASSUME NEW j \in DOMAIN es \cup {i}, NEW m \in DOMAIN es \cup {i}, j # m,
             With(es, i, c)[j].fingerprint # NoKey
      PROVE  With(es, i, c)[j].fingerprint # With(es, i, c)[m].fingerprint
  <2>1. CASE j = i
    BY <1>1, <1>3, <2>1
  <2>2. CASE m = i
    BY <1>1, <1>3, <2>2
  <2>3. CASE j # i /\ m # i
    <3>1. j \in DOMAIN es /\ m \in DOMAIN es
      BY <1>3, <2>3
    <3> QED
      BY <1>1, <1>3, <2>3, <3>1 DEF Sound, DistinctKeys
  <2> QED
    BY <2>1, <2>2, <2>3
<1>4. DistinctKeys(With(es, i, c))
    BY <1>1, <1>3 DEF DistinctKeys
<1>5. \A j \in DOMAIN es \cup {i} :
        SoundCandidate(With(es, i, c)[j], cf) /\ Justified(With(es, i, c)[j], keys)
    BY <1>1 DEF Sound
<1> QED
    BY <1>1, <1>2, <1>4, <1>5 DEF Sound

\* A change of one candidate, as a method writes it.
LEMMA ExceptIsWith ==
    ASSUME NEW es, es = [i \in DOMAIN es |-> es[i]], NEW i \in DOMAIN es, NEW c
    PROVE  [es EXCEPT ![i] = c] = With(es, i, c)
<1>1. DOMAIN es \cup {i} = DOMAIN es
    OBVIOUS
<1> QED
    BY <1>1 DEF With

\* Every candidate may get a new label.
LEMMA SoundRelabelled ==
    ASSUME NEW es, NEW cf \in Configs, NEW sq \in Nat, Sound(es, cf, sq, vouched),
           NEW next \in Configs, NEW rs,
           rs = [i \in DOMAIN es |-> Relabelled(es[i], LabelOf(next, es[i]))]
    PROVE  /\ Sound(rs, next, sq, vouched)
           /\ DOMAIN rs = DOMAIN es
           /\ \A i \in DOMAIN es : /\ rs[i].fingerprint = es[i].fingerprint
                                   /\ rs[i].aliases = es[i].aliases
                                   /\ es[i].state = "ignored" => rs[i].state = "ignored"
           /\ (\A i \in DOMAIN es : rs[i].configuredNames = es[i].configuredNames) => rs = es
<1>1. DOMAIN rs = DOMAIN es
    OBVIOUS
<1>2. ASSUME NEW i \in DOMAIN es
      PROVE  /\ SoundCandidate(rs[i], next) /\ Justified(rs[i], vouched)
             /\ rs[i].fingerprint = es[i].fingerprint
             /\ rs[i].aliases = es[i].aliases
             /\ es[i].state = "ignored" => rs[i].state = "ignored"
             /\ rs[i].configuredNames = es[i].configuredNames => rs[i] = es[i]
  <2>1. rs[i] = Relabelled(es[i], LabelOf(next, es[i]))
    OBVIOUS
  <2>2. SoundCandidate(es[i], cf) /\ Justified(es[i], vouched)
    BY DEF Sound
  <2> QED
    BY <2>1, <2>2, RelabelledSound
<1>3. DistinctKeys(rs)
    BY <1>1, <1>2 DEF Sound, DistinctKeys
<1>4. rs = [i \in DOMAIN rs |-> rs[i]]
    OBVIOUS
<1>5. Sound(rs, next, sq, vouched)
    BY <1>1, <1>2, <1>3, <1>4 DEF Sound
<1>6. (\A i \in DOMAIN es : rs[i].configuredNames = es[i].configuredNames) => rs = es
  <2> SUFFICES ASSUME \A i \in DOMAIN es : rs[i].configuredNames = es[i].configuredNames
               PROVE  rs = es
    OBVIOUS
  <2>1. \A i \in DOMAIN es : rs[i] = es[i]
    BY <1>2
  <2>2. es = [i \in DOMAIN es |-> es[i]]
    BY DEF Sound
  <2> QED
    BY <1>1, <1>4, <2>1, <2>2
<1> QED
    BY <1>1, <1>2, <1>5, <1>6

\* The empty inbox is sound.
LEMMA SoundNone ==
    ASSUME NEW cf, NEW sq \in Nat, NEW keys
    PROVE  Sound(None, cf, sq, keys)
<1>1. DOMAIN None = {} /\ None = [i \in DOMAIN None |-> None[i]]
    BY DEF None
<1>2. IsFiniteSet({}) /\ Cardinality({}) = 0
    BY FS_EmptySet
<1> QED
    BY <1>1, <1>2, InboxAssumption DEF Sound, DistinctKeys

-----------------------------------------------------------------------------
(* Events *)

\* What makeEventLocked makes is an event.
LEMMA EventType ==
    ASSUME NEW n \in Nat, NEW type \in EventTypes, NEW i \in Nat,
           NEW view, view \subseteq Candidates, NEW merged, merged \subseteq Nat
    PROVE  Event(n, type, i, view, merged) \in EventRecord
           /\ Event(n, type, i, view, merged).sequence = n
           /\ Event(n, type, i, view, merged).id = i
           /\ Event(n, type, i, view, merged).type = type
  BY DEF Event, EventRecord

\* Events that are made for the elements of a set are as many.
LEMMA OrderedEvents ==
    ASSUME NEW n \in Nat, NEW sq \in Nat, NEW evs \in [1 .. n -> EventRecord],
           \A m \in 1 .. n : evs[m].sequence = sq + m
    PROVE  Numbered(evs, sq + n) /\ Len(evs) = n
<1>1. evs \in Seq(EventRecord) /\ Len(evs) = n /\ DOMAIN evs = 1 .. n
    OBVIOUS
<1>2. \A m \in DOMAIN evs : evs[m].sequence <= sq + n
    BY <1>1
<1> QED
    BY <1>1, <1>2 DEF Numbered

\* The events of the candidates that go.
LEMMA RemovalEvents ==
    ASSUME sequence \in Nat, NEW S, S \subseteq Nat, Cardinality(S) \in Nat,
           NEW order \in Orders(S), NEW type \in EventTypes
    PROVE  /\ Numbered(Removals(order, type), sequence + Cardinality(S))
           /\ Len(Removals(order, type)) = Cardinality(S)
<1> DEFINE n == Cardinality(S)
           evs == Removals(order, type)
<1>1. DOMAIN order = 1 .. n /\ \A m \in 1 .. n : order[m] \in Nat
    BY DEF Orders
<1>2. evs = [m \in 1 .. n |-> Event(sequence + m, type, order[m], {}, {})]
    BY <1>1 DEF Removals
<1>3. ASSUME NEW m \in 1 .. n
      PROVE  evs[m] \in EventRecord /\ evs[m].sequence = sequence + m
  <2>1. evs[m] = Event(sequence + m, type, order[m], {}, {})
    BY <1>2
  <2>2. sequence + m \in Nat /\ order[m] \in Nat /\ {} \subseteq Candidates /\ {} \subseteq Nat
    BY <1>1
  <2> QED
    BY <2>1, <2>2, EventType
<1> HIDE DEF n, evs
<1>4. evs \in [1 .. n -> EventRecord] /\ n \in Nat
    BY <1>2, <1>3 DEF n
<1>5. Numbered(evs, sequence + n) /\ Len(evs) = n
    BY <1>3, <1>4, OrderedEvents
<1> QED
    BY <1>5 DEF n, evs

\* One event.
LEMMA OneEvent ==
    ASSUME NEW e \in EventRecord, NEW sq \in Nat, e.sequence <= sq
    PROVE  Numbered(<<e>>, sq) /\ Len(<<e>>) = 1
  BY DEF Numbered

\* Events that follow events.
LEMMA NumberedJoin ==
    ASSUME NEW s, NEW t, NEW sq \in Nat, NEW n \in Nat, sq <= n,
           Numbered(s, sq), Numbered(t, n)
    PROVE  /\ Numbered(s \o t, n) /\ Len(s \o t) = Len(s) + Len(t)
           /\ t # <<>> => (s \o t)[Len(s \o t)] = t[Len(t)]
<1>1. /\ s \in Seq(EventRecord) /\ t \in Seq(EventRecord)
      /\ s \o t \in Seq(EventRecord) /\ Len(s \o t) = Len(s) + Len(t)
    BY DEF Numbered
<1>2. ASSUME NEW m \in DOMAIN (s \o t)
      PROVE  (s \o t)[m].sequence <= n
  <2>1. m \in 1 .. Len(s) + Len(t)
    BY <1>1
  <2>2. CASE m <= Len(s)
    <3>1. (s \o t)[m] = s[m] /\ m \in DOMAIN s
      BY <1>1, <2>1, <2>2
    <3>2. s[m] \in EventRecord /\ s[m].sequence <= sq
      BY <1>1, <3>1 DEF Numbered
    <3>3. s[m].sequence \in Nat
      BY <3>2 DEF EventRecord
    <3> QED
      BY <3>1, <3>2, <3>3
  <2>3. CASE m > Len(s)
    <3>1. (s \o t)[m] = t[m - Len(s)] /\ m - Len(s) \in DOMAIN t
      BY <1>1, <2>1, <2>3
    <3> QED
      BY <3>1 DEF Numbered
  <2> QED
    BY <1>1, <2>1, <2>2, <2>3
<1> QED
    BY <1>1, <1>2 DEF Numbered

\* The bounded history keeps the latest events.
LEMMA RetainedEvents ==
    ASSUME NEW evs, NEW sq \in Nat, Numbered(evs, sq)
    PROVE  /\ Numbered(Retained(evs), sq)
           /\ evs # <<>> => /\ Retained(evs) # <<>>
                            /\ Retained(evs)[Len(Retained(evs))] = evs[Len(evs)]
<1>1. evs \in Seq(EventRecord) /\ Len(evs) \in Nat /\ MaxEvents \in Nat \ {0}
    BY InboxAssumption DEF Numbered
<1>2. CASE Len(evs) > MaxEvents
  <2> DEFINE from == Len(evs) - MaxEvents + 1
  <2>1. from \in 1 .. Len(evs) /\ Retained(evs) = SubSeq(evs, from, Len(evs))
    BY <1>1, <1>2 DEF Retained
  <2> HIDE DEF from
  <2>2. /\ Retained(evs) \in Seq(EventRecord)
        /\ Len(Retained(evs)) = Len(evs) - from + 1
        /\ \A m \in 1 .. Len(evs) - from + 1 : Retained(evs)[m] = evs[from + m - 1]
    BY <1>1, <2>1
  <2>3. \A m \in DOMAIN Retained(evs) : from + m - 1 \in DOMAIN evs
    BY <1>1, <2>1, <2>2
  <2>4. \A m \in DOMAIN Retained(evs) : Retained(evs)[m].sequence <= sq
    BY <1>1, <2>1, <2>2, <2>3 DEF Numbered
  <2>5. Len(Retained(evs)) \in Nat \ {0}
        /\ Retained(evs)[Len(Retained(evs))] = evs[Len(evs)]
    BY <1>1, <2>1, <2>2
  <2> QED
    BY <2>2, <2>4, <2>5 DEF Numbered
<1>3. CASE ~(Len(evs) > MaxEvents)
    BY <1>3 DEF Retained
<1> QED
    BY <1>2, <1>3

-----------------------------------------------------------------------------
(* Saves, and steps of a round *)

\* What a method does with a sound new state, whatever its save does.
LEMMA CommitKeeps ==
    ASSUME InboxInv, Unlocked, UNCHANGED <<up, roundVars, now>>,
           vouched \subseteq vouched', vouched' \subseteq Keys,
           NEW es, NEW cf \in Configs, NEW evs, NEW res, Commit(es, cf, evs, res),
           Numbered(evs, sequence + Len(evs)),
           Sound(es, cf, sequence + Len(evs), vouched'),
           Len(evs) = 0 => es = entries
    PROVE  InboxInv'
<1> DEFINE sq == sequence + Len(evs)
<1>0. /\ sequence \in Nat /\ disk.sequence \in Nat /\ evs \in Seq(EventRecord)
      /\ Len(evs) \in Nat /\ sq \in Nat /\ sequence <= sq
    BY DEF InboxInv, TypeInv, FlagInv, Numbered
<1>1. ~ingesting /\ ~ingesting' /\ up /\ up' /\ now' = now
    BY DEF Unlocked, roundVars
<1>2. \/ disk' = disk /\ res # "ok"
      \/ disk' = [entries |-> es, configured |-> cf, sequence |-> sq]
    BY DEF Commit, Saved
<1>3. \/ res = "ok" /\ entries' = es /\ configured' = cf /\ sequence' = sq
            /\ events' = Retained(events \o evs)
      \/ UNCHANGED memVars
    BY DEF Commit
<1>4. TypeInv'
    BY <1>0, <1>1, <1>2, <1>3 DEF InboxInv, TypeInv, FlagInv, memVars, roundVars
<1>5. /\ Sound(entries, configured, sequence, vouched')
      /\ Sound(disk.entries, disk.configured, disk.sequence, vouched')
    BY <1>0, SoundLater DEF InboxInv, SoundInv
<1>6. Sound(entries', configured', sequence', vouched')
    BY <1>3, <1>5 DEF memVars
<1>7. Sound(disk'.entries, disk'.configured, disk'.sequence, vouched')
    BY <1>2, <1>5
<1>8. SoundInv'
    BY <1>1, <1>6, <1>7 DEF SoundInv
<1>9. EventInv'
  <2>1. Numbered(events, sequence)
    BY <1>1 DEF InboxInv, EventInv, PublicSequence
  <2>2. Numbered(Retained(events \o evs), sq)
    BY <1>0, <2>1, NumberedJoin, RetainedEvents
  <2>3. Numbered(events', sequence')
    BY <1>3, <2>1, <2>2 DEF memVars
  <2> QED
    BY <1>1, <2>3 DEF EventInv, PublicSequence
<1>10. RestartKeepsNumbers'
  <2>1. /\ disk.sequence >= sequence
        /\ disk.sequence = sequence => disk.entries = entries
    BY <1>1 DEF InboxInv, RestartKeepsNumbers, Public, PublicSequence
  <2>2. /\ disk'.sequence >= sequence'
        /\ disk'.sequence = sequence' => disk'.entries = entries'
    <3>1. CASE disk' = disk /\ res # "ok"
      BY <1>3, <2>1, <3>1 DEF memVars
    <3>2. CASE disk' = [entries |-> es, configured |-> cf, sequence |-> sq]
      <4>1. CASE entries' = es /\ sequence' = sq
        BY <1>0, <3>2, <4>1
      <4>2. CASE UNCHANGED memVars
        <5>1. entries' = entries /\ sequence' = sequence
          BY <4>2 DEF memVars
        <5>2. disk'.sequence = sq /\ disk'.entries = es
          BY <3>2
        <5>3. sq = sequence => es = entries
          BY <1>0
        <5> QED
          BY <1>0, <5>1, <5>2, <5>3
      <4> QED
        BY <1>3, <4>1, <4>2
    <3> QED
      BY <1>2, <3>1, <3>2
  <2> QED
    BY <1>1, <2>2 DEF RestartKeepsNumbers, Public, PublicSequence
<1> QED
    BY <1>4, <1>8, <1>9, <1>10 DEF InboxInv

\* An observation leaves a sound inbox with its events pending.
LEMMA RoundKeeps ==
    ASSUME InboxInv, ingesting,
           UNCHANGED <<up, configured, events, disk, ingesting, observedAt, before, now, vouched>>,
           NEW evs, pending' = pending \o evs, sequence' = sequence + Len(evs),
           Numbered(evs, sequence'), Sound(entries', configured, sequence', vouched)
    PROVE  InboxInv'
<1>0. /\ evs \in Seq(EventRecord) /\ Len(evs) \in Nat /\ Numbered(pending, sequence)
      /\ sequence \in Nat /\ sequence' \in Nat /\ sequence <= sequence' /\ up
      /\ before.sequence \in Nat /\ pending \in Seq(EventRecord)
      /\ sequence = before.sequence + Len(pending)
    BY DEF InboxInv, TypeInv, FlagInv, EventInv, Numbered
<1>1. TypeInv'
    BY <1>0 DEF InboxInv, TypeInv, FlagInv
<1>2. SoundInv'
    BY DEF InboxInv, SoundInv
<1>3. Numbered(pending', sequence') /\ Len(pending') = Len(pending) + Len(evs)
    BY <1>0, NumberedJoin
<1>4. sequence' = before'.sequence + Len(pending')
    BY <1>0, <1>3
<1>5. EventInv'
    BY <1>3, <1>4 DEF InboxInv, EventInv, PublicSequence
<1>6. RestartKeepsNumbers'
    BY DEF InboxInv, RestartKeepsNumbers, Public, PublicSequence
<1> QED
    BY <1>1, <1>2, <1>5, <1>6 DEF InboxInv

\* A round begins with the copies and without the candidates that expired.
LEMMA BeginKeeps ==
    ASSUME InboxInv, IngestBegin
    PROVE  InboxInv'
<1> DEFINE n == Cardinality(Stale)
<1>0. /\ sequence \in Nat /\ up /\ ~ingesting /\ Sound(entries, configured, sequence, vouched)
      /\ UNCHANGED <<up, configured, events, disk, now, vouched>>
      /\ ingesting' /\ ingesting' \in BOOLEAN
      /\ before' = [entries |-> entries, sequence |-> sequence]
      /\ entries' = Without(entries, Stale) /\ sequence' = sequence + n
    BY DEF InboxInv, TypeInv, FlagInv, SoundInv, IngestBegin, Unlocked
<1>1. n \in Nat /\ Stale \subseteq DOMAIN entries /\ \A i \in Stale : i \in Nat
    BY <1>0, FS_Subset, FS_CardinalityType DEF Sound, Stale
<1>2. sequence' \in Nat /\ sequence <= sequence'
    BY <1>0, <1>1
<1>3. PICK order \in Orders(Stale) : pending' = Removals(order, "expired")
    BY DEF IngestBegin
<1>4. Stale \subseteq Nat /\ "expired" \in EventTypes
    BY <1>1 DEF EventTypes
<1>5. Numbered(pending', sequence') /\ Len(pending') = n
    BY <1>0, <1>1, <1>3, <1>4, RemovalEvents
<1>6. TypeInv'
  <2>1. now \in Times /\ observedAt' \in 0 .. now
    BY DEF InboxInv, TypeInv, IngestBegin
  <2>2. observedAt' \in Times
    BY <2>1, InboxAssumption DEF Times
  <2> QED
    BY <1>0, <1>2, <2>2 DEF InboxInv, TypeInv, FlagInv
<1>7. Sound(entries', configured, sequence', vouched)
    BY <1>0, <1>2, SoundWithout, SoundLater
<1>8. SoundInv'
    BY <1>0, <1>7 DEF InboxInv, SoundInv
<1>9. EventInv'
    BY <1>0, <1>5 DEF InboxInv, EventInv, PublicSequence
<1>10. RestartKeepsNumbers'
    BY <1>0 DEF InboxInv, RestartKeepsNumbers, Public, PublicSequence
<1> QED
    BY <1>6, <1>8, <1>9, <1>10 DEF InboxInv

\* The candidates that ingestLocked may take an observation for have its key
\* or none; when none is chosen, none has its key.
LEMMA ChosenKeys ==
    ASSUME NEW o
    PROVE  /\ Chosen(o) \subseteq DOMAIN entries
           /\ \A i \in Chosen(o) : o.fingerprint # NoKey =>
                /\ entries[i].fingerprint \in {NoKey, o.fingerprint}
                /\ entries[i].fingerprint = NoKey =>
                     \A j \in DOMAIN entries : entries[j].fingerprint # o.fingerprint
           /\ Chosen(o) = {} /\ o.fingerprint # NoKey =>
                \A j \in DOMAIN entries : entries[j].fingerprint # o.fingerprint
<1> DEFINE m == Matching(o)
           same == {i \in m : entries[i].fingerprint = o.fingerprint}
<1>1. Chosen(o) = IF o.fingerprint = NoKey
                    THEN IF Cardinality(m) = 1 THEN m ELSE Bare(m)
                    ELSE IF same # {} THEN same ELSE Bare(m)
    BY DEF Chosen
<1>2. m \subseteq DOMAIN entries /\ Bare(m) \subseteq m
      /\ \A i \in Bare(m) : entries[i].fingerprint = NoKey
    BY DEF Matching, Bare
<1>3. o.fingerprint # NoKey =>
        \A j \in DOMAIN entries : entries[j].fingerprint = o.fingerprint => j \in same
    BY DEF Matching, Matches
<1> HIDE DEF m
<1> QED
    BY <1>1, <1>2, <1>3

\* The candidate and the pending aliases of the same host.
Seen(o, i)   == Observed(entries[i], o, configured, observedAt)
\* The aliases that are folded into it.
Folded(o, i) == IF Seen(o, i).fingerprint = NoKey THEN {} ELSE Bare(Matching(o)) \ {i}
\* What the round makes of it.
Merged(o, i) == Absorb(Seen(o, i), {entries[j] : j \in Folded(o, i)})

\* What an observation of a known candidate leaves of it, and takes away.
LEMMA KnownEffect ==
    ASSUME InboxInv, NEW o \in Sightings, NEW i \in Chosen(o)
    PROVE  /\ i \in DOMAIN entries
           /\ SoundCandidate(Merged(o, i), configured) /\ Justified(Merged(o, i), vouched)
           /\ Merged(o, i).fingerprint =
                IF o.fingerprint # NoKey THEN o.fingerprint ELSE entries[i].fingerprint
           /\ entries[i].aliases \subseteq Merged(o, i).aliases
           /\ Reviewed(entries[i]) => Reviewed(Merged(o, i))
           /\ entries[i].state = "ignored" => Merged(o, i).state = "ignored"
           /\ Folded(o, i) \subseteq DOMAIN entries \ {i}
           /\ \A j \in Folded(o, i) :
                /\ entries[j].fingerprint = NoKey
                /\ entries[j].aliases \subseteq Merged(o, i).aliases
                /\ entries[j].state = "ignored" => Merged(o, i).state = "ignored"
           /\ \A j \in DOMAIN entries \ {i} :
                Merged(o, i).fingerprint # NoKey =>
                    entries[j].fingerprint # Merged(o, i).fingerprint
           /\ o.fingerprint # NoKey => entries[i].fingerprint \in {NoKey, o.fingerprint}
<1>0. /\ o \in Observations /\ configured \in Configs /\ vouched \subseteq Keys /\ observedAt \in Times
      /\ Sound(entries, configured, sequence, vouched)
    BY InboxAssumption DEF InboxInv, TypeInv, FlagInv, SoundInv
<1>1. /\ i \in DOMAIN entries
      /\ o.fingerprint # NoKey =>
            /\ entries[i].fingerprint \in {NoKey, o.fingerprint}
            /\ entries[i].fingerprint = NoKey =>
                 \A j \in DOMAIN entries : entries[j].fingerprint # o.fingerprint
    BY ChosenKeys
<1>2. SoundCandidate(entries[i], configured) /\ Justified(entries[i], vouched)
    BY <1>0, <1>1 DEF Sound
<1>3. /\ SoundCandidate(Seen(o, i), configured) /\ Justified(Seen(o, i), vouched)
      /\ Seen(o, i).fingerprint =
           IF o.fingerprint # NoKey THEN o.fingerprint ELSE entries[i].fingerprint
      /\ Seen(o, i).aliases = entries[i].aliases \cup o.aliases
      /\ Reviewed(entries[i]) => Reviewed(Seen(o, i))
      /\ entries[i].state = "ignored" => Seen(o, i).state = "ignored"
    BY <1>0, <1>1, <1>2, ObservedSound DEF Seen
<1>4. /\ Folded(o, i) \subseteq DOMAIN entries \ {i}
      /\ \A j \in Folded(o, i) : entries[j].fingerprint = NoKey
    BY DEF Folded, Bare, Matching
<1> DEFINE S == {entries[j] : j \in Folded(o, i)}
<1>5. S \subseteq Candidates /\ \A s \in S : s.lastSeen \in Times
    BY <1>0, <1>4 DEF Sound, SoundCandidate, validCandidate
<1>6. Merged(o, i) = Absorb(Seen(o, i), S)
    BY DEF Merged
<1>7. \A j \in Folded(o, i) : entries[j] \in S
    OBVIOUS
<1> HIDE DEF S
<1>8. /\ SoundCandidate(Merged(o, i), configured) /\ Justified(Merged(o, i), vouched)
      /\ Merged(o, i).fingerprint = Seen(o, i).fingerprint
      /\ Seen(o, i).aliases \subseteq Merged(o, i).aliases
      /\ \A s \in S : s.aliases \subseteq Merged(o, i).aliases
      /\ Reviewed(Seen(o, i)) => Reviewed(Merged(o, i))
      /\ Seen(o, i).state = "ignored" \/ (\E s \in S : s.state = "ignored") =>
           Merged(o, i).state = "ignored"
    BY <1>3, <1>5, <1>6, AbsorbSound
<1>9. ASSUME NEW j \in DOMAIN entries \ {i}, Merged(o, i).fingerprint # NoKey
      PROVE  entries[j].fingerprint # Merged(o, i).fingerprint
  <2>1. CASE entries[i].fingerprint = Merged(o, i).fingerprint
    BY <1>0, <1>1, <1>9, <2>1 DEF Sound, DistinctKeys
  <2>2. CASE entries[i].fingerprint # Merged(o, i).fingerprint
    BY <1>1, <1>3, <1>8, <2>2
  <2> QED
    BY <2>1, <2>2
<1> QED
    BY <1>1, <1>3, <1>4, <1>7, <1>8, <1>9

\* An observation of a known candidate.
LEMMA KnownKeeps ==
    ASSUME InboxInv, NEW o \in Sightings, IngestKnown(o)
    PROVE  InboxInv'
<1>0. /\ sequence \in Nat /\ ingesting /\ Sound(entries, configured, sequence, vouched)
      /\ UNCHANGED <<up, configured, events, disk, ingesting, observedAt, before, now, vouched>>
    BY DEF InboxInv, TypeInv, FlagInv, SoundInv, IngestKnown, InRound
<1>1. PICK i \in Chosen(o) :
        /\ entries' = With(Without(entries, Folded(o, i)), i, Merged(o, i))
        /\ pending' = Append(pending, Event(sequence + 1,
                        IF Folded(o, i) = {} THEN "updated" ELSE "merged",
                        i, {Merged(o, i)}, Folded(o, i)))
        /\ sequence' = sequence + 1
    BY DEF IngestKnown, Seen, Folded, Merged
<1> DEFINE rest == Without(entries, Folded(o, i))
           e == Event(sequence + 1, IF Folded(o, i) = {} THEN "updated" ELSE "merged",
                      i, {Merged(o, i)}, Folded(o, i))
<1>2. /\ i \in DOMAIN entries
      /\ SoundCandidate(Merged(o, i), configured) /\ Justified(Merged(o, i), vouched)
      /\ Folded(o, i) \subseteq DOMAIN entries \ {i}
      /\ \A j \in DOMAIN entries \ {i} :
           Merged(o, i).fingerprint # NoKey => entries[j].fingerprint # Merged(o, i).fingerprint
    BY KnownEffect
<1>3. DOMAIN entries \subseteq 1 .. sequence
    BY <1>0 DEF Sound
<1>4. e \in EventRecord /\ e.sequence = sequence + 1
  <2>1. /\ sequence + 1 \in Nat /\ i \in Nat /\ Folded(o, i) \subseteq Nat
        /\ {Merged(o, i)} \subseteq Candidates
        /\ (IF Folded(o, i) = {} THEN "updated" ELSE "merged") \in EventTypes
    BY <1>0, <1>2, <1>3 DEF EventTypes, SoundCandidate, validCandidate
  <2> QED
    BY <2>1, EventType
<1> HIDE DEF e
<1>5. Numbered(<<e>>, sequence') /\ Len(<<e>>) = 1
    BY <1>0, <1>1, <1>4, OneEvent
<1>6. pending' = pending \o <<e>>
  <2>1. pending' = Append(pending, e) /\ pending \in Seq(EventRecord)
    BY <1>0, <1>1 DEF e, InboxInv, EventInv, Numbered
  <2> QED
    BY <1>4, <2>1
<1>7. /\ Sound(rest, configured, sequence, vouched)
      /\ DOMAIN rest = DOMAIN entries \ Folded(o, i)
      /\ \A j \in DOMAIN entries \ Folded(o, i) : rest[j] = entries[j]
    BY <1>0, SoundWithout
<1> HIDE DEF rest
<1>8. Sound(With(rest, i, Merged(o, i)), configured, sequence, vouched)
  <2>1. i \in DOMAIN rest /\ i \in 1 .. sequence
    BY <1>2, <1>3, <1>7
  <2>2. \A j \in DOMAIN rest \ {i} :
          Merged(o, i).fingerprint # NoKey => rest[j].fingerprint # Merged(o, i).fingerprint
    BY <1>2, <1>7
  <2> QED
    BY <1>0, <1>2, <1>7, <2>1, <2>2, SoundWith
<1>9. Sound(entries', configured, sequence', vouched)
    BY <1>0, <1>1, <1>8, SoundLater DEF rest
<1> QED
    BY <1>0, <1>1, <1>5, <1>6, <1>9, RoundKeeps

\* A new candidate comes to an inbox with room, in which none has its key.
LEMMA CreateKeeps ==
    ASSUME InboxInv, NEW o \in Sightings, ingesting, Chosen(o) = {},
           UNCHANGED <<up, configured, events, disk, ingesting, observedAt, before, now, vouched>>,
           NEW es, Sound(es, configured, sequence, vouched), Cardinality(DOMAIN es) < MaxEntries,
           DOMAIN es \subseteq DOMAIN entries, \A j \in DOMAIN es : es[j] = entries[j],
           NEW evs, Numbered(evs, sequence + Len(evs)), Create(o, es, evs)
    PROVE  InboxInv'
<1> DEFINE n == sequence + Len(evs) + 1
           c == Observed(NewCandidate(observedAt), o, configured, observedAt)
           e == Event(n, "discovered", n, {c}, {})
<1>0. /\ sequence \in Nat /\ evs \in Seq(EventRecord) /\ Len(evs) \in Nat /\ n \in Nat
      /\ sequence <= n /\ sequence + Len(evs) \in Nat
      /\ configured \in Configs /\ vouched \subseteq Keys /\ observedAt \in Times /\ o \in Observations
    BY InboxAssumption DEF InboxInv, TypeInv, FlagInv, Numbered
<1>1. /\ entries' = With(es, n, c) /\ sequence' = n
      /\ pending' = pending \o Append(evs, e)
    BY DEF Create
<1>2. SoundCandidate(c, configured) /\ Justified(c, vouched) /\ c.fingerprint = o.fingerprint
    BY <1>0, NewSound
<1> HIDE DEF c
<1>3. \A j \in DOMAIN es : c.fingerprint # NoKey => es[j].fingerprint # c.fingerprint
    BY <1>2, ChosenKeys
<1>4. e \in EventRecord /\ e.sequence = n
  <2>1. {c} \subseteq Candidates /\ {} \subseteq Nat /\ "discovered" \in EventTypes
    BY <1>2 DEF EventTypes, SoundCandidate, validCandidate
  <2> HIDE DEF n
  <2> QED
    BY <1>0, <2>1, EventType
<1> HIDE DEF e
<1>5. Numbered(Append(evs, e), n) /\ Len(Append(evs, e)) = Len(evs) + 1
  <2>1. Append(evs, e) = evs \o <<e>>
    BY <1>0, <1>4
  <2>2. Numbered(<<e>>, n) /\ Len(<<e>>) = 1
    BY <1>0, <1>4, OneEvent
  <2> QED
    BY <1>0, <2>1, <2>2, NumberedJoin
<1>6. n \in 1 .. n /\ Sound(es, configured, n, vouched)
    BY <1>0, SoundLater
<1>7. sequence' = sequence + Len(Append(evs, e))
    BY <1>0, <1>1, <1>5
<1> HIDE DEF n
<1>8. Sound(entries', configured, sequence', vouched)
    BY ZenonT(90), <1>0, <1>1, <1>2, <1>3, <1>6, SoundWith
<1> QED
    BY <1>1, <1>5, <1>7, <1>8, RoundKeeps

\* An observation of a host that is not known, in an inbox with room, in a
\* full one with a candidate to evict, and in a full one without.
LEMMA NewKeeps ==
    ASSUME InboxInv, NEW o \in Sightings, IngestNew(o)
    PROVE  InboxInv'
<1>0. /\ sequence \in Nat /\ ingesting /\ Sound(entries, configured, sequence, vouched)
      /\ UNCHANGED <<up, configured, events, disk, ingesting, observedAt, before, now, vouched>>
      /\ Chosen(o) = {} /\ ~(Cardinality(DOMAIN entries) >= MaxEntries) /\ Create(o, entries, <<>>)
    BY DEF InboxInv, TypeInv, FlagInv, SoundInv, IngestNew, InRound, Full
<1>1. Numbered(<<>>, sequence + Len(<<>>))
    BY DEF Numbered
<1>2. Cardinality(DOMAIN entries) \in Nat
    BY <1>0, FS_CardinalityType DEF Sound
<1>3. Cardinality(DOMAIN entries) < MaxEntries
    BY <1>0, <1>2, InboxAssumption
<1> QED
    BY <1>0, <1>1, <1>3, CreateKeeps

\* An eviction makes room for one.
LEMMA EvictingKeeps ==
    ASSUME InboxInv, NEW o \in Sightings, IngestEvicting(o)
    PROVE  InboxInv'
<1>0. /\ sequence \in Nat /\ ingesting /\ Sound(entries, configured, sequence, vouched)
      /\ UNCHANGED <<up, configured, events, disk, ingesting, observedAt, before, now, vouched>>
      /\ Chosen(o) = {}
    BY DEF InboxInv, TypeInv, FlagInv, SoundInv, IngestEvicting, InRound
<1>1. PICK v \in EvictionTargets :
        Create(o, Without(entries, {v}), <<Event(sequence + 1, "evicted", v, {}, {})>>)
    BY DEF IngestEvicting
<1> DEFINE es == Without(entries, {v})
           e == Event(sequence + 1, "evicted", v, {}, {})
<1>2. v \in DOMAIN entries /\ v \in Nat
    BY <1>0 DEF EvictionTargets, Sound
<1>3. /\ Sound(es, configured, sequence, vouched) /\ DOMAIN es = DOMAIN entries \ {v}
      /\ \A i \in DOMAIN es : es[i] = entries[i]
    BY <1>0, SoundWithout
<1>4. Cardinality(DOMAIN es) < MaxEntries
  <2>1. /\ IsFiniteSet(DOMAIN entries) /\ Cardinality(DOMAIN entries) <= MaxEntries
        /\ Cardinality(DOMAIN entries) \in Nat
    BY <1>0, FS_CardinalityType DEF Sound
  <2>2. Cardinality(DOMAIN entries \ {v}) = Cardinality(DOMAIN entries) - 1
    BY <1>2, <2>1, FS_RemoveElement
  <2> QED
    BY <1>3, <2>1, <2>2, InboxAssumption
<1>5. e \in EventRecord /\ e.sequence = sequence + 1
  <2>1. /\ "evicted" \in EventTypes /\ {} \subseteq Candidates /\ {} \subseteq Nat
        /\ sequence + 1 \in Nat
    BY <1>0 DEF EventTypes
  <2> QED
    BY <1>2, <2>1, EventType
<1> HIDE DEF e
<1>6. Numbered(<<e>>, sequence + 1) /\ Len(<<e>>) = 1
    BY <1>0, <1>5, OneEvent
<1>7. Create(o, es, <<e>>) /\ Numbered(<<e>>, sequence + Len(<<e>>))
    BY <1>1, <1>6 DEF e
<1> HIDE DEF es
<1> QED
    BY <1>0, <1>3, <1>4, <1>7, CreateKeeps

\* A dropped observation is announced and changes nothing.
LEMMA DroppedKeeps ==
    ASSUME InboxInv, NEW o \in Sightings, IngestDropped(o)
    PROVE  InboxInv'
<1> DEFINE e == Event(sequence + 1, "dropped", 0, {}, {})
<1>0. /\ sequence \in Nat /\ ingesting /\ Sound(entries, configured, sequence, vouched)
      /\ UNCHANGED <<up, configured, events, disk, ingesting, observedAt, before, now, vouched, entries>>
      /\ pending' = Append(pending, e) /\ pending \in Seq(EventRecord)
      /\ sequence' = sequence + 1
    BY DEF InboxInv, TypeInv, FlagInv, SoundInv, EventInv, Numbered, IngestDropped, InRound
<1>1. e \in EventRecord /\ e.sequence = sequence + 1
  <2>1. /\ "dropped" \in EventTypes /\ {} \subseteq Candidates /\ {} \subseteq Nat
        /\ sequence + 1 \in Nat /\ 0 \in Nat
    BY <1>0 DEF EventTypes
  <2> QED
    BY <2>1, EventType
<1> HIDE DEF e
<1>2. Numbered(<<e>>, sequence') /\ Len(<<e>>) = 1 /\ pending' = pending \o <<e>>
    BY <1>0, <1>1, OneEvent
<1>3. Sound(entries', configured, sequence', vouched)
    BY <1>0, SoundLater
<1> QED
    BY <1>0, <1>2, <1>3, RoundKeeps

\* A round that failed puts back a sound inbox, which the file is not behind.
LEMMA AbortedKeeps ==
    ASSUME InboxInv, ingesting, Rollback, RoundIsOver, UNCHANGED <<up, now, vouched>>,
           \/ disk' = disk
           \/ /\ disk' = [entries |-> entries, configured |-> configured, sequence |-> sequence]
              /\ pending # <<>>
    PROVE  InboxInv'
<1>0. /\ up /\ sequence \in Nat /\ before.sequence \in Nat /\ before.sequence <= sequence
      /\ Numbered(pending, sequence) /\ Len(pending) \in Nat
      /\ sequence = before.sequence + Len(pending) /\ configured \in Configs
      /\ Numbered(events, before.sequence)
    BY DEF InboxInv, TypeInv, FlagInv, EventInv, Numbered, PublicSequence
<1>1. /\ entries' = before.entries /\ sequence' = before.sequence
      /\ UNCHANGED <<configured, events>>
      /\ ingesting' = FALSE /\ before'.sequence = 0 /\ observedAt' \in Times
    BY InboxAssumption DEF Rollback, RoundIsOver, NoRound, Times
<1>2. TypeInv'
  <2>1. disk'.sequence \in Nat /\ disk'.configured \in Configs
    BY <1>0 DEF InboxInv, TypeInv, FlagInv
  <2>2. FlagInv'
    BY <1>0, <1>1 DEF FlagInv
  <2> QED
    BY <1>0, <1>1, <2>1, <2>2 DEF InboxInv, TypeInv
<1>3. SoundInv'
    BY <1>1 DEF InboxInv, SoundInv
<1>4. EventInv'
    BY <1>0, <1>1 DEF EventInv, PublicSequence
<1>5. /\ disk'.sequence >= sequence'
      /\ disk'.sequence = sequence' => disk'.entries = entries'
  <2>1. CASE disk' = disk
    BY <1>0, <1>1, <2>1 DEF InboxInv, RestartKeepsNumbers, Public, PublicSequence
  <2>2. CASE /\ disk' = [entries |-> entries, configured |-> configured, sequence |-> sequence]
             /\ pending # <<>>
    <3>1. Len(pending) > 0
      BY <1>0, <2>2 DEF Numbered
    <3> QED
      BY <1>0, <1>1, <2>2, <3>1
  <2> QED
    BY <2>1, <2>2
<1>6. RestartKeepsNumbers'
    BY <1>1, <1>5 DEF RestartKeepsNumbers, Public, PublicSequence
<1> QED
    BY <1>2, <1>3, <1>4, <1>6 DEF InboxInv

\* A round ends with its save, or with a rollback.
LEMMA EndKeeps ==
    ASSUME InboxInv, NEW res, IngestEnd(res)
    PROVE  InboxInv'
<1>0. /\ ingesting /\ RoundIsOver /\ UNCHANGED <<up, now, vouched>>
      /\ Numbered(pending, sequence) /\ pending \in Seq(EventRecord)
      /\ \E n \in DOMAIN pending : pending[n].type # "expired"
      /\ disk' = IF res = "failOld" THEN disk
                 ELSE [entries |-> entries, configured |-> configured, sequence |-> sequence]
    BY DEF InboxInv, EventInv, Numbered, IngestEnd, Saved
<1>1. pending # <<>>
    BY <1>0
<1>2. CASE res # "ok"
  <2>1. Rollback
    BY <1>2 DEF IngestEnd
  <2> QED
    BY <1>0, <1>1, <2>1, AbortedKeeps
<1>3. CASE res = "ok"
  <2>0. /\ events' = Retained(events \o pending) /\ UNCHANGED <<entries, configured, sequence>>
        /\ disk' = [entries |-> entries, configured |-> configured, sequence |-> sequence]
        /\ ingesting' = FALSE /\ before'.sequence = 0 /\ observedAt' \in Times
    BY <1>0, <1>3, InboxAssumption DEF IngestEnd, RoundIsOver, NoRound, Times
  <2>1. TypeInv'
    <3>1. disk'.sequence \in Nat /\ disk'.configured \in Configs
      BY <2>0 DEF InboxInv, TypeInv, FlagInv
    <3>2. FlagInv'
      BY <1>0, <2>0 DEF InboxInv, TypeInv, FlagInv
    <3> QED
      BY <1>0, <2>0, <3>1, <3>2 DEF InboxInv, TypeInv
  <2>2. SoundInv'
    BY <1>0, <2>0 DEF InboxInv, SoundInv
  <2>3. /\ Numbered(events, before.sequence) /\ before.sequence \in Nat /\ sequence \in Nat
        /\ before.sequence <= sequence
    BY <1>0 DEF InboxInv, TypeInv, FlagInv, EventInv, PublicSequence, Numbered
  <2>4. Numbered(events', sequence)
    BY <1>0, <2>0, <2>3, NumberedJoin, RetainedEvents
  <2>5. EventInv'
    BY <2>0, <2>4 DEF EventInv, PublicSequence
  <2>6. RestartKeepsNumbers'
    BY <2>0, <2>3 DEF RestartKeepsNumbers, Public, PublicSequence
  <2> QED
    BY <2>1, <2>2, <2>5, <2>6 DEF InboxInv
<1> QED
    BY <1>2, <1>3

\* A review of a candidate, which keeps its key.
LEMMA TransitionKeeps ==
    ASSUME InboxInv, vouched \subseteq vouched', vouched' \subseteq Keys,
           NEW i \in DOMAIN entries, NEW type \in EventTypes, NEW c, NEW res,
           Transition(i, type, c, res),
           SoundCandidate(c, configured), Justified(c, vouched'),
           c.fingerprint = entries[i].fingerprint
    PROVE  InboxInv'
<1> DEFINE e == Event(sequence + 1, type, i, {c}, {})
           es == With(entries, i, c)
<1>0. /\ sequence \in Nat /\ Sound(entries, configured, sequence, vouched') /\ configured \in Configs
      /\ Unlocked /\ UNCHANGED <<up, roundVars, now>>
      /\ Commit([entries EXCEPT ![i] = c], configured, <<e>>, res)
    BY SoundLater DEF InboxInv, TypeInv, FlagInv, SoundInv, Transition, Outside
<1>1. i \in 1 .. sequence /\ entries = [j \in DOMAIN entries |-> entries[j]]
    BY <1>0 DEF Sound
<1>2. e \in EventRecord /\ e.sequence = sequence + 1
  <2>1. {c} \subseteq Candidates /\ {} \subseteq Nat /\ sequence + 1 \in Nat /\ i \in Nat
    BY <1>0, <1>1 DEF SoundCandidate, validCandidate
  <2> QED
    BY <2>1, EventType
<1> HIDE DEF e
<1>3. Numbered(<<e>>, sequence + Len(<<e>>)) /\ Len(<<e>>) = 1
    BY <1>0, <1>2, OneEvent
<1>4. Commit(es, configured, <<e>>, res)
    BY <1>0, <1>1, ExceptIsWith
<1>5. Sound(es, configured, sequence, vouched')
  <2>1. \A j \in DOMAIN entries \ {i} : c.fingerprint # NoKey => entries[j].fingerprint # c.fingerprint
    BY <1>0 DEF Sound, DistinctKeys
  <2> QED
    BY <1>0, <1>1, <2>1, SoundWith
<1>6. Sound(es, configured, sequence + Len(<<e>>), vouched')
    BY <1>0, <1>3, <1>5, SoundLater
<1> DEFINE evs == <<e>>
<1>7. /\ Numbered(evs, sequence + Len(evs)) /\ Len(evs) # 0
      /\ Commit(es, configured, evs, res) /\ Sound(es, configured, sequence + Len(evs), vouched')
    BY <1>3, <1>4, <1>6
<1> HIDE DEF es, evs
<1> QED
    BY <1>0, <1>7, CommitKeeps

\* A verification counts although its save may fail with the new file in place.
LEMMA MarkVerifiedKeeps ==
    ASSUME InboxInv, NEW i, NEW res, MarkVerified(i, res)
    PROVE  InboxInv'
<1>0. /\ i \in DOMAIN entries /\ entries[i].fingerprint # NoKey
      /\ Transition(i, "verified", Marked(entries[i]), res)
      /\ vouched' = vouched \cup {entries[i].fingerprint}
      /\ SoundCandidate(entries[i], configured) /\ vouched \subseteq Keys
    BY DEF MarkVerified, InboxInv, TypeInv, FlagInv, SoundInv, Sound
<1>1. entries[i].fingerprint \in Keys
    BY <1>0 DEF SoundCandidate, validCandidate, Candidates
<1>2. /\ SoundCandidate(Marked(entries[i]), configured) /\ Justified(Marked(entries[i]), vouched')
      /\ Marked(entries[i]).fingerprint = entries[i].fingerprint
    BY <1>0, MarkedSound
<1>3. "verified" \in EventTypes
    BY DEF EventTypes
<1> QED
    BY <1>0, <1>1, <1>2, <1>3, TransitionKeeps

\* A restored candidate.
LEMMA RestoreKeeps ==
    ASSUME InboxInv, NEW i, NEW res, Restore(i, res)
    PROVE  InboxInv'
<1>0. /\ i \in DOMAIN entries /\ vouched' = vouched /\ vouched \subseteq Keys
      /\ Transition(i, "restored", Restored(entries[i]), res)
      /\ SoundCandidate(entries[i], configured) /\ Justified(entries[i], vouched)
    BY DEF Restore, InboxInv, TypeInv, FlagInv, SoundInv, Sound
<1>1. /\ SoundCandidate(Restored(entries[i]), configured) /\ Justified(Restored(entries[i]), vouched')
      /\ Restored(entries[i]).fingerprint = entries[i].fingerprint
    BY <1>0, RestoredSound
<1>2. "restored" \in EventTypes
    BY DEF EventTypes
<1> QED
    BY <1>0, <1>1, <1>2, TransitionKeeps

\* An ignored candidate, whatever became of it since handleIgnore decided.
LEMMA IgnoreKeeps ==
    ASSUME InboxInv, NEW res, Ignore(res)
    PROVE  InboxInv'
<1> DEFINE i == ignoring
<1>0. /\ i \in DOMAIN entries /\ vouched' = vouched /\ vouched \subseteq Keys
      /\ Transition(i, "ignored", Ignored(entries[i]), res)
      /\ SoundCandidate(entries[i], configured) /\ Justified(entries[i], vouched)
    BY DEF Ignore, Transition, InboxInv, TypeInv, FlagInv, SoundInv, Sound
<1>1. /\ SoundCandidate(Ignored(entries[i]), configured) /\ Justified(Ignored(entries[i]), vouched')
      /\ Ignored(entries[i]).fingerprint = entries[i].fingerprint
    BY <1>0, IgnoredSound
<1>2. "ignored" \in EventTypes
    BY DEF EventTypes
<1> QED
    BY <1>0, <1>1, <1>2, TransitionKeeps

\* New labels, also when none changes and the save writes no new event.
LEMMA ReplaceKeeps ==
    ASSUME InboxInv, NEW next \in Configs, NEW res, ReplaceConfiguredFingerprints(next, res)
    PROVE  InboxInv'
<1> DEFINE es == [i \in DOMAIN entries |-> Relabelled(entries[i], LabelOf(next, entries[i]))]
           changed == {i \in DOMAIN entries : es[i].configuredNames # entries[i].configuredNames}
           n == Cardinality(changed)
<1>0. /\ sequence \in Nat /\ Sound(entries, configured, sequence, vouched) /\ configured \in Configs
      /\ Unlocked /\ UNCHANGED <<up, roundVars, now, vouched>> /\ vouched \subseteq Keys
    BY DEF InboxInv, TypeInv, FlagInv, SoundInv, ReplaceConfiguredFingerprints, Outside
<1>1. PICK order \in Orders(changed) :
        Commit(es, next, [m \in DOMAIN order |->
                 Event(sequence + m, "configured_changed", order[m], {es[order[m]]}, {})], res)
    BY DEF ReplaceConfiguredFingerprints
<1> DEFINE evs == [m \in DOMAIN order |->
                     Event(sequence + m, "configured_changed", order[m], {es[order[m]]}, {})]
<1>2. /\ Sound(es, next, sequence, vouched)
      /\ (\A i \in DOMAIN entries : es[i].configuredNames = entries[i].configuredNames) => es = entries
      /\ DOMAIN es = DOMAIN entries
    BY <1>0, SoundRelabelled
<1>3. changed \subseteq DOMAIN entries /\ (changed = {} => es = entries)
  <2>1. changed \subseteq DOMAIN entries
    OBVIOUS
  <2>2. changed = {} =>
          \A i \in DOMAIN entries : es[i].configuredNames = entries[i].configuredNames
    OBVIOUS
  <2> QED
    BY <1>2, <2>1, <2>2
<1> HIDE DEF es, changed
<1>4. IsFiniteSet(changed) /\ n \in Nat /\ (n = 0 => changed = {})
    BY <1>0, <1>3, FS_Subset, FS_CardinalityType, FS_EmptySet DEF Sound
<1>5. DOMAIN order = 1 .. n /\ \A m \in 1 .. n : order[m] \in changed
    BY <1>1 DEF Orders
<1>6. ASSUME NEW m \in 1 .. n
      PROVE  evs[m] \in EventRecord /\ evs[m].sequence = sequence + m
  <2>1. evs[m] = Event(sequence + m, "configured_changed", order[m], {es[order[m]]}, {})
    BY <1>5
  <2>2. order[m] \in DOMAIN entries
    BY <1>3, <1>5
  <2>3. /\ sequence + m \in Nat /\ order[m] \in Nat /\ {} \subseteq Nat
        /\ "configured_changed" \in EventTypes
    BY <1>0, <1>4, <2>2 DEF Sound, EventTypes
  <2>4. {es[order[m]]} \subseteq Candidates
    BY <1>2, <2>2 DEF Sound, SoundCandidate, validCandidate
  <2> QED
    BY <2>1, <2>3, <2>4, EventType
<1>7. evs = [m \in 1 .. n |-> evs[m]] /\ Commit(es, next, evs, res)
    BY <1>1, <1>5
<1> HIDE DEF evs, n
<1>8. evs \in [1 .. n -> EventRecord]
    BY <1>6, <1>7
<1>9. Numbered(evs, sequence + n) /\ Len(evs) = n
    BY <1>0, <1>4, <1>6, <1>8, OrderedEvents
<1>10. Sound(es, next, sequence + Len(evs), vouched')
    BY <1>0, <1>2, <1>4, <1>9, SoundLater
<1> QED
    BY <1>0, <1>3, <1>4, <1>7, <1>9, <1>10, CommitKeeps

\* Expiration is announced: a half saved one is ahead of what clients have seen.
LEMMA ExpireKeeps ==
    ASSUME InboxInv, NEW res, Expire(res)
    PROVE  InboxInv'
<1> DEFINE es == Without(entries, Stale)
<1>0. /\ sequence \in Nat /\ Sound(entries, configured, sequence, vouched) /\ configured \in Configs
      /\ Unlocked /\ UNCHANGED <<up, roundVars, now, vouched>> /\ vouched \subseteq Keys
      /\ Stale # {}
    BY DEF InboxInv, TypeInv, FlagInv, SoundInv, Expire, Outside
<1>1. PICK order \in Orders(Stale) : Commit(es, configured, Removals(order, "expired"), res)
    BY DEF Expire
<1>2. /\ IsFiniteSet(Stale) /\ Cardinality(Stale) \in Nat /\ Stale \subseteq Nat
      /\ Cardinality(Stale) # 0 /\ "expired" \in EventTypes
    BY <1>0, FS_Subset, FS_CardinalityType, FS_EmptySet DEF Sound, Stale, EventTypes
<1> DEFINE evs == Removals(order, "expired")
<1>3. Numbered(evs, sequence + Cardinality(Stale)) /\ Len(evs) = Cardinality(Stale)
    BY <1>0, <1>1, <1>2, RemovalEvents
<1>4. Sound(es, configured, sequence + Len(evs), vouched')
  <2>1. Sound(es, configured, sequence, vouched)
    BY <1>0, SoundWithout
  <2>2. sequence + Len(evs) \in Nat /\ sequence <= sequence + Len(evs)
    BY <1>0, <1>2, <1>3
  <2> HIDE DEF es, evs
  <2> QED
    BY <1>0, <2>1, <2>2, SoundLater
<1>5. Numbered(evs, sequence + Len(evs)) /\ Len(evs) # 0
    BY <1>2, <1>3
<1> HIDE DEF evs, es
<1>6. Commit(es, configured, evs, res)
    BY <1>1 DEF evs
<1> QED
    BY <1>0, <1>4, <1>5, <1>6, CommitKeeps

-----------------------------------------------------------------------------
(* The inbox is always sound *)

\* A restart takes the file for the inbox.
LEMMA OpenKeeps ==
    ASSUME InboxInv, Open
    PROVE  InboxInv'
<1>0. /\ up' = TRUE /\ entries' = disk.entries /\ configured' = disk.configured
      /\ sequence' = disk.sequence /\ ~up /\ ~ingesting /\ ingesting' = FALSE
      /\ UNCHANGED <<events, disk, observedAt, before, now, vouched>> /\ sequence = 0
      /\ disk.sequence \in Nat
    BY DEF InboxInv, TypeInv, FlagInv, Open, roundVars
<1>1. TypeInv'
  <2>1. FlagInv'
    BY <1>0 DEF FlagInv
  <2> QED
    BY <1>0, <2>1 DEF InboxInv, TypeInv
<1>2. SoundInv'
    BY <1>0 DEF InboxInv, SoundInv
<1>3. Numbered(events, 0)
    BY <1>0 DEF InboxInv, EventInv, PublicSequence
<1>4. \A m \in DOMAIN events : events[m].sequence \in Nat
  <2>1. \A m \in DOMAIN events : events[m] \in EventRecord
    BY <1>3 DEF Numbered
  <2> QED
    BY <2>1 DEF EventRecord
<1>5. Numbered(events', sequence')
    BY <1>0, <1>3, <1>4 DEF Numbered
<1>6. EventInv'
    BY <1>0, <1>5 DEF EventInv, PublicSequence
<1>7. RestartKeepsNumbers'
    BY <1>0 DEF RestartKeepsNumbers, Public, PublicSequence
<1> QED
    BY <1>1, <1>2, <1>6, <1>7 DEF InboxInv

\* A crash leaves the file.
LEMMA CrashKeeps ==
    ASSUME InboxInv, Crash
    PROVE  InboxInv'
<1>0. /\ up' = FALSE /\ entries' = None /\ configured' = NoFile.configured
      /\ sequence' = 0 /\ events' = <<>> /\ ingesting' = FALSE /\ before' = NoRound
      /\ UNCHANGED <<disk, now, vouched>> /\ observedAt' \in Times
    BY InboxAssumption DEF Crash, RoundIsOver, Times
<1>1. NoFile.configured \in Configs /\ NoRound.sequence = 0
    BY DEF NoFile, NoRound, Configs
<1>2. TypeInv'
  <2>1. FlagInv'
    BY <1>0 DEF FlagInv
  <2> QED
    BY <1>0, <1>1, <2>1 DEF InboxInv, TypeInv
<1>3. Sound(entries', configured', sequence', vouched')
    BY <1>0, SoundNone
<1>4. SoundInv'
    BY <1>0, <1>3 DEF InboxInv, SoundInv
<1>5. Numbered(<<>>, 0)
    BY DEF Numbered
<1>6. EventInv'
    BY <1>0, <1>5 DEF EventInv, PublicSequence
<1>7. RestartKeepsNumbers'
    BY <1>0 DEF RestartKeepsNumbers
<1> QED
    BY <1>2, <1>4, <1>6, <1>7 DEF InboxInv

\* The clock, and the steps of handleIgnore that change no candidate.
LEMMA InboxUntouched ==
    ASSUME InboxInv, UNCHANGED <<up, memVars, disk, roundVars, vouched>>, now' \in Times
    PROVE  InboxInv'
<1>1. TypeInv'
    BY DEF InboxInv, TypeInv, FlagInv, memVars, roundVars
<1>2. SoundInv'
    BY DEF InboxInv, SoundInv, memVars, roundVars
<1>3. EventInv'
    BY DEF InboxInv, EventInv, PublicSequence, memVars, roundVars
<1>4. RestartKeepsNumbers'
    BY DEF InboxInv, RestartKeepsNumbers, Public, PublicSequence, memVars, roundVars
<1> QED
    BY <1>1, <1>2, <1>3, <1>4 DEF InboxInv

\* Every step keeps the invariant.
LEMMA InboxStep ==
    ASSUME InboxInv, Next
    PROVE  InboxInv'
<1>1. ASSUME NEW o \in Sightings, IngestAborted(o)
      PROVE  InboxInv'
    BY <1>1, AbortedKeeps DEF IngestAborted
<1>2. CASE ClockTick
  <2>1. now' \in Times
    BY <1>2, InboxAssumption DEF ClockTick, InboxInv, TypeInv, FlagInv, Times
  <2> QED
    BY <1>2, <2>1, InboxUntouched DEF ClockTick
<1>3. CASE IgnoreNotFound \/ \E i \in DOMAIN entries : IgnoreDecide(i)
  <2>1. now' \in Times /\ UNCHANGED <<up, memVars, disk, roundVars, vouched>>
    BY <1>3 DEF IgnoreNotFound, IgnoreDecide, InboxInv, TypeInv, FlagInv
  <2> QED
    BY <2>1, InboxUntouched
<1> QED
    BY <1>1, <1>2, <1>3, BeginKeeps, KnownKeeps, NewKeeps, EvictingKeeps, DroppedKeeps, EndKeeps,
       MarkVerifiedKeeps, RestoreKeeps, IgnoreKeeps, ReplaceKeeps, ExpireKeeps, OpenKeeps, CrashKeeps
    DEF Next

\* There is no file at the start, and no inbox.
LEMMA InboxInit ==
    ASSUME Init
    PROVE  InboxInv
<1>0. /\ up = FALSE /\ entries = None /\ sequence = 0 /\ events = <<>> /\ ingesting = FALSE
      /\ configured = NoFile.configured /\ disk = NoFile /\ before = NoRound /\ now \in Times /\ observedAt \in Times
      /\ vouched = {}
    BY InboxAssumption DEF Init, Times
<1>1. /\ NoFile.configured \in Configs /\ NoRound.sequence = 0 /\ NoFile.sequence = 0
      /\ NoFile.entries = None
    BY DEF NoFile, NoRound, Configs
<1>2. TypeInv
  <2>1. FlagInv
    BY <1>0 DEF FlagInv
  <2> QED
    BY <1>0, <1>1, <2>1 DEF TypeInv
<1>3. Sound(None, NoFile.configured, 0, {})
    BY SoundNone
<1>4. SoundInv
    BY <1>0, <1>1, <1>3 DEF SoundInv
<1>5. Numbered(<<>>, 0)
    BY DEF Numbered
<1>6. EventInv
    BY <1>0, <1>5 DEF EventInv, PublicSequence
<1>7. RestartKeepsNumbers
    BY <1>0 DEF RestartKeepsNumbers
<1> QED
    BY <1>2, <1>4, <1>6, <1>7 DEF InboxInv

\* Whatever rounds, reviews, relabellings, failing saves, crashes and
\* restarts follow one another, the inductive invariant holds.
THEOREM InboxInvariant == Spec => []InboxInv
<1>1. InboxInv /\ [Next]_vars => InboxInv'
  <2>1. ASSUME InboxInv, UNCHANGED vars
        PROVE  InboxInv'
    <3>1. now' \in Times /\ UNCHANGED <<up, memVars, disk, roundVars, vouched>>
      BY <2>1 DEF vars, InboxInv, TypeInv, FlagInv
    <3> QED
      BY <2>1, <3>1, InboxUntouched
  <2> QED
    BY <2>1, InboxStep
<1> QED
    BY <1>1, InboxInit, PTL DEF Spec

\* Whatever produced it, Open accepts the file when the texts of its
\* candidates come back as they were: rounds that merge pending hosts into
\* keyed ones, stamped in any order, reviews and relabellings, saved or half
\* saved, leave candidates with the state that their key, label and review
\* call for and with times in order, no two with one key, and no more than
\* MaxCandidates.
THEOREM ReadableFileLoads == Spec => []SavedStateLoads
<1>1. InboxInv => SavedStateLoads
  <2> SUFFICES ASSUME InboxInv PROVE SavedStateLoads
    OBVIOUS
  <2>1. Sound(disk.entries, disk.configured, disk.sequence, vouched)
    BY DEF InboxInv, SoundInv
  <2> QED
    BY <2>1 DEF Sound, SoundCandidate, DistinctKeys, SavedStateLoads, Loads
<1> QED
    BY <1>1, InboxInvariant, PTL

\* No observation, merge, restore or restart makes a candidate verified whose
\* key no operator verified and no configured device pins.
THEOREM VerificationHasReason == Spec => []VerifiedByOperator
<1>1. InboxInv => VerifiedByOperator
  <2> SUFFICES ASSUME InboxInv PROVE VerifiedByOperator
    OBVIOUS
  <2>1. Sound(entries, configured, sequence, vouched)
    BY DEF InboxInv, SoundInv
  <2> QED
    BY <2>1 DEF Sound, SoundCandidate, Justified, VerifiedByOperator
<1> QED
    BY <1>1, InboxInvariant, PTL

\* After any failed save and any restart, a number that clients have seen
\* means the candidates they have seen.
THEOREM NumbersSurviveRestart == Spec => []RestartKeepsNumbers
<1>1. InboxInv => RestartKeepsNumbers
    BY DEF InboxInv
<1> QED
    BY <1>1, InboxInvariant, PTL

-----------------------------------------------------------------------------
(* A review survives *)

\* A round begins with everything but the candidates that expired.
LEMMA KeptBegin ==
    ASSUME InboxInv, IngestBegin
    PROVE  KeptInv'
<1>0. /\ before'.entries = entries /\ entries' = Without(entries, Stale) /\ now' = now
    BY DEF IngestBegin
<1>1. /\ DOMAIN entries' = DOMAIN entries \ Stale
      /\ \A i \in DOMAIN entries \ Stale : entries'[i] = entries[i]
    BY <1>0 DEF Without
<1>2. \A i \in Stale : i \in DOMAIN entries /\ Expired(entries[i], now) /\ entries[i].state # "ignored"
    BY DEF Stale, Expired
<1>3. \A i \in DOMAIN entries : Expired(entries[i], now) => i \in Stale
    BY DEF Stale
<1>4. ASSUME NEW i \in DOMAIN entries, Reviewed(entries[i]), ~Expired(entries[i], now)
      PROVE  KeptKey(entries[i], entries', i)
    BY <1>1, <1>2, <1>4 DEF KeptKey
<1>5. ASSUME NEW i \in DOMAIN entries, entries[i].state = "ignored"
      PROVE  KeptIgnored(entries[i], entries', i)
    BY <1>1, <1>2, <1>5 DEF KeptIgnored
<1> QED
    BY <1>0, <1>4, <1>5 DEF KeptInv, Kept

\* An observation of a known candidate keeps its key and its review; a
\* pending alias that was ignored is ignored under the candidate it joins.
LEMMA KeptKnown ==
    ASSUME InboxInv, KeptInv, NEW o \in Sightings, IngestKnown(o)
    PROVE  KeptInv'
<1>0. /\ sequence \in Nat /\ ingesting /\ Sound(entries, configured, sequence, vouched)
      /\ UNCHANGED <<ingesting, before, now>> /\ Kept(before.entries, entries)
    BY DEF InboxInv, TypeInv, SoundInv, KeptInv, IngestKnown, InRound
<1>1. PICK i \in Chosen(o) : entries' = With(Without(entries, Folded(o, i)), i, Merged(o, i))
    BY DEF IngestKnown, Seen, Folded, Merged
<1>2. /\ i \in DOMAIN entries
      /\ Merged(o, i).fingerprint =
           IF o.fingerprint # NoKey THEN o.fingerprint ELSE entries[i].fingerprint
      /\ entries[i].aliases \subseteq Merged(o, i).aliases
      /\ Reviewed(entries[i]) => Reviewed(Merged(o, i))
      /\ entries[i].state = "ignored" => Merged(o, i).state = "ignored"
      /\ Folded(o, i) \subseteq DOMAIN entries \ {i}
      /\ \A j \in Folded(o, i) :
           /\ entries[j].fingerprint = NoKey
           /\ entries[j].aliases \subseteq Merged(o, i).aliases
           /\ entries[j].state = "ignored" => Merged(o, i).state = "ignored"
      /\ o.fingerprint # NoKey => entries[i].fingerprint \in {NoKey, o.fingerprint}
    BY KnownEffect
<1>3. /\ DOMAIN entries' = DOMAIN entries \ Folded(o, i)
      /\ entries'[i] = Merged(o, i)
      /\ \A j \in DOMAIN entries \ (Folded(o, i) \cup {i}) : entries'[j] = entries[j]
    BY <1>1, <1>2 DEF With, Without
<1>4. ASSUME NEW m \in DOMAIN before.entries, before.entries[m].fingerprint # NoKey,
             KeptKey(before.entries[m], entries, m)
      PROVE  KeptKey(before.entries[m], entries', m)
  <2>1. m \in DOMAIN entries /\ entries[m].fingerprint = before.entries[m].fingerprint
        /\ Reviewed(entries[m]) /\ m \notin Folded(o, i)
    BY <1>2, <1>4 DEF KeptKey
  <2>2. CASE m = i
    BY <1>2, <1>3, <1>4, <2>1, <2>2 DEF KeptKey
  <2>3. CASE m # i
    BY <1>3, <2>1, <2>3 DEF KeptKey
  <2> QED
    BY <2>2, <2>3
<1>5. ASSUME NEW m \in DOMAIN before.entries, before.entries[m].state = "ignored"
      PROVE  KeptIgnored(before.entries[m], entries', m)
  <2>1. PICK j \in DOMAIN entries :
          /\ entries[j].state = "ignored"
          /\ before.entries[m].aliases \subseteq entries[j].aliases
          /\ m # j => before.entries[m].fingerprint = NoKey
    BY <1>0, <1>5 DEF Kept, KeptIgnored
  <2>2. CASE j \in Folded(o, i)
    <3>1. before.entries[m].fingerprint = NoKey
      <4>1. Reviewed(before.entries[m]) /\ ~Expired(before.entries[m], now)
        BY <1>5 DEF Reviewed, Expired
      <4>2. before.entries[m].fingerprint # NoKey => KeptKey(before.entries[m], entries, m)
        BY <1>0, <4>1 DEF Kept
      <4> QED
        BY <1>2, <2>1, <2>2, <4>2 DEF KeptKey
    <3> QED
      BY <1>2, <1>3, <2>1, <2>2, <3>1 DEF KeptIgnored
  <2>3. CASE j = i
    BY <1>2, <1>3, <2>1, <2>3 DEF KeptIgnored
  <2>4. CASE j \notin Folded(o, i) /\ j # i
    BY <1>3, <2>1, <2>4 DEF KeptIgnored
  <2> QED
    BY <2>2, <2>3, <2>4
<1> QED
    BY <1>0, <1>4, <1>5 DEF KeptInv, Kept

\* A new candidate takes the place of nobody that was reviewed.
LEMMA KeptCreate ==
    ASSUME InboxInv, KeptInv, ingesting, UNCHANGED <<ingesting, before, now>>,
           NEW o, NEW es, NEW evs, Len(evs) \in Nat, Create(o, es, evs),
           \A j \in DOMAIN entries : Reviewed(entries[j]) => j \in DOMAIN es /\ es[j] = entries[j]
    PROVE  KeptInv'
<1> DEFINE n == sequence + Len(evs) + 1
<1>0. /\ sequence \in Nat /\ DOMAIN entries \subseteq 1 .. sequence
      /\ Kept(before.entries, entries)
    BY DEF InboxInv, TypeInv, SoundInv, Sound, KeptInv
<1>1. n \notin DOMAIN entries
    BY <1>0
<1>2. PICK c : entries' = With(es, n, c)
    BY DEF Create
<1> HIDE DEF n
<1>3. \A j \in DOMAIN entries : Reviewed(entries[j]) =>
        j \in DOMAIN entries' /\ entries'[j] = entries[j]
    BY <1>1, <1>2 DEF With
<1>4. ASSUME NEW m \in DOMAIN before.entries, KeptKey(before.entries[m], entries, m)
      PROVE  KeptKey(before.entries[m], entries', m)
    BY <1>3, <1>4 DEF KeptKey
<1>5. ASSUME NEW m \in DOMAIN before.entries, KeptIgnored(before.entries[m], entries, m)
      PROVE  KeptIgnored(before.entries[m], entries', m)
    BY <1>3, <1>5 DEF KeptIgnored, Reviewed
<1> QED
    BY <1>0, <1>4, <1>5 DEF KeptInv, Kept

\* Only the first observation of a round changes where the comparison starts.
LEMMA KeptStep ==
    ASSUME InboxInv, KeptInv, Next
    PROVE  KeptInv'
<1>1. ASSUME NEW o \in Sightings, IngestNew(o)
      PROVE  KeptInv'
  <2>1. /\ ingesting /\ UNCHANGED <<ingesting, before, now>> /\ Create(o, entries, <<>>)
        /\ Len(<<>>) \in Nat
    BY <1>1 DEF IngestNew, InRound
  <2> QED
    BY <2>1, KeptCreate
<1>2. ASSUME NEW o \in Sightings, IngestEvicting(o)
      PROVE  KeptInv'
  <2>1. ingesting /\ UNCHANGED <<ingesting, before, now>>
    BY <1>2 DEF IngestEvicting, InRound
  <2>2. PICK v \in EvictionTargets :
          Create(o, Without(entries, {v}), <<Event(sequence + 1, "evicted", v, {}, {})>>)
    BY <1>2 DEF IngestEvicting
  <2>3. v \in DOMAIN entries /\ ~Reviewed(entries[v])
    BY DEF EvictionTargets, candidatePinned, Reviewed
  <2>4. \A j \in DOMAIN entries : Reviewed(entries[j]) =>
          j \in DOMAIN Without(entries, {v}) /\ Without(entries, {v})[j] = entries[j]
    BY <2>3 DEF Without
  <2> DEFINE evs == <<Event(sequence + 1, "evicted", v, {}, {})>>
  <2>5. Len(evs) \in Nat /\ Create(o, Without(entries, {v}), evs)
    BY <2>2
  <2> HIDE DEF evs
  <2> QED
    BY <2>1, <2>4, <2>5, KeptCreate
<1>3. ASSUME NEW o \in Sightings, IngestDropped(o)
      PROVE  KeptInv'
    BY <1>3 DEF IngestDropped, InRound, KeptInv, Kept
<1>4. ASSUME ~ingesting'
      PROVE  KeptInv'
    BY <1>4 DEF KeptInv
<1>5. ASSUME ~IngestBegin, ~\E o \in Sightings :
               IngestKnown(o) \/ IngestNew(o) \/ IngestEvicting(o) \/ IngestDropped(o)
      PROVE  ~ingesting'
  <2>1. FlagInv
    BY DEF InboxInv, TypeInv
  <2> QED
    BY <1>5, <2>1
    DEF Next, FlagInv, IngestAborted, IngestEnd, RoundIsOver, MarkVerified, Restore, Transition,
        Outside, Unlocked, IgnoreDecide, Ignore, IgnoreNotFound, ReplaceConfiguredFingerprints, Expire, Open,
        Crash, ClockTick, roundVars
<1> QED
    BY <1>1, <1>2, <1>3, <1>4, <1>5, KeptBegin, KeptKnown

\* What ReviewSurvives says of one candidate of a snapshot.
KeyStays(i, old, new) ==
    Reviewed(old[i]) /\ old[i].fingerprint # NoKey /\ ~Expired(old[i], now) =>
        i \in DOMAIN new /\ new[i].fingerprint = old[i].fingerprint

\* Nor is it lifted that it is ignored.
IgnoredStays(i, old, new) == old[i].state = "ignored" => KeptIgnored(old[i], new, i)

\* A snapshot that stays as it is.
LEMMA SameSnapshot ==
    ASSUME NEW old, NEW new, new = old, NEW i \in DOMAIN old
    PROVE  KeyStays(i, old, new) /\ IgnoredStays(i, old, new)
  BY DEF KeyStays, IgnoredStays, KeptIgnored

\* The last event tells what the operator did.
LEMMA TransitionLifts ==
    ASSUME InboxInv, NEW i \in DOMAIN entries, NEW type \in {"restored", "verified"},
           NEW c \in Candidates, Transition(i, type, c, "ok")
    PROVE  OperatorLifts(i)
<1> DEFINE e == Event(sequence + 1, type, i, {c}, {})
           all == events \o <<e>>
<1>0. /\ sequence \in Nat /\ events' = Retained(all)
      /\ Numbered(events, sequence) /\ i \in Nat
    BY DEF InboxInv, TypeInv, SoundInv, Sound, EventInv, PublicSequence, Transition, Unlocked, Commit
<1>1. e \in EventRecord /\ e.sequence = sequence + 1 /\ e.id = i /\ e.type = type
  <2>1. type \in EventTypes /\ {c} \subseteq Candidates /\ {} \subseteq Nat /\ sequence + 1 \in Nat
    BY <1>0 DEF EventTypes
  <2> QED
    BY <1>0, <2>1, EventType
<1> HIDE DEF e
<1>2. Numbered(<<e>>, sequence + 1) /\ Len(<<e>>) = 1 /\ <<e>> # <<>> /\ <<e>>[Len(<<e>>)] = e
    BY <1>0, <1>1, OneEvent
<1>3. Numbered(all, sequence + 1) /\ Len(all) = Len(events) + Len(<<e>>) /\ all[Len(all)] = e
    BY <1>0, <1>2, NumberedJoin
<1>4. all # <<>>
    BY <1>0, <1>2, <1>3 DEF Numbered
<1> HIDE DEF all
<1>5. Numbered(events', sequence + 1) /\ events' # <<>> /\ events'[Len(events')] = e
    BY <1>0, <1>3, <1>4, RetainedEvents
<1>6. events' # events
  <2> SUFFICES ASSUME events' = events PROVE FALSE
    OBVIOUS
  <2>1. Len(events) \in DOMAIN events /\ events[Len(events)] = e
    BY <1>0, <1>5 DEF Numbered
  <2> QED
    BY <1>0, <1>1, <2>1 DEF Numbered
<1> QED
    BY <1>1, <1>5, <1>6 DEF OperatorLifts

\* A review of another candidate changes nothing here; a review of this one
\* keeps its key, and is the operator's or ignores it.
LEMMA TransitionReview ==
    ASSUME InboxInv, NEW i \in DOMAIN entries, NEW m \in DOMAIN entries, NEW type, NEW c, NEW res,
           Transition(m, type, c, res), c.fingerprint = entries[m].fingerprint,
           \/ c.state = "ignored" /\ c.aliases = entries[m].aliases
           \/ type \in {"restored", "verified"} /\ c \in Candidates
    PROVE  /\ KeyStays(i, entries, entries')
           /\ OperatorLifts(i) \/ IgnoredStays(i, entries, entries')
<1>0. /\ \/ UNCHANGED entries
         \/ res = "ok" /\ entries' = [entries EXCEPT ![m] = c]
    BY DEF Transition, Commit, memVars
<1>1. CASE UNCHANGED entries
    BY <1>1, SameSnapshot
<1>2. CASE res = "ok" /\ entries' = [entries EXCEPT ![m] = c]
  <2>1. /\ DOMAIN entries' = DOMAIN entries /\ entries'[m] = c
        /\ \A j \in DOMAIN entries \ {m} : entries'[j] = entries[j]
    BY <1>2
  <2>2. KeyStays(i, entries, entries')
    BY <2>1 DEF KeyStays
  <2>3. CASE i # m
    BY <2>1, <2>2, <2>3 DEF IgnoredStays, KeptIgnored
  <2>4. CASE i = m /\ c.state = "ignored" /\ c.aliases = entries[m].aliases
    BY <2>1, <2>2, <2>4 DEF IgnoredStays, KeptIgnored
  <2>5. CASE i = m /\ type \in {"restored", "verified"} /\ c \in Candidates
    <3>1. Transition(m, type, c, "ok")
      BY <1>2
    <3> QED
      BY <2>2, <2>5, <3>1, TransitionLifts
  <2> QED
    BY <2>3, <2>4, <2>5
<1> QED
    BY <1>0, <1>1, <1>2

\* What every step of a running daemon does to a snapshot.
LEMMA ReviewStep ==
    ASSUME InboxInv, KeptInv, Next, up, up', NEW i \in DOMAIN Public
    PROVE  /\ KeyStays(i, Public, Public')
           /\ OperatorLifts(i) \/ IgnoredStays(i, Public, Public')
<1> DEFINE Stays == /\ KeyStays(i, Public, Public')
                    /\ OperatorLifts(i) \/ IgnoredStays(i, Public, Public')
<1>0. /\ sequence \in Nat /\ Sound(entries, configured, sequence, vouched) /\ configured \in Configs
      /\ vouched \subseteq Keys
      /\ \A m \in DOMAIN entries :
           SoundCandidate(entries[m], configured) /\ Justified(entries[m], vouched)
    BY DEF InboxInv, TypeInv, SoundInv, Sound
<1>1. ASSUME Public' = Public
      PROVE  Stays
    BY <1>1, SameSnapshot
<1>2. ASSUME NEW o \in Sightings,
             IngestKnown(o) \/ IngestNew(o) \/ IngestEvicting(o) \/ IngestDropped(o)
      PROVE  Stays
    BY <1>1, <1>2 DEF IngestKnown, IngestNew, IngestEvicting, IngestDropped, InRound, Public
<1>3. ASSUME IngestBegin
      PROVE  Stays
    BY <1>1, <1>3 DEF IngestBegin, Unlocked, Public
<1>4. ASSUME NEW o \in Sightings, IngestAborted(o)
      PROVE  Stays
    BY <1>1, <1>4 DEF IngestAborted, Rollback, RoundIsOver, Public
<1>5. ASSUME NEW res \in SaveResults, IngestEnd(res)
      PROVE  Stays
  <2>1. CASE res # "ok"
    BY <1>1, <1>5, <2>1 DEF IngestEnd, Rollback, RoundIsOver, Public
  <2>2. CASE res = "ok"
    <3>1. Public = before.entries /\ Public' = entries /\ ingesting
      BY <1>5, <2>2 DEF IngestEnd, RoundIsOver, Public
    <3>2. Kept(Public, Public')
      BY <3>1 DEF KeptInv
    <3> QED
      BY <3>2 DEF Kept, KeptKey, KeyStays, IgnoredStays
  <2> QED
    BY <2>1, <2>2
<1>6. ASSUME NEW m, NEW type, NEW c, NEW res, Transition(m, type, c, res)
      PROVE  Public = entries /\ Public' = entries' /\ i \in DOMAIN entries
    BY <1>6 DEF Transition, Unlocked, Outside, roundVars, Public
<1>7. ASSUME NEW m \in DOMAIN entries, NEW res \in SaveResults, MarkVerified(m, res)
      PROVE  Stays
  <2>1. Transition(m, "verified", Marked(entries[m]), res) /\ entries[m].fingerprint # NoKey
    BY <1>7 DEF MarkVerified
  <2>2. Marked(entries[m]).fingerprint = entries[m].fingerprint /\ Marked(entries[m]) \in Candidates
    BY <1>0, <2>1, MarkedSound DEF SoundCandidate, validCandidate
  <2>3. Public = entries /\ Public' = entries' /\ i \in DOMAIN entries
    BY <1>6, <2>1
  <2> QED
    BY <2>1, <2>2, <2>3, TransitionReview
<1>8. ASSUME NEW m \in DOMAIN entries, NEW res \in SaveResults, Restore(m, res)
      PROVE  Stays
  <2>1. Transition(m, "restored", Restored(entries[m]), res)
    BY <1>8 DEF Restore
  <2>2. Restored(entries[m]).fingerprint = entries[m].fingerprint /\ Restored(entries[m]) \in Candidates
    BY <1>0, RestoredSound DEF SoundCandidate, validCandidate
  <2>3. Public = entries /\ Public' = entries' /\ i \in DOMAIN entries
    BY <1>6, <2>1
  <2> QED
    BY <2>1, <2>2, <2>3, TransitionReview
<1>9. ASSUME NEW res \in SaveResults, Ignore(res)
      PROVE  Stays
  <2>1. Transition(ignoring, "ignored", Ignored(entries[ignoring]), res)
    BY <1>9 DEF Ignore
  <2>2. ignoring \in DOMAIN entries
    BY <2>1 DEF Transition
  <2>3. /\ Ignored(entries[ignoring]).fingerprint = entries[ignoring].fingerprint
        /\ Ignored(entries[ignoring]).aliases = entries[ignoring].aliases
        /\ Ignored(entries[ignoring]).state = "ignored"
    BY <1>0, <2>2, IgnoredSound
  <2>4. Public = entries /\ Public' = entries' /\ i \in DOMAIN entries
    BY <1>6, <2>1
  <2> QED
    BY <2>1, <2>2, <2>3, <2>4, TransitionReview
<1>10. ASSUME NEW next \in Configs, NEW res \in SaveResults,
              ReplaceConfiguredFingerprints(next, res)
       PROVE  Stays
  <2> DEFINE es == [m \in DOMAIN entries |-> Relabelled(entries[m], LabelOf(next, entries[m]))]
  <2>1. /\ Public = entries /\ Public' = entries' /\ i \in DOMAIN entries
        /\ entries' = es \/ entries' = entries
    BY <1>10 DEF ReplaceConfiguredFingerprints, Unlocked, Outside, roundVars, Public, Commit, memVars
  <2>2. /\ DOMAIN es = DOMAIN entries
        /\ \A m \in DOMAIN entries :
             /\ es[m].fingerprint = entries[m].fingerprint /\ es[m].aliases = entries[m].aliases
             /\ entries[m].state = "ignored" => es[m].state = "ignored"
    <3>1. es = [m \in DOMAIN entries |-> Relabelled(entries[m], LabelOf(next, entries[m]))]
      OBVIOUS
    <3> HIDE DEF es
    <3> QED
      BY <1>0, <3>1, SoundRelabelled
  <2> HIDE DEF es
  <2>3. CASE entries' = es
    BY <2>1, <2>2, <2>3 DEF KeyStays, IgnoredStays, KeptIgnored
  <2> QED
    BY <1>1, <2>1, <2>3
<1>11. ASSUME NEW res \in SaveResults, Expire(res)
       PROVE  Stays
  <2>1. /\ Public = entries /\ Public' = entries' /\ i \in DOMAIN entries
        /\ entries' = Without(entries, Stale) \/ entries' = entries
    BY <1>11 DEF Expire, Unlocked, Outside, roundVars, Public, Commit, memVars
  <2>2. CASE entries' = Without(entries, Stale)
    <3>1. /\ DOMAIN entries' = DOMAIN entries \ Stale
          /\ \A j \in DOMAIN entries \ Stale : entries'[j] = entries[j]
      BY <2>2 DEF Without
    <3>2. i \in Stale => Expired(entries[i], now) /\ entries[i].state # "ignored"
      BY DEF Stale, Expired
    <3> QED
      BY <2>1, <3>1, <3>2 DEF KeyStays, IgnoredStays, KeptIgnored
  <2> QED
    BY <1>1, <2>1, <2>2
<1>12. ASSUME IgnoreNotFound \/ ClockTick \/ \E m \in DOMAIN entries : IgnoreDecide(m)
       PROVE  Stays
    BY <1>1, <1>12 DEF IgnoreNotFound, ClockTick, IgnoreDecide, memVars, roundVars, Public
<1>13. ~Open /\ ~Crash
    BY DEF Open, Crash
<1> HIDE DEF Stays
<1>14. Stays
    BY <1>2, <1>3, <1>4, <1>5, <1>7, <1>8, <1>9, <1>10, <1>11, <1>12, <1>13 DEF Next
<1> QED
    BY <1>14 DEF Stays

\* However many hosts a round reports, in whichever order, whether its save
\* succeeds or not: a candidate with a key that the operator reviewed keeps
\* its place and its key until it expires, and one that was ignored stays
\* ignored, or an ignored one takes over all it was known by.
THEOREM ReviewsSurvive == Spec => ReviewSurvives
<1>1. Init => KeptInv
    BY DEF Init, KeptInv
<1>2. InboxInv /\ KeptInv /\ [Next]_vars => KeptInv'
  <2>1. ASSUME KeptInv, UNCHANGED vars
        PROVE  KeptInv'
    BY <2>1 DEF KeptInv, Kept, KeptKey, KeptIgnored, vars, memVars, roundVars
  <2> QED
    BY <2>1, KeptStep
<1>3. InboxInv /\ KeptInv /\ [Next]_vars =>
        [up /\ up' =>
          \A i \in DOMAIN Public :
            LET c == Public[i]
            IN  /\ Reviewed(c) /\ c.fingerprint # NoKey /\ ~Expired(c, now) =>
                     /\ i \in DOMAIN Public'
                     /\ Public'[i].fingerprint = c.fingerprint
                /\ c.state = "ignored" /\ ~OperatorLifts(i) =>
                     \E j \in DOMAIN Public' :
                         /\ Public'[j].state = "ignored"
                         /\ c.aliases \subseteq Public'[j].aliases
                         /\ i # j => c.fingerprint = NoKey]_vars
    BY ReviewStep DEF KeyStays, IgnoredStays, KeptIgnored
<1> QED
    BY <1>1, <1>2, <1>3, InboxInvariant, PTL DEF Spec, ReviewSurvives
=============================================================================
