------------------------ MODULE CandidateEventProofs ------------------------
(***************************************************************************)
(* The event stream of the discovery inbox, for any observations, keys,    *)
(* devices and limits.                                                     *)
(*                                                                         *)
(* A client that has a snapshot and the events since has the inbox.  The   *)
(* history is without gaps and ends with the number that a snapshot shows, *)
(* so that the bounded history keeps either all of the events since or     *)
(* says that it does not (CompleteWhenTold).  The events of one operation  *)
(* tell what it does to each candidate, the last of them decides           *)
(* (Tells), and a round, which goes on for any number of events before     *)
(* they are published, has told at every point what it has done so far     *)
(* (CursorInv).                                                            *)
(***************************************************************************)
EXTENDS CandidateInboxProofs

-----------------------------------------------------------------------------
(* The inductive invariant *)

\* What an inbox shows of a candidate.
Shown(es, i) == {es[j] : j \in DOMAIN es \cap {i}}

\* The event is about the candidate, or about the one it was folded into.
Mentions(e, i) == e.id = i \/ i \in e.merged

\* For every candidate, the last event of S that mentions it tells what the
\* inbox es shows of it; es shows the others as v does.
Tells(v, S, es) ==
    \A i \in Ids :
        \/ /\ \A e \in S : ~Mentions(e, i)
           /\ Shown(es, i) = Shown(v, i)
        \/ \E e \in S :
             /\ Mentions(e, i)
             /\ \A f \in S : Mentions(f, i) => f.sequence <= e.sequence
             /\ Shown(es, i) = IF e.id = i THEN e.view ELSE {}

\* Events without a gap, after the n-th.
Consecutive(evs, n) ==
    evs \in Seq(EventRecord) /\ \A m \in DOMAIN evs : evs[m].sequence = n + m

\* The numbers of the inbox, of the file and of the copy are bounded.
BoundInv ==
    /\ sequence <= MaxSequence /\ disk.sequence <= MaxSequence
    /\ ingesting => before.sequence <= MaxSequence

\* The history ends with the number that a snapshot shows, and the events of
\* a round tell what it has made of the inbox.
CursorInv ==
    /\ BoundInv
    /\ ~up => events = <<>>
    /\ Consecutive(events, PublicSequence - Len(events))
    /\ ingesting => /\ Consecutive(pending, before.sequence)
                    /\ Tells(before.entries, Range(pending), entries)

-----------------------------------------------------------------------------
(* What a client makes of events *)

\* The snapshot v with the events of S applied, as Replayed does it.
ReplayOf(v, S) ==
    LET mentions(i) == {e \in S : e.id = i \/ i \in e.merged}
        last(i)     == CHOOSE e \in mentions(i) :
                           \A f \in mentions(i) : f.sequence <= e.sequence
        after(i)    == IF mentions(i) = {}
                         THEN {v[j] : j \in DOMAIN v \cap {i}}
                         ELSE IF last(i).id = i THEN last(i).view ELSE {}
    IN  [i \in {j \in Ids : after(j) # {}} |-> CHOOSE c \in after(i) : TRUE]

\* Two inboxes that show the same of every candidate are the same.
LEMMA ShownIsInbox ==
    ASSUME NEW es, es = [i \in DOMAIN es |-> es[i]], NEW i
    PROVE  /\ i \in DOMAIN es => Shown(es, i) = {es[i]}
           /\ i \notin DOMAIN es => Shown(es, i) = {}
  BY DEF Shown

\* The event with the greatest number is the only one.
LEMMA LastIsUnique ==
    ASSUME NEW M, M \subseteq EventRecord, NEW e \in M,
           \A f \in M : f.sequence <= e.sequence,
           \A f, g \in M : f.sequence = g.sequence => f = g
    PROVE  (CHOOSE x \in M : \A f \in M : f.sequence <= x.sequence) = e
<1> DEFINE last == CHOOSE x \in M : \A f \in M : f.sequence <= x.sequence
<1>1. last \in M /\ \A f \in M : f.sequence <= last.sequence
    OBVIOUS
<1> HIDE DEF last
<1>2. \A f \in M : f.sequence \in Nat
    BY DEF EventRecord
<1>3. last.sequence = e.sequence
    BY <1>1, <1>2
<1>4. last = e
    BY <1>1, <1>3
<1> QED
    BY <1>4 DEF last

\* A client that applies events that tell how v became es has es.
LEMMA ReplayIsTold ==
    ASSUME NEW v, NEW es, es = [i \in DOMAIN es |-> es[i]], DOMAIN es \subseteq Ids,
           NEW S, S \subseteq EventRecord, Tells(v, S, es),
           \A e, f \in S : e.sequence = f.sequence => e = f
    PROVE  ReplayOf(v, S) = es
<1> DEFINE mentions(i) == {e \in S : e.id = i \/ i \in e.merged}
           last(i)     == CHOOSE e \in mentions(i) :
                              \A f \in mentions(i) : f.sequence <= e.sequence
           after(i)    == IF mentions(i) = {}
                            THEN {v[j] : j \in DOMAIN v \cap {i}}
                            ELSE IF last(i).id = i THEN last(i).view ELSE {}
<1>1. ASSUME NEW i \in Ids
      PROVE  after(i) = Shown(es, i)
  <2>1. CASE /\ \A e \in S : ~Mentions(e, i)
             /\ Shown(es, i) = Shown(v, i)
    <3>1. mentions(i) = {}
      BY <2>1 DEF Mentions
    <3> QED
      BY <2>1, <3>1 DEF Shown
  <2>2. ASSUME NEW e \in S, Mentions(e, i),
               \A f \in S : Mentions(f, i) => f.sequence <= e.sequence,
               Shown(es, i) = IF e.id = i THEN e.view ELSE {}
        PROVE  after(i) = Shown(es, i)
    <3>1. /\ e \in mentions(i) /\ mentions(i) \subseteq S
          /\ \A f \in mentions(i) : f.sequence <= e.sequence
      BY <2>2 DEF Mentions
    <3> HIDE DEF mentions
    <3>2. /\ mentions(i) \subseteq EventRecord
          /\ \A f, g \in mentions(i) : f.sequence = g.sequence => f = g
      BY <3>1
    <3>3. last(i) = e
      BY <3>1, <3>2, LastIsUnique
    <3> HIDE DEF last
    <3> QED
      BY <2>2, <3>1, <3>3
  <2> QED
    BY <2>1, <2>2 DEF Tells
<1>2. ReplayOf(v, S) = [i \in {j \in Ids : after(j) # {}} |-> CHOOSE c \in after(i) : TRUE]
    BY DEF ReplayOf
<1> HIDE DEF after
<1>3. \A i \in Ids : after(i) = IF i \in DOMAIN es THEN {es[i]} ELSE {}
    BY <1>1, ShownIsInbox
<1>4. {j \in Ids : after(j) # {}} = DOMAIN es
    BY <1>3
<1>5. \A i \in DOMAIN es : (CHOOSE c \in after(i) : TRUE) = es[i]
  <2>1. \A x : (CHOOSE c \in {x} : TRUE) = x
    OBVIOUS
  <2> QED
    BY <1>3, <2>1
<1> QED
    BY <1>2, <1>4, <1>5

\* No event tells that nothing has changed.
LEMMA TellsNothing ==
    ASSUME NEW v
    PROVE  Tells(v, {}, v)
  BY DEF Tells

\* What one event tells about the candidates it mentions, the others staying
\* as they were.
Effect(e, old, es) ==
    \A i \in Ids :
        Shown(es, i) = IF e.id = i THEN e.view
                       ELSE IF i \in e.merged THEN {} ELSE Shown(old, i)

\* A later event goes on with the story.
LEMMA TellsMore ==
    ASSUME NEW v, NEW S, S \subseteq EventRecord, NEW old, Tells(v, S, old),
           NEW e \in EventRecord, \A f \in S : f.sequence < e.sequence,
           NEW es, Effect(e, old, es)
    PROVE  Tells(v, S \cup {e}, es)
<1>0. \A f \in S \cup {e} : f.sequence \in Nat /\ f.sequence <= e.sequence
    BY DEF EventRecord
<1> SUFFICES ASSUME NEW i \in Ids
             PROVE  \/ /\ \A f \in S \cup {e} : ~Mentions(f, i)
                       /\ Shown(es, i) = Shown(v, i)
                    \/ \E f \in S \cup {e} :
                         /\ Mentions(f, i)
                         /\ \A g \in S \cup {e} : Mentions(g, i) => g.sequence <= f.sequence
                         /\ Shown(es, i) = IF f.id = i THEN f.view ELSE {}
    BY DEF Tells
<1>1. CASE Mentions(e, i)
  <2>1. Shown(es, i) = IF e.id = i THEN e.view ELSE {}
    BY <1>1 DEF Effect, Mentions
  <2> QED
    BY <1>0, <1>1, <2>1
<1>2. CASE ~Mentions(e, i)
  <2>1. Shown(es, i) = Shown(old, i)
    BY <1>2 DEF Effect, Mentions
  <2>2. CASE (\A f \in S : ~Mentions(f, i)) /\ Shown(old, i) = Shown(v, i)
    BY <1>2, <2>1, <2>2
  <2>3. ASSUME NEW f \in S, Mentions(f, i),
               \A g \in S : Mentions(g, i) => g.sequence <= f.sequence,
               Shown(old, i) = IF f.id = i THEN f.view ELSE {}
        PROVE  \E h \in S \cup {e} :
                 /\ Mentions(h, i)
                 /\ \A g \in S \cup {e} : Mentions(g, i) => g.sequence <= h.sequence
                 /\ Shown(es, i) = IF h.id = i THEN h.view ELSE {}
    BY <1>2, <2>1, <2>3
  <2> QED
    BY <2>2, <2>3 DEF Tells
<1> QED
    BY <1>1, <1>2

\* The order of a set has all of its elements, each once.
LEMMA OrderIsOnto ==
    ASSUME NEW S, IsFiniteSet(S), NEW order \in Orders(S)
    PROVE  /\ Cardinality(S) \in Nat /\ DOMAIN order = 1 .. Cardinality(S)
           /\ \A m \in 1 .. Cardinality(S) : order[m] \in S
           /\ \A m, k \in 1 .. Cardinality(S) : order[m] = order[k] => m = k
           /\ \A i \in S : \E m \in 1 .. Cardinality(S) : order[m] = i
<1> DEFINE n == Cardinality(S)
<1>1. n \in Nat
    BY FS_CardinalityType
<1>2. order \in [1 .. n -> S] /\ \A m, k \in 1 .. n : order[m] = order[k] => m = k
    BY DEF Orders
<1>3. order \in Injection(1 .. n, S)
    BY <1>2 DEF Injection, IsInjective
<1>4. Cardinality(1 .. n) = n
  <2>1. Cardinality(1 .. n) = IF 1 > n THEN 0 ELSE n - 1 + 1
    BY <1>1, FS_Interval
  <2> QED
    BY <1>1, <2>1
<1>5. order \in Surjection(1 .. n, S)
    BY <1>3, <1>4, FS_Injection
<1>6. \A i \in S : \E m \in 1 .. n : order[m] = i
    BY <1>5 DEF Surjection
<1> QED
    BY <1>1, <1>2, <1>6

\* One event for each candidate that changes.
LEMMA TellsEach ==
    ASSUME NEW old, NEW es, NEW S, S \subseteq Nat, IsFiniteSet(S), NEW order \in Orders(S),
           NEW evs, DOMAIN evs = DOMAIN order,
           \A m \in DOMAIN order :
             /\ evs[m] \in EventRecord /\ evs[m].id = order[m] /\ evs[m].merged = {}
             /\ evs[m].view = Shown(es, order[m]),
           \A i \in Ids \ S : Shown(es, i) = Shown(old, i)
    PROVE  Tells(old, Range(evs), es)
<1> DEFINE n == Cardinality(S)
<1>1. /\ DOMAIN evs = 1 .. n /\ \A m \in 1 .. n : order[m] \in S
      /\ \A m, k \in 1 .. n : order[m] = order[k] => m = k
      /\ \A i \in S : \E m \in 1 .. n : order[m] = i
    BY OrderIsOnto
<1>2. /\ \A m \in 1 .. n : evs[m] \in Range(evs)
      /\ \A e \in Range(evs) : \E m \in 1 .. n : e = evs[m]
    BY <1>1 DEF Range
<1>3. \A m \in 1 .. n : /\ evs[m] \in EventRecord
                        /\ evs[m].sequence \in Nat
                        /\ evs[m].view = Shown(es, order[m])
                        /\ \A i : Mentions(evs[m], i) <=> i = order[m]
                        /\ evs[m].id = order[m]
    BY <1>1 DEF Mentions, EventRecord
<1> HIDE DEF n
<1> SUFFICES ASSUME NEW i \in Ids
             PROVE  \/ /\ \A e \in Range(evs) : ~Mentions(e, i)
                       /\ Shown(es, i) = Shown(old, i)
                    \/ \E e \in Range(evs) :
                         /\ Mentions(e, i)
                         /\ \A f \in Range(evs) : Mentions(f, i) => f.sequence <= e.sequence
                         /\ Shown(es, i) = IF e.id = i THEN e.view ELSE {}
    BY DEF Tells
<1>4. CASE i \in S
  <2>1. PICK m \in 1 .. n : order[m] = i
    BY <1>1, <1>4
  <2>2. evs[m] \in Range(evs) /\ Mentions(evs[m], i) /\ evs[m].id = i /\ evs[m].view = Shown(es, i)
    BY <1>2, <1>3, <2>1
  <2>3. \A f \in Range(evs) : Mentions(f, i) => f = evs[m]
    BY <1>1, <1>2, <1>3, <2>1
  <2>4. evs[m].sequence <= evs[m].sequence
    BY <1>3
  <2> QED
    BY <2>2, <2>3, <2>4
<1>5. CASE i \notin S
  <2>1. \A e \in Range(evs) : ~Mentions(e, i)
    BY <1>1, <1>2, <1>3, <1>5
  <2> QED
    BY <1>5, <2>1
<1> QED
    BY <1>4, <1>5

-----------------------------------------------------------------------------
(* The bounded history *)

\* Events that follow one another.
LEMMA ConsecutiveJoin ==
    ASSUME NEW s, NEW t, NEW n \in Int, Consecutive(s, n), Consecutive(t, n + Len(s))
    PROVE  /\ Consecutive(s \o t, n) /\ Len(s \o t) = Len(s) + Len(t)
           /\ \A m \in 1 .. Len(s) : (s \o t)[m] = s[m]
           /\ \A m \in 1 .. Len(t) : (s \o t)[Len(s) + m] = t[m]
           /\ Range(s \o t) = Range(s) \cup Range(t)
<1>1. /\ s \in Seq(EventRecord) /\ t \in Seq(EventRecord)
      /\ s \o t \in Seq(EventRecord) /\ Len(s \o t) = Len(s) + Len(t)
      /\ Len(s) \in Nat /\ Len(t) \in Nat
    BY DEF Consecutive
<1>2. /\ \A m \in 1 .. Len(s) : (s \o t)[m] = s[m]
      /\ \A m \in 1 .. Len(t) : (s \o t)[Len(s) + m] = t[m]
    BY <1>1
<1>3. /\ DOMAIN s = 1 .. Len(s) /\ DOMAIN t = 1 .. Len(t)
      /\ DOMAIN (s \o t) = 1 .. Len(s) + Len(t)
    BY <1>1
<1>4. \A m \in 1 .. Len(s) + Len(t) : m \in 1 .. Len(s) \/ (m - Len(s) \in 1 .. Len(t))
    BY <1>1
<1>5. \A m \in 1 .. Len(t) : Len(s) + m \in 1 .. Len(s) + Len(t)
    BY <1>1
<1>6. \A m \in 1 .. Len(s) : m \in 1 .. Len(s) + Len(t)
    BY <1>1
<1> DEFINE u == s \o t
<1>7. \A m \in 1 .. Len(s) + Len(t) :
        \/ m \in 1 .. Len(s) /\ u[m] = s[m]
        \/ m - Len(s) \in 1 .. Len(t) /\ u[m] = t[m - Len(s)]
  <2>1. \A m \in 1 .. Len(s) + Len(t) : m - Len(s) \in 1 .. Len(t) => Len(s) + (m - Len(s)) = m
    BY <1>1
  <2> QED
    BY <1>2, <1>4, <2>1
<1>8. /\ DOMAIN u = 1 .. Len(s) + Len(t) /\ u \in Seq(EventRecord)
      /\ \A m \in 1 .. Len(s) : u[m] = s[m]
      /\ \A m \in 1 .. Len(t) : u[Len(s) + m] = t[m]
    BY <1>1, <1>2, <1>3
<1> HIDE DEF u
<1>9. \A m \in DOMAIN u : u[m].sequence = n + m
  <2> SUFFICES ASSUME NEW m \in 1 .. Len(s) + Len(t)
               PROVE  u[m].sequence = n + m
    BY <1>8
  <2>1. CASE m \in 1 .. Len(s) /\ u[m] = s[m]
    BY <1>3, <2>1 DEF Consecutive
  <2>2. CASE m - Len(s) \in 1 .. Len(t) /\ u[m] = t[m - Len(s)]
    <3>1. u[m].sequence = n + Len(s) + (m - Len(s))
      BY <1>3, <2>2 DEF Consecutive
    <3> QED
      BY <1>1, <3>1
  <2> QED
    BY <1>7, <2>1, <2>2
<1>10. Range(u) = Range(s) \cup Range(t)
  <2>1. ASSUME NEW e \in Range(u)
        PROVE  e \in Range(s) \cup Range(t)
    BY <1>3, <1>7, <1>8 DEF Range
  <2>2. ASSUME NEW e \in Range(s)
        PROVE  e \in Range(u)
    BY <1>3, <1>6, <1>8 DEF Range
  <2>3. ASSUME NEW e \in Range(t)
        PROVE  e \in Range(u)
    <3>1. PICK m \in 1 .. Len(t) : e = t[m]
      BY <1>3 DEF Range
    <3>2. Len(s) + m \in 1 .. Len(s) + Len(t)
      BY <1>5
    <3>3. Len(s) + m \in DOMAIN u
      BY <1>8, <3>2
    <3>4. u[Len(s) + m] = e
      BY <1>8, <3>1
    <3> QED
      BY <3>3, <3>4 DEF Range
  <2> QED
    BY <2>1, <2>2, <2>3
<1> QED
    BY <1>1, <1>2, <1>8, <1>9, <1>10 DEF Consecutive, u

\* The bounded history is the end of the events.
LEMMA RetainedIsEnd ==
    ASSUME NEW evs \in Seq(EventRecord)
    PROVE  \E k \in 0 .. Len(evs) :
             /\ Retained(evs) \in Seq(EventRecord) /\ Len(Retained(evs)) = Len(evs) - k
             /\ \A m \in 1 .. Len(evs) - k : Retained(evs)[m] = evs[k + m]
             /\ evs # <<>> => Retained(evs) # <<>>
<1>1. Len(evs) \in Nat /\ MaxEvents \in Nat \ {0}
    BY InboxAssumption
<1>2. CASE Len(evs) > MaxEvents
  <2> DEFINE k == Len(evs) - MaxEvents
  <2>1. k \in 0 .. Len(evs) /\ k < Len(evs) /\ Retained(evs) = SubSeq(evs, k + 1, Len(evs))
    BY <1>1, <1>2 DEF Retained
  <2> HIDE DEF k
  <2>2. /\ Retained(evs) \in Seq(EventRecord) /\ Len(Retained(evs)) = Len(evs) - k
        /\ \A m \in 1 .. Len(evs) - k : Retained(evs)[m] = evs[k + m]
    BY <1>1, <2>1
  <2>3. Len(Retained(evs)) > 0
    BY <1>1, <2>1, <2>2
  <2>4. Retained(evs) # <<>>
    BY <2>3
  <2> QED
    BY <2>1, <2>2, <2>4
<1>3. CASE ~(Len(evs) > MaxEvents)
  <2>1. Retained(evs) = evs
    BY <1>3 DEF Retained
  <2>2. 0 \in 0 .. Len(evs) /\ Len(evs) - 0 = Len(evs) /\ \A m \in 1 .. Len(evs) : 0 + m = m
    BY <1>1
  <2> QED
    BY <2>1, <2>2
<1> QED
    BY <1>2, <1>3

\* What a client with a snapshot v of number n makes of a history that ends
\* with number sq, unless EventsSince tells it to start over, is es.
Complete(v, n, history, sq, es) ==
    ~(n < sq /\ (history = <<>> \/ n + 1 < history[1].sequence)) =>
        ReplayOf(v, {e \in {history[m] : m \in DOMAIN history} : e.sequence > n}) = es

\* The history of an operation whose events tell what it does: either all of
\* its events are there or the client is told to start over.
LEMMA CompleteWhenTold ==
    ASSUME NEW n \in Nat, NEW old, Consecutive(old, n - Len(old)), NEW evs, Consecutive(evs, n),
           NEW v, NEW es, es = [i \in DOMAIN es |-> es[i]], DOMAIN es \subseteq Ids,
           Tells(v, Range(evs), es)
    PROVE  /\ Complete(v, n, Retained(old \o evs), n + Len(evs), es)
           /\ Consecutive(Retained(old \o evs), n + Len(evs) - Len(Retained(old \o evs)))
<1> DEFINE all == old \o evs
           h   == Retained(all)
           lo  == Len(old)
           le  == Len(evs)
<1>1. lo \in Nat /\ le \in Nat /\ n - lo \in Int /\ n - lo + lo = n
      /\ DOMAIN evs = 1 .. le /\ DOMAIN old = 1 .. lo
    BY DEF Consecutive
<1>2. /\ Consecutive(all, n - lo) /\ Len(all) = lo + le
      /\ \A m \in 1 .. lo : all[m] = old[m]
      /\ \A m \in 1 .. le : all[lo + m] = evs[m]
    BY <1>1, ConsecutiveJoin
<1> HIDE DEF all
<1>3. all \in Seq(EventRecord) /\ DOMAIN all = 1 .. lo + le
      /\ \A m \in 1 .. lo + le : all[m].sequence = n - lo + m
    BY <1>2 DEF Consecutive
<1> HIDE DEF lo, le
<1>4. PICK k \in 0 .. Len(all) :
             /\ Retained(all) \in Seq(EventRecord) /\ Len(Retained(all)) = Len(all) - k
             /\ \A m \in 1 .. Len(all) - k : Retained(all)[m] = all[k + m]
             /\ all # <<>> => Retained(all) # <<>>
    BY <1>3, RetainedIsEnd
<1>4a. /\ k \in Nat /\ k <= lo + le /\ h \in Seq(EventRecord) /\ Len(h) = lo + le - k
       /\ \A m \in 1 .. lo + le - k : h[m] = all[k + m]
    BY SMTT(30), <1>1, <1>2, <1>4
<1> HIDE DEF h
<1>5. /\ DOMAIN h = 1 .. lo + le - k
      /\ \A m \in 1 .. lo + le - k : k + m \in 1 .. lo + le /\ h[m].sequence = n - lo + (k + m)
  <2>1. DOMAIN h = 1 .. lo + le - k
    BY <1>4a
  <2>2. \A m \in 1 .. lo + le - k : k + m \in 1 .. lo + le
    BY SMTT(30), <1>1, <1>4a
  <2>3. \A m \in 1 .. lo + le - k : h[m].sequence = n - lo + (k + m)
    BY <1>3, <1>4a, <2>2
  <2> QED
    BY <2>1, <2>2, <2>3
<1>5a. lo \in Nat /\ le \in Nat /\ k \in Nat /\ k <= lo + le /\ Len(h) = lo + le - k
    BY <1>1, <1>4a
<1>6. Consecutive(h, n + le - Len(h))
  <2>1. n + le - Len(h) = n - lo + k
    BY SMTT(30), <1>5a
  <2>2. \A m \in DOMAIN h : h[m].sequence = n - lo + k + m
    BY <1>1, <1>4a, <1>5
  <2> QED
    BY <1>4a, <2>1, <2>2 DEF Consecutive
<1> DEFINE since == {e \in {h[m] : m \in DOMAIN h} : e.sequence > n}
<1>7. ASSUME NEW e \in since
      PROVE  e \in Range(evs)
  <2>1. PICK m \in 1 .. lo + le - k : e = h[m] /\ e.sequence > n
    BY <1>5
  <2>1a. h[m].sequence = n - lo + (k + m) /\ k + m <= lo + le /\ k + m \in Int
    BY <1>5, <2>1
  <2>1b. h[m].sequence > n /\ k + m > lo
    BY SMTT(30), <1>5a, <2>1, <2>1a
  <2>2. k + m - lo \in 1 .. le
    BY SMTT(30), <1>5a, <2>1a, <2>1b
  <2>3. lo + (k + m - lo) = k + m
    BY <1>1
  <2>4. all[k + m] = evs[k + m - lo]
    BY <1>2, <2>2, <2>3
  <2> QED
    BY <1>1, <1>4a, <2>1, <2>2, <2>4 DEF Range
<1>8. ASSUME ~(n < n + le /\ (h = <<>> \/ n + 1 < h[1].sequence)), NEW e \in Range(evs)
      PROVE  e \in since
  <2>1. PICK j \in 1 .. le : e = evs[j]
    BY <1>1 DEF Range
  <2>2. n < n + le /\ h # <<>> /\ ~(n + 1 < h[1].sequence)
    BY <1>1, <1>8, <2>1
  <2>3. 1 \in 1 .. lo + le - k
    BY <1>1, <1>4a, <1>5, <2>2
  <2>3a. h[1].sequence = n - lo + (k + 1)
    BY <1>5, <2>3
  <2>4. k <= lo
    BY <1>5a, <2>2, <2>3a
  <2>5. lo + j - k \in 1 .. lo + le - k /\ k + (lo + j - k) = lo + j
    BY SMTT(30), <1>1, <2>4
  <2>6. h[lo + j - k] = e
    BY <1>2, <1>4a, <2>1, <2>5
  <2>7. e.sequence = n - lo + (lo + j)
    BY <1>5, <2>5, <2>6
  <2>8. e.sequence > n
    BY SMTT(30), <1>1, <2>7
  <2> QED
    BY <1>5, <2>5, <2>6, <2>8
<1>9. /\ Range(evs) \subseteq EventRecord
      /\ \A e, f \in Range(evs) : e.sequence = f.sequence => e = f
  <2>1. \A m \in 1 .. le : evs[m] \in EventRecord /\ evs[m].sequence = n + m
    BY <1>1 DEF Consecutive
  <2>2. \A e \in Range(evs) : \E m \in 1 .. le : e = evs[m]
    BY <1>1 DEF Range
  <2>3. \A m, j \in 1 .. le : n + m = n + j => m = j
    BY <1>5a
  <2> QED
    BY <2>1, <2>2, <2>3
<1>10. ASSUME ~(n < n + le /\ (h = <<>> \/ n + 1 < h[1].sequence))
       PROVE  ReplayOf(v, since) = es
  <2>1. since = Range(evs)
    BY <1>7, <1>8, <1>10
  <2> HIDE DEF since
  <2> QED
    BY <1>9, <2>1, ReplayIsTold
<1>11. Complete(v, n, h, n + le, es)
    BY <1>10 DEF Complete
<1> QED
    BY <1>6, <1>11 DEF h, all, le

\* Nothing has happened since the snapshot.
LEMMA CompleteAtOnce ==
    ASSUME NEW n \in Nat, NEW history, Consecutive(history, n - Len(history)),
           NEW v, v = [i \in DOMAIN v |-> v[i]], DOMAIN v \subseteq Ids
    PROVE  Complete(v, n, history, n, v)
<1>1. ASSUME NEW m \in DOMAIN history
      PROVE  ~(history[m].sequence > n)
  <2>1. Len(history) \in Nat /\ m \in 1 .. Len(history) /\ history[m].sequence = n - Len(history) + m
    BY DEF Consecutive
  <2> QED
    BY <2>1
<1>2. {e \in {history[m] : m \in DOMAIN history} : e.sequence > n} = {}
    BY <1>1
<1>3. ReplayOf(v, {}) = v
    BY TellsNothing, ReplayIsTold
<1> QED
    BY <1>2, <1>3 DEF Complete

-----------------------------------------------------------------------------
(* A round *)

\* One more event of a round.
LEMMA TellsOne ==
    ASSUME NEW n \in Nat, NEW p, Consecutive(p, n), NEW v, NEW old, Tells(v, Range(p), old),
           NEW e \in EventRecord, e.sequence = n + Len(p) + 1, NEW es, Effect(e, old, es)
    PROVE  /\ Consecutive(Append(p, e), n) /\ Len(Append(p, e)) = Len(p) + 1
           /\ Tells(v, Range(Append(p, e)), es)
<1>1. p \in Seq(EventRecord) /\ Len(p) \in Nat /\ DOMAIN p = 1 .. Len(p)
    BY DEF Consecutive
<1>2. Append(p, e) = p \o <<e>> /\ <<e>> \in Seq(EventRecord) /\ Len(<<e>>) = 1 /\ <<e>>[1] = e
    BY <1>1
<1>3. Consecutive(<<e>>, n + Len(p)) /\ Range(<<e>>) = {e}
  <2>1. DOMAIN <<e>> = {1}
    BY <1>2
  <2>2. \A m \in DOMAIN <<e>> : <<e>>[m].sequence = n + Len(p) + m
    BY <1>2, <2>1
  <2>3. Range(<<e>>) = {e}
    BY <1>2, <2>1 DEF Range
  <2> QED
    BY <1>2, <2>2, <2>3 DEF Consecutive
<1>4. /\ Consecutive(Append(p, e), n) /\ Len(Append(p, e)) = Len(p) + 1
      /\ Range(Append(p, e)) = Range(p) \cup {e}
    BY <1>1, <1>2, <1>3, ConsecutiveJoin
<1>5. Range(p) \subseteq EventRecord /\ \A f \in Range(p) : f.sequence < e.sequence
  <2>1. \A m \in 1 .. Len(p) : p[m] \in EventRecord /\ p[m].sequence = n + m
    BY <1>1 DEF Consecutive
  <2>2. \A m \in 1 .. Len(p) : n + m < n + Len(p) + 1
    BY <1>1
  <2> QED
    BY <1>1, <2>1, <2>2 DEF Range
<1>6. Tells(v, Range(p) \cup {e}, es)
    BY <1>5, TellsMore
<1> QED
    BY <1>4, <1>6

\* An event that removes a candidate.
LEMMA RemovalEffect ==
    ASSUME NEW es, es = [i \in DOMAIN es |-> es[i]], NEW n \in Nat, NEW type \in EventTypes,
           NEW i \in Nat
    PROVE  /\ Event(n, type, i, {}, {}) \in EventRecord
           /\ Event(n, type, i, {}, {}).sequence = n
           /\ Effect(Event(n, type, i, {}, {}), es, Without(es, {i}))
<1> DEFINE e == Event(n, type, i, {}, {})
           left == Without(es, {i})
<1>1. e \in EventRecord /\ e.sequence = n
    BY EventType
<1>2. e.id = i /\ e.view = {} /\ e.merged = {}
    BY DEF Event
<1>3. /\ left = [j \in DOMAIN left |-> left[j]] /\ DOMAIN left = DOMAIN es \ {i}
      /\ \A j \in DOMAIN left : left[j] = es[j]
    BY DEF Without
<1> HIDE DEF e, left
<1>4. ASSUME NEW j \in Ids
      PROVE  Shown(left, j) = IF i = j THEN {} ELSE Shown(es, j)
    BY <1>3 DEF Shown
<1>5. Effect(e, es, left)
    BY <1>2, <1>4 DEF Effect
<1> QED
    BY <1>1, <1>5 DEF e, left

\* An event that shows a candidate, into which others were folded.
LEMMA ArrivalEffect ==
    ASSUME NEW es, NEW n \in Nat, NEW type \in EventTypes,
           NEW i \in Nat, NEW c \in Candidates, NEW view, view = {c},
           NEW S \in SUBSET Nat, i \notin S
    PROVE  /\ Event(n, type, i, view, S) \in EventRecord
           /\ Event(n, type, i, view, S).sequence = n
           /\ Effect(Event(n, type, i, view, S), es, With(Without(es, S), i, c))
<1> DEFINE e == Event(n, type, i, view, S)
           new == With(Without(es, S), i, c)
<1>1. e \in EventRecord /\ e.sequence = n
  <2>1. view \in SUBSET Candidates
    OBVIOUS
  <2> QED
    BY <2>1 DEF Event, EventRecord
<1>2. e.id = i /\ e.view = view /\ e.merged = S
    BY DEF Event
<1>3. /\ DOMAIN new = (DOMAIN es \ S) \cup {i} /\ new[i] = c
      /\ \A j \in DOMAIN es \ S : j # i => new[j] = es[j]
    BY DEF Without, With
<1> HIDE DEF e, new
<1>4. Shown(new, i) = {c}
    BY <1>3 DEF Shown
<1>5. ASSUME NEW j \in Ids, j # i
      PROVE  Shown(new, j) = IF j \in S THEN {} ELSE Shown(es, j)
    BY <1>3, <1>5 DEF Shown
<1>6. Effect(e, es, new)
    BY <1>2, <1>4, <1>5 DEF Effect
<1> QED
    BY <1>1, <1>6 DEF e, new

\* With nothing folded.
LEMMA NewEffect ==
    ASSUME NEW es, es = [i \in DOMAIN es |-> es[i]], NEW n \in Nat, NEW type \in EventTypes,
           NEW i \in Nat, NEW c \in Candidates, NEW view, view = {c}
    PROVE  /\ Event(n, type, i, view, {}) \in EventRecord
           /\ Event(n, type, i, view, {}).sequence = n
           /\ Effect(Event(n, type, i, view, {}), es, With(es, i, c))
<1>1. Without(es, {}) = es
    BY DEF Without
<1>2. {} \in SUBSET Nat /\ i \notin {}
    OBVIOUS
<1> QED
    BY <1>1, <1>2, ArrivalEffect

\* What an observation leaves alone.
LEMMA RoundTells ==
    ASSUME CursorInv, ingesting, up,
           UNCHANGED <<up, configured, events, disk, ingesting, observedAt, before, now, vouched>>,
           sequence' <= MaxSequence, Consecutive(pending', before.sequence),
           Tells(before.entries, Range(pending'), entries')
    PROVE  CursorInv'
  BY DEF CursorInv, BoundInv, PublicSequence

\* The facts about a round that its steps use.
LEMMA RoundFacts ==
    ASSUME InboxInv, CursorInv, ingesting
    PROVE  /\ up /\ sequence \in Nat /\ before.sequence \in Nat
           /\ sequence = before.sequence + Len(pending) /\ pending \in Seq(EventRecord)
           /\ Consecutive(pending, before.sequence)
           /\ Tells(before.entries, Range(pending), entries)
           /\ entries = [i \in DOMAIN entries |-> entries[i]]
           /\ DOMAIN entries \subseteq Nat
           /\ configured \in Configs /\ vouched \subseteq Keys /\ observedAt \in Times
<1>1. up
    BY DEF InboxInv, TypeInv, FlagInv
<1>2. Sound(entries, configured, sequence, vouched) /\ sequence \in Nat
    BY DEF InboxInv, TypeInv, SoundInv
<1>3. entries = [i \in DOMAIN entries |-> entries[i]] /\ DOMAIN entries \subseteq Nat
    BY <1>2 DEF Sound
<1> QED
    BY <1>1, <1>2, <1>3 DEF InboxInv, TypeInv, EventInv, CursorInv, Consecutive

\* An observation of a known candidate.
LEMMA KnownTells ==
    ASSUME InboxInv, CursorInv, NEW o \in Sightings, IngestKnown(o)
    PROVE  CursorInv'
<1>0. /\ ingesting /\ sequence + 1 <= MaxSequence
      /\ UNCHANGED <<up, configured, events, disk, ingesting, observedAt, before, now, vouched>>
    BY DEF IngestKnown, InRound
<1>1. PICK i \in Chosen(o) :
        /\ entries' = With(Without(entries, Folded(o, i)), i, Merged(o, i))
        /\ pending' = Append(pending,
                             Event(sequence + 1, IF Folded(o, i) = {} THEN "updated" ELSE "merged",
                                   i, {Merged(o, i)}, Folded(o, i)))
        /\ sequence' = sequence + 1
    BY DEF IngestKnown, Merged, Folded, Seen
<1>2. /\ up /\ sequence \in Nat /\ before.sequence \in Nat
      /\ sequence = before.sequence + Len(pending)
      /\ Consecutive(pending, before.sequence)
      /\ Tells(before.entries, Range(pending), entries)
      /\ entries = [j \in DOMAIN entries |-> entries[j]]
      /\ DOMAIN entries \subseteq Nat
    BY <1>0, RoundFacts
<1>3. /\ i \in Nat /\ Merged(o, i) \in Candidates
      /\ Folded(o, i) \in SUBSET Nat /\ i \notin Folded(o, i)
    BY <1>2, KnownEffect DEF SoundCandidate, validCandidate
<1> DEFINE type == IF Folded(o, i) = {} THEN "updated" ELSE "merged"
           view == {Merged(o, i)}
           e == Event(sequence + 1, type, i, view, Folded(o, i))
<1>4. type \in EventTypes /\ sequence + 1 \in Nat
    BY <1>2 DEF EventTypes
<1> HIDE DEF type
<1>5. pending' = Append(pending, e)
    BY <1>1 DEF type
<1>6. e \in EventRecord /\ e.sequence = sequence + 1 /\ Effect(e, entries, entries')
  <2> DEFINE new == With(Without(entries, Folded(o, i)), i, Merged(o, i))
  <2>1. e \in EventRecord /\ e.sequence = sequence + 1 /\ Effect(e, entries, new)
    <3>1. view = {Merged(o, i)}
      OBVIOUS
    <3> HIDE DEF view
    <3> QED
      BY <1>3, <1>4, <3>1, ArrivalEffect
  <2>2. entries' = new
    BY <1>1
  <2> HIDE DEF e, new
  <2> QED
    BY <2>1, <2>2
<1> HIDE DEF e
<1>7. e.sequence = before.sequence + Len(pending) + 1
    BY <1>2, <1>6
<1>8. /\ Consecutive(pending', before.sequence)
      /\ Tells(before.entries, Range(pending'), entries')
    BY <1>2, <1>5, <1>6, <1>7, TellsOne
<1>9. sequence' <= MaxSequence
    BY <1>0, <1>1
<1> QED
    BY <1>0, <1>2, <1>8, <1>9, RoundTells

\* An observation of an unknown host: the eviction, if any, is told first.
LEMMA CreateTells ==
    ASSUME InboxInv, CursorInv, NEW o \in Sightings, ingesting,
           UNCHANGED <<up, configured, events, disk, ingesting, observedAt, before, now, vouched>>,
           NEW p, Consecutive(p, before.sequence), NEW sq \in Nat,
           sq = before.sequence + Len(p) + 1, sq <= MaxSequence,
           NEW es, es = [i \in DOMAIN es |-> es[i]], Tells(before.entries, Range(p), es),
           NEW c, c = Observed(NewCandidate(observedAt), o, configured, observedAt),
           entries' = With(es, sq, c), sequence' = sq,
           pending' = Append(p, Event(sq, "discovered", sq, {c}, {}))
    PROVE  CursorInv'
<1>1. /\ up /\ before.sequence \in Nat
      /\ configured \in Configs /\ vouched \subseteq Keys /\ observedAt \in Times
    BY RoundFacts
<1>2. c \in Candidates
    BY <1>1, NewSound, InboxAssumption DEF SoundCandidate, validCandidate
<1> DEFINE view == {c}
           e == Event(sq, "discovered", sq, view, {})
<1>3. "discovered" \in EventTypes
    BY DEF EventTypes
<1>4. e \in EventRecord /\ e.sequence = sq /\ Effect(e, es, entries')
  <2> DEFINE new == With(es, sq, c)
  <2>1. e \in EventRecord /\ e.sequence = sq /\ Effect(e, es, new)
    <3>1. view = {c}
      OBVIOUS
    <3> HIDE DEF view
    <3> QED
      BY <1>2, <1>3, <3>1, NewEffect
  <2>2. entries' = new
    OBVIOUS
  <2> HIDE DEF e, new
  <2> QED
    BY <2>1, <2>2
<1> HIDE DEF e
<1>5. /\ Consecutive(Append(p, e), before.sequence)
      /\ Tells(before.entries, Range(Append(p, e)), entries')
    BY <1>1, <1>4, TellsOne
<1>6. pending' = Append(p, e)
    BY DEF e
<1> QED
    BY <1>1, <1>5, <1>6, RoundTells

\* There is room for it.
LEMMA NewTells ==
    ASSUME InboxInv, CursorInv, NEW o \in Sightings, IngestNew(o)
    PROVE  CursorInv'
<1> DEFINE c == Observed(NewCandidate(observedAt), o, configured, observedAt)
           n == sequence + Len(<<>>) + 1
<1>0. /\ ingesting /\ sequence + 1 <= MaxSequence
      /\ UNCHANGED <<up, configured, events, disk, ingesting, observedAt, before, now, vouched>>
      /\ Create(o, entries, <<>>)
    BY DEF IngestNew, InRound
<1>1. /\ sequence \in Nat /\ before.sequence \in Nat /\ pending \in Seq(EventRecord)
      /\ sequence = before.sequence + Len(pending)
      /\ Consecutive(pending, before.sequence)
      /\ Tells(before.entries, Range(pending), entries)
      /\ entries = [j \in DOMAIN entries |-> entries[j]]
    BY <1>0, RoundFacts
<1>2. /\ entries' = With(entries, n, c) /\ sequence' = n
      /\ pending' = pending \o Append(<<>>, Event(n, "discovered", n, {c}, {}))
    BY <1>0 DEF Create
<1>3. n = sequence + 1
    BY <1>1
<1> HIDE DEF c, n
<1>4. Append(<<>>, Event(n, "discovered", n, {c}, {})) = <<Event(n, "discovered", n, {c}, {})>>
    OBVIOUS
<1>5. pending' = Append(pending, Event(n, "discovered", n, {c}, {}))
    BY <1>1, <1>2, <1>4
<1>6. n \in Nat /\ n = before.sequence + Len(pending) + 1 /\ n <= MaxSequence
    BY <1>0, <1>1, <1>3
<1>7. c = Observed(NewCandidate(observedAt), o, configured, observedAt)
    BY DEF c
<1> QED
    BY <1>0, <1>1, <1>2, <1>5, <1>6, <1>7, CreateTells

\* Another one makes room.
LEMMA EvictingTells ==
    ASSUME InboxInv, CursorInv, NEW o \in Sightings, IngestEvicting(o)
    PROVE  CursorInv'
<1> DEFINE c == Observed(NewCandidate(observedAt), o, configured, observedAt)
<1>0. /\ ingesting /\ sequence + 2 <= MaxSequence
      /\ UNCHANGED <<up, configured, events, disk, ingesting, observedAt, before, now, vouched>>
    BY DEF IngestEvicting, InRound
<1>1. PICK i \in EvictionTargets :
        Create(o, Without(entries, {i}), <<Event(sequence + 1, "evicted", i, {}, {})>>)
    BY DEF IngestEvicting
<1> DEFINE e == Event(sequence + 1, "evicted", i, {}, {})
           es == Without(entries, {i})
           n == sequence + Len(<<e>>) + 1
<1>2. /\ sequence \in Nat /\ before.sequence \in Nat /\ pending \in Seq(EventRecord)
      /\ sequence = before.sequence + Len(pending)
      /\ Consecutive(pending, before.sequence)
      /\ Tells(before.entries, Range(pending), entries)
      /\ entries = [j \in DOMAIN entries |-> entries[j]] /\ DOMAIN entries \subseteq Nat
    BY <1>0, RoundFacts
<1>3. i \in Nat
    BY <1>1, <1>2 DEF EvictionTargets
<1>4. /\ entries' = With(es, n, c) /\ sequence' = n
      /\ pending' = pending \o Append(<<e>>, Event(n, "discovered", n, {c}, {}))
    BY <1>1 DEF Create
<1>5. e \in EventRecord /\ e.sequence = sequence + 1 /\ Effect(e, entries, es)
  <2>1. "evicted" \in EventTypes /\ sequence + 1 \in Nat
    BY <1>2 DEF EventTypes
  <2> QED
    BY <1>2, <1>3, <2>1, RemovalEffect
<1>6. es = [j \in DOMAIN es |-> es[j]]
    BY DEF Without
<1>7. n = sequence + 2
    BY <1>2
<1> HIDE DEF c, e, es, n
<1> DEFINE f == Event(n, "discovered", n, {c}, {})
<1>8. pending' = Append(Append(pending, e), f)
  <2>1. pending' = pending \o Append(<<e>>, f)
    BY <1>4
  <2> HIDE DEF f
  <2>2. pending \o Append(<<e>>, f) = Append(Append(pending, e), f)
    BY <1>2
  <2> QED
    BY <2>1, <2>2
<1>9. /\ Consecutive(Append(pending, e), before.sequence)
      /\ Len(Append(pending, e)) = Len(pending) + 1
      /\ Tells(before.entries, Range(Append(pending, e)), es)
  <2>1. e.sequence = before.sequence + Len(pending) + 1
    BY <1>2, <1>5
  <2> QED
    BY <1>2, <1>5, <2>1, TellsOne
<1>10. n \in Nat /\ n = before.sequence + Len(Append(pending, e)) + 1 /\ n <= MaxSequence
    BY <1>0, <1>2, <1>7, <1>9
<1>11. c = Observed(NewCandidate(observedAt), o, configured, observedAt)
    BY DEF c
<1> QED
    BY <1>0, <1>4, <1>6, <1>8, <1>9, <1>10, <1>11, CreateTells

\* There is no room, and the round says so.
LEMMA DroppedTells ==
    ASSUME InboxInv, CursorInv, NEW o \in Sightings, IngestDropped(o)
    PROVE  CursorInv'
<1> DEFINE e == Event(sequence + 1, "dropped", 0, {}, {})
<1>0. /\ ingesting /\ sequence + 1 <= MaxSequence
      /\ UNCHANGED <<up, configured, events, disk, ingesting, observedAt, before, now, vouched>>
      /\ pending' = Append(pending, e) /\ sequence' = sequence + 1 /\ entries' = entries
    BY DEF IngestDropped, InRound
<1>1. /\ up /\ sequence \in Nat /\ before.sequence \in Nat
      /\ sequence = before.sequence + Len(pending)
      /\ Consecutive(pending, before.sequence)
      /\ Tells(before.entries, Range(pending), entries)
      /\ entries = [j \in DOMAIN entries |-> entries[j]] /\ DOMAIN entries \subseteq Nat
    BY <1>0, RoundFacts
<1>2. e \in EventRecord /\ e.sequence = sequence + 1
  <2>1. "dropped" \in EventTypes /\ sequence + 1 \in Nat /\ 0 \in Nat
        /\ {} \subseteq Candidates /\ {} \subseteq Nat
    BY <1>1 DEF EventTypes
  <2> QED
    BY <2>1, EventType
<1>3. Effect(e, entries, entries')
  <2>1. e.id = 0 /\ e.merged = {}
    BY DEF Event
  <2>2. 0 \notin Ids
    BY InboxAssumption DEF Ids
  <2> HIDE DEF e
  <2> QED
    BY <1>0, <2>1, <2>2 DEF Effect
<1> HIDE DEF e
<1>4. e.sequence = before.sequence + Len(pending) + 1
    BY <1>1, <1>2
<1>5. /\ Consecutive(pending', before.sequence)
      /\ Tells(before.entries, Range(pending'), entries')
    BY <1>0, <1>1, <1>2, <1>3, <1>4, TellsOne
<1>6. sequence' <= MaxSequence
    BY <1>0
<1> QED
    BY <1>0, <1>1, <1>5, <1>6, RoundTells

\* The candidates that expire, one event each, as IngestBegin and Expire do it.
LEMMA ExpiredTells ==
    ASSUME InboxInv, NEW order \in Orders(Stale)
    PROVE  /\ Consecutive(Removals(order, "expired"), sequence)
           /\ Len(Removals(order, "expired")) = Cardinality(Stale)
           /\ Cardinality(Stale) \in Nat
           /\ Tells(entries, Range(Removals(order, "expired")), Without(entries, Stale))
<1> DEFINE evs == Removals(order, "expired")
           n == Cardinality(Stale)
           left == Without(entries, Stale)
<1>0. sequence \in Nat /\ Sound(entries, configured, sequence, vouched)
    BY DEF InboxInv, TypeInv, SoundInv
<1>1. IsFiniteSet(Stale) /\ Stale \subseteq DOMAIN entries /\ Stale \subseteq Nat
  <2>1. Stale \subseteq DOMAIN entries
    BY DEF Stale
  <2>2. IsFiniteSet(DOMAIN entries) /\ DOMAIN entries \subseteq Nat
    BY <1>0 DEF Sound
  <2> QED
    BY <2>1, <2>2, FS_Subset
<1>2. n \in Nat /\ DOMAIN order = 1 .. n /\ \A m \in 1 .. n : order[m] \in Stale
    BY <1>1, OrderIsOnto
<1>3. "expired" \in EventTypes
    BY DEF EventTypes
<1>4. Numbered(evs, sequence + n) /\ Len(evs) = n
    BY <1>0, <1>1, <1>2, <1>3, RemovalEvents
<1>5. /\ DOMAIN evs = DOMAIN order
      /\ \A m \in 1 .. n : evs[m] = Event(sequence + m, "expired", order[m], {}, {})
    BY <1>2 DEF Removals
<1>6. /\ DOMAIN left = DOMAIN entries \ Stale
      /\ \A i \in DOMAIN left : left[i] = entries[i]
    BY DEF Without
<1> HIDE DEF evs, n, left
<1>7. /\ \A i \in Stale : Shown(left, i) = {}
      /\ \A i \in Ids \ Stale : Shown(left, i) = Shown(entries, i)
    BY <1>6 DEF Shown
<1>8. ASSUME NEW m \in 1 .. n
      PROVE  /\ evs[m].sequence = sequence + m /\ evs[m].id = order[m]
             /\ evs[m].merged = {} /\ evs[m].view = {}
  <2>1. evs[m] = Event(sequence + m, "expired", order[m], {}, {})
    BY <1>5
  <2> QED
    BY <2>1 DEF Event
<1>9. evs \in Seq(EventRecord) /\ \A m \in 1 .. n : evs[m] \in EventRecord
    BY <1>2, <1>4, <1>5 DEF Numbered
<1>10. Consecutive(evs, sequence)
    BY <1>2, <1>5, <1>8, <1>9 DEF Consecutive
<1>11. \A m \in DOMAIN order :
             /\ evs[m] \in EventRecord /\ evs[m].id = order[m] /\ evs[m].merged = {}
             /\ evs[m].view = Shown(left, order[m])
    BY <1>2, <1>7, <1>8, <1>9
<1>12. Tells(entries, Range(evs), left)
    BY <1>1, <1>5, <1>7, <1>11, TellsEach
<1> QED
    BY <1>2, <1>4, <1>10, <1>12 DEF evs, n, left

-----------------------------------------------------------------------------
(* Every step *)

\* What a client that had a snapshot before the step has after it.
Rebuilt == Unlocked' => Complete(Public, PublicSequence, events', sequence', entries')

\* A round begins with what has expired.
LEMMA BeginTells ==
    ASSUME InboxInv, CursorInv, IngestBegin
    PROVE  CursorInv'
<1>0. /\ up /\ ~ingesting /\ ingesting' /\ UNCHANGED <<up, events, disk>>
      /\ before' = [entries |-> entries, sequence |-> sequence]
      /\ entries' = Without(entries, Stale) /\ sequence' = sequence + Cardinality(Stale)
      /\ sequence + Cardinality(Stale) < MaxSequence
    BY DEF IngestBegin, Unlocked
<1>1. PICK order \in Orders(Stale) : pending' = Removals(order, "expired")
    BY DEF IngestBegin
<1>2. /\ Consecutive(pending', sequence) /\ Cardinality(Stale) \in Nat
      /\ Tells(entries, Range(pending'), entries')
    BY <1>0, <1>1, ExpiredTells
<1>3. sequence \in Nat /\ MaxSequence \in Nat
    BY InboxAssumption DEF InboxInv, TypeInv
<1>4. BoundInv'
    BY <1>0, <1>2, <1>3 DEF CursorInv, BoundInv
<1>5. before'.entries = entries /\ before'.sequence = sequence
    BY <1>0
<1>6. Consecutive(events', PublicSequence' - Len(events'))
    BY <1>0, <1>5 DEF CursorInv, PublicSequence
<1> QED
    BY <1>0, <1>2, <1>4, <1>5, <1>6 DEF CursorInv

\* An inbox within the bounds has candidates with the IDs that clients know.
LEMMA InboxIds ==
    ASSUME NEW es, NEW cf, NEW sq \in Nat, NEW keys, Sound(es, cf, sq, keys), sq <= MaxSequence
    PROVE  es = [i \in DOMAIN es |-> es[i]] /\ DOMAIN es \subseteq Ids
<1>1. 1 .. sq \subseteq Ids
    BY InboxAssumption DEF Ids
<1> QED
    BY <1>1 DEF Sound

\* A step that changes nothing a client sees.
LEMMA SnapshotStays ==
    ASSUME InboxInv, CursorInv, up, Public' = Public, PublicSequence' = PublicSequence,
           events' = events
    PROVE  Rebuilt /\ Consecutive(events', PublicSequence' - Len(events'))
<1>1. Consecutive(events, PublicSequence - Len(events))
    BY DEF CursorInv
<1>2. /\ PublicSequence \in Nat /\ PublicSequence <= MaxSequence
      /\ Sound(Public, configured, PublicSequence, vouched)
    BY DEF InboxInv, TypeInv, SoundInv, CursorInv, BoundInv, Public, PublicSequence
<1>3. Complete(Public, PublicSequence, events, PublicSequence, Public)
  <2>1. Public = [i \in DOMAIN Public |-> Public[i]] /\ DOMAIN Public \subseteq Ids
    BY <1>2, InboxIds
  <2> QED
    BY <1>1, <1>2, <2>1, CompleteAtOnce
<1>4. Unlocked' => entries' = Public /\ sequence' = PublicSequence
    BY DEF Unlocked, Public, PublicSequence
<1> QED
    BY <1>1, <1>3, <1>4 DEF Rebuilt

\* A rollback.
LEMMA RollbackTells ==
    ASSUME InboxInv, CursorInv, ingesting, Rollback, RoundIsOver, up' = up,
           disk' = disk \/ disk'.sequence = sequence
    PROVE  CursorInv' /\ Rebuilt
<1>1. up
    BY DEF InboxInv, TypeInv, FlagInv
<1>2. Public' = Public /\ PublicSequence' = PublicSequence /\ events' = events /\ ~ingesting'
    BY DEF Rollback, RoundIsOver, Public, PublicSequence
<1>3. Rebuilt /\ Consecutive(events', PublicSequence' - Len(events'))
    BY <1>1, <1>2, SnapshotStays
<1>4. BoundInv'
    BY <1>2 DEF CursorInv, BoundInv, Rollback
<1> QED
    BY <1>1, <1>2, <1>3, <1>4 DEF CursorInv

\* The events of a round are published with its save, all at once.
LEMMA EndTells ==
    ASSUME InboxInv, CursorInv, InboxInv', NEW res \in SaveResults, IngestEnd(res)
    PROVE  CursorInv' /\ Rebuilt
<1>0. ingesting /\ RoundIsOver /\ up' = up /\ (disk' = disk \/ disk'.sequence = sequence)
    BY DEF IngestEnd, Saved
<1>1. CASE res # "ok"
    BY <1>0, <1>1, RollbackTells DEF IngestEnd
<1>2. CASE res = "ok"
  <2>1. events' = Retained(events \o pending) /\ UNCHANGED <<entries, sequence>> /\ ~ingesting'
    BY <1>0, <1>2 DEF IngestEnd, RoundIsOver
  <2>2. /\ up /\ sequence \in Nat /\ before.sequence \in Nat
        /\ sequence = before.sequence + Len(pending)
        /\ Consecutive(pending, before.sequence)
        /\ Tells(before.entries, Range(pending), entries)
    BY <1>0, RoundFacts
  <2>3. Consecutive(events, before.sequence - Len(events))
    BY <1>0 DEF CursorInv, PublicSequence
  <2>4. entries = [i \in DOMAIN entries |-> entries[i]] /\ DOMAIN entries \subseteq Ids
    BY <2>2, InboxIds DEF InboxInv, SoundInv, CursorInv, BoundInv
  <2>5. /\ Complete(before.entries, before.sequence, events', sequence, entries)
        /\ Consecutive(events', sequence - Len(events'))
    <3> DEFINE h == Retained(events \o pending)
    <3>1. /\ Complete(before.entries, before.sequence, h, before.sequence + Len(pending), entries)
          /\ Consecutive(h, before.sequence + Len(pending) - Len(h))
      BY <2>2, <2>3, <2>4, CompleteWhenTold
    <3>2. events' = h
      BY <2>1
    <3> HIDE DEF h
    <3> QED
      BY <2>2, <3>1, <3>2
  <2>6. Rebuilt
    BY <1>0, <2>1, <2>5 DEF Rebuilt, Public, PublicSequence
  <2>7. CursorInv'
    BY <1>0, <2>1, <2>2, <2>5 DEF CursorInv, BoundInv, PublicSequence
  <2> QED
    BY <2>6, <2>7
<1> QED
    BY <1>1, <1>2

\* A method other than a round: its events are published with its save.
LEMMA CommitTells ==
    ASSUME InboxInv, CursorInv, InboxInv', Unlocked, UNCHANGED <<up, roundVars>>,
           NEW es, NEW cf, NEW evs, NEW res, Commit(es, cf, evs, res),
           Consecutive(evs, sequence), sequence + Len(evs) <= MaxSequence,
           Tells(entries, Range(evs), es)
    PROVE  CursorInv' /\ Rebuilt
<1>0. up /\ ~ingesting /\ ~ingesting' /\ up' /\ sequence \in Nat /\ Len(evs) \in Nat
    BY DEF Unlocked, roundVars, InboxInv, TypeInv, Consecutive
<1>1. disk' = disk \/ disk'.sequence = sequence + Len(evs)
    BY DEF Commit, Saved
<1>2. Consecutive(events, sequence - Len(events))
    BY <1>0 DEF CursorInv, PublicSequence
<1>3. CASE res # "ok"
  <2>1. UNCHANGED <<entries, sequence, events>>
    BY <1>3 DEF Commit, memVars
  <2>2. Rebuilt /\ Consecutive(events', PublicSequence' - Len(events'))
    BY <1>0, <2>1, SnapshotStays DEF Public, PublicSequence
  <2> QED
    BY <1>0, <1>1, <2>1, <2>2 DEF CursorInv, BoundInv
<1>4. CASE res = "ok"
  <2>1. entries' = es /\ sequence' = sequence + Len(evs) /\ events' = Retained(events \o evs)
    BY <1>4 DEF Commit
  <2>2. sequence' \in Nat /\ sequence' <= MaxSequence
    BY <1>0, <2>1
  <2>3. es = [i \in DOMAIN es |-> es[i]] /\ DOMAIN es \subseteq Ids
    BY <2>1, <2>2, InboxIds DEF InboxInv, SoundInv
  <2>4. /\ Complete(entries, sequence, events', sequence', es)
        /\ Consecutive(events', sequence' - Len(events'))
    <3> DEFINE h == Retained(events \o evs)
    <3>1. /\ Complete(entries, sequence, h, sequence + Len(evs), es)
          /\ Consecutive(h, sequence + Len(evs) - Len(h))
      BY <1>0, <1>2, <2>3, CompleteWhenTold
    <3>2. events' = h /\ sequence' = sequence + Len(evs)
      BY <2>1
    <3> HIDE DEF h
    <3>3. Complete(entries, sequence, events', sequence', es)
      BY <3>1, <3>2
    <3>4. sequence + Len(evs) - Len(h) = sequence' - Len(events')
      <4>1. Len(events') = Len(h)
        BY <3>2
      <4>2. Len(h) \in Nat
        BY <3>1 DEF Consecutive
      <4> QED
        BY <1>0, <3>2, <4>1, <4>2
    <3>5. Consecutive(h, sequence' - Len(events'))
      BY <3>1, <3>4
    <3> QED
      BY <3>2, <3>3, <3>5
  <2>5. Rebuilt
    BY <1>0, <2>1, <2>4 DEF Rebuilt, Public, PublicSequence
  <2>6. CursorInv'
    BY <1>0, <1>1, <2>2, <2>4 DEF CursorInv, BoundInv, PublicSequence
  <2> QED
    BY <2>5, <2>6
<1> QED
    BY <1>3, <1>4

\* A review.
LEMMA TransitionTells ==
    ASSUME InboxInv, CursorInv, InboxInv', NEW i, NEW type \in EventTypes, NEW c \in Candidates,
           NEW res, Transition(i, type, c, res)
    PROVE  CursorInv' /\ Rebuilt
<1> DEFINE view == {c}
           e == Event(sequence + 1, type, i, view, {})
           es == [entries EXCEPT ![i] = c]
<1>0. /\ Unlocked /\ UNCHANGED <<up, roundVars>> /\ sequence < MaxSequence /\ i \in DOMAIN entries
      /\ Commit(es, configured, <<e>>, res)
    BY DEF Transition, Outside
<1>1. sequence \in Nat /\ Sound(entries, configured, sequence, vouched)
    BY DEF InboxInv, TypeInv, SoundInv
<1>2. i \in Nat /\ entries = [j \in DOMAIN entries |-> entries[j]] /\ sequence + 1 \in Nat
    BY <1>0, <1>1 DEF Sound
<1>3. es = With(entries, i, c)
    BY <1>0, <1>2, ExceptIsWith
<1>4. e \in EventRecord /\ e.sequence = sequence + 1 /\ Effect(e, entries, es)
  <2> DEFINE new == With(entries, i, c)
  <2>1. e \in EventRecord /\ e.sequence = sequence + 1 /\ Effect(e, entries, new)
    <3>1. view = {c}
      OBVIOUS
    <3> HIDE DEF view, es
    <3> QED
      BY <1>2, <3>1, NewEffect
  <2>2. es = new
    BY <1>3
  <2> HIDE DEF e, new, es
  <2> QED
    BY <2>1, <2>2
<1> HIDE DEF e, es
<1>5. /\ <<>> \in Seq(EventRecord) /\ Len(<<>>) = 0 /\ Consecutive(<<>>, sequence)
      /\ Range(<<>>) = {} /\ Append(<<>>, e) = <<e>>
    BY DEF Consecutive, Range
<1>6. Tells(entries, Range(<<>>), entries)
    BY <1>5, TellsNothing
<1>7. e.sequence = sequence + Len(<<>>) + 1
    BY <1>1, <1>4, <1>5
<1>8. /\ Consecutive(Append(<<>>, e), sequence) /\ Len(Append(<<>>, e)) = Len(<<>>) + 1
      /\ Tells(entries, Range(Append(<<>>, e)), es)
    BY <1>1, <1>4, <1>5, <1>6, <1>7, TellsOne
<1>9. Consecutive(<<e>>, sequence) /\ Len(<<e>>) = 1 /\ Tells(entries, Range(<<e>>), es)
    BY <1>5, <1>8
<1>10. sequence + Len(<<e>>) <= MaxSequence
    BY <1>0, <1>1, <1>9, InboxAssumption
<1> QED
    BY <1>0, <1>9, <1>10, CommitTells

\* Relabelling tells of the candidates whose label changes.
LEMMA ReplaceTells ==
    ASSUME InboxInv, CursorInv, InboxInv', NEW next \in Configs, NEW res,
           ReplaceConfiguredFingerprints(next, res)
    PROVE  CursorInv' /\ Rebuilt
<1> DEFINE es == [i \in DOMAIN entries |-> Relabelled(entries[i], LabelOf(next, entries[i]))]
           changed == {i \in DOMAIN entries : es[i].configuredNames # entries[i].configuredNames}
           n == Cardinality(changed)
<1>0. /\ sequence \in Nat /\ Sound(entries, configured, sequence, vouched) /\ configured \in Configs
      /\ Unlocked /\ UNCHANGED <<up, roundVars>> /\ vouched \subseteq Keys
      /\ sequence + n <= MaxSequence
    BY DEF InboxInv, TypeInv, SoundInv, ReplaceConfiguredFingerprints, Outside
<1>1. PICK order \in Orders(changed) :
        Commit(es, next, [m \in DOMAIN order |->
                 Event(sequence + m, "configured_changed", order[m], {es[order[m]]}, {})], res)
    BY DEF ReplaceConfiguredFingerprints
<1> DEFINE evs == [m \in DOMAIN order |->
                     Event(sequence + m, "configured_changed", order[m], {es[order[m]]}, {})]
<1>2. Sound(es, next, sequence, vouched) /\ DOMAIN es = DOMAIN entries
    BY <1>0, SoundRelabelled
<1>3. /\ changed \subseteq DOMAIN entries
      /\ \A i \in DOMAIN entries \ changed : es[i] = entries[i]
  <2>1. ASSUME NEW i \in DOMAIN entries,
               Relabelled(entries[i], LabelOf(next, entries[i])).configuredNames
                 = entries[i].configuredNames
        PROVE  Relabelled(entries[i], LabelOf(next, entries[i])) = entries[i]
    BY <1>0, <2>1, RelabelledSound DEF Sound
  <2>2. \A i \in DOMAIN entries : es[i] = Relabelled(entries[i], LabelOf(next, entries[i]))
    OBVIOUS
  <2> HIDE DEF es
  <2>3. \A i \in DOMAIN entries :
          es[i].configuredNames = entries[i].configuredNames => es[i] = entries[i]
    BY <2>1, <2>2
  <2> QED
    BY <2>3
<1> HIDE DEF es, changed
<1>4. IsFiniteSet(changed) /\ changed \subseteq Nat
    BY <1>0, <1>3, FS_Subset DEF Sound
<1>5. n \in Nat /\ DOMAIN order = 1 .. n /\ \A m \in 1 .. n : order[m] \in changed
    BY <1>1, <1>4, OrderIsOnto
<1>6. ASSUME NEW m \in 1 .. n
      PROVE  /\ evs[m] \in EventRecord /\ evs[m].sequence = sequence + m
             /\ evs[m].id = order[m] /\ evs[m].merged = {} /\ evs[m].view = Shown(es, order[m])
  <2>1. evs[m] = Event(sequence + m, "configured_changed", order[m], {es[order[m]]}, {})
    BY <1>5
  <2> HIDE DEF evs
  <2>2. order[m] \in DOMAIN entries
    BY <1>3, <1>5
  <2>3. /\ sequence + m \in Nat /\ order[m] \in Nat /\ {} \subseteq Nat
        /\ "configured_changed" \in EventTypes
    BY <1>0, <1>5, <2>2 DEF Sound, EventTypes
  <2>4. {es[order[m]]} \subseteq Candidates
    BY <1>2, <2>2 DEF Sound, SoundCandidate, validCandidate
  <2>5. Shown(es, order[m]) = {es[order[m]]}
    BY <1>2, <2>2, ShownIsInbox DEF Sound
  <2>6. evs[m] \in EventRecord /\ evs[m].sequence = sequence + m
    BY <2>1, <2>3, <2>4, EventType
  <2>7. evs[m].id = order[m] /\ evs[m].merged = {} /\ evs[m].view = {es[order[m]]}
    BY <2>1 DEF Event
  <2> QED
    BY <2>5, <2>6, <2>7
<1>7. /\ evs = [m \in 1 .. n |-> evs[m]] /\ DOMAIN evs = 1 .. n /\ DOMAIN evs = DOMAIN order
      /\ Commit(es, next, evs, res)
    BY <1>1, <1>5
<1> HIDE DEF evs, n
<1>8. evs \in [1 .. n -> EventRecord]
    BY <1>6, <1>7
<1>9. Consecutive(evs, sequence) /\ Len(evs) = n
  <2>1. evs \in Seq(EventRecord) /\ Len(evs) = n
    BY <1>5, <1>8
  <2> QED
    BY <1>6, <1>7, <2>1 DEF Consecutive
<1>10. \A i \in Ids \ changed : Shown(es, i) = Shown(entries, i)
    BY <1>2, <1>3 DEF Shown
<1>11. Tells(entries, Range(evs), es)
  <2>1. \A m \in DOMAIN order :
             /\ evs[m] \in EventRecord /\ evs[m].id = order[m] /\ evs[m].merged = {}
             /\ evs[m].view = Shown(es, order[m])
    BY <1>5, <1>6
  <2> QED
    BY <1>1, <1>4, <1>7, <1>10, <2>1, TellsEach
<1>12. sequence + Len(evs) <= MaxSequence
    BY <1>0, <1>9
<1> QED
    BY <1>0, <1>7, <1>9, <1>11, <1>12, CommitTells

\* Expiration.
LEMMA ExpireTells ==
    ASSUME InboxInv, CursorInv, InboxInv', NEW res, Expire(res)
    PROVE  CursorInv' /\ Rebuilt
<1>0. /\ Unlocked /\ UNCHANGED <<up, roundVars>> /\ sequence + Cardinality(Stale) <= MaxSequence
    BY DEF Expire, Outside
<1>1. PICK order \in Orders(Stale) :
        Commit(Without(entries, Stale), configured, Removals(order, "expired"), res)
    BY DEF Expire
<1>2. /\ Consecutive(Removals(order, "expired"), sequence)
      /\ Len(Removals(order, "expired")) = Cardinality(Stale)
      /\ Tells(entries, Range(Removals(order, "expired")), Without(entries, Stale))
    BY <1>1, ExpiredTells
<1> QED
    BY <1>0, <1>1, <1>2, CommitTells

\* The process ends, and begins with an empty history.
LEMMA ProcessTells ==
    ASSUME InboxInv, CursorInv, InboxInv', Crash \/ Open
    PROVE  CursorInv' /\ (up => Rebuilt)
<1>1. Consecutive(<<>>, 0) /\ \A n \in Nat : Consecutive(<<>>, n - Len(<<>>))
  <2>1. <<>> \in Seq(EventRecord) /\ DOMAIN <<>> = {}
    OBVIOUS
  <2> QED
    BY <2>1 DEF Consecutive
<1>2. CASE Crash
  <2>1. ~up' /\ ~ingesting' /\ events' = <<>> /\ sequence' = 0 /\ disk' = disk
    BY <1>2 DEF Crash, RoundIsOver
  <2>2. Rebuilt
    BY <2>1 DEF Rebuilt, Unlocked
  <2>3. PublicSequence' = 0 /\ 0 \in Nat
    BY <2>1 DEF PublicSequence
  <2>4. Consecutive(events', PublicSequence' - Len(events'))
    BY <1>1, <2>1, <2>3
  <2> QED
    BY <2>1, <2>2, <2>4, InboxAssumption DEF CursorInv, BoundInv
<1>3. CASE Open
  <2>1. /\ ~up /\ up' /\ ~ingesting /\ ingesting' = ingesting /\ events' = events
        /\ sequence' = disk.sequence /\ disk' = disk
    BY <1>3 DEF Open, roundVars, InboxInv, TypeInv, FlagInv
  <2>2. events' = <<>> /\ PublicSequence' = disk.sequence /\ disk.sequence \in Nat
    BY <2>1 DEF CursorInv, PublicSequence, InboxInv, TypeInv
  <2>3. Consecutive(events', PublicSequence' - Len(events'))
    BY <1>1, <2>2
  <2> QED
    BY <2>1, <2>3 DEF CursorInv, BoundInv
<1> QED
    BY <1>2, <1>3

\* Steps that change neither the inbox nor the round.
LEMMA CursorUntouched ==
    ASSUME InboxInv, CursorInv, UNCHANGED <<up, memVars, disk, roundVars>>
    PROVE  CursorInv' /\ (up => Rebuilt)
<1>1. CursorInv'
    BY DEF CursorInv, BoundInv, PublicSequence, memVars, roundVars
<1>2. Public' = Public /\ PublicSequence' = PublicSequence /\ events' = events
    BY DEF Public, PublicSequence, memVars, roundVars
<1> QED
    BY <1>1, <1>2, SnapshotStays

\* Every step keeps the invariant, and a client can follow it.
LEMMA CursorStep ==
    ASSUME InboxInv, CursorInv, InboxInv', Next
    PROVE  CursorInv' /\ (up => Rebuilt)
<1>0. /\ sequence \in Nat /\ Sound(entries, configured, sequence, vouched) /\ configured \in Configs
      /\ vouched \subseteq Keys
      /\ \A m \in DOMAIN entries :
           SoundCandidate(entries[m], configured) /\ Justified(entries[m], vouched)
    BY DEF InboxInv, TypeInv, SoundInv, Sound
<1>1. CASE IngestBegin
  <2>1. Rebuilt
    BY <1>1 DEF IngestBegin, Rebuilt, Unlocked
  <2> QED
    BY <1>1, <2>1, BeginTells
<1>2. ASSUME NEW o \in Sightings,
             IngestKnown(o) \/ IngestNew(o) \/ IngestEvicting(o) \/ IngestDropped(o)
      PROVE  CursorInv' /\ (up => Rebuilt)
  <2>1. ingesting'
    BY <1>2 DEF IngestKnown, IngestNew, IngestEvicting, IngestDropped, InRound
  <2>2. Rebuilt
    BY <2>1 DEF Rebuilt, Unlocked
  <2> QED
    BY <1>2, <2>2, KnownTells, NewTells, EvictingTells, DroppedTells
<1>3. ASSUME NEW o \in Sightings, IngestAborted(o)
      PROVE  CursorInv' /\ (up => Rebuilt)
  <2>1. ingesting /\ Rollback /\ RoundIsOver /\ up' = up /\ disk' = disk
    BY <1>3 DEF IngestAborted
  <2> QED
    BY <2>1, RollbackTells
<1>4. ASSUME NEW m \in DOMAIN entries, NEW res \in SaveResults, MarkVerified(m, res)
      PROVE  CursorInv' /\ (up => Rebuilt)
  <2>1. Transition(m, "verified", Marked(entries[m]), res) /\ entries[m].fingerprint # NoKey
    BY <1>4 DEF MarkVerified
  <2>2. Marked(entries[m]) \in Candidates /\ "verified" \in EventTypes
    BY <1>0, <2>1, MarkedSound DEF SoundCandidate, validCandidate, EventTypes
  <2> QED
    BY <2>1, <2>2, TransitionTells
<1>5. ASSUME NEW m \in DOMAIN entries, NEW res \in SaveResults, Restore(m, res)
      PROVE  CursorInv' /\ (up => Rebuilt)
  <2>1. Transition(m, "restored", Restored(entries[m]), res)
    BY <1>5 DEF Restore
  <2>2. Restored(entries[m]) \in Candidates /\ "restored" \in EventTypes
    BY <1>0, RestoredSound DEF SoundCandidate, validCandidate, EventTypes
  <2> QED
    BY <2>1, <2>2, TransitionTells
<1>6. ASSUME NEW res \in SaveResults, Ignore(res)
      PROVE  CursorInv' /\ (up => Rebuilt)
  <2>1. Transition(ignoring, "ignored", Ignored(entries[ignoring]), res)
    BY <1>6 DEF Ignore
  <2>2. ignoring \in DOMAIN entries
    BY <2>1 DEF Transition
  <2>3. Ignored(entries[ignoring]) \in Candidates /\ "ignored" \in EventTypes
    BY <1>0, <2>2, IgnoredSound DEF SoundCandidate, validCandidate, EventTypes
  <2> QED
    BY <2>1, <2>3, TransitionTells
<1>7. CASE IgnoreNotFound \/ ClockTick \/ \E m \in DOMAIN entries : IgnoreDecide(m)
  <2>1. UNCHANGED <<up, memVars, disk, roundVars>>
    BY <1>7 DEF IgnoreNotFound, ClockTick, IgnoreDecide
  <2> QED
    BY <2>1, CursorUntouched
<1> QED
    BY <1>1, <1>2, <1>3, <1>4, <1>5, <1>6, <1>7, EndTells, ReplaceTells, ExpireTells, ProcessTells
    DEF Next

\* At the start there is nothing to tell.
LEMMA CursorInit ==
    ASSUME Init
    PROVE  CursorInv
<1>1. /\ up = FALSE /\ sequence = 0 /\ events = <<>> /\ ingesting = FALSE /\ disk.sequence = 0
    BY DEF Init, NoFile
<1>2. Consecutive(<<>>, 0 - Len(<<>>))
  <2>1. <<>> \in Seq(EventRecord) /\ DOMAIN <<>> = {}
    OBVIOUS
  <2> QED
    BY <2>1 DEF Consecutive
<1> QED
    BY <1>1, <1>2, InboxAssumption DEF CursorInv, BoundInv, PublicSequence

\* A client that holds a snapshot and asks for the events since is told to
\* start over or can rebuild the inbox: every round, merge, eviction, review,
\* relabelling, expiration and rollback is told by its events, and the
\* bounded history never hides that it has lost some.
THEOREM ClientsCanFollow == Spec => CursorComplete
<1>1. InboxInv /\ CursorInv /\ [Next]_vars /\ InboxInv' => CursorInv'
  <2>1. ASSUME InboxInv, CursorInv, UNCHANGED vars
        PROVE  CursorInv'
    BY <2>1, CursorUntouched DEF vars
  <2> QED
    BY <2>1, CursorStep
<1>2. InboxInv /\ CursorInv /\ [Next]_vars /\ InboxInv' =>
        [up =>
          \A v \in {Public}, n \in {PublicSequence} :
            (Unlocked /\ ~ResetRequired(n) => Replayed(v, n) = entries)']_vars
  <2> SUFFICES ASSUME InboxInv, CursorInv, Next, InboxInv', up,
                      NEW v \in {Public}, NEW n \in {PublicSequence},
                      Unlocked', ~ResetRequired(n)'
               PROVE  Replayed(v, n)' = entries'
    OBVIOUS
  <2>1. Complete(v, n, events', sequence', entries')
    BY CursorStep DEF Rebuilt
  <2>2. ~(n < sequence' /\ (events' = <<>> \/ n + 1 < events'[1].sequence))
    BY DEF ResetRequired
  <2>3. ReplayOf(v, {e \in {events'[m] : m \in DOMAIN events'} : e.sequence > n}) = entries'
    BY <2>1, <2>2 DEF Complete
  <2>4. Replayed(v, n)' = ReplayOf(v, {e \in {events'[m] : m \in DOMAIN events'} : e.sequence > n})
    BY DEF Replayed, ReplayOf, Since
  <2> QED
    BY <2>3, <2>4
<1> QED
    BY <1>1, <1>2, InboxInvariant, CursorInit, PTL DEF Spec, CursorComplete
=============================================================================
