----------------------- MODULE IntegrityEngine_proofs ------------------------
(***************************************************************************)
(* Proofs about IntegrityEngine, for every set of tracks and messages,     *)
(* every policy, whatever the evaluators find, and any number of           *)
(* observations in any order of their times.                               *)
(***************************************************************************)
EXTENDS IntegrityEngine, FiniteSetTheorems, SequenceTheorems, TLAPS

-----------------------------------------------------------------------------
(* Bounded windows                                                         *)

\* What a deque with maxlen n holds after an append.
LEMMA NewestFacts ==
    ASSUME NEW S, NEW s \in Seq(S), NEW x \in S, NEW n \in Nat \ {0}, Len(s) <= n
    PROVE  /\ Newest(Append(s, x), n) \in Seq(S)
           /\ Len(Newest(Append(s, x), n)) \in 1..n
           /\ Last(Newest(Append(s, x), n)) = x
           /\ Len(s) < n => Newest(Append(s, x), n) = Append(s, x)
           /\ Len(s) = n => /\ Len(Newest(Append(s, x), n)) = n
                            /\ Newest(Append(s, x), n)[n] = x
                            /\ \A i \in 1..(n - 1) : Newest(Append(s, x), n)[i] = s[i + 1]
<1>. DEFINE t == Append(s, x)
<1>1. /\ t \in Seq(S) /\ Len(t) = Len(s) + 1 /\ t[Len(s) + 1] = x
      /\ \A i \in 1..Len(s) : t[i] = s[i]
      /\ Len(s) \in Nat
  BY AppendProperties, LenProperties
<1>. HIDE DEF t
<1>2. CASE Len(s) < n
  <2>1. Newest(t, n) = t
    BY <1>1, <1>2 DEF Newest
  <2>. QED BY <1>1, <1>2, <2>1 DEF Last, t
<1>3. CASE Len(s) = n
  <2>. DEFINE u == SubSeq(t, 2, n + 1)
  <2>1. Newest(t, n) = u
    BY <1>1, <1>3 DEF Newest
  <2>2. \A i \in 2..(n + 1) : t[i] \in S
    BY <1>1, <1>3, ElementOfSeq
  <2>3. u \in Seq(S) /\ Len(u) = n /\ \A i \in 1..n : u[i] = t[i + 1]
    <3>1. /\ u \in Seq(S) /\ Len(u) = (n + 1) - 2 + 1
          /\ \A i \in 1..((n + 1) - 2 + 1) : u[i] = t[2 + i - 1]
      BY <2>2, SubSeqProperties
    <3>. HIDE DEF u
    <3>. QED BY <3>1
  <2>. HIDE DEF u
  <2>4. u[n] = x /\ \A i \in 1..(n - 1) : u[i] = s[i + 1]
    BY <1>1, <1>3, <2>3
  <2>. QED BY <1>3, <2>1, <2>3, <2>4 DEF Last, t
<1>. QED BY <1>1, <1>2, <1>3

Distinct(s) == \A i, j \in 1..Len(s) : s[i] = s[j] => i = j

\* A window without repetitions has as many elements as places.
LEMMA DistinctCount ==
    ASSUME NEW S, NEW s \in Seq(S), Distinct(s)
    PROVE  Cardinality(Elements(s)) = Len(s)
<1>1. Len(s) \in Nat /\ s \in [1..Len(s) -> Elements(s)]
  <2>1. Len(s) \in Nat /\ s \in [1..Len(s) -> S]
    BY LenProperties
  <2>. QED BY <2>1 DEF Elements
<1>2. s \in Bijection(1..Len(s), Elements(s))
  BY <1>1 DEF Distinct, Elements, Bijection, Injection, Surjection, IsInjective
<1>3. IsFiniteSet(1..Len(s)) /\ Cardinality(1..Len(s)) = Len(s)
  BY <1>1, FS_Interval
<1>. QED BY <1>2, <1>3, FS_Bijection DEF ExistsBijection

\* Appending to a window keeps it the list of the ids remembered.
LEMMA WindowMoves ==
    ASSUME NEW S, NEW s \in Seq(S), NEW x \in S, NEW n \in Nat \ {0}, Len(s) <= n,
           Distinct(s), x \notin Elements(s)
    PROVE  /\ Distinct(Newest(Append(s, x), n))
           /\ Elements(Newest(Append(s, x), n))
                = (IF Len(s) = n THEN Elements(s) \ {Head(s)} ELSE Elements(s)) \cup {x}
<1>. DEFINE u == Newest(Append(s, x), n)
<1>0. Len(s) \in Nat
  BY LenProperties
<1>a. /\ Len(s) < n => u = Append(s, x)
      /\ Len(s) = n => /\ Len(u) = n /\ u[n] = x
                       /\ \A i \in 1..(n - 1) : u[i] = s[i + 1]
  BY NewestFacts
<1>1. CASE Len(s) < n
  <2>1. u = Append(s, x)
    BY <1>1, <1>a
  <2>2. /\ Len(u) = Len(s) + 1 /\ u[Len(s) + 1] = x
        /\ \A i \in 1..Len(s) : u[i] = s[i]
    BY <2>1, AppendProperties
  <2>. HIDE DEF u
  <2>3. \A i \in 1..Len(u) : i \in 1..Len(s) \/ i = Len(s) + 1
    BY <1>0, <2>2
  <2>4. Len(s) + 1 \in 1..Len(u) /\ \A i \in 1..Len(s) : i \in 1..Len(u)
    BY <1>0, <2>2
  <2>5. Distinct(u)
    BY <2>2, <2>3 DEF Distinct, Elements
  <2>6. Elements(u) = Elements(s) \cup {x}
    BY <2>2, <2>3, <2>4 DEF Elements
  <2>. QED BY <1>0, <1>1, <2>5, <2>6 DEF u
<1>2. CASE Len(s) = n
  <2>1. /\ Len(u) = n /\ u[n] = x
        /\ \A i \in 1..(n - 1) : u[i] = s[i + 1]
    BY <1>2, <1>a
  <2>. HIDE DEF u
  <2>2. /\ \A i \in 1..n : i \in 1..(n - 1) \/ i = n
        /\ \A i \in 1..(n - 1) : i + 1 \in 1..n /\ i + 1 # 1
        /\ \A i \in 1..n : i # 1 => i - 1 \in 1..(n - 1) /\ (i - 1) + 1 = i
        /\ 1 \in 1..n /\ n \in 1..n /\ 1..(n - 1) \subseteq 1..n
        /\ \A i, j \in 1..(n - 1) : i + 1 = j + 1 => i = j
    OBVIOUS
  <2>3. Head(s) = s[1]
    BY <1>2
  <2>4. \A i \in 1..(n - 1) : u[i] # x
    BY <1>2, <2>1, <2>2 DEF Elements
  <2>5. Distinct(u)
    BY <1>2, <2>1, <2>2, <2>4 DEF Distinct
  <2>6. \A i \in 1..n : i # 1 => s[i] # s[1]
    BY <1>2, <2>2 DEF Distinct
  <2>7. Elements(u) \subseteq (Elements(s) \ {Head(s)}) \cup {x}
    BY <1>2, <2>1, <2>2, <2>3, <2>6 DEF Elements
  <2>8. (Elements(s) \ {Head(s)}) \cup {x} \subseteq Elements(u)
    BY <1>2, <2>1, <2>2, <2>3 DEF Elements
  <2>. QED BY <1>2, <2>5, <2>7, <2>8 DEF u
<1>. QED BY <1>0, <1>1, <1>2

-----------------------------------------------------------------------------
(* One track                                                               *)

Actives == UNION {[D -> Evidence] : D \in SUBSET Keys}

TrackRecords ==
    [observations : Seq(Nat), active : Actives, seen : SUBSET Messages, seenOrder : Seq(Messages)]

\* A track of the cache, or the new one.
Trackable(tr) ==
    /\ tr \in TrackRecords
    /\ Len(tr.observations) <= MaximumObservations
    /\ Len(tr.seenOrder) <= MaximumObservations
    /\ tr.seen = Elements(tr.seenOrder) /\ Distinct(tr.seenOrder)

Unexpired(tr) ==
    \A k \in DOMAIN tr.active :
        tr.active[k].expires > LastTime(tr) \/ tr.active[k].last = LastTime(tr)

Good(tr) == Trackable(tr) /\ Len(tr.observations) \in 1..MaximumObservations /\ Unexpired(tr)

LEMMA NewTrackIsTrackable == Trackable(NewTrack)
<1>1. <<>> \in Seq(Nat) /\ <<>> \in Seq(Messages) /\ Len(<<>>) = 0
  BY EmptySeq
<1>2. <<>> \in Actives
  <2>1. {} \in SUBSET Keys /\ <<>> \in [{} -> Evidence]
    OBVIOUS
  <2>. QED BY <2>1 DEF Actives
<1>3. Elements(<<>>) = {} /\ Distinct(<<>>)
  BY <1>1 DEF Elements, Distinct
<1>4. 0 <= MaximumObservations
  BY ConstantsAssumption
<1>. QED BY <1>1, <1>2, <1>3, <1>4 DEF Trackable, TrackRecords, NewTrack

LEMMA ObservationFacts ==
    ASSUME NEW o \in Observations
    PROVE  /\ o.message \in Messages /\ o.message.at \in Nat /\ o.message.track \in Tracks
           /\ o.severity \in {"WARNING", "CRITICAL"}
           /\ MaximumObservations \in Nat \ {0} /\ EvidenceTtl \in Nat
BY ConstantsAssumption DEF Observations

LEMMA ActiveFacts ==
    ASSUME NEW a \in Actives
    PROVE  /\ a \in [DOMAIN a -> Evidence] /\ DOMAIN a \subseteq Keys
           /\ \A k \in DOMAIN a : a[k] \in Evidence
<1>1. PICK D \in SUBSET Keys : a \in [D -> Evidence]
  BY DEF Actives
<1>. QED BY <1>1

\* What a candidate leaves as evidence.
LEMMA OpenOrUpdateFacts ==
    ASSUME NEW a \in Actives, NEW k \in Keys, NEW o \in Observations
    PROVE  /\ OpenOrUpdate(a, k, o) \in Evidence
           /\ OpenOrUpdate(a, k, o).last = o.message.at
           /\ k \in DOMAIN a => OpenOrUpdate(a, k, o).id = a[k].id
<1>1. /\ o.message \in Messages /\ o.message.at \in Nat /\ o.message.at + EvidenceTtl \in Nat
      /\ o.severity \in {"WARNING", "CRITICAL"}
  BY ObservationFacts
<1>2. SeverityOf(k, o) \in Severities
  BY <1>1 DEF SeverityOf, Severities
<1>3. CASE k \notin DOMAIN a
  BY <1>1, <1>2, <1>3 DEF OpenOrUpdate, Evidence
<1>4. CASE k \in DOMAIN a
  <2>. DEFINE e == a[k]
  <2>1. e \in Evidence
    BY <1>4, ActiveFacts
  <2>2. OpenOrUpdate(a, k, o) = [e EXCEPT !.severity = Worse(e.severity, SeverityOf(k, o)),
                                         !.last = o.message.at, !.expires = o.message.at + EvidenceTtl]
    BY <1>4 DEF OpenOrUpdate
  <2>3. Worse(e.severity, SeverityOf(k, o)) \in Severities
    BY <1>2, <2>1 DEF Worse, Evidence
  <2>. HIDE DEF e
  <2>4. OpenOrUpdate(a, k, o) \in Evidence /\ OpenOrUpdate(a, k, o).last = o.message.at
        /\ OpenOrUpdate(a, k, o).id = e.id
    BY <1>1, <2>1, <2>2, <2>3 DEF Evidence
  <2>. QED BY <2>4 DEF e
<1>. QED BY <1>3, <1>4

\* The evidence of a track that is not due at an observation's time.
OpenAt(tr, o) == Without(tr.active, Due(tr, o.message.at))

ActiveAfter(tr, o) ==
    [k \in DOMAIN OpenAt(tr, o) \cup Raised(tr, o) |->
        IF k \in Raised(tr, o) THEN OpenOrUpdate(OpenAt(tr, o), k, o) ELSE OpenAt(tr, o)[k]]

LEMMA OpenFacts ==
    ASSUME NEW tr, tr.active \in Actives, NEW o \in Observations
    PROVE  /\ OpenAt(tr, o) \in Actives
           /\ DOMAIN OpenAt(tr, o) = DOMAIN tr.active \ Due(tr, o.message.at)
           /\ \A k \in DOMAIN OpenAt(tr, o) : /\ OpenAt(tr, o)[k] = tr.active[k]
                                             /\ tr.active[k].expires > o.message.at
<1>. DEFINE a == OpenAt(tr, o)
<1>1. /\ DOMAIN tr.active \subseteq Keys
      /\ \A k \in DOMAIN tr.active : tr.active[k] \in Evidence
  BY ActiveFacts
<1>2. a = [k \in DOMAIN tr.active \ Due(tr, o.message.at) |-> tr.active[k]]
  BY DEF OpenAt, Without
<1>3. DOMAIN a = DOMAIN tr.active \ Due(tr, o.message.at)
  BY <1>2
<1>4. a \in [DOMAIN a -> Evidence] /\ DOMAIN a \in SUBSET Keys
  BY <1>1, <1>2
<1>5. a \in Actives
  BY <1>4 DEF Actives
<1>6. \A k \in DOMAIN a : a[k] = tr.active[k] /\ ~(tr.active[k].expires <= o.message.at)
  BY <1>2 DEF Due
<1>7. \A k \in DOMAIN a : tr.active[k].expires \in Nat
  BY <1>1, <1>3 DEF Evidence
<1>8. o.message.at \in Nat
  BY ObservationFacts
<1>. HIDE DEF a
<1>9. \A k \in DOMAIN a : tr.active[k].expires > o.message.at
  BY <1>6, <1>7, <1>8
<1>. QED BY <1>3, <1>5, <1>6, <1>9 DEF a

LEMMA ActiveAfterFacts ==
    ASSUME NEW tr, tr.active \in Actives, NEW o \in Observations
    PROVE  /\ ActiveAfter(tr, o) \in Actives
           /\ DOMAIN ActiveAfter(tr, o)
                 = (DOMAIN tr.active \ Due(tr, o.message.at)) \cup Raised(tr, o)
           /\ \A k \in Raised(tr, o) : ActiveAfter(tr, o)[k].last = o.message.at
           /\ \A k \in DOMAIN tr.active \ Due(tr, o.message.at) :
                 /\ ActiveAfter(tr, o)[k].id = tr.active[k].id
                 /\ k \notin Raised(tr, o) => ActiveAfter(tr, o)[k].expires > o.message.at
<1>. DEFINE a == OpenAt(tr, o)
            raised == Raised(tr, o)
            b == ActiveAfter(tr, o)
<1>1. /\ a \in Actives /\ DOMAIN a = DOMAIN tr.active \ Due(tr, o.message.at)
      /\ \A k \in DOMAIN a : a[k] = tr.active[k] /\ tr.active[k].expires > o.message.at
  BY OpenFacts
<1>2. raised \subseteq Keys
  BY DEF Raised
<1>3. b = [k \in DOMAIN a \cup raised |-> IF k \in raised THEN OpenOrUpdate(a, k, o) ELSE a[k]]
  BY DEF ActiveAfter
<1>. HIDE DEF a, raised, b
<1>4. \A k \in raised : /\ OpenOrUpdate(a, k, o) \in Evidence
                        /\ OpenOrUpdate(a, k, o).last = o.message.at
                        /\ k \in DOMAIN a => OpenOrUpdate(a, k, o).id = a[k].id
  BY <1>1, <1>2, OpenOrUpdateFacts
<1>5. DOMAIN a \subseteq Keys /\ \A k \in DOMAIN a : a[k] \in Evidence
  BY <1>1, ActiveFacts
<1>6. DOMAIN b \in SUBSET Keys /\ b \in [DOMAIN b -> Evidence]
  BY <1>2, <1>3, <1>4, <1>5
<1>7. b \in Actives
  BY <1>6 DEF Actives
<1>8. DOMAIN b = DOMAIN a \cup raised
  BY <1>3
<1>9. \A k \in raised : b[k].last = o.message.at
  BY <1>3, <1>4
<1>10. \A k \in DOMAIN a : b[k].id = a[k].id /\ (k \notin raised => b[k] = a[k])
  BY <1>3, <1>4
<1>11. \A k \in DOMAIN a : b[k].id = tr.active[k].id /\ (k \notin raised => b[k].expires > o.message.at)
  BY <1>1, <1>10
<1>. QED BY <1>1, <1>7, <1>8, <1>9, <1>11 DEF a, raised, b

LEMMA RememberFacts ==
    ASSUME NEW tr, Trackable(tr), NEW m \in Messages
    PROVE  /\ RememberMessage(tr, m) \in TrackRecords
           /\ Len(RememberMessage(tr, m).seenOrder) <= MaximumObservations
           /\ RememberMessage(tr, m).seen = Elements(RememberMessage(tr, m).seenOrder)
           /\ Distinct(RememberMessage(tr, m).seenOrder)
           /\ RememberMessage(tr, m).observations = tr.observations
<1>1. /\ tr \in TrackRecords /\ tr.seenOrder \in Seq(Messages) /\ tr.seen \in SUBSET Messages
      /\ Len(tr.seenOrder) <= MaximumObservations /\ MaximumObservations \in Nat \ {0}
      /\ tr.seen = Elements(tr.seenOrder) /\ Distinct(tr.seenOrder)
  BY ConstantsAssumption DEF Trackable, TrackRecords
<1>2. CASE m \in tr.seen
  BY <1>1, <1>2 DEF RememberMessage
<1>3. CASE m \notin tr.seen
  <2>. DEFINE order == Newest(Append(tr.seenOrder, m), MaximumObservations)
              seen == (IF Len(tr.seenOrder) = MaximumObservations
                       THEN tr.seen \ {Head(tr.seenOrder)} ELSE tr.seen) \cup {m}
  <2>1. RememberMessage(tr, m) = [tr EXCEPT !.seen = seen, !.seenOrder = order]
    BY <1>3 DEF RememberMessage
  <2>2. order \in Seq(Messages) /\ Len(order) \in 1..MaximumObservations
    BY <1>1, NewestFacts
  <2>3. Distinct(order) /\ Elements(order) = seen
    BY <1>1, <1>3, WindowMoves
  <2>4. seen \in SUBSET Messages
    BY <1>1
  <2>. HIDE DEF order, seen
  <2>5. /\ RememberMessage(tr, m) \in TrackRecords
        /\ RememberMessage(tr, m).seen = seen /\ RememberMessage(tr, m).seenOrder = order
        /\ RememberMessage(tr, m).observations = tr.observations
    BY <1>1, <2>1, <2>2, <2>4 DEF TrackRecords
  <2>6. Len(order) <= MaximumObservations
    BY <1>1, <2>2
  <2>. QED BY <2>3, <2>5, <2>6
<1>. QED BY <1>2, <1>3

\* A track after an observation.
LEMMA ObservedFacts ==
    ASSUME NEW tr, Trackable(tr), NEW o \in Observations
    PROVE  /\ Good(Observed(tr, o))
           /\ LastTime(Observed(tr, o)) = o.message.at
           /\ Observed(tr, o).active = ActiveAfter(tr, o)
<1>. DEFINE new == Observed(tr, o)
            at == o.message.at
            seen == RememberMessage(tr, o.message)
            observations == Newest(Append(seen.observations, at), MaximumObservations)
<1>a. \A s \in Seq(Nat) : Len(s) <= MaximumObservations =>
         /\ Newest(Append(s, at), MaximumObservations) \in Seq(Nat)
         /\ Len(Newest(Append(s, at), MaximumObservations)) \in 1..MaximumObservations
         /\ Last(Newest(Append(s, at), MaximumObservations)) = at
  <2>1. at \in Nat /\ MaximumObservations \in Nat \ {0}
    BY ObservationFacts
  <2>. HIDE DEF at
  <2>. SUFFICES ASSUME NEW s \in Seq(Nat), Len(s) <= MaximumObservations
                PROVE  /\ Newest(Append(s, at), MaximumObservations) \in Seq(Nat)
                       /\ Len(Newest(Append(s, at), MaximumObservations)) \in 1..MaximumObservations
                       /\ Last(Newest(Append(s, at), MaximumObservations)) = at
    OBVIOUS
  <2>2. \A S : s \in Seq(S) /\ at \in S =>
           /\ Newest(Append(s, at), MaximumObservations) \in Seq(S)
           /\ Len(Newest(Append(s, at), MaximumObservations)) \in 1..MaximumObservations
           /\ Last(Newest(Append(s, at), MaximumObservations)) = at
    BY <2>1, NewestFacts
  <2>. QED BY <2>1, <2>2
<1>1. /\ tr.observations \in Seq(Nat) /\ Len(tr.observations) <= MaximumObservations
      /\ tr.active \in Actives /\ MaximumObservations \in Nat \ {0}
      /\ at \in Nat /\ o.message \in Messages
  BY ObservationFacts DEF Trackable, TrackRecords
<1>2. new = [seen EXCEPT !.observations = observations, !.active = ActiveAfter(tr, o)]
  BY DEF Observed, ActiveAfter, OpenAt
<1>3. /\ seen \in TrackRecords /\ Len(seen.seenOrder) <= MaximumObservations
      /\ seen.seen = Elements(seen.seenOrder) /\ Distinct(seen.seenOrder)
      /\ seen.observations = tr.observations
  BY <1>1, RememberFacts
<1>4. /\ observations \in Seq(Nat) /\ Len(observations) \in 1..MaximumObservations
      /\ Last(observations) = at
  BY <1>1, <1>3, <1>a
<1>5. /\ ActiveAfter(tr, o) \in Actives
      /\ DOMAIN ActiveAfter(tr, o) = (DOMAIN tr.active \ Due(tr, at)) \cup Raised(tr, o)
      /\ \A k \in Raised(tr, o) : ActiveAfter(tr, o)[k].last = at
      /\ \A k \in DOMAIN tr.active \ Due(tr, at) :
            k \notin Raised(tr, o) => ActiveAfter(tr, o)[k].expires > at
  BY <1>1, ActiveAfterFacts
<1>. HIDE DEF seen, observations, new, at
<1>6. /\ new \in TrackRecords /\ new.observations = observations
      /\ new.active = ActiveAfter(tr, o) /\ new.seen = seen.seen /\ new.seenOrder = seen.seenOrder
  BY <1>2, <1>3, <1>4, <1>5 DEF TrackRecords
<1>7. LastTime(new) = at
  BY <1>4, <1>6 DEF LastTime
<1>8. Trackable(new)
  <2>1. Len(observations) <= MaximumObservations
    BY <1>1, <1>4
  <2>. QED BY <1>3, <1>6, <2>1 DEF Trackable
<1>9. Unexpired(new)
  BY <1>5, <1>6, <1>7 DEF Unexpired
<1>. QED BY <1>4, <1>6, <1>7, <1>8, <1>9 DEF Good, new, at

-----------------------------------------------------------------------------
(* The caches                                                              *)

\* A set of naturals that is not empty has a least element.
LEMMA LeastNatural ==
    ASSUME NEW T \in SUBSET Nat, T # {}
    PROVE  \E x \in T : \A y \in T : x <= y
<1>1. PICK x \in T : \A y \in T : ~(<<y, x>> \in OpToRel(<, Nat))
  BY NatLessThanWellFounded, WFMin
<1>2. \A y \in T : <<y, x>> \in OpToRel(<, Nat) <=> y < x
  BY DEF OpToRel
<1>3. \A y \in T : ~(y < x)
  BY <1>1, <1>2
<1>4. \A y \in T : x \in Nat /\ y \in Nat
  OBVIOUS
<1>5. \A m, n \in Nat : ~(n < m) => m <= n
  OBVIOUS
<1>. QED BY <1>3, <1>4, <1>5

\* The track that the cache evicts is one of it.
LEMMA OldestIsHeld ==
    ASSUME NEW ts, DOMAIN ts \subseteq Nat, DOMAIN ts # {},
           \A u \in DOMAIN ts : LastTime(ts[u]) \in Nat
    PROVE  OldestTrack(ts) \in DOMAIN ts
<1>. DEFINE D == DOMAIN ts
            Times == {LastTime(ts[u]) : u \in D}
<1>1. Times \in SUBSET Nat /\ Times # {} /\ \A u \in D : LastTime(ts[u]) \in Times
  OBVIOUS
<1>2. PICK first \in Times : \A x \in Times : first <= x
  <2>. HIDE DEF Times
  <2>. QED BY <1>1, LeastNatural
<1>. DEFINE Firsts == {u \in D : LastTime(ts[u]) = first}
<1>3. Firsts \in SUBSET Nat /\ Firsts # {}
  BY <1>2
<1>4. PICK t \in Firsts : \A u \in Firsts : t <= u
  <2>. HIDE DEF Firsts
  <2>. QED BY <1>3, LeastNatural
<1>5. t \in D /\ LastTime(ts[t]) = first
  BY <1>4
<1>6. \A u \in D : LastTime(ts[u]) = first => t <= u
  BY <1>4
<1>7. \A u \in D : LastTime(ts[u]) \in Nat /\ first <= LastTime(ts[u])
  BY <1>1, <1>2
<1>8. first \in Nat /\ \A m \in Nat : first <= m => first < m \/ first = m
  BY <1>1, <1>2
<1>. HIDE DEF D, Times, Firsts
<1>9. \A u \in D : first < LastTime(ts[u]) \/ (first = LastTime(ts[u]) /\ t <= u)
  BY <1>6, <1>7, <1>8
<1>10. \A u \in D : \/ LastTime(ts[t]) < LastTime(ts[u])
                    \/ LastTime(ts[t]) = LastTime(ts[u]) /\ t <= u
  BY <1>5, <1>9
<1>. QED BY <1>5, <1>10 DEF OldestTrack, D

CacheInv ==
    /\ DOMAIN tracks \subseteq Tracks /\ IsFiniteSet(DOMAIN tracks)
    /\ Cardinality(DOMAIN tracks) <= MaximumTracks
    /\ DOMAIN snapshots = DOMAIN tracks
    /\ \A t \in DOMAIN tracks : Good(tracks[t]) /\ snapshots[t] = Snapshot(tracks[t])

EngineInv ==
    /\ CacheInv
    /\ dropped \subseteq Tracks
    /\ forgotten \in [Tracks -> SUBSET Evidence]
    /\ ingests \in Nat

LEMMA GoodTimes ==
    ASSUME NEW tr, Good(tr)
    PROVE  LastTime(tr) \in Nat
<1>1. tr.observations \in Seq(Nat) /\ Len(tr.observations) \in 1..MaximumObservations
  BY DEF Good, Trackable, TrackRecords
<1>2. Len(tr.observations) \in 1..Len(tr.observations)
  BY <1>1, ConstantsAssumption
<1>. QED BY <1>1, <1>2, ElementOfSeq DEF LastTime, Last

\* The tracks that go are held, and they leave room for the one observed.
LEMMA DroppedFacts ==
    ASSUME CacheInv, NEW t \in Tracks, NEW now
    PROVE  /\ Dropped(t, now) \subseteq DOMAIN tracks
           /\ IsFiniteSet((DOMAIN tracks \ Dropped(t, now)) \cup {t})
           /\ Cardinality((DOMAIN tracks \ Dropped(t, now)) \cup {t}) <= MaximumTracks
<1>. DEFINE stale == Inactive(tracks, now)
            left == Without(tracks, stale)
            K == DOMAIN tracks \ stale
<1>1. stale \subseteq DOMAIN tracks /\ DOMAIN left = K /\ \A u \in K : left[u] = tracks[u]
  BY DEF Inactive, Without
<1>2. Dropped(t, now) = stale \cup Evicted(left, t)
  BY DEF Dropped
<1>3. IsFiniteSet(K) /\ Cardinality(K) <= MaximumTracks /\ Cardinality(K) \in Nat
      /\ MaximumTracks \in Nat \ {0}
  <2>1. IsFiniteSet(DOMAIN tracks) /\ Cardinality(DOMAIN tracks) <= MaximumTracks
    BY DEF CacheInv
  <2>2. Cardinality(DOMAIN tracks) \in Nat /\ MaximumTracks \in Nat \ {0}
    BY <2>1, FS_CardinalityType, ConstantsAssumption
  <2>3. K \in SUBSET (DOMAIN tracks)
    OBVIOUS
  <2>. HIDE DEF K
  <2>4. IsFiniteSet(K) /\ Cardinality(K) <= Cardinality(DOMAIN tracks)
    BY <2>1, <2>3, FS_Subset
  <2>5. Cardinality(K) \in Nat
    BY <2>4, FS_CardinalityType
  <2>. QED BY <2>1, <2>2, <2>4, <2>5
<1>4. \A u \in K : u \in Nat /\ LastTime(left[u]) \in Nat
  BY <1>1, GoodTimes, ConstantsAssumption DEF CacheInv
<1>. HIDE DEF stale, left
<1>5. CASE t \notin K /\ Cardinality(K) >= MaximumTracks
  <2>1. Evicted(left, t) = {OldestTrack(left)}
    BY <1>1, <1>5 DEF Evicted
  <2>2. OldestTrack(left) \in K
    <3>1. K # {}
      BY <1>3, <1>5, FS_EmptySet
    <3>. HIDE DEF K
    <3>. QED BY <1>1, <1>4, <3>1, OldestIsHeld
  <2>. DEFINE L == K \ {OldestTrack(left)}
  <2>3. IsFiniteSet(L) /\ Cardinality(L) = Cardinality(K) - 1
    <3>. HIDE DEF K
    <3>. QED BY <1>3, <2>2, FS_RemoveElement
  <2>4. (DOMAIN tracks \ Dropped(t, now)) \cup {t} = L \cup {t}
    BY <1>2, <2>1
  <2>5. Dropped(t, now) \subseteq DOMAIN tracks
    BY <1>1, <1>2, <2>1, <2>2
  <2>. HIDE DEF L, K
  <2>6. Cardinality(L) \in Nat /\ IsFiniteSet(L \cup {t})
        /\ Cardinality(L \cup {t}) = IF t \in L THEN Cardinality(L) ELSE Cardinality(L) + 1
    BY <2>3, FS_AddElement, FS_CardinalityType
  <2>7. Cardinality(L \cup {t}) <= MaximumTracks
    BY <1>3, <2>3, <2>6
  <2>. QED BY <2>4, <2>5, <2>6, <2>7
<1>6. CASE t \in K \/ ~(Cardinality(K) >= MaximumTracks)
  <2>1. Evicted(left, t) = {}
    BY <1>1, <1>6 DEF Evicted
  <2>2. (DOMAIN tracks \ Dropped(t, now)) \cup {t} = K \cup {t} /\ Dropped(t, now) \subseteq DOMAIN tracks
    BY <1>1, <1>2, <2>1
  <2>. HIDE DEF K
  <2>3. IsFiniteSet(K \cup {t})
        /\ Cardinality(K \cup {t}) = IF t \in K THEN Cardinality(K) ELSE Cardinality(K) + 1
    BY <1>3, FS_AddElement
  <2>4. Cardinality(K \cup {t}) <= MaximumTracks
    BY <1>3, <1>6, <2>3
  <2>. QED BY <2>2, <2>3, <2>4
<1>. QED BY <1>5, <1>6

-----------------------------------------------------------------------------
(* An observation                                                          *)

Gone(o) == Dropped(o.message.track, o.message.at)
Before(o) ==
    IF o.message.track \in DOMAIN tracks \ Gone(o) THEN tracks[o.message.track] ELSE NewTrack

\* What ingest() does, told track by track.
Ingested(o) ==
    LET t == o.message.track
    IN  /\ Gone(o) \subseteq DOMAIN tracks /\ dropped' = Gone(o)
        /\ DOMAIN tracks' = (DOMAIN tracks \ Gone(o)) \cup {t}
        /\ DOMAIN snapshots' = DOMAIN tracks'
        /\ \A u \in DOMAIN tracks' \ {t} :
              u \in DOMAIN tracks /\ tracks'[u] = tracks[u] /\ snapshots'[u] = snapshots[u]
        /\ tracks'[t] = Observed(Before(o), o)
        /\ snapshots'[t] = Snapshot(Observed(Before(o), o))
        /\ events' = EventsOf(t, Before(o), o)
        /\ ingests' = ingests + 1

LEMMA IngestFacts ==
    ASSUME CacheInv, NEW o \in Observations, Ingest(o)
    PROVE  Ingested(o)
<1>. DEFINE t == o.message.track
            gone == Gone(o)
            kept == Without(tracks, gone)
            served == Without(snapshots, gone)
            new == Observed(Before(o), o)
<1>1. t \in Tracks
  BY ObservationFacts
<1>2. gone \subseteq DOMAIN tracks
  BY <1>1, DroppedFacts DEF Gone
<1>3. /\ DOMAIN kept = DOMAIN tracks \ gone /\ \A u \in DOMAIN kept : kept[u] = tracks[u]
      /\ DOMAIN served = DOMAIN tracks \ gone /\ \A u \in DOMAIN served : served[u] = snapshots[u]
  BY DEF Without, CacheInv
<1>4. (IF t \in DOMAIN kept THEN kept[t] ELSE NewTrack) = Before(o)
  BY <1>3 DEF Before
<1>5. /\ tracks' = [u \in DOMAIN kept \cup {t} |-> IF u = t THEN new ELSE kept[u]]
      /\ snapshots' = [u \in DOMAIN served \cup {t} |-> IF u = t THEN Snapshot(new) ELSE served[u]]
      /\ events' = EventsOf(t, Before(o), o) /\ dropped' = gone /\ ingests' = ingests + 1
  BY <1>4 DEF Ingest, SnapshotsAfter, Gone
<1>. HIDE DEF gone, kept, served, new
<1>6. /\ DOMAIN tracks' = (DOMAIN tracks \ gone) \cup {t} /\ DOMAIN snapshots' = DOMAIN tracks'
      /\ tracks'[t] = new /\ snapshots'[t] = Snapshot(new)
  BY <1>3, <1>5
<1>7. \A u \in DOMAIN tracks' \ {t} :
         u \in DOMAIN tracks /\ tracks'[u] = tracks[u] /\ snapshots'[u] = snapshots[u]
  BY <1>3, <1>5
<1>. QED BY <1>2, <1>5, <1>6, <1>7 DEF Ingested, gone, new

LEMMA BeforeIsTrackable ==
    ASSUME CacheInv, NEW o \in Observations
    PROVE  Trackable(Before(o))
BY NewTrackIsTrackable DEF Before, CacheInv, Good

LEMMA CacheStep ==
    ASSUME CacheInv, NEW o \in Observations, Ingested(o)
    PROVE  CacheInv'
<1>. DEFINE t == o.message.track
<1>1. t \in Tracks
  BY ObservationFacts
<1>2. IsFiniteSet(DOMAIN tracks') /\ Cardinality(DOMAIN tracks') <= MaximumTracks
  <2>1. DOMAIN tracks' = (DOMAIN tracks \ Gone(o)) \cup {t}
    BY DEF Ingested
  <2>2. /\ IsFiniteSet((DOMAIN tracks \ Gone(o)) \cup {t})
        /\ Cardinality((DOMAIN tracks \ Gone(o)) \cup {t}) <= MaximumTracks
    BY <1>1, DroppedFacts DEF Gone
  <2>. QED BY <2>1, <2>2
<1>3. DOMAIN tracks' \subseteq Tracks
  BY <1>1 DEF Ingested, CacheInv
<1>4. Good(Observed(Before(o), o))
  BY BeforeIsTrackable, ObservedFacts
<1>5. ASSUME NEW u \in DOMAIN tracks'
      PROVE  Good(tracks'[u]) /\ snapshots'[u] = Snapshot(tracks'[u])
  <2>1. CASE u = t
    BY <1>4, <2>1 DEF Ingested
  <2>2. CASE u # t
    BY <2>2 DEF Ingested, CacheInv
  <2>. QED BY <2>1, <2>2
<1>. QED BY <1>2, <1>3, <1>5 DEF Ingested, CacheInv

LEMMA CacheInit == Init => CacheInv
<1>. SUFFICES ASSUME Init PROVE CacheInv
  OBVIOUS
<1>1. DOMAIN tracks = {} /\ DOMAIN snapshots = {}
  BY DEF Init
<1>2. Cardinality({}) = 0 /\ IsFiniteSet({}) /\ MaximumTracks \in Nat
  BY FS_EmptySet, ConstantsAssumption
<1>. QED BY <1>1, <1>2 DEF CacheInv

LEMMA ForgottenStep ==
    ASSUME EngineInv, NEW o \in Observations, Ingest(o)
    PROVE  forgotten' \in [Tracks -> SUBSET Evidence]
<1>1. \A u \in Gone(o) : \A k \in DOMAIN tracks[u].active : tracks[u].active[k] \in Evidence
  <2>1. Gone(o) \subseteq DOMAIN tracks
    BY IngestFacts DEF EngineInv, Ingested
  <2>. QED BY <2>1, ActiveFacts DEF EngineInv, CacheInv, Good, Trackable, TrackRecords
<1>2. forgotten' = [u \in Tracks |->
                      IF u \in Gone(o)
                      THEN forgotten[u] \cup {tracks[u].active[k] : k \in DOMAIN tracks[u].active}
                      ELSE forgotten[u]]
  BY DEF Ingest, Gone
<1>3. \A u \in Tracks : forgotten[u] \in SUBSET Evidence
  BY DEF EngineInv
<1>4. \A u \in Tracks :
         (IF u \in Gone(o)
          THEN forgotten[u] \cup {tracks[u].active[k] : k \in DOMAIN tracks[u].active}
          ELSE forgotten[u]) \in SUBSET Evidence
  BY <1>1, <1>3
<1>. QED BY <1>2, <1>4

LEMMA EngineInvHolds == Spec => []EngineInv
<1>1. Init => EngineInv
  BY CacheInit DEF Init, EngineInv
<1>2. EngineInv /\ [Next]_vars => EngineInv'
  <2>. SUFFICES ASSUME EngineInv, [Next]_vars PROVE EngineInv'
    OBVIOUS
  <2>1. ASSUME NEW o \in Observations, Ingest(o)
        PROVE  EngineInv'
    <3>1. Ingested(o)
      BY <2>1, IngestFacts DEF EngineInv
    <3>2. CacheInv'
      BY <3>1, CacheStep DEF EngineInv
    <3>3. dropped' \subseteq Tracks /\ ingests' \in Nat
      BY <3>1 DEF Ingested, EngineInv, CacheInv
    <3>. QED BY <2>1, <3>2, <3>3, ForgottenStep DEF EngineInv
  <2>2. CASE UNCHANGED vars
    BY <2>2 DEF vars, EngineInv, CacheInv
  <2>. QED BY <2>1, <2>2 DEF Next
<1>. QED BY <1>1, <1>2, PTL DEF Spec

-----------------------------------------------------------------------------
(* The theorems                                                            *)

\* The variables have their types, whatever is observed.
THEOREM TypesCorrect == Spec => []TypeOK
<1>1. EngineInv => TypeOK
  <2>. SUFFICES ASSUME EngineInv PROVE TypeOK
    OBVIOUS
  <2>1. ASSUME NEW t \in DOMAIN tracks
        PROVE  IsTrack(tracks[t])
    <3>1. /\ tracks[t] \in TrackRecords
          /\ Len(tracks[t].observations) \in 1..MaximumObservations
          /\ Len(tracks[t].seenOrder) <= MaximumObservations
      BY DEF EngineInv, CacheInv, Good, Trackable
    <3>2. tracks[t].active \in Actives
      BY <3>1 DEF TrackRecords
    <3>3. DOMAIN tracks[t].active \subseteq Keys
          /\ \A k \in DOMAIN tracks[t].active : tracks[t].active[k] \in Evidence
      BY <3>2, ActiveFacts
    <3>4. /\ DOMAIN tracks[t] = {"observations", "active", "seen", "seenOrder"}
          /\ tracks[t].observations \in Seq(Nat) /\ tracks[t].seenOrder \in Seq(Messages)
          /\ tracks[t].seen \subseteq Messages
      BY <3>1 DEF TrackRecords
    <3>. QED BY <3>1, <3>3, <3>4 DEF IsTrack
  <2>. QED BY <2>1 DEF EngineInv, CacheInv, TypeOK
<1>. QED BY <1>1, EngineInvHolds, PTL

\* The caches stay within their limit, and a reader is served exactly the
\* tracks held: no snapshot outlives a purge or an eviction.
THEOREM SnapshotsCorrect == Spec => []SnapshotsMatchTracks
<1>1. EngineInv => SnapshotsMatchTracks
  BY DEF EngineInv, CacheInv, SnapshotsMatchTracks, Snapshot
<1>. QED BY <1>1, EngineInvHolds, PTL

\* No snapshot shows evidence that had expired by the snapshot's own time,
\* in whatever order the source times come.
THEOREM ExpiryCorrect == Spec => []NoExpiredEvidence
<1>1. EngineInv => NoExpiredEvidence
  BY DEF EngineInv, CacheInv, Good, Unexpired, NoExpiredEvidence
<1>. QED BY <1>1, EngineInvHolds, PTL

\* The ids remembered are those of the window, each once.
THEOREM WindowCorrect == Spec => []SeenIsTheWindow
<1>1. EngineInv => SeenIsTheWindow
  <2>. SUFFICES ASSUME EngineInv, NEW t \in DOMAIN tracks
                PROVE  /\ tracks[t].seen = Elements(tracks[t].seenOrder)
                       /\ Cardinality(tracks[t].seen) = Len(tracks[t].seenOrder)
    BY DEF SeenIsTheWindow
  <2>1. /\ tracks[t].seenOrder \in Seq(Messages) /\ Distinct(tracks[t].seenOrder)
        /\ tracks[t].seen = Elements(tracks[t].seenOrder)
    BY DEF EngineInv, CacheInv, Good, Trackable, TrackRecords
  <2>. QED BY <2>1, DistinctCount
<1>. QED BY <1>1, EngineInvHolds, PTL

\* A track that stays in the cache returns from QUESTIONABLE to NOMINAL only
\* when every evidence it showed has expired.
THEOREM RecoveryCorrect == Spec => QuestionableUntilExpired
<1>. DEFINE Holds ==
       \A t \in (DOMAIN snapshots \cap DOMAIN snapshots') \ dropped' :
         (snapshots[t].state = "QUESTIONABLE" /\ snapshots'[t].state = "NOMINAL")
           => \A k \in DOMAIN snapshots[t].active :
                snapshots[t].active[k].expires <= snapshots'[t].at
<1>1. EngineInv /\ [Next]_vars => [Holds]_vars
  <2>. SUFFICES ASSUME EngineInv, NEW o \in Observations, Ingest(o),
                       NEW t \in (DOMAIN snapshots \cap DOMAIN snapshots') \ dropped',
                       snapshots[t].state = "QUESTIONABLE", snapshots'[t].state = "NOMINAL",
                       NEW k \in DOMAIN snapshots[t].active
                PROVE  snapshots[t].active[k].expires <= snapshots'[t].at
    BY DEF Next
  <2>0. CacheInv
    BY DEF EngineInv
  <2>1. Ingested(o)
    BY <2>0, IngestFacts
  <2>2. t = o.message.track
    BY <2>1 DEF Ingested
  <2>3. t \in DOMAIN tracks /\ t \notin Gone(o) /\ Before(o) = tracks[t]
    BY <2>0, <2>1, <2>2 DEF Ingested, Before, CacheInv
  <2>4. snapshots[t].active = tracks[t].active
    BY <2>0, <2>3 DEF CacheInv, Snapshot
  <2>5. /\ LastTime(Observed(Before(o), o)) = o.message.at
        /\ Observed(Before(o), o).active = ActiveAfter(Before(o), o)
    BY <2>0, BeforeIsTrackable, ObservedFacts
  <2>6. snapshots'[t].at = o.message.at /\ DOMAIN ActiveAfter(Before(o), o) = {}
    <3>. DEFINE new == Observed(Before(o), o)
    <3>1. snapshots'[t] = Snapshot(new)
      BY <2>1, <2>2 DEF Ingested
    <3>. HIDE DEF new
    <3>2. snapshots'[t].at = LastTime(new) /\ StateOf(new) = "NOMINAL"
      BY <3>1 DEF Snapshot
    <3>3. DOMAIN new.active = {}
      BY <3>2 DEF StateOf
    <3>. QED BY <2>5, <3>2, <3>3 DEF new
  <2>7. tracks[t].active \in Actives
    BY <2>0, <2>3 DEF CacheInv, Good, Trackable, TrackRecords
  <2>8. DOMAIN ActiveAfter(Before(o), o)
           = (DOMAIN tracks[t].active \ Due(tracks[t], o.message.at)) \cup Raised(tracks[t], o)
    BY <2>3, <2>7, ActiveAfterFacts
  <2>9. k \in Due(tracks[t], o.message.at)
    BY <2>4, <2>6, <2>8
  <2>. QED BY <2>4, <2>6, <2>9 DEF Due
<1>2. Spec => [][Holds]_vars
  BY <1>1, EngineInvHolds, PTL DEF Spec
<1>. QED BY <1>2 DEF QuestionableUntilExpired

\* Whatever is opened, replaced or closed on a track that stays in the cache
\* has an event, so a client that follows the events knows the evidence.
THEOREM EventsCorrect == Spec => ChangesAreAnnounced
<1>. DEFINE Holds ==
       \A t \in (DOMAIN tracks \cap DOMAIN tracks') \ dropped' :
         LET old == tracks[t].active
             new == tracks'[t].active
             announced(type, k, e) ==
                 \E ev \in events' : ev.type = type /\ ev.track = t /\ ev.key = k /\ ev.id = e.id
         IN \A k \in Keys :
              /\ (k \in DOMAIN old /\ (k \notin DOMAIN new \/ new[k].id # old[k].id))
                   => announced("evidence_closed", k, old[k])
              /\ (k \in DOMAIN new /\ (k \notin DOMAIN old \/ new[k].id # old[k].id))
                   => announced("evidence_opened", k, new[k])
<1>1. EngineInv /\ [Next]_vars => [Holds]_vars
  <2>. SUFFICES ASSUME EngineInv, NEW o \in Observations, Ingest(o) PROVE Holds
    BY DEF Next
  <2>0. CacheInv /\ Ingested(o)
    BY IngestFacts DEF EngineInv
  <2>. SUFFICES ASSUME NEW t \in (DOMAIN tracks \cap DOMAIN tracks') \ dropped', NEW k \in Keys
                PROVE  LET old == tracks[t].active
                           new == tracks'[t].active
                           announced(type, e) ==
                               \E ev \in events' : /\ ev.type = type /\ ev.track = t
                                                  /\ ev.key = k /\ ev.id = e.id
                       IN /\ (k \in DOMAIN old /\ (k \notin DOMAIN new \/ new[k].id # old[k].id))
                               => announced("evidence_closed", old[k])
                          /\ (k \in DOMAIN new /\ (k \notin DOMAIN old \/ new[k].id # old[k].id))
                               => announced("evidence_opened", new[k])
    OBVIOUS
  <2>1. CASE t # o.message.track
    BY <2>0, <2>1 DEF Ingested
  <2>2. CASE t = o.message.track
    <3>. DEFINE old == tracks[t].active
                new == tracks'[t].active
                due == Due(tracks[t], o.message.at)
                raised == Raised(tracks[t], o)
                open == DOMAIN old \ due
    <3>1. t \notin Gone(o) /\ Before(o) = tracks[t] /\ old \in Actives
      BY <2>0, <2>2 DEF Ingested, Before, CacheInv, Good, Trackable, TrackRecords
    <3>2. tracks'[t] = Observed(tracks[t], o) /\ new = ActiveAfter(tracks[t], o)
      BY <2>0, <2>2, <3>1, BeforeIsTrackable, ObservedFacts DEF Ingested
    <3>3. /\ DOMAIN new = open \cup raised
          /\ \A j \in open : new[j].id = old[j].id
      <4>1. /\ DOMAIN ActiveAfter(tracks[t], o) = open \cup raised
            /\ \A j \in open : ActiveAfter(tracks[t], o)[j].id = tracks[t].active[j].id
        BY <3>1, ActiveAfterFacts
      <4>. HIDE DEF new, open, raised
      <4>. QED BY <3>2, <4>1
    <3>4. events' = {Event("evidence_closed", t, j, old[j], o.message.at) : j \in due}
                    \cup {Event(IF j \in open THEN "evidence_updated" ELSE "evidence_opened",
                                t, j, new[j], o.message.at) : j \in raised}
      BY <2>0, <2>2, <3>1, <3>2 DEF Ingested, EventsOf
    <3>5. \A type, e : LET ev == Event(type, t, k, e, o.message.at)
                       IN ev.type = type /\ ev.track = t /\ ev.key = k /\ ev.id = e.id
      BY DEF Event
    <3>. HIDE DEF due, raised, old, new
    <3>6. ASSUME k \in DOMAIN old, k \notin DOMAIN new \/ new[k].id # old[k].id
          PROVE  \E ev \in events' : /\ ev.type = "evidence_closed" /\ ev.track = t
                                    /\ ev.key = k /\ ev.id = old[k].id
      <4>1. k \in due
        BY <3>3, <3>6
      <4>2. Event("evidence_closed", t, k, old[k], o.message.at) \in events'
        BY <3>4, <4>1
      <4>. QED BY <3>5, <4>2
    <3>7. ASSUME k \in DOMAIN new, k \notin DOMAIN old \/ new[k].id # old[k].id
          PROVE  \E ev \in events' : /\ ev.type = "evidence_opened" /\ ev.track = t
                                    /\ ev.key = k /\ ev.id = new[k].id
      <4>1. k \in raised /\ k \notin open
        BY <3>3, <3>7
      <4>2. Event("evidence_opened", t, k, new[k], o.message.at) \in events'
        BY <3>4, <4>1
      <4>. QED BY <3>5, <4>2
    <3>. QED BY <3>6, <3>7 DEF old, new
  <2>. QED BY <2>1, <2>2
<1>2. Spec => [][Holds]_vars
  BY <1>1, EngineInvHolds, PTL DEF Spec
<1>. QED BY <1>2 DEF ChangesAreAnnounced
=============================================================================
