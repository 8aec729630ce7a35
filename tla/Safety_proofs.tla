---------------------------- MODULE Safety_proofs ----------------------------
(* Theorems about the safety corpus and the agent that cites it, for every    *)
(* value of their constants.                                                  *)
EXTENDS SafetyAgent, SequenceTheorems, WellFoundedInduction, TLAPS

(***************************************************************************)
(* What the corpus holds, wherever ingestion and synchronisation are: a    *)
(* row, a row the script has still to index, an entry of a batch or of the *)
(* vector store is of a recorded run whose source has it.                  *)
(***************************************************************************)
OfRun(run, id, text) ==
    /\ run \in runs
    /\ \E a \in Artifacts : a.name = run /\ \E r \in Parsed(a) : r.id = id /\ r.text = text

RowInv(id) ==
    /\ \A row \in rows[id] : /\ row = [run |-> row.run, text |-> row.text]
                             /\ row.run # NoRun => OfRun(row.run, id, row.text)
    /\ \A one, other \in rows[id] : one = other

IsSnapshot(row) ==
    /\ row = [id |-> row.id, run |-> row.run, text |-> row.text]
    /\ row.id \in Ids /\ Versioned(row.id)
    /\ row.text # "none" /\ OfRun(row.run, row.id, row.text)

IsEntry(e) ==
    \E id \in Ids, run \in runs, text \in {"short", "long"} :
        /\ Versioned(id) /\ OfRun(run, id, text)
        /\ \E i \in DOMAIN Documents(id, text) : e = <<Documents(id, text)[i], run>>

IsBatch(b) == b \in Seq(Range(b)) /\ \A e \in Range(b) : IsEntry(e)

HoldingInv ==
    /\ NoRun \notin runs
    /\ ingest = [at |-> ingest.at, artifact |-> ingest.artifact, attempts |-> ingest.attempts]
    /\ ingest.artifact \subseteq Artifacts
    /\ DOMAIN rows = Ids /\ \A id \in Ids : RowInv(id)
    /\ sync = [at |-> sync.at, mode |-> sync.mode, unversioned |-> sync.unversioned,
               todo |-> sync.todo, incidents |-> sync.incidents, sections |-> sync.sections,
               expected |-> sync.expected]
    /\ \A row \in sync.todo : IsSnapshot(row)
    /\ \A e \in vectors : IsEntry(e)
    /\ IsBatch(sync.incidents) /\ IsBatch(sync.sections)

(***************************************************************************)
(* The script, while no row changes under it.                              *)
(***************************************************************************)
Indexed == (IF sync.at = "incidents" THEN Snapshot(Incidents) ELSE Snapshot(Ids)) \ sync.todo
EntriesOf(indexed) == UNION {Range(Entries(row)) : row \in indexed}
Waiting == Range(sync.incidents) \cup Range(sync.sections)
TextsWithoutRun == \E id \in Ids : rows[id] # {} /\ ~Versioned(id) /\ HasText(id)

\* A synchronising run: what it expects of the rows it has indexed is in the store or
\* waits in a batch, and what the store has of such a row is right or replaced by
\* what waits.
Synced(waiting, expected, store, indexed) ==
    /\ waiting \subseteq expected
    /\ expected \subseteq waiting \cup store
    /\ \A e \in store : (\E row \in indexed : row.id = e[1][1]) =>
           e \in expected \/ \E w \in waiting : w[1] = e[1]

SyncInv ==
    /\ sync.at \in {"idle", "counted", "incidents", "sections", "flushing", "flushed"}
    /\ sync.mode \in {"sync", "check"}
    /\ sync.at \in {"idle", "counted"} =>
           sync.todo = {} /\ sync.expected = {} /\ sync.incidents = <<>> /\ sync.sections = <<>>
    /\ sync.mode = "check" => sync.incidents = <<>> /\ sync.sections = <<>>
    /\ fresh /\ sync.at # "idle" => sync.unversioned = TextsWithoutRun
    /\ fresh /\ sync.at = "incidents" => sync.todo \subseteq Snapshot(Incidents)
    /\ fresh /\ sync.at = "sections" => sync.todo \subseteq Snapshot(Sections)
    /\ sync.at \in {"flushing", "flushed"} => sync.todo = {} /\ sync.incidents = <<>>
    /\ sync.at = "flushed" => sync.sections = <<>>
    /\ fresh /\ sync.at \in {"incidents", "sections", "flushing", "flushed"} =>
           /\ sync.expected = EntriesOf(Indexed)
           /\ sync.mode = "sync" => Synced(Waiting, sync.expected, vectors, Indexed)

CorpusInv == HoldingInv /\ SyncInv /\ ReportIsTrue

(***************************************************************************)
(* The agent.                                                              *)
(***************************************************************************)
IsItem(item) ==
    item.text => item.run \in runs \cup {NoRun} /\ HoldsDocument(item.run, item.document)
IsResult(items) == items \in Seq(Range(items)) /\ \A item \in Range(items) : IsItem(item)

AgentInv ==
    /\ calls \in Seq(Range(calls)) /\ \A call \in Range(calls) : IsResult(call.items)
    /\ agent = [at |-> agent.at, iteration |-> agent.iteration, pending |-> agent.pending]
    /\ agent.at # "idle" => answer = NoAnswer
    /\ CitationsAreGrounded

SafetyInv == HoldingInv /\ AgentInv

-----------------------------------------------------------------------------
(* Sequences, by what they hold.                                           *)

LEMMA RangeOf ==
    ASSUME NEW S, NEW s \in Seq(S)
    PROVE  s \in Seq(Range(s)) /\ Range(s) \subseteq S
<1>1. Len(s) \in Nat /\ s \in [1..Len(s) -> S]
  BY LenProperties
<1>2. s \in [1..Len(s) -> Range(s)]
  BY <1>1 DEF Range
<1>. QED BY <1>1, <1>2, SeqDef DEF Range

LEMMA RangeConcat ==
    ASSUME NEW S, NEW s \in Seq(S), NEW t \in Seq(S)
    PROVE  s \o t \in Seq(S) /\ Range(s \o t) = Range(s) \cup Range(t)
<1>1. /\ s \o t \in Seq(S)
      /\ Len(s \o t) = Len(s) + Len(t)
      /\ \A i \in 1 .. Len(s) + Len(t) : (s \o t)[i] = IF i <= Len(s) THEN s[i] ELSE t[i - Len(s)]
  BY ConcatProperties
<1>2. /\ Len(s) \in Nat /\ Len(t) \in Nat
      /\ DOMAIN s = 1..Len(s) /\ DOMAIN t = 1..Len(t) /\ DOMAIN (s \o t) = 1..(Len(s) + Len(t))
  BY <1>1, LenProperties
<1>3. Range(s \o t) \subseteq Range(s) \cup Range(t)
  <2>1. SUFFICES ASSUME NEW i \in 1..(Len(s) + Len(t))
                 PROVE  (s \o t)[i] \in Range(s) \cup Range(t)
    BY <1>2 DEF Range
  <2>2. CASE i <= Len(s)
    BY <1>1, <1>2, <2>2 DEF Range
  <2>3. CASE ~(i <= Len(s))
    <3>1. i - Len(s) \in 1..Len(t)
      BY <1>2, <2>3
    <3>. QED BY <1>1, <1>2, <2>3, <3>1 DEF Range
  <2>. QED BY <2>2, <2>3
<1>4. ASSUME NEW i \in 1..Len(s) PROVE s[i] \in Range(s \o t)
  <2>1. i \in 1..(Len(s) + Len(t)) /\ i <= Len(s)
    BY <1>2
  <2>. QED BY <1>1, <1>2, <2>1 DEF Range
<1>5. ASSUME NEW i \in 1..Len(t) PROVE t[i] \in Range(s \o t)
  <2>1. i + Len(s) \in 1..(Len(s) + Len(t)) /\ ~(i + Len(s) <= Len(s)) /\ (i + Len(s)) - Len(s) = i
    BY <1>2
  <2>. QED BY <1>1, <1>2, <2>1 DEF Range
<1>6. Range(s) \cup Range(t) \subseteq Range(s \o t)
  BY <1>2, <1>4, <1>5 DEF Range
<1>. QED BY <1>1, <1>3, <1>6

\* As many full batches as there are fit.
LEMMA Batches ==
    ASSUME NEW n \in Nat, NEW b \in Nat \ {0}
    PROVE  b * (n \div b) \in 0..n
<1>1. n \div b \in Nat
  OBVIOUS
<1>2. n = b * (n \div b) + (n % b) /\ n % b \in 0..(b - 1)
  OBVIOUS
<1>3. b * (n \div b) \in Nat
  BY <1>1
<1>. QED BY <1>2, <1>3

LEMMA Cut ==
    ASSUME NEW S, NEW s \in Seq(S), NEW k \in 0..Len(s)
    PROVE  /\ SubSeq(s, 1, k) \in Seq(S) /\ SubSeq(s, k + 1, Len(s)) \in Seq(S)
           /\ Len(SubSeq(s, 1, k)) = k
           /\ s = SubSeq(s, 1, k) \o SubSeq(s, k + 1, Len(s))
<1>1. Len(s) \in Nat /\ k \in Nat
  BY LenProperties
<1>2. \A i \in 1..Len(s) : s[i] \in S
  BY ElementOfSeq
<1>3. SubSeq(s, 1, k) \in Seq(S) /\ Len(SubSeq(s, 1, k)) = k
  <2>1. \A i \in 1..k : s[i] \in S
    BY <1>1, <1>2
  <2>. QED BY <1>1, <2>1, SubSeqProperties
<1>4. SubSeq(s, k + 1, Len(s)) \in Seq(S)
  <2>1. \A i \in (k + 1)..Len(s) : s[i] \in S
    BY <1>1, <1>2
  <2>. QED BY <1>1, <2>1, SubSeqProperties
<1>5. SubSeq(s, 1, k) \o SubSeq(s, k + 1, Len(s)) = SubSeq(s, 1, Len(s))
  <2>1. 1 \in 1..(Len(s) + 1) /\ k \in (1 - 1)..Len(s) /\ Len(s) \in k..Len(s)
    BY <1>1
  <2>. QED BY <2>1, ConcatAdjacentSubSeq
<1>. QED BY <1>3, <1>4, <1>5, SubSeqFull

\* A batch is cut into what is flushed and what stays.
LEMMA BatchCut ==
    ASSUME NEW S, NEW s \in Seq(S)
    PROVE  /\ Full(s) \in Seq(S) /\ Rest(s) \in Seq(S)
           /\ Range(s) = Range(Full(s)) \cup Range(Rest(s))
<1>. DEFINE k == BatchSize * (Len(s) \div BatchSize)
<1>1. k \in 0..Len(s)
  <2>1. Len(s) \in Nat /\ BatchSize \in Nat \ {0}
    BY CorpusAssumption, LenProperties DEF CorpusAssumption
  <2>. QED BY <2>1, Batches
<1>2. Full(s) = SubSeq(s, 1, k)
  BY DEF Full
<1>. HIDE DEF k
<1>3. /\ Full(s) \in Seq(S) /\ Len(Full(s)) = k /\ SubSeq(s, k + 1, Len(s)) \in Seq(S)
      /\ s = Full(s) \o SubSeq(s, k + 1, Len(s))
  BY <1>1, <1>2, Cut
<1>4. Rest(s) = SubSeq(s, k + 1, Len(s))
  BY <1>3 DEF Rest
<1>5. Range(Full(s) \o Rest(s)) = Range(Full(s)) \cup Range(Rest(s))
  <2>1. Full(s) \in Seq(S) /\ Rest(s) \in Seq(S)
    BY <1>3, <1>4
  <2>. QED BY <2>1, RangeConcat
<1>. QED BY <1>3, <1>4, <1>5

LEMMA NoRange == <<>> \in Seq(Range(<<>>)) /\ Range(<<>>) = {}
BY DEF Range

-----------------------------------------------------------------------------
(* Rows and their documents.                                               *)

LEMMA LeastRow ==
    ASSUME NEW todo, todo # {}, \A row \in todo : row.id \in Nat
    PROVE  \E row \in todo : \A other \in todo : row.id <= other.id
<1>. DEFINE Names_ == {row.id : row \in todo}
<1>1. Names_ \subseteq Nat /\ Names_ # {}
  OBVIOUS
<1>2. IsWellFoundedOn(OpToRel(<, Nat), Nat)
  BY NatLessThanWellFounded
<1>3. PICK n \in Names_ : \A m \in Names_ : ~ (<<m, n>> \in OpToRel(<, Nat))
  <2>. HIDE DEF Names_
  <2>. QED BY <1>1, <1>2, WFMin
<1>4. \A m \in Names_ : ~ (m < n)
  BY <1>1, <1>3 DEF OpToRel
<1>5. PICK row \in todo : row.id = n
  OBVIOUS
<1>6. ASSUME NEW other \in todo PROVE row.id <= other.id
  <2>1. other.id \in Names_ /\ other.id \in Nat /\ row.id \in Nat
    OBVIOUS
  <2>2. ~(other.id < row.id)
    <3>. HIDE DEF Names_
    <3>. QED BY <1>4, <1>5, <2>1
  <2>. QED BY <2>1, <2>2
<1>. QED BY <1>6

\* The script takes a row that is left.
LEMMA NextIsLeft ==
    ASSUME HoldingInv, sync.todo # {}
    PROVE  NextRow \in sync.todo
<1>1. \A row \in sync.todo : row.id \in Nat
  BY CorpusAssumption DEF CorpusAssumption, HoldingInv, IsSnapshot, Ids
<1>. QED BY <1>1, LeastRow DEF NextRow

\* The documents of a row are distinct, and those of a section one.
LEMMA DocumentsAre ==
    ASSUME NEW id, NEW text \in {"short", "long"}
    PROVE  /\ Documents(id, text) \in Seq(Range(Documents(id, text)))
           /\ \A i \in DOMAIN Documents(id, text) : Documents(id, text)[i][1] = id
           /\ \A i, j \in DOMAIN Documents(id, text) :
                Documents(id, text)[i] = Documents(id, text)[j] => i = j
           /\ id \in Sections => Documents(id, text) = <<<<id, "section">>>>
<1>1. CASE id \in Sections
  <2>1. Documents(id, text) = <<<<id, "section">>>>
    BY <1>1 DEF Documents
  <2>. QED BY <2>1 DEF Range
<1>2. CASE id \notin Sections /\ text = "short"
  <2>1. Documents(id, text) = <<<<id, "combined">>>>
    BY <1>2 DEF Documents
  <2>. QED BY <1>2, <2>1 DEF Range
<1>3. CASE id \notin Sections /\ text = "long"
  <2>1. Documents(id, text) = <<<<id, "factual_information">>, <<id, "probable_cause">>>>
    BY <1>3 DEF Documents
  <2>. QED BY <1>3, <2>1 DEF Range
<1>. QED BY <1>1, <1>2, <1>3

LEMMA EntriesAre ==
    ASSUME NEW row, row.text \in {"short", "long"}
    PROVE  /\ Entries(row) \in Seq(Range(Entries(row)))
           /\ Range(Entries(row)) = {<<Documents(row.id, row.text)[i], row.run>> :
                                        i \in DOMAIN Documents(row.id, row.text)}
           /\ \A e \in Range(Entries(row)) : e[1][1] = row.id
           /\ \A e, f \in Range(Entries(row)) : e[1] = f[1] => e = f
           /\ row.id \in Sections => Range(Entries(row)) = {<<<<row.id, "section">>, row.run>>}
<1>. DEFINE D == Documents(row.id, row.text)
<1>1. /\ D \in Seq(Range(D)) /\ \A i \in DOMAIN D : D[i][1] = row.id
      /\ \A i, j \in DOMAIN D : D[i] = D[j] => i = j
      /\ row.id \in Sections => D = <<<<row.id, "section">>>>
  BY DocumentsAre
<1>2. Entries(row) = [i \in DOMAIN D |-> <<D[i], row.run>>]
  BY DEF Entries
<1>. HIDE DEF D
<1>3. Len(D) \in Nat /\ DOMAIN D = 1..Len(D)
  BY <1>1, LenProperties
<1>4. Range(Entries(row)) = {<<D[i], row.run>> : i \in DOMAIN D}
  BY <1>2 DEF Range
<1>5. Entries(row) \in Seq(Range(Entries(row)))
  <2>1. Entries(row) \in [1..Len(D) -> Range(Entries(row))]
    BY <1>2, <1>3 DEF Range
  <2>. QED BY <1>3, <2>1, SeqDef
<1>6. \A e \in Range(Entries(row)) : e[1][1] = row.id
  BY <1>1, <1>4
<1>7. \A e, f \in Range(Entries(row)) : e[1] = f[1] => e = f
  BY <1>1, <1>4
<1>8. row.id \in Sections => Range(Entries(row)) = {<<<<row.id, "section">>, row.run>>}
  BY <1>1, <1>4
<1>. QED BY <1>4, <1>5, <1>6, <1>7, <1>8 DEF D

-----------------------------------------------------------------------------
(* What the corpus holds.                                                  *)

\* What is recorded stays recorded, and what has a run keeps one.
LEMMA HeldStays ==
    ASSUME runs \subseteq runs', \A id \in Ids : Versioned(id) => Versioned(id)'
    PROVE  /\ \A run, id, text : OfRun(run, id, text) => OfRun(run, id, text)'
           /\ \A e : IsEntry(e) => IsEntry(e)'
           /\ \A row : IsSnapshot(row) => IsSnapshot(row)'
           /\ \A b : IsBatch(b) => IsBatch(b)'
<1>1. \A run, id, text : OfRun(run, id, text) => OfRun(run, id, text)'
  BY DEF OfRun
<1>2. \A e : IsEntry(e) => IsEntry(e)'
  BY <1>1 DEF IsEntry
<1>3. \A row : IsSnapshot(row) => IsSnapshot(row)'
  BY <1>1 DEF IsSnapshot
<1>4. \A b : IsBatch(b) => IsBatch(b)'
  BY <1>2 DEF IsBatch
<1>. QED BY <1>1, <1>2, <1>3, <1>4

LEMMA EmptyBatch == IsBatch(<<>>)
BY NoRange DEF IsBatch

LEMMA HoldingInit == CorpusInit => HoldingInv
<1>. SUFFICES ASSUME CorpusInit PROVE HoldingInv
  OBVIOUS
<1>1. ASSUME NEW id \in Ids PROVE RowInv(id)
  <2>1. rows[id] \subseteq {[run |-> NoRun, text |-> Unversioned[id]]}
    BY DEF CorpusInit
  <2>2. \A row \in rows[id] : row = [run |-> NoRun, text |-> Unversioned[id]]
    BY <2>1
  <2>3. \A row \in rows[id] : row = [run |-> row.run, text |-> row.text] /\ row.run = NoRun
    BY <2>2
  <2>. QED BY <2>2, <2>3 DEF RowInv
<1>2. sync.incidents = <<>> /\ sync.sections = <<>> /\ sync.todo = {}
  BY DEF CorpusInit, NoSync
<1>3. IsBatch(sync.incidents) /\ IsBatch(sync.sections)
  BY <1>2, EmptyBatch
<1>. QED BY <1>1, <1>2, <1>3 DEF HoldingInv, CorpusInit, NoIngest, NoSync

\* The parsers retain one record of an identifier.
LEMMA OneRecord ==
    ASSUME NEW a \in Artifacts, NEW q \in Parsed(a), NEW r \in Parsed(a), q.id = r.id
    PROVE  q = r
<1>1. a.records \in Seq(Range(a.records))
  BY CorpusAssumption DEF CorpusAssumption
<1>2. DOMAIN a.records = 1..Len(a.records) /\ Len(a.records) \in Nat
  BY <1>1, LenProperties
<1>3. PICK i \in DOMAIN a.records :
        /\ q = a.records[i] /\ a.records[i].valid
        /\ \A h \in 1..(i - 1) : a.records[h].valid => a.records[h].id # a.records[i].id
  BY DEF Parsed
<1>4. PICK k \in DOMAIN a.records :
        /\ r = a.records[k] /\ a.records[k].valid
        /\ \A h \in 1..(k - 1) : a.records[h].valid => a.records[h].id # a.records[k].id
  BY DEF Parsed
<1>5. i \in Nat /\ k \in Nat /\ i >= 1 /\ k >= 1
  BY <1>2
<1>6. i = k
  <2>1. ~(i < k)
    <3>1. i < k => i \in 1..(k - 1)
      BY <1>5
    <3>. QED BY <1>3, <1>4, <3>1
  <2>2. ~(k < i)
    <3>1. k < i => k \in 1..(i - 1)
      BY <1>5
    <3>. QED BY <1>3, <1>4, <3>1
  <2>. QED BY <1>5, <2>1, <2>2
<1>. QED BY <1>3, <1>4, <1>6

\* The upsert keeps what the rows say of their runs, and takes none away.
LEMMA UpsertKeeps ==
    ASSUME HoldingInv, NEW a \in Artifacts, runs' = runs \cup {a.name}, rows' = Upserted(a)
    PROVE  /\ NoRun \notin runs' /\ DOMAIN rows' = Ids
           /\ \A id \in Ids : RowInv(id)' /\ (Versioned(id) => Versioned(id)')
<1>1. a.name # NoRun /\ NoRun \notin runs'
  BY CorpusAssumption DEF CorpusAssumption, HoldingInv
<1>2. DOMAIN rows' = Ids
  BY DEF Upserted
<1>3. ASSUME NEW id \in Ids PROVE RowInv(id)' /\ (Versioned(id) => Versioned(id)')
  <2>1. CASE \E r \in Parsed(a) : r.id = id
    <3>1. PICK r \in Parsed(a) : r.id = id
      BY <2>1
    <3>2. rows'[id] = {[run |-> a.name, text |-> p.text] : p \in {q \in Parsed(a) : q.id = id}}
      BY <2>1 DEF Upserted
    <3>3. {q \in Parsed(a) : q.id = id} = {r}
      BY <3>1, OneRecord
    <3>4. rows'[id] = {[run |-> a.name, text |-> r.text]}
      BY <3>2, <3>3
    <3>5. OfRun(a.name, id, r.text)'
      BY <3>1 DEF OfRun
    <3>6. RowInv(id)'
      BY <3>4, <3>5 DEF RowInv
    <3>7. Versioned(id)'
      BY <1>1, <3>4 DEF Versioned
    <3>. QED BY <3>6, <3>7
  <2>2. CASE ~ \E r \in Parsed(a) : r.id = id
    <3>1. rows'[id] = rows[id]
      BY <2>2 DEF Upserted
    <3>2. \A run, text : OfRun(run, id, text) => OfRun(run, id, text)'
      BY DEF OfRun
    <3>3. RowInv(id)
      BY DEF HoldingInv
    <3>. QED BY <3>1, <3>2, <3>3 DEF RowInv, Versioned
  <2>. QED BY <2>1, <2>2
<1>. QED BY <1>1, <1>2, <1>3

\* What the script reads of the rows.
LEMMA SnapshotsAre ==
    ASSUME HoldingInv, NEW ids, ids \subseteq Ids, NEW row \in Snapshot(ids)
    PROVE  /\ IsSnapshot(row) /\ row.id \in ids
           /\ rows[row.id] = {[run |-> row.run, text |-> row.text]}
<1>1. PICK id \in ids : /\ Versioned(id) /\ HasText(id)
                        /\ row \in {[id |-> id, run |-> r.run, text |-> r.text] : r \in rows[id]}
  BY DEF Snapshot
<1>2. PICK r \in rows[id] : row = [id |-> id, run |-> r.run, text |-> r.text]
  BY <1>1
<1>3. RowInv(id) /\ id \in Ids
  BY DEF HoldingInv
<1>4. r = [run |-> r.run, text |-> r.text] /\ rows[id] = {r}
  BY <1>3 DEF RowInv
<1>5. r.run # NoRun
  BY <1>1, <1>4 DEF Versioned
<1>6. OfRun(r.run, id, r.text)
  BY <1>3, <1>5 DEF RowInv
<1>7. r.text # "none"
  <2>1. CASE id \in Sections
    <3>1. PICK a \in Artifacts : \E q \in Parsed(a) : q.id = id /\ q.text = r.text
      BY <1>6 DEF OfRun
    <3>. QED BY <2>1, <3>1, CorpusAssumption DEF CorpusAssumption, Parsed
  <2>2. CASE id \notin Sections
    BY <1>1, <1>4, <2>2 DEF HasText
  <2>. QED BY <2>1, <2>2
<1>8. row.id = id /\ row.run = r.run /\ row.text = r.text
  BY <1>2
<1>9. IsSnapshot(row)
  BY <1>1, <1>2, <1>3, <1>6, <1>7, <1>8 DEF IsSnapshot
<1>. QED BY <1>4, <1>8, <1>9

LEMMA TextOfRun ==
    ASSUME NEW run, NEW id, NEW text, OfRun(run, id, text)
    PROVE  text \in {"none", "short", "long"}
BY CorpusAssumption DEF CorpusAssumption, OfRun, Parsed

\* The documents of a row are entries.
LEMMA EntriesHold ==
    ASSUME NEW row, IsSnapshot(row)
    PROVE  row.text \in {"short", "long"} /\ IsBatch(Entries(row))
<1>1. row.text \in {"short", "long"}
  BY TextOfRun DEF IsSnapshot
<1>2. /\ Entries(row) \in Seq(Range(Entries(row)))
      /\ Range(Entries(row)) = {<<Documents(row.id, row.text)[i], row.run>> :
                                   i \in DOMAIN Documents(row.id, row.text)}
  BY <1>1, EntriesAre
<1>3. \A e \in Range(Entries(row)) : IsEntry(e)
  BY <1>1, <1>2 DEF IsEntry, IsSnapshot, OfRun
<1>. QED BY <1>1, <1>2, <1>3 DEF IsBatch

LEMMA BatchGrows ==
    ASSUME NEW b, NEW c, IsBatch(b), IsBatch(c)
    PROVE  /\ Range(b \o c) = Range(b) \cup Range(c)
           /\ Range(b \o c) = Range(Full(b \o c)) \cup Range(Rest(b \o c))
           /\ IsBatch(Full(b \o c)) /\ IsBatch(Rest(b \o c))
<1>. DEFINE S == Range(b) \cup Range(c)
<1>1. b \in Seq(S) /\ c \in Seq(S)
  BY SeqMonotonic DEF IsBatch
<1>2. \A e \in S : IsEntry(e)
  BY DEF IsBatch
<1>. HIDE DEF S
<1>3. b \o c \in Seq(S) /\ Range(b \o c) = Range(b) \cup Range(c)
  BY <1>1, RangeConcat
<1>. DEFINE d == b \o c
<1>. HIDE DEF d
<1>4. d \in Seq(S)
  BY <1>3 DEF d
<1>5. Full(d) \in Seq(S) /\ Rest(d) \in Seq(S) /\ Range(d) = Range(Full(d)) \cup Range(Rest(d))
  BY <1>4, BatchCut
<1>6. ASSUME NEW t \in Seq(S) PROVE IsBatch(t)
  <2>1. t \in Seq(Range(t)) /\ Range(t) \subseteq S
    BY RangeOf
  <2>. QED BY <1>2, <2>1 DEF IsBatch
<1>. QED BY <1>3, <1>5, <1>6 DEF d

LEMMA HoldingUnchanged ==
    ASSUME HoldingInv, UNCHANGED <<runs, rows, vectors, ingest, sync>>
    PROVE  HoldingInv'
BY DEF HoldingInv, RowInv, OfRun, IsSnapshot, IsEntry, IsBatch, Versioned

\* While neither runs nor rows change, an invariant of the rest is enough.
LEMMA HoldingOfRows ==
    ASSUME HoldingInv, UNCHANGED <<runs, rows>>,
           ingest' = [at |-> ingest'.at, artifact |-> ingest'.artifact, attempts |-> ingest'.attempts],
           ingest'.artifact \subseteq Artifacts,
           sync' = [at |-> sync'.at, mode |-> sync'.mode, unversioned |-> sync'.unversioned,
                    todo |-> sync'.todo, incidents |-> sync'.incidents,
                    sections |-> sync'.sections, expected |-> sync'.expected],
           \A row \in sync'.todo : IsSnapshot(row), \A e \in vectors' : IsEntry(e),
           IsBatch(sync'.incidents), IsBatch(sync'.sections)
    PROVE  HoldingInv'
<1>1. \A id \in Ids : Versioned(id) => Versioned(id)'
  BY DEF Versioned
<1>2. /\ \A run, id, text : OfRun(run, id, text) => OfRun(run, id, text)'
      /\ \A e : IsEntry(e) => IsEntry(e)'
      /\ \A row : IsSnapshot(row) => IsSnapshot(row)'
      /\ \A b : IsBatch(b) => IsBatch(b)'
  BY <1>1, HeldStays
<1>3. \A id \in Ids : RowInv(id)'
  BY <1>2 DEF HoldingInv, RowInv
<1>. QED BY <1>2, <1>3 DEF HoldingInv

LEMMA StoreGrows ==
    ASSUME NEW store, \A e \in store : IsEntry(e), NEW b, IsBatch(b)
    PROVE  \A e \in Added(store, b) : IsEntry(e)
BY DEF Added, IsBatch

LEMMA HoldingStep == HoldingInv /\ CorpusNext => HoldingInv'
<1>. SUFFICES ASSUME HoldingInv, CorpusNext PROVE HoldingInv'
  OBVIOUS
<1>1. /\ ingest = [at |-> ingest.at, artifact |-> ingest.artifact, attempts |-> ingest.attempts]
      /\ ingest.artifact \subseteq Artifacts
      /\ sync = [at |-> sync.at, mode |-> sync.mode, unversioned |-> sync.unversioned,
                 todo |-> sync.todo, incidents |-> sync.incidents, sections |-> sync.sections,
                 expected |-> sync.expected]
      /\ \A row \in sync.todo : IsSnapshot(row)
      /\ \A e \in vectors : IsEntry(e)
      /\ IsBatch(sync.incidents) /\ IsBatch(sync.sections)
  BY DEF HoldingInv
<1>2. CASE StartIngest
  <2>1. PICK a \in Artifacts :
          ingest' = [at |-> IF a.kind = "ntsb" THEN "read" ELSE "fetch",
                     artifact |-> {a}, attempts |-> 0]
    BY <1>2 DEF StartIngest
  <2>2. UNCHANGED <<runs, rows, vectors, sync>>
    BY <1>2 DEF StartIngest
  <2>. QED BY <1>1, <2>1, <2>2, HoldingOfRows
<1>3. CASE FetchSucceeds \/ FetchFails \/ IngestEndsEarly
  <2>1. /\ ingest' = [at |-> ingest'.at, artifact |-> ingest'.artifact, attempts |-> ingest'.attempts]
        /\ ingest'.artifact \subseteq Artifacts
    BY <1>1, <1>3 DEF FetchSucceeds, FetchFails, IngestEndsEarly, NoIngest
  <2>2. UNCHANGED <<runs, rows, vectors, sync>>
    BY <1>3 DEF FetchSucceeds, FetchFails, IngestEndsEarly
  <2>. QED BY <1>1, <2>1, <2>2, HoldingOfRows
<1>4. CASE Persist
  <2>1. PICK a \in ingest.artifact : IF a.name \in runs THEN UNCHANGED <<runs, rows, fresh>>
                                     ELSE runs' = runs \cup {a.name} /\ rows' = Upserted(a)
    BY <1>4 DEF Persist
  <2>2. ingest' = NoIngest /\ UNCHANGED <<vectors, sync>>
    BY <1>4 DEF Persist
  <2>3. CASE a.name \in runs
    BY <1>1, <2>1, <2>2, <2>3, HoldingOfRows DEF NoIngest
  <2>4. CASE a.name \notin runs
    <3>1. /\ NoRun \notin runs' /\ DOMAIN rows' = Ids
          /\ \A id \in Ids : RowInv(id)' /\ (Versioned(id) => Versioned(id)')
      BY <1>1, <2>1, <2>4, UpsertKeeps
    <3>2. runs \subseteq runs'
      BY <2>1, <2>4
    <3>3. /\ \A e : IsEntry(e) => IsEntry(e)'
          /\ \A row : IsSnapshot(row) => IsSnapshot(row)'
          /\ \A b : IsBatch(b) => IsBatch(b)'
      BY <3>1, <3>2, HeldStays
    <3>. QED BY <1>1, <2>2, <3>1, <3>3 DEF HoldingInv, NoIngest
  <2>. QED BY <2>3, <2>4
<1>5. CASE StartSync \/ SyncCrashes
  <2>1. /\ sync'.todo = {} /\ sync'.incidents = <<>> /\ sync'.sections = <<>>
        /\ sync' = [at |-> sync'.at, mode |-> sync'.mode, unversioned |-> sync'.unversioned,
                    todo |-> sync'.todo, incidents |-> sync'.incidents,
                    sections |-> sync'.sections, expected |-> sync'.expected]
    <3>1. CASE StartSync
      <4>1. PICK mode, some : sync' = [NoSync EXCEPT !.at = "counted", !.mode = mode,
                                                     !.unversioned = some]
        BY <3>1 DEF StartSync
      <4>. QED BY <4>1 DEF NoSync
    <3>2. CASE SyncCrashes
      BY <3>2 DEF SyncCrashes, NoSync
    <3>. QED BY <1>5, <3>1, <3>2
  <2>2. UNCHANGED <<runs, rows, vectors, ingest>>
    BY <1>5 DEF StartSync, SyncCrashes
  <2>. QED BY <1>1, <2>1, <2>2, EmptyBatch, HoldingOfRows
<1>6. CASE ReadIncidents \/ ReadSections
  <2>1. PICK ids, at : ids \subseteq Ids /\ sync' = [sync EXCEPT !.at = at, !.todo = Snapshot(ids)]
    BY <1>6 DEF ReadIncidents, ReadSections, Ids
  <2>2. UNCHANGED <<runs, rows, vectors, ingest>>
    BY <1>6 DEF ReadIncidents, ReadSections
  <2>3. \A row \in Snapshot(ids) : IsSnapshot(row)
    BY <2>1, SnapshotsAre
  <2>4. /\ sync'.todo = Snapshot(ids) /\ sync'.incidents = sync.incidents
        /\ sync'.sections = sync.sections
        /\ sync' = [at |-> sync'.at, mode |-> sync'.mode, unversioned |-> sync'.unversioned,
                    todo |-> sync'.todo, incidents |-> sync'.incidents,
                    sections |-> sync'.sections, expected |-> sync'.expected]
    BY <1>1, <2>1
  <2>. QED BY <1>1, <2>2, <2>3, <2>4, HoldingOfRows
<1>7. CASE SyncIncident
  <2>. DEFINE row == NextRow
              batch == sync.incidents \o Entries(row)
  <2>1. row \in sync.todo
    BY <1>7, NextIsLeft DEF SyncIncident
  <2>2. IsBatch(Entries(row))
    BY <1>1, <2>1, EntriesHold
  <2>3. IsBatch(Full(batch)) /\ IsBatch(Rest(batch))
    BY <1>1, <2>2, BatchGrows
  <2>4. /\ sync' = [sync EXCEPT
                 !.todo = @ \ {row},
                 !.expected = @ \cup Range(Entries(row)),
                 !.incidents = IF sync.mode = "sync" THEN Rest(batch) ELSE @]
        /\ vectors' = IF sync.mode = "sync"
                       THEN Added(Deleted(vectors, row.id), Full(batch)) ELSE vectors
        /\ UNCHANGED <<runs, rows, ingest>>
    BY <1>7 DEF SyncIncident
  <2>. HIDE DEF row, batch
  <2>5. \A e \in vectors' : IsEntry(e)
    <3>1. \A e \in Deleted(vectors, row.id) : IsEntry(e)
      BY <1>1 DEF Deleted
    <3>2. \A e \in Added(Deleted(vectors, row.id), Full(batch)) : IsEntry(e)
      BY <2>3, <3>1, StoreGrows
    <3>. QED BY <1>1, <2>4, <3>2
  <2>6. /\ sync' = [at |-> sync'.at, mode |-> sync'.mode, unversioned |-> sync'.unversioned,
                    todo |-> sync'.todo, incidents |-> sync'.incidents,
                    sections |-> sync'.sections, expected |-> sync'.expected]
        /\ sync'.todo \subseteq sync.todo
        /\ sync'.incidents \in {sync.incidents, Rest(batch)} /\ sync'.sections = sync.sections
    BY <1>1, <2>4
  <2>. QED BY <1>1, <2>3, <2>4, <2>5, <2>6, HoldingOfRows
<1>8. CASE SyncSection
  <2>. DEFINE row == NextRow
              batch == sync.sections \o Entries(row)
  <2>1. row \in sync.todo
    BY <1>8, NextIsLeft DEF SyncSection
  <2>2. IsBatch(Entries(row))
    BY <1>1, <2>1, EntriesHold
  <2>3. IsBatch(Full(batch)) /\ IsBatch(Rest(batch))
    BY <1>1, <2>2, BatchGrows
  <2>4. /\ sync' = [sync EXCEPT
                 !.todo = @ \ {row},
                 !.expected = @ \cup Range(Entries(row)),
                 !.sections = IF sync.mode = "sync" THEN Rest(batch) ELSE @]
        /\ vectors' = IF sync.mode = "sync" THEN Added(vectors, Full(batch)) ELSE vectors
        /\ UNCHANGED <<runs, rows, ingest>>
    BY <1>8 DEF SyncSection
  <2>. HIDE DEF row, batch
  <2>5. \A e \in vectors' : IsEntry(e)
    <3>1. \A e \in Added(vectors, Full(batch)) : IsEntry(e)
      BY <1>1, <2>3, StoreGrows
    <3>. QED BY <1>1, <2>4, <3>1
  <2>6. /\ sync' = [at |-> sync'.at, mode |-> sync'.mode, unversioned |-> sync'.unversioned,
                    todo |-> sync'.todo, incidents |-> sync'.incidents,
                    sections |-> sync'.sections, expected |-> sync'.expected]
        /\ sync'.todo \subseteq sync.todo
        /\ sync'.sections \in {sync.sections, Rest(batch)} /\ sync'.incidents = sync.incidents
    BY <1>1, <2>4
  <2>. QED BY <1>1, <2>3, <2>4, <2>5, <2>6, HoldingOfRows
<1>9. CASE FlushIncidents \/ FlushSections
  <2>1. PICK b \in {sync.incidents, sync.sections} : vectors' = Added(vectors, b)
    BY <1>9 DEF FlushIncidents, FlushSections
  <2>2. \A e \in vectors' : IsEntry(e)
    BY <1>1, <2>1, StoreGrows
  <2>3. /\ sync' = [at |-> sync'.at, mode |-> sync'.mode, unversioned |-> sync'.unversioned,
                    todo |-> sync'.todo, incidents |-> sync'.incidents,
                    sections |-> sync'.sections, expected |-> sync'.expected]
        /\ sync'.todo = sync.todo
        /\ sync'.incidents \in {sync.incidents, <<>>} /\ sync'.sections \in {sync.sections, <<>>}
        /\ UNCHANGED <<runs, rows, ingest>>
    BY <1>1, <1>9 DEF FlushIncidents, FlushSections
  <2>. QED BY <1>1, <2>2, <2>3, EmptyBatch, HoldingOfRows
<1>10. CASE FinishSync
  <2>1. sync' = NoSync /\ UNCHANGED <<runs, rows, vectors, ingest>>
    BY <1>10 DEF FinishSync
  <2>. QED BY <1>1, <2>1, EmptyBatch, HoldingOfRows DEF NoSync
<1>. QED BY <1>2, <1>3, <1>4, <1>5, <1>6, <1>7, <1>8, <1>9, <1>10 DEF CorpusNext

-----------------------------------------------------------------------------
(* What the script indexes.                                                *)

\* The store once entries are added.
Over(store, entries) == {e \in store : \A f \in entries : f[1] # e[1]} \cup entries

LEMMA AddedIs == \A store, b : Added(store, b) = Over(store, Range(b))
BY DEF Added, Over, Range

\* One row: its documents join those that wait, some are flushed, and none of the
\* store is left that they do not replace.
LEMMA IndexOne ==
    ASSUME NEW waiting, NEW expected, NEW store, NEW indexed,
           Synced(waiting, expected, store, indexed),
           NEW row, NEW new, NEW kept, kept \subseteq store,
           NEW flushed, NEW left, flushed \cup left = waiting \cup new,
           \A e, f \in expected \cup new : e[1] = f[1] => e = f,
           \A e \in store \ kept : e \notin expected,
           \A e \in kept : e[1][1] = row.id => \E w \in new : w[1] = e[1]
    PROVE  Synced(left, expected \cup new, Over(kept, flushed), indexed \cup {row})
<1>1. left \subseteq expected \cup new
  BY DEF Synced
<1>2. ASSUME NEW e \in expected \cup new, e \notin left
      PROVE  e \in Over(kept, flushed)
  <2>1. CASE e \in flushed
    BY <2>1 DEF Over
  <2>2. CASE e \notin flushed
    <3>1. e \in store /\ e \in expected
      BY <1>2, <2>2 DEF Synced
    <3>2. e \in kept
      BY <3>1
    <3>3. \A f \in flushed : f[1] # e[1]
      BY <2>2, <3>1 DEF Synced
    <3>. QED BY <3>2, <3>3 DEF Over
  <2>. QED BY <2>1, <2>2
<1>3. ASSUME NEW e \in Over(kept, flushed), NEW r \in indexed \cup {row}, r.id = e[1][1]
      PROVE  e \in expected \cup new \/ \E w \in left : w[1] = e[1]
  <2>1. CASE e \in flushed
    BY <2>1 DEF Synced
  <2>2. CASE e \in kept /\ \A f \in flushed : f[1] # e[1]
    <3>1. e \in expected \/ \E w \in waiting \cup new : w[1] = e[1]
      <4>1. CASE r \in indexed
        BY <1>3, <2>2, <4>1 DEF Synced
      <4>2. CASE r = row
        BY <1>3, <2>2, <4>2
      <4>. QED BY <4>1, <4>2
    <3>. QED BY <2>2, <3>1
  <2>. QED BY <2>1, <2>2 DEF Over
<1>. QED BY <1>1, <1>2, <1>3 DEF Synced

\* Some of what waits is flushed.
LEMMA FlushSome ==
    ASSUME NEW flushed, NEW left, NEW expected, NEW store, NEW indexed,
           Synced(flushed \cup left, expected, store, indexed),
           \A e, f \in expected : e[1] = f[1] => e = f
    PROVE  Synced(left, expected, Over(store, flushed), indexed)
<1>1. left \subseteq expected /\ flushed \subseteq expected
  BY DEF Synced
<1>2. ASSUME NEW e \in expected, e \notin left PROVE e \in Over(store, flushed)
  <2>1. \A f \in flushed : f[1] = e[1] => f = e
    BY <1>1
  <2>2. e \in flushed \cup store
    BY <1>2 DEF Synced
  <2>. QED BY <2>1, <2>2 DEF Over
<1>3. ASSUME NEW e \in Over(store, flushed), NEW row \in indexed, row.id = e[1][1]
      PROVE  e \in expected \/ \E w \in left : w[1] = e[1]
  <2>1. CASE e \in flushed
    BY <1>1, <2>1
  <2>2. CASE e \notin flushed
    <3>1. e \in store /\ \A f \in flushed : f[1] # e[1]
      BY <2>2 DEF Over
    <3>2. e \in expected \/ \E w \in flushed \cup left : w[1] = e[1]
      BY <1>3, <3>1 DEF Synced
    <3>. QED BY <3>1, <3>2
  <2>. QED BY <2>1, <2>2
<1>. QED BY <1>1, <1>2, <1>3 DEF Synced

\* Two rows the script reads are of different sources, two documents of different names.
LEMMA OneRow ==
    ASSUME HoldingInv, NEW q \in Snapshot(Ids), NEW r \in Snapshot(Ids), q.id = r.id
    PROVE  q = r
<1>1. /\ q = [id |-> q.id, run |-> q.run, text |-> q.text]
      /\ r = [id |-> r.id, run |-> r.run, text |-> r.text]
      /\ rows[q.id] = {[run |-> q.run, text |-> q.text]}
      /\ rows[r.id] = {[run |-> r.run, text |-> r.text]}
  BY SnapshotsAre DEF IsSnapshot
<1>2. [run |-> q.run, text |-> q.text] = [run |-> r.run, text |-> r.text]
  BY <1>1
<1>3. q.run = r.run /\ q.text = r.text
  BY <1>2
<1>. QED BY <1>1, <1>3

LEMMA EntriesOfRow ==
    ASSUME HoldingInv, NEW row \in Snapshot(Ids)
    PROVE  /\ \A e \in Range(Entries(row)) : e[1][1] = row.id
           /\ \A e, f \in Range(Entries(row)) : e[1] = f[1] => e = f
           /\ row.id \in Sections => Range(Entries(row)) = {<<<<row.id, "section">>, row.run>>}
<1>1. IsSnapshot(row)
  BY SnapshotsAre
<1>2. row.text \in {"short", "long"}
  BY <1>1, EntriesHold
<1>. QED BY <1>2, EntriesAre

LEMMA OneDocument ==
    ASSUME HoldingInv, NEW e \in EntriesOf(Snapshot(Ids)), NEW f \in EntriesOf(Snapshot(Ids)), e[1] = f[1]
    PROVE  e = f
<1>1. PICK q \in Snapshot(Ids) : e \in Range(Entries(q))
  BY DEF EntriesOf
<1>2. PICK r \in Snapshot(Ids) : f \in Range(Entries(r))
  BY DEF EntriesOf
<1>3. q.id = r.id
  BY <1>1, <1>2, EntriesOfRow
<1>4. q = r
  BY <1>3, OneRow
<1>. QED BY <1>1, <1>2, <1>4, EntriesOfRow

LEMMA SnapshotOf ==
    /\ Snapshot(Ids) = Snapshot(Incidents) \cup Snapshot(Sections)
    /\ \A ids : \A row \in Snapshot(ids) : row.id \in ids
    /\ Snapshot(Incidents) \cap Snapshot(Sections) = {}
<1>1. \A ids, row : row \in Snapshot(ids) <=>
        \E id \in ids : /\ Versioned(id) /\ HasText(id)
                       /\ \E r \in rows[id] : row = [id |-> id, run |-> r.run, text |-> r.text]
  BY DEF Snapshot
<1>2. \A ids : \A row \in Snapshot(ids) : row.id \in ids
  BY <1>1
<1>3. Snapshot(Ids) = Snapshot(Incidents) \cup Snapshot(Sections)
  BY <1>1 DEF Ids
<1>4. Incidents \cap Sections = {}
  BY CorpusAssumption DEF CorpusAssumption
<1>. QED BY <1>2, <1>3, <1>4

\* What the store may hold of a section.
LEMMA EntryOf ==
    ASSUME NEW e, IsEntry(e)
    PROVE  /\ e[1][1] \in Ids /\ Versioned(e[1][1])
           /\ e[1][1] \in Sections => e[1] = <<e[1][1], "section">>
<1>1. PICK id \in Ids, run \in runs, text \in {"short", "long"} :
        /\ Versioned(id)
        /\ \E i \in DOMAIN Documents(id, text) : e = <<Documents(id, text)[i], run>>
  BY DEF IsEntry
<1>2. PICK i \in DOMAIN Documents(id, text) : e = <<Documents(id, text)[i], run>>
  BY <1>1
<1>3. Documents(id, text)[i][1] = id
  BY DocumentsAre
<1>4. e[1][1] = id
  BY <1>2, <1>3
<1>5. id \in Sections => e[1] = <<id, "section">>
  <2>1. SUFFICES ASSUME id \in Sections PROVE Documents(id, text)[i] = <<id, "section">>
    BY <1>2
  <2>2. Documents(id, text) = <<<<id, "section">>>>
    BY <2>1, DocumentsAre
  <2>. QED BY <2>2
<1>. QED BY <1>1, <1>4, <1>5

-----------------------------------------------------------------------------
(* The report.                                                             *)

LEMMA SnapshotsStay ==
    ASSUME UNCHANGED rows
    PROVE  /\ \A ids : Snapshot(ids)' = Snapshot(ids)
           /\ TextsWithoutRun' = TextsWithoutRun
           /\ \A id : HasText(id)' = HasText(id) /\ Versioned(id)' = Versioned(id)
<1>1. \A id : HasText(id)' = HasText(id) /\ Versioned(id)' = Versioned(id)
  BY DEF HasText, Versioned
<1>2. \A ids : Snapshot(ids)' = Snapshot(ids)
  BY <1>1 DEF Snapshot
<1>3. TextsWithoutRun' = TextsWithoutRun
  BY <1>1 DEF TextsWithoutRun
<1>. QED BY <1>1, <1>2, <1>3

LEMMA CorpusInitially == CorpusInit => SyncInv /\ ReportIsTrue
<1>. SUFFICES ASSUME CorpusInit PROVE SyncInv /\ ReportIsTrue
  OBVIOUS
<1>1. /\ sync.at = "idle" /\ sync.mode = "check" /\ sync.todo = {} /\ sync.expected = {}
      /\ sync.incidents = <<>> /\ sync.sections = <<>>
  BY DEF CorpusInit, NoSync
<1>2. report.status = "none"
  BY DEF CorpusInit, NoReport
<1>3. SyncInv
  BY <1>1 DEF SyncInv
<1>. QED BY <1>2, <1>3 DEF ReportIsTrue

LEMMA SyncUnchanged ==
    ASSUME SyncInv, ReportIsTrue, UNCHANGED <<rows, vectors, sync, report, fresh>>
    PROVE  SyncInv' /\ ReportIsTrue'
<1>1. /\ \A ids : Snapshot(ids)' = Snapshot(ids)
      /\ TextsWithoutRun' = TextsWithoutRun
      /\ \A id : HasText(id)' = HasText(id) /\ Versioned(id)' = Versioned(id)
  BY SnapshotsStay
<1>2. Indexed' = Indexed /\ Waiting' = Waiting
  BY <1>1 DEF Indexed, Waiting
<1>3. SyncInv'
  BY <1>1, <1>2 DEF SyncInv
<1>4. Current' = Current
  BY <1>1 DEF Current
<1>5. ReportIsTrue'
  BY <1>1, <1>4 DEF ReportIsTrue
<1>. QED BY <1>3, <1>5

\* While the script runs, and after it has ended early, the report is an older one.
LEMMA OlderReport ==
    ASSUME sync'.at # "idle" \/ fresh' = FALSE
    PROVE  ReportIsTrue'
BY DEF ReportIsTrue

\* One row is indexed, of the incidents or of the sections.
LEMMA IndexStep ==
    ASSUME HoldingInv, SyncInv, fresh, SyncIncident \/ SyncSection
    PROVE  /\ sync'.expected = EntriesOf(Indexed)'
           /\ sync'.mode = "sync" => Synced(Waiting, sync.expected, vectors, Indexed)'
<1>1. PICK row : row = NextRow
  OBVIOUS
<1>2. row \in sync.todo
  BY <1>1, NextIsLeft DEF SyncIncident, SyncSection
<1>3. UNCHANGED rows /\ sync'.at = sync.at /\ sync'.mode = sync.mode
      /\ sync'.todo = sync.todo \ {row} /\ sync'.expected = sync.expected \cup Range(Entries(row))
  BY <1>1 DEF SyncIncident, SyncSection, HoldingInv
<1>4. /\ sync.at = "incidents" => row \in Snapshot(Incidents) /\ sync.todo \subseteq Snapshot(Incidents)
      /\ sync.at = "sections" => row \in Snapshot(Sections) /\ sync.todo \subseteq Snapshot(Sections)
      /\ sync.at \in {"incidents", "sections"}
      /\ sync.expected = EntriesOf(Indexed)
      /\ sync.mode = "sync" => Synced(Waiting, sync.expected, vectors, Indexed)
  BY <1>2 DEF SyncInv, SyncIncident, SyncSection
<1>5. row \in Snapshot(Ids)
  BY <1>4, SnapshotOf
<1>6. Indexed' = Indexed \cup {row} /\ row \notin Indexed /\ Indexed \subseteq Snapshot(Ids)
  <2>1. \A ids : Snapshot(ids)' = Snapshot(ids)
    BY <1>3, SnapshotsStay
  <2>. QED BY <1>2, <1>3, <1>4, <1>5, <2>1, SnapshotOf DEF Indexed
<1>7. sync'.expected = EntriesOf(Indexed)'
  <2>1. EntriesOf(Indexed)' = EntriesOf(Indexed')
    BY DEF EntriesOf
  <2>2. EntriesOf(Indexed \cup {row}) = EntriesOf(Indexed) \cup Range(Entries(row))
    BY DEF EntriesOf
  <2>. QED BY <1>3, <1>4, <1>6, <2>1, <2>2
<1>8. ASSUME sync.mode = "sync"
      PROVE  Synced(Waiting, sync.expected, vectors, Indexed)'
  <2>1. PICK new : new = Range(Entries(row))
    OBVIOUS
  <2>2. \A e, f \in sync.expected \cup new : e[1] = f[1] => e = f
    <3>1. sync.expected \cup new \subseteq EntriesOf(Snapshot(Ids))
      BY <1>4, <1>5, <1>6, <2>1 DEF EntriesOf
    <3>. QED BY <3>1, OneDocument
  <2>3. IsBatch(sync.incidents) /\ IsBatch(sync.sections) /\ IsBatch(Entries(row))
    BY <1>2, EntriesHold DEF HoldingInv
  <2>4. Synced(Waiting, sync.expected, vectors, Indexed)
    BY <1>4, <1>8
  <2>5. \A e \in new : e[1][1] = row.id
    BY <1>5, <2>1, EntriesOfRow
  <2>6. CASE SyncIncident
    <3>1. PICK batch : batch = sync.incidents \o Entries(row)
      OBVIOUS
    <3>2. /\ Range(batch) = Range(sync.incidents) \cup new
          /\ Range(batch) = Range(Full(batch)) \cup Range(Rest(batch))
      BY <2>1, <2>3, <3>1, BatchGrows
    <3>3. PICK kept, flushed, left :
            /\ kept = Deleted(vectors, row.id) /\ flushed = Range(Full(batch))
            /\ left = Range(Rest(batch)) \cup Range(sync.sections)
      OBVIOUS
    <3>4. vectors' = Added(Deleted(vectors, row.id), Full(batch))
      BY <1>1, <1>8, <2>6, <3>1 DEF SyncIncident
    <3>5. vectors' = Over(kept, flushed)
      BY <3>3, <3>4, AddedIs
    <3>6. sync'.incidents = Rest(batch) /\ sync'.sections = sync.sections
      BY <1>1, <1>8, <2>6, <3>1 DEF SyncIncident, HoldingInv
    <3>7. Waiting' = left
      BY <3>3, <3>6 DEF Waiting
    <3>8. flushed \cup left = Waiting \cup new
      BY <3>2, <3>3 DEF Waiting
    <3>9. /\ kept \subseteq vectors
          /\ \A e \in vectors \ kept : e[1][1] = row.id
          /\ \A e \in kept : e[1][1] # row.id
      BY <3>3 DEF Deleted
    <3>10. \A e \in sync.expected : e[1][1] # row.id
      <4>1. SUFFICES ASSUME NEW q \in Indexed, NEW e \in Range(Entries(q)) PROVE e[1][1] # row.id
        BY <1>4 DEF EntriesOf
      <4>2. e[1][1] = q.id
        BY <1>6, EntriesOfRow
      <4>3. q.id # row.id
        BY <1>5, <1>6, OneRow
      <4>. QED BY <4>2, <4>3
    <3>11. Synced(left, sync.expected \cup new, Over(kept, flushed), Indexed \cup {row})
      <4>1. \A e \in vectors \ kept : e \notin sync.expected
        BY <3>9, <3>10
      <4>2. \A e \in kept : e[1][1] = row.id => \E w \in new : w[1] = e[1]
        BY <3>9
      <4>3. kept \subseteq vectors
        BY <3>9
      <4>. QED BY <2>2, <2>4, <3>8, <4>1, <4>2, <4>3, IndexOne
    <3>12. Synced(Waiting', sync'.expected, vectors', Indexed')
      BY <1>3, <1>6, <2>1, <3>5, <3>7, <3>11
    <3>. QED BY <3>12 DEF Synced
  <2>7. CASE SyncSection
    <3>1. PICK batch : batch = sync.sections \o Entries(row)
      OBVIOUS
    <3>2. /\ Range(batch) = Range(sync.sections) \cup new
          /\ Range(batch) = Range(Full(batch)) \cup Range(Rest(batch))
      BY <2>1, <2>3, <3>1, BatchGrows
    <3>3. PICK flushed, left :
            /\ flushed = Range(Full(batch))
            /\ left = Range(sync.incidents) \cup Range(Rest(batch))
      OBVIOUS
    <3>4. vectors' = Added(vectors, Full(batch))
      BY <1>1, <1>8, <2>7, <3>1 DEF SyncSection
    <3>5. vectors' = Over(vectors, flushed)
      BY <3>3, <3>4, AddedIs
    <3>6. sync'.sections = Rest(batch) /\ sync'.incidents = sync.incidents
      BY <1>1, <1>8, <2>7, <3>1 DEF SyncSection, HoldingInv
    <3>7. Waiting' = left
      BY <3>3, <3>6 DEF Waiting
    <3>8. flushed \cup left = Waiting \cup new
      BY <3>2, <3>3 DEF Waiting
    <3>9. ASSUME NEW e \in vectors, e[1][1] = row.id
          PROVE  \E w \in new : w[1] = e[1]
      <4>1. row.id \in Sections
        BY <1>4, <2>7, SnapshotOf DEF SyncSection
      <4>2. e[1] = <<row.id, "section">>
        BY <3>9, <4>1, EntryOf DEF HoldingInv
      <4>3. new = {<<<<row.id, "section">>, row.run>>}
        BY <1>5, <2>1, <4>1, EntriesOfRow
      <4>. QED BY <4>2, <4>3
    <3>10. Synced(left, sync.expected \cup new, Over(vectors, flushed), Indexed \cup {row})
      BY <2>2, <2>4, <3>8, <3>9, IndexOne
    <3>11. Synced(Waiting', sync'.expected, vectors', Indexed')
      BY <1>3, <1>6, <2>1, <3>5, <3>7, <3>10
    <3>. QED BY <3>11 DEF Synced
  <2>. QED BY <2>6, <2>7
<1>. QED BY <1>3, <1>7, <1>8

LEMMA EntriesVersioned == \A f : IsEntry(f) => f[1][1] \in Ids /\ Versioned(f[1][1])
BY EntryOf

LEMMA FinishStep ==
    ASSUME HoldingInv, HoldingInv', SyncInv, FinishSync
    PROVE  ReportIsTrue'
<1>. SUFFICES ASSUME fresh' PROVE ReportIsTrue'
  BY DEF ReportIsTrue
<1>1. /\ fresh /\ UNCHANGED <<rows, vectors>>
      /\ report' = [mode |-> sync.mode,
                    status |-> IF Agrees(sync.expected, vectors) /\ ~sync.unversioned
                               THEN "passed" ELSE "failed"]
      /\ sync.at = "flushed"
  BY DEF FinishSync
<1>2. /\ sync.unversioned = TextsWithoutRun /\ sync.expected = EntriesOf(Indexed)
      /\ sync.mode = "sync" => Synced(Waiting, sync.expected, vectors, Indexed)
      /\ sync.todo = {} /\ sync.incidents = <<>> /\ sync.sections = <<>>
  BY <1>1 DEF SyncInv
<1>3. Indexed = Snapshot(Ids)
  BY <1>1, <1>2 DEF Indexed
<1>4. /\ \A ids : Snapshot(ids)' = Snapshot(ids)
      /\ TextsWithoutRun' = TextsWithoutRun
      /\ \A id : HasText(id)' = HasText(id) /\ Versioned(id)' = Versioned(id)
  BY <1>1, SnapshotsStay
<1>5. Current' = sync.expected
  BY <1>2, <1>3, <1>4 DEF Current, EntriesOf
<1>6. report'.status = "passed" <=> Current' = vectors' /\ ~TextsWithoutRun'
  BY <1>1, <1>2, <1>4, <1>5 DEF Agrees
<1>7. ASSUME sync.mode = "sync"
      PROVE  Current' \subseteq vectors' /\ \A e \in vectors' \ Current' : ~HasText(e[1][1])'
  <2>1. Waiting = {}
    BY <1>2, NoRange DEF Waiting
  <2>2. /\ sync.expected \subseteq vectors'
        /\ \A e \in vectors' \ sync.expected : \A row \in Indexed : row.id # e[1][1]
    BY <1>1, <1>2, <1>7, <2>1 DEF Synced
  <2>3. ASSUME NEW e \in vectors' \ Current', HasText(e[1][1])'
        PROVE  FALSE
    <3>1. PICK id : id = e[1][1]
      OBVIOUS
    <3>2. (\A f : IsEntry(f) => f[1][1] \in Ids /\ Versioned(f[1][1]))'
      BY EntriesVersioned, PTL
    <3>3. id \in Ids /\ Versioned(id)'
      BY <2>3, <3>1, <3>2 DEF HoldingInv
    <3>4. Versioned(id) /\ HasText(id)
      BY <1>4, <2>3, <3>1, <3>3
    <3>5. PICK r \in rows[id] : TRUE
      BY <3>4 DEF Versioned
    <3>6. [id |-> id, run |-> r.run, text |-> r.text] \in Snapshot(Ids)
      BY <3>3, <3>4, <3>5 DEF Snapshot
    <3>. QED BY <1>3, <1>5, <2>2, <3>1, <3>6
  <2>. QED BY <1>5, <2>2, <2>3
<1>8. report'.mode = sync.mode
  BY <1>1
<1>9. ~TextsWithoutRun' <=> \A id \in Ids : rows'[id] # {} /\ HasText(id)' => Versioned(id)'
  BY DEF TextsWithoutRun
<1>. QED BY <1>6, <1>7, <1>8, <1>9 DEF ReportIsTrue

LEMMA SyncStep == CorpusInv /\ HoldingInv' /\ CorpusNext => SyncInv' /\ ReportIsTrue'
<1>. SUFFICES ASSUME HoldingInv, SyncInv, ReportIsTrue, HoldingInv', CorpusNext
              PROVE  SyncInv' /\ ReportIsTrue'
  BY DEF CorpusInv
<1>1. CASE StartIngest \/ FetchSucceeds \/ FetchFails \/ IngestEndsEarly
  <2>1. UNCHANGED <<rows, vectors, sync, report, fresh>>
    BY <1>1 DEF StartIngest, FetchSucceeds, FetchFails, IngestEndsEarly
  <2>. QED BY <2>1, SyncUnchanged
<1>2. CASE Persist
  <2>1. UNCHANGED <<vectors, sync, report>> /\ (UNCHANGED <<rows, fresh>> \/ fresh' = FALSE)
    BY <1>2 DEF Persist
  <2>2. CASE UNCHANGED <<rows, fresh>>
    BY <2>1, <2>2, SyncUnchanged
  <2>3. CASE fresh' = FALSE
    <3>1. SyncInv'
      BY <2>1, <2>3 DEF SyncInv
    <3>. QED BY <2>3, <3>1 DEF ReportIsTrue
  <2>. QED BY <2>1, <2>2, <2>3
<1>3. CASE StartSync
  <2>1. /\ sync'.at = "counted" /\ sync'.mode \in {"sync", "check"} /\ sync'.todo = {}
        /\ sync'.expected = {} /\ sync'.incidents = <<>> /\ sync'.sections = <<>>
        /\ sync'.unversioned = TextsWithoutRun
    <3>1. PICK mode \in {"sync", "check"} :
            sync' = [NoSync EXCEPT !.at = "counted", !.mode = mode, !.unversioned = TextsWithoutRun]
      BY <1>3 DEF StartSync, TextsWithoutRun
    <3>. QED BY <3>1 DEF NoSync
  <2>2. UNCHANGED rows
    BY <1>3 DEF StartSync
  <2>3. TextsWithoutRun' = TextsWithoutRun
    BY <2>2, SnapshotsStay
  <2>4. SyncInv'
    BY <2>1, <2>2, <2>3 DEF SyncInv
  <2>. QED BY <2>1, <2>4, OlderReport
<1>4. CASE ReadIncidents
  <2>1. /\ sync'.at = "incidents" /\ sync'.mode = sync.mode /\ sync'.todo = Snapshot(Incidents)
        /\ sync'.expected = {} /\ sync'.incidents = <<>> /\ sync'.sections = <<>>
        /\ sync'.unversioned = sync.unversioned /\ sync.mode \in {"sync", "check"}
        /\ UNCHANGED <<rows, vectors, report, fresh>>
        /\ fresh => sync.unversioned = TextsWithoutRun
    BY <1>4 DEF ReadIncidents, SyncInv, HoldingInv
  <2>2. (\A ids : Snapshot(ids)' = Snapshot(ids)) /\ TextsWithoutRun' = TextsWithoutRun
    BY <2>1, SnapshotsStay
  <2>3. Indexed' = {} /\ EntriesOf(Indexed)' = {} /\ Waiting' = {}
    BY <2>1, <2>2, NoRange DEF Indexed, EntriesOf, Waiting
  <2>4. Synced(Waiting, sync.expected, vectors, Indexed)'
    BY <2>1, <2>3 DEF Synced
  <2>5. SyncInv'
    BY <2>1, <2>2, <2>3, <2>4 DEF SyncInv
  <2>. QED BY <2>1, <2>5, OlderReport
<1>5. CASE ReadSections
  <2>1. /\ sync.at = "incidents" /\ sync.todo = {}
        /\ sync'.at = "sections" /\ sync'.mode = sync.mode /\ sync'.todo = Snapshot(Sections)
        /\ sync'.expected = sync.expected /\ sync'.incidents = sync.incidents
        /\ sync'.sections = sync.sections /\ sync'.unversioned = sync.unversioned
        /\ UNCHANGED <<rows, vectors, report, fresh>>
    BY <1>5 DEF ReadSections, HoldingInv
  <2>2. (\A ids : Snapshot(ids)' = Snapshot(ids)) /\ TextsWithoutRun' = TextsWithoutRun
    BY <2>1, SnapshotsStay
  <2>3. Indexed' = Indexed
    BY <2>1, <2>2, SnapshotOf DEF Indexed
  <2>4. Waiting' = Waiting
    BY <2>1 DEF Waiting
  <2>5. EntriesOf(Indexed)' = EntriesOf(Indexed)
    BY <2>3 DEF EntriesOf
  <2>6. Synced(Waiting, sync.expected, vectors, Indexed)
          => Synced(Waiting, sync.expected, vectors, Indexed)'
    BY <2>1, <2>3, <2>4 DEF Synced
  <2>7. /\ sync.mode \in {"sync", "check"}
        /\ sync.mode = "check" => sync.incidents = <<>> /\ sync.sections = <<>>
        /\ fresh => /\ sync.unversioned = TextsWithoutRun
                    /\ sync.expected = EntriesOf(Indexed)
                    /\ sync.mode = "sync" => Synced(Waiting, sync.expected, vectors, Indexed)
    BY <2>1 DEF SyncInv
  <2>8. SyncInv'
    BY <2>1, <2>2, <2>5, <2>6, <2>7 DEF SyncInv
  <2>. QED BY <2>1, <2>8, OlderReport
<1>6. CASE SyncIncident \/ SyncSection
  <2>1. /\ UNCHANGED <<rows, report, fresh>> /\ sync'.at = sync.at /\ sync'.mode = sync.mode
        /\ sync'.unversioned = sync.unversioned /\ sync'.todo \subseteq sync.todo
        /\ sync.mode = "check" => sync'.incidents = sync.incidents /\ sync'.sections = sync.sections
    <3>1. /\ UNCHANGED <<rows, report, fresh>>
          /\ \/ sync' = [sync EXCEPT
                         !.todo = @ \ {NextRow},
                         !.expected = @ \cup Range(Entries(NextRow)),
                         !.incidents = IF sync.mode = "sync"
                                       THEN Rest(sync.incidents \o Entries(NextRow)) ELSE @]
             \/ sync' = [sync EXCEPT
                         !.todo = @ \ {NextRow},
                         !.expected = @ \cup Range(Entries(NextRow)),
                         !.sections = IF sync.mode = "sync"
                                      THEN Rest(sync.sections \o Entries(NextRow)) ELSE @]
      BY <1>6 DEF SyncIncident, SyncSection
    <3>. QED BY <3>1 DEF HoldingInv
  <2>2. (\A ids : Snapshot(ids)' = Snapshot(ids)) /\ TextsWithoutRun' = TextsWithoutRun
    BY <2>1, SnapshotsStay
  <2>3. /\ sync.at \in {"incidents", "sections"}
        /\ sync.mode \in {"sync", "check"}
        /\ sync.mode = "check" => sync.incidents = <<>> /\ sync.sections = <<>>
        /\ fresh => sync.unversioned = TextsWithoutRun
        /\ fresh /\ sync.at = "incidents" => sync.todo \subseteq Snapshot(Incidents)
        /\ fresh /\ sync.at = "sections" => sync.todo \subseteq Snapshot(Sections)
    BY <1>6 DEF SyncInv, SyncIncident, SyncSection
  <2>4. fresh => /\ sync'.expected = EntriesOf(Indexed)'
                 /\ sync'.mode = "sync" => Synced(Waiting, sync.expected, vectors, Indexed)'
    BY <1>6, IndexStep
  <2>5. SyncInv'
    BY <2>1, <2>2, <2>3, <2>4 DEF SyncInv
  <2>. QED BY <2>1, <2>3, <2>5, OlderReport
<1>7. CASE FlushIncidents \/ FlushSections
  <2>1. PICK flushed : \/ FlushIncidents /\ flushed = sync.incidents
                       \/ FlushSections /\ flushed = sync.sections
    BY <1>7
  <2>2. /\ UNCHANGED <<rows, report, fresh>> /\ sync'.mode = sync.mode
        /\ sync'.unversioned = sync.unversioned /\ sync'.expected = sync.expected
        /\ sync.todo = {} /\ sync'.todo = {}
        /\ \/ /\ sync.at = "sections" /\ sync'.at = "flushing"
              /\ sync'.incidents = <<>> /\ sync'.sections = sync.sections
           \/ /\ sync.at = "flushing" /\ sync'.at = "flushed" /\ sync.incidents = <<>>
              /\ sync'.incidents = <<>> /\ sync'.sections = <<>>
    BY <1>7 DEF FlushIncidents, FlushSections, HoldingInv, SyncInv
  <2>3. /\ sync.mode \in {"sync", "check"}
        /\ sync.mode = "check" => sync.incidents = <<>> /\ sync.sections = <<>>
        /\ fresh => /\ sync.unversioned = TextsWithoutRun
                    /\ sync.expected = EntriesOf(Indexed)
                    /\ sync.mode = "sync" => Synced(Waiting, sync.expected, vectors, Indexed)
    BY <2>2 DEF SyncInv
  <2>4. (\A ids : Snapshot(ids)' = Snapshot(ids)) /\ TextsWithoutRun' = TextsWithoutRun
    BY <2>2, SnapshotsStay
  <2>5. Indexed' = Indexed /\ Indexed = Snapshot(Ids)
    BY <2>2, <2>4 DEF Indexed
  <2>6. EntriesOf(Indexed)' = EntriesOf(Indexed)
    BY <2>5 DEF EntriesOf
  <2>7. vectors' = Over(vectors, Range(flushed))
    BY <2>1, AddedIs DEF FlushIncidents, FlushSections
  <2>8. Waiting = Range(flushed) \cup Waiting'
    <3>1. CASE FlushIncidents
      <4>1. sync'.incidents = <<>> /\ sync'.sections = sync.sections
        BY <2>2, <3>1 DEF FlushIncidents
      <4>2. flushed = sync.incidents
        BY <2>1, <3>1 DEF FlushIncidents, FlushSections
      <4>. QED BY <4>1, <4>2, NoRange DEF Waiting
    <3>2. CASE FlushSections
      <4>1. flushed = sync.sections
        BY <2>1, <3>2 DEF FlushIncidents, FlushSections
      <4>2. sync.incidents = <<>> /\ sync'.incidents = <<>> /\ sync'.sections = <<>>
        BY <2>2, <3>2 DEF FlushSections
      <4>. QED BY <4>1, <4>2, NoRange DEF Waiting
    <3>. QED BY <1>7, <3>1, <3>2
  <2>9. ASSUME fresh, sync.mode = "sync"
        PROVE  Synced(Waiting, sync.expected, vectors, Indexed)'
    <3>1. \A e, f \in sync.expected : e[1] = f[1] => e = f
      BY <2>3, <2>5, <2>9, OneDocument
    <3>2. Synced(Range(flushed) \cup Waiting', sync.expected, vectors, Indexed)
      BY <2>3, <2>8, <2>9
    <3>3. Synced(Waiting', sync.expected, Over(vectors, Range(flushed)), Indexed)
      BY <3>1, <3>2, FlushSome
    <3>4. Synced(Waiting', sync'.expected, vectors', Indexed')
      BY <2>2, <2>5, <2>7, <3>3
    <3>. QED BY <3>4 DEF Synced
  <2>10. SyncInv'
    BY <2>2, <2>3, <2>4, <2>5, <2>6, <2>9 DEF SyncInv
  <2>. QED BY <2>2, <2>10, OlderReport
<1>8. CASE FinishSync
  <2>1. sync' = NoSync
    BY <1>8 DEF FinishSync
  <2>2. SyncInv'
    BY <2>1 DEF SyncInv, NoSync
  <2>. QED BY <1>8, <2>2, FinishStep
<1>9. CASE SyncCrashes
  <2>1. sync' = NoSync /\ fresh' = FALSE
    BY <1>9 DEF SyncCrashes
  <2>2. SyncInv'
    BY <2>1 DEF SyncInv, NoSync
  <2>. QED BY <2>1, <2>2, OlderReport
<1>. QED BY <1>1, <1>2, <1>3, <1>4, <1>5, <1>6, <1>7, <1>8, <1>9 DEF CorpusNext

LEMMA CorpusStep == CorpusInv /\ [CorpusNext]_corpusVars => CorpusInv'
<1>1. ASSUME CorpusInv, CorpusNext PROVE CorpusInv'
  BY <1>1, HoldingStep, SyncStep DEF CorpusInv
<1>2. ASSUME CorpusInv, UNCHANGED corpusVars PROVE CorpusInv'
  <2>1. HoldingInv'
    BY <1>2, HoldingUnchanged DEF CorpusInv, corpusVars
  <2>2. SyncInv' /\ ReportIsTrue'
    BY <1>2, SyncUnchanged DEF CorpusInv, corpusVars
  <2>. QED BY <2>1, <2>2 DEF CorpusInv
<1>. QED BY <1>1, <1>2

LEMMA SafetyStep == [SafetyNext]_<<corpusVars, agentVars>> => [CorpusNext]_corpusVars
BY DEF SafetyNext, AgentNext

\* Whatever is ingested, synchronised, cut short and asked meanwhile, what the script
\* last reported is true as long as no row has changed since it began
\* (scripts/sync_safety_vectorstore.py, ingestion/consistency.py).
THEOREM ReportCorrect == SafetySpec => []ReportIsTrue
<1>1. SafetyInit => CorpusInv
  BY HoldingInit, CorpusInitially DEF SafetyInit, AgentInit, CorpusInv
<1>2. CorpusInv => ReportIsTrue
  BY DEF CorpusInv
<1>. QED BY <1>1, <1>2, CorpusStep, SafetyStep, PTL DEF SafetySpec

-----------------------------------------------------------------------------
(* The concatenation of sequences (FlattenSeq is a recursive function).    *)

\* What holds of 1 and passes from each number to the next holds of all up to N.
LEMMA FromOne ==
    ASSUME NEW N \in Nat, NEW G, 1 \in G, \A n \in 2..N : n - 1 \in G => n \in G
    PROVE  \A n \in 1..N : n \in G
<1>. DEFINE Bad == {n \in Nat : n \in 1..N /\ n \notin G}
<1>1. SUFFICES ASSUME Bad # {} PROVE FALSE
  OBVIOUS
<1>2. PICK m \in Bad : \A n \in Bad : ~(<<n, m>> \in OpToRel(<, Nat))
  <2>1. Bad \subseteq Nat
    OBVIOUS
  <2>. HIDE DEF Bad
  <2>. QED BY <1>1, <2>1, NatLessThanWellFounded, WFMin
<1>3. \A n \in Bad : ~(n < m)
  BY <1>2 DEF OpToRel
<1>4. m \in 2..N
  <2>1. m \in 1..N /\ m # 1
    OBVIOUS
  <2>. QED BY <2>1
<1>5. m - 1 \in Nat /\ m - 1 \in 1..N /\ m - 1 < m
  BY <1>4
<1>6. m - 1 \in G
  BY <1>3, <1>5
<1>. QED BY <1>2, <1>4, <1>6

IsFlat(f, seqs, n) ==
    f = [i \in 1..n |-> IF i = 1 THEN seqs[i] ELSE f[i - 1] \o seqs[i]]

LEMMA FlatExists ==
    ASSUME NEW seqs, NEW N \in Nat, N # 0
    PROVE  \E f : IsFlat(f, seqs, N)
<1>. DEFINE G == {m \in Nat : \E f : IsFlat(f, seqs, m)}
<1>1. 1 \in G
  <2>. DEFINE f == [i \in 1..1 |-> seqs[1]]
  <2>1. IsFlat(f, seqs, 1)
    BY DEF IsFlat
  <2>. QED BY <2>1
<1>2. ASSUME NEW m \in 2..N, m - 1 \in G
      PROVE  m \in G
  <2>1. PICK f : IsFlat(f, seqs, m - 1)
    BY <1>2
  <2>. DEFINE g == [i \in 1..m |-> IF i = m THEN f[m - 1] \o seqs[m] ELSE f[i]]
  <2>2. ASSUME NEW i \in 1..m
        PROVE  g[i] = IF i = 1 THEN seqs[i] ELSE g[i - 1] \o seqs[i]
    <3>1. /\ m \in Nat /\ m # 1 /\ m - 1 \in 1..(m - 1) /\ m \in 1..m
          /\ \A k \in 1..(m - 1) : k \in 1..m /\ k # m
      OBVIOUS
    <3>2. /\ m \in Nat /\ m # 1 /\ m - 1 \in 1..(m - 1)
          /\ g[m] = f[m - 1] \o seqs[m]
          /\ \A k \in 1..(m - 1) : g[k] = f[k]
      BY <3>1
    <3>3. \A k \in 1..(m - 1) : f[k] = IF k = 1 THEN seqs[k] ELSE f[k - 1] \o seqs[k]
      BY <2>1 DEF IsFlat
    <3>. HIDE DEF g
    <3>4. CASE i = m
      <4>1. g[m - 1] = f[m - 1]
        BY <3>2
      <4>. QED BY <3>2, <3>4, <4>1
    <3>5. CASE i # m
      <4>1. i \in 1..(m - 1) /\ g[i] = f[i]
        BY <3>2, <3>5
      <4>2. CASE i = 1
        BY <3>3, <4>1, <4>2
      <4>3. CASE i # 1
        <5>1. i - 1 \in 1..(m - 1)
          BY <4>1, <4>3
        <5>2. g[i - 1] = f[i - 1]
          BY <3>2, <5>1
        <5>. QED BY <3>3, <4>1, <4>3, <5>2
      <4>. QED BY <4>2, <4>3
    <3>. QED BY <3>4, <3>5
  <2>3. g = [i \in 1..m |-> g[i]]
    OBVIOUS
  <2>. HIDE DEF g
  <2>4. IsFlat(g, seqs, m)
    BY <2>2, <2>3 DEF IsFlat
  <2>5. m \in Nat
    OBVIOUS
  <2>. QED BY <2>4, <2>5
<1>3. N \in G
  <2>. HIDE DEF G
  <2>1. \A n \in 1..N : n \in G
    BY <1>1, <1>2, FromOne
  <2>. QED BY <2>1
<1>. QED BY <1>3

\* The concatenation holds what its parts hold.
LEMMA FlattenIs ==
    ASSUME NEW S, NEW seqs \in Seq(Seq(S))
    PROVE  /\ FlattenSeq(seqs) \in Seq(S)
           /\ Range(FlattenSeq(seqs)) = UNION {Range(seqs[i]) : i \in DOMAIN seqs}
<1>1. Len(seqs) \in Nat /\ DOMAIN seqs = 1..Len(seqs) /\ \A i \in 1..Len(seqs) : seqs[i] \in Seq(S)
  BY LenProperties
<1>2. CASE Len(seqs) = 0
  <2>1. FlattenSeq(seqs) = seqs /\ seqs = <<>>
    BY <1>2 DEF FlattenSeq
  <2>. QED BY <1>1, <1>2, <2>1 DEF Range
<1>3. CASE Len(seqs) # 0
  <2>. DEFINE Flat(f) == IsFlat(f, seqs, Len(seqs))
              f == CHOOSE h : Flat(h)
  <2>1. FlattenSeq(seqs) = f[Len(seqs)]
    BY <1>3 DEF FlattenSeq, IsFlat
  <2>2. Flat(f)
    <3>1. \E h : Flat(h)
      BY <1>1, <1>3, FlatExists
    <3>. HIDE DEF Flat
    <3>. QED BY <3>1
  <2>3. \A i \in 1..Len(seqs) : f[i] = IF i = 1 THEN seqs[i] ELSE f[i - 1] \o seqs[i]
    <3>1. IsFlat(f, seqs, Len(seqs))
      BY <2>2
    <3>. HIDE DEF f
    <3>. QED BY <3>1 DEF IsFlat
  <2>. HIDE DEF f
  <2>. DEFINE G == {n \in Nat : f[n] \in Seq(S) /\ Range(f[n]) = UNION {Range(seqs[i]) : i \in 1..n}}
  <2>4. 1 \in G
    <3>1. f[1] = seqs[1] /\ seqs[1] \in Seq(S)
      BY <1>1, <1>3, <2>3
    <3>2. {Range(seqs[i]) : i \in 1..1} = {Range(seqs[1])}
      OBVIOUS
    <3>. QED BY <3>1, <3>2
  <2>5. ASSUME NEW n \in 2..Len(seqs), n - 1 \in G PROVE n \in G
    <3>1. n \in 1..Len(seqs) /\ n # 1
      BY <1>1
    <3>2. f[n] = f[n - 1] \o seqs[n] /\ seqs[n] \in Seq(S) /\ f[n - 1] \in Seq(S)
      BY <1>1, <2>3, <2>5, <3>1
    <3>3. Range(f[n - 1]) = UNION {Range(seqs[i]) : i \in 1..(n - 1)}
      BY <2>5
    <3>4. f[n] \in Seq(S) /\ Range(f[n]) = Range(f[n - 1]) \cup Range(seqs[n])
      BY <3>2, RangeConcat
    <3>5. 1..n = 1..(n - 1) \cup {n} /\ n \in Nat
      OBVIOUS
    <3>. QED BY <3>3, <3>4, <3>5
  <2>6. Len(seqs) \in G
    <3>. HIDE DEF G
    <3>1. \A n \in 1..Len(seqs) : n \in G
      BY <1>1, <2>4, <2>5, FromOne
    <3>. QED BY <1>1, <1>3, <3>1
  <2>. QED BY <1>1, <2>1, <2>6
<1>. QED BY <1>2, <1>3

-----------------------------------------------------------------------------
(* What the agent retrieves and cites.                                     *)

\* An entry of the store is held by the source it names.
LEMMA EntryHolds ==
    ASSUME HoldingInv, NEW e, IsEntry(e)
    PROVE  e[2] \in runs /\ HoldsDocument(e[2], e[1])
<1>1. PICK id \in Ids, run \in runs, text \in {"short", "long"} :
        /\ OfRun(run, id, text)
        /\ \E i \in DOMAIN Documents(id, text) : e = <<Documents(id, text)[i], run>>
  BY DEF IsEntry
<1>2. PICK i \in DOMAIN Documents(id, text) : e = <<Documents(id, text)[i], run>>
  BY <1>1
<1>3. Documents(id, text)[i][1] = id /\ Documents(id, text)[i] \in Range(Documents(id, text))
  BY DocumentsAre DEF Range
<1>4. e[1] = Documents(id, text)[i] /\ e[2] = run /\ run # NoRun
  BY <1>2 DEF HoldingInv
<1>5. PICK a \in Artifacts : a.name = run /\ \E r \in Parsed(a) : r.id = id /\ r.text = text
  BY <1>1 DEF OfRun
<1>6. PICK r \in Parsed(a) : r.id = id /\ r.text = text
  BY <1>5
<1>7. HoldsDocument(run, e[1])
  <2>1. text # "none"
    OBVIOUS
  <2>. QED BY <1>3, <1>4, <1>5, <1>6, <2>1 DEF HoldsDocument
<1>. QED BY <1>4, <1>7

\* And so is the text of a row.
LEMMA DetailHolds ==
    ASSUME HoldingInv, NEW id \in Ids, NEW row \in rows[id], row.text # "none"
    PROVE  row.run \in runs \cup {NoRun} /\ HoldsDocument(row.run, <<id, "detail">>)
<1>1. row.run # NoRun => OfRun(row.run, id, row.text)
  BY DEF HoldingInv, RowInv
<1>2. <<id, "detail">>[1] = id /\ <<id, "detail">>[2] = "detail"
  OBVIOUS
<1>3. CASE row.run = NoRun
  BY <1>2, <1>3 DEF HoldsDocument
<1>4. CASE row.run # NoRun
  BY <1>1, <1>2, <1>4 DEF HoldsDocument, OfRun
<1>. QED BY <1>3, <1>4

LEMMA EmptyResult == IsResult(<<>>)
BY NoRange DEF IsResult

LEMMA SearchHolds ==
    ASSUME HoldingInv, NEW ids, NEW items \in Search(ids)
    PROVE  IsResult(items)
<1>. DEFINE Item(e) == [document |-> e[1], run |-> e[2], text |-> TRUE]
<1>1. CASE items = <<>>
  BY <1>1, EmptyResult
<1>2. CASE items # <<>>
  <2>1. PICK n \in 1..ResultLimit :
          \E found \in [1..n -> vectors] : items = [i \in 1..n |-> Item(found[i])]
    BY <1>2 DEF Search
  <2>2. PICK found \in [1..n -> vectors] : items = [i \in 1..n |-> Item(found[i])]
    BY <2>1
  <2>3. n \in Nat
    BY AgentAssumption DEF AgentAssumption
  <2>4. Range(items) = {Item(found[i]) : i \in 1..n} /\ DOMAIN items = 1..n
    BY <2>2 DEF Range
  <2>5. items \in [1..n -> Range(items)]
    BY <2>2, <2>4 DEF Range
  <2>6. items \in Seq(Range(items))
    BY <2>3, <2>5, SeqDef
  <2>7. ASSUME NEW i \in 1..n PROVE IsItem(Item(found[i]))
    <3>1. found[i] \in vectors
      BY <2>2
    <3>2. found[i][2] \in runs /\ HoldsDocument(found[i][2], found[i][1])
      BY <3>1, EntryHolds DEF HoldingInv
    <3>. QED BY <3>2 DEF IsItem
  <2>. QED BY <2>4, <2>6, <2>7 DEF IsResult
<1>. QED BY <1>1, <1>2

LEMMA DetailResult ==
    ASSUME HoldingInv, NEW id \in Ids, NEW items \in IncidentDetail(id)
    PROVE  IsResult(items)
<1>1. CASE items = <<>>
  BY <1>1, EmptyResult
<1>2. CASE items # <<>>
  <2>1. PICK row \in rows[id] :
          items = <<[document |-> <<id, "detail">>, run |-> row.run, text |-> row.text # "none"]>>
    BY <1>2 DEF IncidentDetail
  <2>2. PICK item : item = [document |-> <<id, "detail">>, run |-> row.run, text |-> row.text # "none"]
    OBVIOUS
  <2>3. Range(items) = {item} /\ items \in Seq({item})
    BY <2>1, <2>2 DEF Range
  <2>4. IsItem(item)
    <3>1. item.document = <<id, "detail">> /\ item.run = row.run
      BY <2>2
    <3>2. item.text => row.text # "none"
      BY <2>2
    <3>. QED BY <3>1, <3>2, DetailHolds DEF IsItem
  <2>. QED BY <2>3, <2>4 DEF IsResult
<1>. QED BY <1>1, <1>2

LEMMA ResultsHold ==
    ASSUME HoldingInv, NEW tool \in DOMAIN Results, NEW items \in Results[tool]
    PROVE  IsResult(items)
<1>1. \/ items \in SearchNarratives \/ items \in SearchRegulations
      \/ \E id \in Incidents : items \in IncidentDetail(id)
      \/ items = <<>>
  BY DEF Results
<1>. QED BY <1>1, SearchHolds, DetailResult, EmptyResult DEF SearchNarratives, SearchRegulations, Ids

\* The first position at which something holds.
LEMMA FirstOf ==
    ASSUME NEW P, P \subseteq Nat, P # {}
    PROVE  \E i \in P : \A h \in P : ~(h < i)
<1>1. PICK i \in P : \A h \in P : ~(<<h, i>> \in OpToRel(<, Nat))
  BY NatLessThanWellFounded, WFMin
<1>. QED BY <1>1 DEF OpToRel

\* What is cited: of each label the answer refers to, the first item with a text.
LEMMA Cited ==
    ASSUME NEW S, NEW refs, NEW made, made \in Seq(Range(made)),
           \A call \in Range(made) : call.items \in Seq(S)
    PROVE  LET retrieved == UNION {Range(made[i].items) : i \in DOMAIN made}
           IN  /\ \A c \in Extracted(refs, made) : c \in retrieved /\ c.text /\ Label(c) \in refs
               /\ \A c, d \in Extracted(refs, made) : Label(c) = Label(d) => c = d
               /\ \A item \in retrieved : item.text /\ Label(item) \in refs =>
                    \E c \in Extracted(refs, made) : Label(c) = Label(item)
<1>. DEFINE seqs == [i \in DOMAIN made |-> made[i].items]
            items == FlattenSeq(seqs)
            retrieved == UNION {Range(made[i].items) : i \in DOMAIN made}
            Grounded(i) == items[i].text /\ Label(items[i]) \in refs
            First(i) == /\ Grounded(i)
                        /\ \A h \in 1..(i - 1) : Grounded(h) => Label(items[h]) # Label(items[i])
<1>1. Extracted(refs, made) = {items[i] : i \in {k \in DOMAIN items : First(k)}}
  BY DEF Extracted
<1>2. /\ DOMAIN made = 1..Len(made) /\ Len(made) \in Nat
      /\ \A i \in DOMAIN made : made[i].items \in Seq(S)
  BY LenProperties DEF Range
<1>3. seqs \in Seq(Seq(S)) /\ DOMAIN seqs = DOMAIN made
  <2>1. seqs \in [1..Len(made) -> Seq(S)]
    BY <1>2
  <2>. QED BY <1>2, <2>1, SeqDef
<1>4. items \in Seq(S) /\ Range(items) = retrieved
  <2>1. items \in Seq(S) /\ Range(items) = UNION {Range(seqs[i]) : i \in DOMAIN seqs}
    <3>. HIDE DEF seqs
    <3>. QED BY <1>3, FlattenIs
  <2>2. {Range(seqs[i]) : i \in DOMAIN seqs} = {Range(made[i].items) : i \in DOMAIN made}
    OBVIOUS
  <2>. QED BY <2>1, <2>2
<1>. HIDE DEF items, seqs, retrieved
<1>5. DOMAIN items = 1..Len(items) /\ Len(items) \in Nat
  BY <1>4, LenProperties
<1>6. \A c \in Extracted(refs, made) : c \in retrieved /\ c.text /\ Label(c) \in refs
  BY <1>1, <1>4 DEF Range
<1>7. ASSUME NEW c \in Extracted(refs, made), NEW d \in Extracted(refs, made), Label(c) = Label(d)
      PROVE  c = d
  <2>1. PICK i \in DOMAIN items : c = items[i] /\ First(i)
    BY <1>1
  <2>2. PICK k \in DOMAIN items : d = items[k] /\ First(k)
    BY <1>1
  <2>3. ~(i < k)
    <3>1. i < k => i \in 1..(k - 1)
      BY <1>5
    <3>. QED BY <1>7, <2>1, <2>2, <3>1
  <2>4. ~(k < i)
    <3>1. k < i => k \in 1..(i - 1)
      BY <1>5
    <3>. QED BY <1>7, <2>1, <2>2, <3>1
  <2>5. i = k
    BY <1>5, <2>3, <2>4
  <2>. QED BY <2>1, <2>2, <2>5
<1>8. ASSUME NEW item \in retrieved, item.text, Label(item) \in refs
      PROVE  \E c \in Extracted(refs, made) : Label(c) = Label(item)
  <2>. DEFINE P == {i \in DOMAIN items : Grounded(i) /\ Label(items[i]) = Label(item)}
  <2>1. PICK n \in DOMAIN items : item = items[n]
    BY <1>4 DEF Range
  <2>2. n \in P
    BY <1>8, <2>1
  <2>3. P \subseteq Nat
    BY <1>5
  <2>4. PICK i \in P : \A h \in P : ~(h < i)
    <3>. HIDE DEF P
    <3>. QED BY <2>2, <2>3, FirstOf
  <2>5. i \in DOMAIN items /\ Grounded(i) /\ Label(items[i]) = Label(item)
    OBVIOUS
  <2>6. ASSUME NEW h \in 1..(i - 1), Grounded(h) PROVE Label(items[h]) # Label(items[i])
    <3>1. h \in DOMAIN items /\ h < i
      BY <1>5, <2>5
    <3>. QED BY <2>4, <2>5, <2>6, <3>1
  <2>7. First(i)
    BY <2>5, <2>6
  <2>. QED BY <1>1, <2>5, <2>7
<1>. QED BY <1>6, <1>7, <1>8 DEF retrieved

LEMMA ResultStays ==
    ASSUME runs \subseteq runs'
    PROVE  \A items : IsResult(items) => IsResult(items)'
BY DEF IsResult, IsItem

LEMMA NothingCited ==
    ASSUME answer'.citations = {}, answer'.outcome # "answered"
    PROVE  CitationsAreGrounded'
BY DEF CitationsAreGrounded

LEMMA AgentInitially == SafetyInit => AgentInv
<1>. SUFFICES ASSUME SafetyInit PROVE AgentInv
  OBVIOUS
<1>1. calls \in Seq(Range(calls)) /\ Range(calls) = {}
  BY NoRange DEF SafetyInit, AgentInit
<1>2. answer.citations = {} /\ answer.outcome # "answered"
  BY DEF SafetyInit, AgentInit, NoAnswer
<1>3. CitationsAreGrounded
  BY <1>2 DEF CitationsAreGrounded
<1>. QED BY <1>1, <1>3 DEF AgentInv, SafetyInit, AgentInit

\* The answer cites what the calls retrieved.
LEMMA AnswerStep ==
    ASSUME HoldingInv, AgentInv, Answer, UNCHANGED runs
    PROVE  CitationsAreGrounded'
<1>1. PICK refs \in Texts :
        answer' = [outcome |-> "answered", refs |-> refs, citations |-> Extracted(refs, calls)]
  BY DEF Answer
<1>2. calls' = calls
  BY DEF Answer
<1>. DEFINE retrieved == UNION {Range(calls[i].items) : i \in DOMAIN calls}
            S == retrieved
<1>3. calls \in Seq(Range(calls)) /\ \A call \in Range(calls) : IsResult(call.items)
  BY DEF AgentInv
<1>4. ASSUME NEW call \in Range(calls) PROVE call.items \in Seq(S)
  <2>1. call.items \in Seq(Range(call.items))
    BY <1>3 DEF IsResult
  <2>2. Range(call.items) \subseteq S
    BY DEF Range
  <2>. HIDE DEF S, retrieved
  <2>. QED BY <2>1, <2>2, SeqMonotonic
<1>5. /\ \A c \in Extracted(refs, calls) : c \in retrieved /\ c.text /\ Label(c) \in refs
      /\ \A c, d \in Extracted(refs, calls) : Label(c) = Label(d) => c = d
      /\ \A item \in retrieved : item.text /\ Label(item) \in refs =>
           \E c \in Extracted(refs, calls) : Label(c) = Label(item)
  BY <1>3, <1>4, Cited
<1>6. \A item \in retrieved : IsItem(item)
  BY <1>3 DEF IsResult, Range
<1>7. RetrievedLabels = {Label(item) : item \in {x \in retrieved : x.text}}
  BY DEF RetrievedLabels, Range
<1>8. {Label(c) : c \in Extracted(refs, calls)} = refs \cap RetrievedLabels
  <2>. HIDE DEF retrieved
  <2>1. ASSUME NEW l \in refs \cap RetrievedLabels
        PROVE  \E c \in Extracted(refs, calls) : Label(c) = l
    <3>1. PICK item \in retrieved : item.text /\ Label(item) = l
      BY <1>7
    <3>. QED BY <1>5, <2>1, <3>1
  <2>. QED BY <1>5, <1>7, <2>1
<1>9. RetrievedLabels' = RetrievedLabels
  BY <1>2 DEF RetrievedLabels
<1>10. answer'.citations = Extracted(refs, calls) /\ answer'.refs = refs
  BY <1>1
<1>11. \A c \in Extracted(refs, calls) : c.run \in runs' \cup {NoRun} /\ HoldsDocument(c.run, c.document)
  BY <1>5, <1>6 DEF IsItem
<1>. QED BY <1>5, <1>8, <1>9, <1>10, <1>11 DEF CitationsAreGrounded

LEMMA CitationsStay ==
    ASSUME CitationsAreGrounded, runs \subseteq runs', UNCHANGED <<calls, answer>>
    PROVE  CitationsAreGrounded'
<1>1. RetrievedLabels' = RetrievedLabels
  BY DEF RetrievedLabels
<1>. QED BY <1>1 DEF CitationsAreGrounded

LEMMA AgentStep == SafetyInv /\ AgentNext /\ UNCHANGED corpusVars => AgentInv'
<1>. SUFFICES ASSUME HoldingInv, AgentInv, AgentNext, UNCHANGED corpusVars
              PROVE  AgentInv'
  BY DEF SafetyInv
<1>1. /\ UNCHANGED runs
      /\ calls \in Seq(Range(calls)) /\ \A call \in Range(calls) : IsResult(call.items)
      /\ agent = [at |-> agent.at, iteration |-> agent.iteration, pending |-> agent.pending]
      /\ agent.at # "idle" => answer = NoAnswer
      /\ CitationsAreGrounded
      /\ \A items : IsResult(items) => IsResult(items)'
  BY ResultStays DEF AgentInv, corpusVars
<1>2. CASE Question
  <2>1. calls' \in Seq(Range(calls')) /\ Range(calls') = {}
    BY <1>2, NoRange DEF Question
  <2>2. /\ agent' = [at |-> agent'.at, iteration |-> agent'.iteration, pending |-> agent'.pending]
        /\ agent'.at # "idle" => answer' = NoAnswer
        /\ answer'.citations = {} /\ answer'.outcome # "answered"
    BY <1>1, <1>2 DEF Question, NoAnswer, Ended
  <2>. QED BY <2>1, <2>2, NothingCited DEF AgentInv
<1>3. CASE CallTools
  <2>1. /\ UNCHANGED <<calls, answer>> /\ answer = NoAnswer
        /\ agent' = [at |-> agent'.at, iteration |-> agent'.iteration, pending |-> agent'.pending]
    BY <1>1, <1>3 DEF CallTools, ModelTurn
  <2>2. CitationsAreGrounded'
    BY <1>1, <2>1, CitationsStay
  <2>. QED BY <1>1, <2>1, <2>2 DEF AgentInv
<1>4. CASE ExecuteTool
  <2>1. PICK tool \in DOMAIN Results :
          \E items \in Results[tool] : calls' = Append(calls, [tool |-> tool, items |-> items])
    BY <1>4 DEF ExecuteTool
  <2>2. PICK items \in Results[tool] : calls' = Append(calls, [tool |-> tool, items |-> items])
    BY <2>1
  <2>3. PICK call : call = [tool |-> tool, items |-> items]
    OBVIOUS
  <2>4. IsResult(call.items)
    BY <2>2, <2>3, ResultsHold
  <2>5. calls' \in Seq(Range(calls')) /\ Range(calls') \subseteq Range(calls) \cup {call}
    <3>1. PICK made : made = calls
      OBVIOUS
    <3>2. made \in Seq(Range(made) \cup {call})
      BY <1>1, <3>1, SeqMonotonic
    <3>3. Append(made, call) \in Seq(Range(made) \cup {call})
      BY <3>2, AppendProperties
    <3>. QED BY <2>2, <2>3, <3>1, <3>3, RangeOf
  <2>6. /\ answer' = NoAnswer
        /\ agent' = [at |-> agent'.at, iteration |-> agent'.iteration, pending |-> agent'.pending]
    BY <1>1, <1>4 DEF ExecuteTool
  <2>7. CitationsAreGrounded'
    BY <2>6, NothingCited DEF NoAnswer
  <2>8. \A c \in Range(calls') : IsResult(c.items)'
    BY <1>1, <2>4, <2>5
  <2>. QED BY <2>5, <2>6, <2>7, <2>8 DEF AgentInv
<1>5. CASE Answer
  <2>1. /\ calls' = calls /\ agent'.at = "idle"
        /\ agent' = [at |-> agent'.at, iteration |-> agent'.iteration, pending |-> agent'.pending]
    BY <1>1, <1>5 DEF Answer
  <2>2. CitationsAreGrounded'
    BY <1>1, <1>5, AnswerStep
  <2>. QED BY <1>1, <2>1, <2>2 DEF AgentInv
<1>6. CASE GiveUp \/ AgentFails
  <2>1. /\ calls' = calls /\ agent'.at = "idle"
        /\ agent' = [at |-> agent'.at, iteration |-> agent'.iteration, pending |-> agent'.pending]
        /\ answer'.citations = {} /\ answer'.outcome # "answered"
    BY <1>1, <1>6 DEF GiveUp, AgentFails, Ended, NoAnswer
  <2>. QED BY <1>1, <2>1, NothingCited DEF AgentInv
<1>. QED BY <1>2, <1>3, <1>4, <1>5, <1>6 DEF AgentNext

LEMMA RunsGrow == HoldingInv /\ CorpusNext => runs \subseteq runs'
BY DEF CorpusNext, StartIngest, FetchSucceeds, FetchFails, Persist, IngestEndsEarly,
       StartSync, ReadIncidents, ReadSections, SyncIncident, SyncSection, FlushIncidents,
       FlushSections, FinishSync, SyncCrashes

LEMMA SafetyInvStep == SafetyInv /\ [SafetyNext]_<<corpusVars, agentVars>> => SafetyInv'
<1>. SUFFICES ASSUME SafetyInv, [SafetyNext]_<<corpusVars, agentVars>> PROVE SafetyInv'
  OBVIOUS
<1>1. CASE CorpusNext /\ UNCHANGED agentVars
  <2>1. HoldingInv' /\ runs \subseteq runs'
    BY <1>1, HoldingStep, RunsGrow DEF SafetyInv
  <2>2. UNCHANGED <<agent, calls, answer>>
    BY <1>1 DEF agentVars
  <2>3. CitationsAreGrounded'
    BY <2>1, <2>2, CitationsStay DEF SafetyInv, AgentInv
  <2>4. \A items : IsResult(items) => IsResult(items)'
    BY <2>1, ResultStays
  <2>. QED BY <2>1, <2>2, <2>3, <2>4 DEF SafetyInv, AgentInv
<1>2. CASE AgentNext /\ UNCHANGED corpusVars
  <2>1. HoldingInv'
    BY <1>2, HoldingUnchanged DEF SafetyInv, corpusVars
  <2>. QED BY <1>2, <2>1, AgentStep DEF SafetyInv
<1>3. CASE UNCHANGED <<corpusVars, agentVars>>
  <2>1. HoldingInv'
    BY <1>3, HoldingUnchanged DEF SafetyInv, corpusVars
  <2>2. UNCHANGED <<runs, agent, calls, answer>>
    BY <1>3 DEF corpusVars, agentVars
  <2>3. CitationsAreGrounded'
    BY <2>2, CitationsStay DEF SafetyInv, AgentInv
  <2>4. \A items : IsResult(items) => IsResult(items)'
    BY <2>2, ResultStays
  <2>. QED BY <2>1, <2>2, <2>3, <2>4 DEF SafetyInv, AgentInv
<1>. QED BY <1>1, <1>2, <1>3 DEF SafetyNext

\* The run an answer cites is the one whose content has the cited document, whatever
\* is ingested and synchronised between the call that retrieved it and the answer, and
\* an answer cites exactly the retrieved sources it refers to, each once
\* (safety/citations.py, safety/agent.py).
THEOREM CitationsCorrect == SafetySpec => []CitationsAreGrounded
<1>1. SafetyInit => SafetyInv
  BY HoldingInit, AgentInitially DEF SafetyInit, AgentInit, SafetyInv
<1>2. SafetyInv => CitationsAreGrounded
  BY DEF SafetyInv, AgentInv
<1>. QED BY <1>1, <1>2, SafetyInvStep, PTL DEF SafetySpec
=============================================================================
