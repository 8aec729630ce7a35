---------------------------- MODULE SafetyCorpus ----------------------------
(***************************************************************************)
(* The safety corpus of src/backend: sources (NTSB exports, dated eCFR     *)
(* parts) are fetched, parsed and persisted into SQL once per content, and *)
(* scripts/sync_safety_vectorstore.py rebuilds the vector index from the   *)
(* rows and reports whether both agree.  Incidents and regulation sections *)
(* are numbered in the order the script reads them.                        *)
(***************************************************************************)
EXTENDS Integers, Sequences, FiniteSets, SequencesExt

CONSTANTS
    Incidents,    \* numbers of incidents (ntsb_id)
    Sections,     \* numbers of dated CFR sections, above the incidents
    Artifacts,    \* sources: records [name, kind, records], the last a sequence
                  \* of [id, text, valid]; the text is "none", "short" or "long"
    Unversioned,  \* rows written before runs were recorded: id -> text, "" if none
    BatchSize,    \* documents per call of the vector store
    MaxAttempts,  \* attempts to fetch an eCFR part
    MaxIngests,   \* bound: ingestions
    MaxSyncs      \* bound: runs of the script

VARIABLES
    runs,         \* safety_ingestion_runs: names of applied artifacts
    rows,         \* incidents and regulations: id -> {} or {[run, text]}
    vectors,      \* the vector store: set of <<document, run>>
    ingest,       \* the ingestion command
    sync,         \* the synchronisation script
    report,       \* the report file: what the last run to finish wrote
    fresh,        \* history: the last run did not end early, and no row has
                  \* changed since it began
    used          \* [ingests, syncs], for the bounds

corpusVars == <<runs, rows, vectors, ingest, sync, report, fresh, used>>

Ids == Incidents \cup Sections
NoRun == "unversioned"

\* A run has an identifier of its own, the script refuses an empty batch size, and
\* a section without a text is no valid record (EcfrSectionRecord).
ASSUME CorpusAssumption ==
    /\ Incidents \subseteq Nat /\ Sections \subseteq Nat /\ Incidents \cap Sections = {}
    /\ BatchSize \in Nat \ {0}
    /\ \A a \in Artifacts :
         /\ a.name # NoRun /\ a.records \in Seq(Range(a.records))
         /\ \A i \in DOMAIN a.records : a.records[i].valid =>
              /\ a.records[i].text \in {"none", "short", "long"}
              /\ a.records[i].id \in Sections => a.records[i].text # "none"

NoIngest == [at |-> "idle", artifact |-> {}, attempts |-> 0]
NoSync == [at |-> "idle", mode |-> "check", unversioned |-> FALSE, todo |-> {},
           incidents |-> <<>>, sections |-> <<>>, expected |-> {}]
NoReport == [status |-> "none", mode |-> "check"]

(***************************************************************************)
(* Ingestion.                                                              *)
(***************************************************************************)
\* The command starts: an export is a file, an eCFR part has to be fetched.
StartIngest ==
    /\ ingest.at = "idle" /\ used.ingests < MaxIngests
    /\ \E a \in Artifacts :
         ingest' = [at |-> IF a.kind = "ntsb" THEN "read" ELSE "fetch",
                    artifact |-> {a}, attempts |-> 0]
    /\ used' = [used EXCEPT !.ingests = @ + 1]
    /\ UNCHANGED <<runs, rows, vectors, sync, report, fresh>>

FetchSucceeds ==
    /\ ingest.at = "fetch"
    /\ ingest' = [ingest EXCEPT !.at = "read"]
    /\ UNCHANGED <<runs, rows, vectors, sync, report, fresh, used>>

\* A request error, status 429 or 5xx is tried again, but for the last attempt;
\* any other refusal ends the command.
FetchFails ==
    /\ ingest.at = "fetch"
    /\ \E again \in BOOLEAN :
         ingest' = IF again /\ ingest.attempts + 1 < MaxAttempts
                   THEN [ingest EXCEPT !.attempts = @ + 1] ELSE NoIngest
    /\ UNCHANGED <<runs, rows, vectors, sync, report, fresh, used>>

\* The parsers: invalid records are rejected, and of two records with one
\* identifier the first valid one is retained.
Parsed(artifact) ==
    {artifact.records[i] : i \in
        {k \in DOMAIN artifact.records :
            /\ artifact.records[k].valid
            /\ \A h \in 1..(k - 1) :
                 artifact.records[h].valid => artifact.records[h].id # artifact.records[k].id}}

\* Mutant: an upsert that leaves source_run_id as it was.
UpsertedWithoutRun(artifact) ==
    [id \in Ids |->
        IF \E r \in Parsed(artifact) : r.id = id
        THEN {[run |-> IF rows[id] = {} THEN artifact.name ELSE (CHOOSE row \in rows[id] : TRUE).run,
               text |-> r.text] : r \in {p \in Parsed(artifact) : p.id = id}}
        ELSE rows[id]]

\* The upserts: a row takes the new text and the new run.
Upserted(artifact) ==
    [id \in Ids |->
        IF \E r \in Parsed(artifact) : r.id = id
        THEN {[run |-> artifact.name, text |-> r.text] :
                  r \in {p \in Parsed(artifact) : p.id = id}}
        ELSE rows[id]]

\* Parse and persist in one transaction: a run that is already there leaves the
\* rows alone.
Persist ==
    /\ ingest.at = "read"
    /\ \E a \in ingest.artifact :
         IF a.name \in runs THEN UNCHANGED <<runs, rows, fresh>>
         ELSE /\ runs' = runs \cup {a.name}
              /\ rows' = Upserted(a)
              /\ fresh' = FALSE
    /\ ingest' = NoIngest
    /\ UNCHANGED <<vectors, sync, report, used>>

\* The source cannot be parsed, the database refuses, --validate-only, or the
\* process ends: the transaction leaves nothing.
IngestEndsEarly ==
    /\ ingest.at = "read"
    /\ ingest' = NoIngest
    /\ UNCHANGED <<runs, rows, vectors, sync, report, fresh, used>>

(***************************************************************************)
(* Synchronisation.                                                        *)
(***************************************************************************)
\* chunk_incident_narrative and regulation_document: the documents of a row.
Documents(id, text) ==
    IF id \in Sections THEN <<<<id, "section">>>>
    ELSE CASE text = "none"  -> <<>>
           [] text = "short" -> <<<<id, "combined">>>>
           [] text = "long"  -> <<<<id, "factual_information">>, <<id, "probable_cause">>>>

HasText(id) == id \in Sections \/ \E row \in rows[id] : row.text # "none"
Versioned(id) == \E row \in rows[id] : row.run # NoRun
Snapshot(ids) ==
    UNION {{[id |-> id, run |-> row.run, text |-> row.text] : row \in rows[id]} :
               id \in {i \in ids : Versioned(i) /\ HasText(i)}}

\* The script counts the rows without a run.
StartSync ==
    /\ sync.at = "idle" /\ used.syncs < MaxSyncs
    /\ \E mode \in {"sync", "check"} :
         sync' = [NoSync EXCEPT !.at = "counted", !.mode = mode,
                    !.unversioned = \E id \in Ids : rows[id] # {} /\ ~Versioned(id) /\ HasText(id)]
    /\ fresh' = TRUE
    /\ used' = [used EXCEPT !.syncs = @ + 1]
    /\ UNCHANGED <<runs, rows, vectors, ingest, report>>

ReadIncidents ==
    /\ sync.at = "counted"
    /\ sync' = [sync EXCEPT !.at = "incidents", !.todo = Snapshot(Incidents)]
    /\ UNCHANGED <<runs, rows, vectors, ingest, report, fresh, used>>

ReadSections ==
    /\ sync.at = "incidents" /\ sync.todo = {}
    /\ sync' = [sync EXCEPT !.at = "sections", !.todo = Snapshot(Sections)]
    /\ UNCHANGED <<runs, rows, vectors, ingest, report, fresh, used>>

NextRow == CHOOSE row \in sync.todo : \A other \in sync.todo : row.id <= other.id
Entries(row) == [i \in DOMAIN Documents(row.id, row.text) |->
                    <<Documents(row.id, row.text)[i], row.run>>]

\* upsert of the vector store.
Added(store, entries) ==
    {e \in store : \A i \in DOMAIN entries : entries[i][1] # e[1]} \cup Range(entries)
\* Mutant: documents are only ever replaced by others of the same name.
NotDeleted(store, id) == store
Deleted(store, id) == {e \in store : e[1][1] # id}

\* The batch is flushed whenever it is full.
Full(batch) == SubSeq(batch, 1, BatchSize * (Len(batch) \div BatchSize))
Rest(batch) == SubSeq(batch, Len(Full(batch)) + 1, Len(batch))

\* One incident: its former documents are deleted at once, its documents join
\* the batch.
SyncIncident ==
    /\ sync.at = "incidents" /\ sync.todo # {}
    /\ LET row   == NextRow
           batch == sync.incidents \o Entries(row)
       IN  /\ sync' = [sync EXCEPT
                 !.todo = @ \ {row},
                 !.expected = @ \cup Range(Entries(row)),
                 !.incidents = IF sync.mode = "sync" THEN Rest(batch) ELSE @]
           /\ vectors' = IF sync.mode = "sync"
                       THEN Added(Deleted(vectors, row.id), Full(batch)) ELSE vectors
    /\ UNCHANGED <<runs, rows, ingest, report, fresh, used>>

SyncSection ==
    /\ sync.at = "sections" /\ sync.todo # {}
    /\ LET row   == NextRow
           batch == sync.sections \o Entries(row)
       IN  /\ sync' = [sync EXCEPT
                 !.todo = @ \ {row},
                 !.expected = @ \cup Range(Entries(row)),
                 !.sections = IF sync.mode = "sync" THEN Rest(batch) ELSE @]
           /\ vectors' = IF sync.mode = "sync" THEN Added(vectors, Full(batch)) ELSE vectors
    /\ UNCHANGED <<runs, rows, ingest, report, fresh, used>>

\* What is left in the batches is flushed, incidents before sections.
FlushIncidents ==
    /\ sync.at = "sections" /\ sync.todo = {}
    /\ vectors' = Added(vectors, sync.incidents)
    /\ sync' = [sync EXCEPT !.at = "flushing", !.incidents = <<>>]
    /\ UNCHANGED <<runs, rows, ingest, report, fresh, used>>

FlushSections ==
    /\ sync.at = "flushing"
    /\ vectors' = Added(vectors, sync.sections)
    /\ sync' = [sync EXCEPT !.at = "flushed", !.sections = <<>>]
    /\ UNCHANGED <<runs, rows, ingest, report, fresh, used>>

\* compare_corpus_lineage: no document is missing, an orphan, or of another run.
Agrees(expected, indexed) == expected = indexed

\* The report takes the place of the one before, which stays when a run ends early.
FinishSync ==
    /\ sync.at = "flushed"
    /\ report' = [mode |-> sync.mode,
                  status |-> IF Agrees(sync.expected, vectors) /\ ~sync.unversioned
                             THEN "passed" ELSE "failed"]
    /\ sync' = NoSync
    /\ UNCHANGED <<runs, rows, vectors, ingest, fresh, used>>

\* The script ends at any point, for example by an error of the vector store:
\* what it deleted stays deleted, and the report of an earlier run stays too.
SyncCrashes ==
    /\ sync.at # "idle"
    /\ sync' = NoSync
    /\ fresh' = FALSE
    /\ UNCHANGED <<runs, rows, vectors, ingest, report, used>>

CorpusInit ==
    /\ runs = {}
    /\ rows = [id \in Ids |-> IF Unversioned[id] = "" THEN {}
                              ELSE {[run |-> NoRun, text |-> Unversioned[id]]}]
    /\ vectors = {}
    /\ ingest = NoIngest
    /\ sync = NoSync
    /\ report = NoReport
    /\ fresh = TRUE
    /\ used = [ingests |-> 0, syncs |-> 0]
CorpusNext ==
    \/ StartIngest \/ FetchSucceeds \/ FetchFails \/ Persist \/ IngestEndsEarly
    \/ StartSync \/ ReadIncidents \/ ReadSections \/ SyncIncident \/ SyncSection
    \/ FlushIncidents \/ FlushSections \/ FinishSync \/ SyncCrashes

\* The report of a run that came to its end is true while no row has changed
\* since the run began, whatever earlier runs left behind that were cut short or
\* indexed other rows: "passed" exactly when the vector store holds the documents
\* of the current rows, each of the row's run, and nothing else, and every text
\* has a run.  And a run that synchronised leaves no document missing or of an
\* earlier run; only documents of an incident whose text a later source removed
\* may stay (sync_safety_vectorstore.py sync_corpus).  Nothing is said of a report
\* older than the last run.
Current == UNION {Range(Entries(row)) : row \in Snapshot(Ids)}
ReportIsTrue ==
    sync.at = "idle" /\ fresh /\ report.status # "none" =>
        /\ report.status = "passed" <=>
             /\ vectors = Current
             /\ \A id \in Ids : rows[id] # {} /\ HasText(id) => Versioned(id)
        /\ report.mode = "sync" =>
             /\ Current \subseteq vectors
             /\ \A e \in vectors \ Current : ~HasText(e[1][1])
=============================================================================
