----------------------------- MODULE LiveIngestion -----------------------------
(***************************************************************************)
(* The ingestion service (services/ingestion/ingest.py) with what it       *)
(* writes: observations, evaluations and alerts (backend/app/services/     *)
(* observation_persistence.py, kinematic_persistence.py), aircraft rows    *)
(* and trail.                                                              *)
(*                                                                         *)
(* One connection has one database session; messages are committed in      *)
(* batches, and everything since the last commit is lost when a message    *)
(* cannot be stored or the connection ends.  A replayed recording sends    *)
(* the same lines again, and a line is its observation: the id of an       *)
(* observation is the hash of its line.  Of the merged aircraft state only *)
(* the place is kept.                                                      *)
(***************************************************************************)
EXTENDS Kinematics, FiniteSets, Bags, TLC

CONSTANTS
    Lines,         \* [kind, hex, at, place, speed, track, altitude, garbled: coordinates]
    BatchLimit     \* messages per commit

VARIABLES
    link,          \* of the service: "down" or "up"
    db,            \* what is committed
    work,          \* what the open session sees: db and its own changes
    memory,        \* aircraft_state, by hex
    batch          \* batch_count

ingestVars == <<link, db, work, memory, batch>>

NoTables == [observations |-> {}, pairs |-> {}, windows |-> {}, alerts |-> EmptyBag,
             rows |-> <<>>, trail |-> {}]

-----------------------------------------------------------------------------
(* Lines                                                                   *)

\* parse_sbs_message: a line of another kind, or too short, says nothing; a
\* coordinate that is no number is left out.
MessageOf(line) ==
    IF line.kind # "MSG" THEN {}
    ELSE {[line EXCEPT !.place = IF line.garbled = {} THEN @ ELSE -1]}
Messages == UNION {MessageOf(line) : line \in Lines}

\* sbs_state_to_observation refuses half a position.
Observable(o) == Cardinality(o.garbled) # 1

-----------------------------------------------------------------------------
(* evaluate_new_observation                                                *)

\* One aircraft; provenance is the same for everything this service writes.
Earlier(tables, o) ==
    {p \in tables.observations : p.hex = o.hex /\ p.at < o.at /\ Known(p.place)}

\* find_previous_position_observation: the latest, any of several.
Previous(tables, o) == {p \in Earlier(tables, o) : \A q \in Earlier(tables, o) : q.at <= p.at}

WindowCandidates(tables, o) ==
    {p \in tables.observations : /\ p.hex = o.hex /\ p.at <= o.at
                                 /\ p.at >= o.at - Policy.maxDuration}

\* find_window_observations: the newest of them, in order of time.
InOrder(S) == {w \in [1..Cardinality(S) -> S] :
                 /\ \A x \in S : \E i \in DOMAIN w : w[i] = x
                 /\ \A i \in 2..Cardinality(S) : w[i - 1].at <= w[i].at}

Windows(tables, o) ==
    {SubSeq(w, Larger(1, Len(w) - Policy.maxObservations + 1), Len(w)) :
        w \in InOrder(WindowCandidates(tables, o))}

Pair(p, o) == [previous |-> p, current |-> o, status |-> PairStatus(p, o)]

\* evaluation_to_anomaly
Alert(e) == [of |-> e, severity |-> IF Cardinality(FailedRules(e.previous, e.current)) >= 2
                                    THEN "HIGH" ELSE "MEDIUM"]

WithPair(tables, e) ==
    [tables EXCEPT
        !.pairs = @ \cup {e},
        !.alerts = IF e \notin tables.pairs /\ e.status = "FLAGGED" THEN @ (+) SetToBag({Alert(e)}) ELSE @]

WithWindow(tables, w) ==
    IF Len(w) < Policy.minObservations THEN tables
    ELSE [tables EXCEPT !.windows = @ \cup {[reports |-> w, status |-> WindowStatus(w)]}]

\* What the tables may become: nothing is evaluated without a position, or
\* without an earlier one.
Evaluated(tables, o) ==
    IF ~Known(o.place) \/ Previous(tables, o) = {} THEN {tables}
    ELSE {WithWindow(WithPair(tables, Pair(p, o)), w) :
            p \in Previous(tables, o), w \in Windows(tables, o)}

\* insert_observation: a line that is stored already changes nothing.
Inserted(tables, o) ==
    IF o \in tables.observations THEN {tables}
    ELSE Evaluated([tables EXCEPT !.observations = @ \cup {o}], o)

-----------------------------------------------------------------------------
(* connect_and_ingest                                                      *)

Connects ==
    /\ link = "down"
    /\ link' = "up" /\ batch' = 0
    /\ work' = db
    /\ UNCHANGED <<db, memory>>

\* merge_aircraft_state, upsert_aircraft and insert_position; a coordinate
\* that is zero leaves no point of the trail.
Merged(o) ==
    IF Known(o.place) THEN o.place ELSE IF o.hex \in DOMAIN memory THEN memory[o.hex] ELSE -1

WithAircraft(tables, hex, place) ==
    [tables EXCEPT !.rows = (hex :> place) @@ @,
                   !.trail = IF place \in {-1, 0} THEN @ ELSE @ \cup {<<hex, place>>}]

\* Committed every so many messages or seconds.
TakesMessage(o) ==
    /\ link = "up" /\ Observable(o)
    /\ memory' = (o.hex :> Merged(o)) @@ memory
    /\ \E tables \in Inserted(work, o) : work' = WithAircraft(tables, o.hex, Merged(o))
    /\ \/ db' = work' /\ batch' = 0
       \/ batch + 1 < BatchLimit /\ batch' = batch + 1 /\ UNCHANGED db
    /\ UNCHANGED link

\* Mutant: alerts are written in a transaction of their own.
RollsBackEvidence ==
    /\ link' = "down"
    /\ batch' = 0
    /\ db' = [db EXCEPT !.alerts = work.alerts] /\ work' = db'
    /\ UNCHANGED memory

\* rollback and close; what the memory has learned stays.
RollsBack ==
    /\ link' = "down"
    /\ batch' = 0
    /\ work' = db
    /\ UNCHANGED <<db, memory>>

\* The schema refuses the message.
RaisesOnMessage(o) == link = "up" /\ ~Observable(o) /\ RollsBack

\* The database fails, the source closes, or the process ends.
LosesConnection == link = "up" /\ RollsBack

ProcessRestarts ==
    /\ link' = "down" /\ batch' = 0
    /\ work' = db /\ memory' = <<>>
    /\ UNCHANGED db

-----------------------------------------------------------------------------
IngestInit ==
    /\ link = "down" /\ batch = 0
    /\ db = NoTables /\ work = NoTables
    /\ memory = <<>>

IngestNext ==
    \/ Connects \/ LosesConnection \/ ProcessRestarts
    \/ \E o \in Messages : TakesMessage(o) \/ RaisesOnMessage(o)

IngestSpec == IngestInit /\ [][IngestNext]_ingestVars

-----------------------------------------------------------------------------
(* Properties                                                              *)

AlertsOf(e, tables) == IF BagIn(Alert(e), tables.alerts) THEN tables.alerts[Alert(e)] ELSE 0

\* Whatever is committed and whatever a rollback took away and the source sent
\* again: an evaluation rests on observations that are stored, a pair that is
\* flagged has exactly one alert, and no report is the later one of two pairs.
EvidenceIsBacked ==
    /\ \A e \in db.pairs : /\ {e.previous, e.current} \subseteq db.observations
                           /\ AlertsOf(e, db) = IF e.status = "FLAGGED" THEN 1 ELSE 0
    /\ BagToSet(db.alerts) \subseteq {Alert(e) : e \in db.pairs}
    /\ \A e, f \in db.pairs : e.current = f.current => e = f
    /\ \A w \in db.windows : \A i \in 1..Len(w.reports) : w.reports[i] \in db.observations
=============================================================================
