-------------------------- MODULE IntegrityEngine ---------------------------
(***************************************************************************)
(* The integrity engine (backend/integrity_core/engine.py): per track a    *)
(* bounded window of observations, the evidence that is active, the ids of *)
(* the messages seen, and the snapshot readers are served.  ingest() runs  *)
(* in one task without suspending: it is one action.                       *)
(*                                                                         *)
(* An observation is reduced to its message (whose hash is both the raw    *)
(* message id and the observation id), its track and its source time;      *)
(* what the kinematic evaluators and the receive clock find is chosen      *)
(* freely.  The rules of a kinematic family are handled alike: one key     *)
(* stands for each family.  The source is live: a replay is an observation *)
(* that is never late.                                                     *)
(***************************************************************************)
EXTENDS Naturals, Sequences, FiniteSets

CONSTANTS
    Tracks,               \* track ids, as numbers (their order)
    Messages,             \* messages: records with a track and a time at
    MinimumObservations,  \* policy.runtime.minimum_observations
    MaximumTracks,        \* policy.runtime.maximum_tracks
    MaximumObservations,  \* policy.runtime.maximum_observations_per_track
    InactiveAfter,        \* policy.runtime.inactive_track_seconds
    MaximumReordering,    \* policy.timing.maximum_reordering_seconds
    GapAfter,             \* policy.timing.gap_seconds
    EvidenceTtl,          \* policy.timing.evidence_ttl_seconds
    PairInterval,         \* policy.pair: the intervals that are evaluated
    WindowDuration,       \* policy.window.maximum_duration_seconds
    WindowMinimum,        \* policy.window.minimum_observations
    Findings,             \* what the evaluators and the receive clock may find
    KinematicSeverities,  \* the severities a failed kinematic rule has
    MaxIngests            \* bound: observations ingested

ASSUME ConstantsAssumption ==
    /\ Tracks \subseteq Nat
    /\ \A m \in Messages : m.track \in Tracks /\ m.at \in Nat
    /\ {MaximumTracks, MaximumObservations} \subseteq Nat \ {0}
    /\ {MinimumObservations, InactiveAfter, MaximumReordering, GapAfter,
        EvidenceTtl, WindowDuration, WindowMinimum, MaxIngests} \subseteq Nat
    /\ PairInterval \subseteq Nat \ {0}
    /\ Findings \subseteq SUBSET {"PAIR", "WINDOW", "LATENCY"}
    /\ KinematicSeverities \subseteq {"WARNING", "CRITICAL"}

VARIABLES
    tracks,     \* _tracks
    snapshots,  \* _snapshots
    events,     \* the events the last ingest() returned
    dropped,    \* history: the tracks the last ingest() dropped
    forgotten,  \* history: evidence active when its track was dropped
    ingests     \* history: number of observations ingested

vars == <<tracks, snapshots, events, dropped, forgotten, ingests>>

-----------------------------------------------------------------------------
(* Evidence, tracks, snapshots                                             *)

Severities == {"INFO", "WARNING", "CRITICAL"}
Rank(s) == CASE s = "INFO" -> 0 [] s = "WARNING" -> 1 [] OTHER -> 2
Worse(s, t) == IF Rank(s) >= Rank(t) THEN s ELSE t

\* One key per evidence kind, in the code kind:discriminator.
Keys == {"DUPLICATE", "NON_INCREASING", "OUT_OF_ORDER", "GAP", "LATENCY", "PAIR", "WINDOW"}

Evidence == [id : Messages, severity : Severities, first : Nat, last : Nat, expires : Nat]

\* The observations of a track are their source times; active maps the keys
\* of the active evidence to it.
NewTrack == [observations |-> <<>>, active |-> <<>>, seen |-> {}, seenOrder |-> <<>>]

Last(s) == s[Len(s)]
LastTime(tr) == Last(tr.observations)
\* Mutant: a deque without maxlen.
Everything(s, n) == s
\* A deque with maxlen n keeps its newest elements.
Newest(s, n) == IF Len(s) > n THEN SubSeq(s, Len(s) - n + 1, Len(s)) ELSE s
Elements(s) == {s[i] : i \in 1..Len(s)}

\* A dict without some of its keys.
Without(f, S) == [k \in (DOMAIN f) \ S |-> f[k]]

-----------------------------------------------------------------------------
(* The caches: _purge_inactive and _evict_if_needed                        *)

Inactive(ts, now) == {t \in DOMAIN ts : LastTime(ts[t]) + InactiveAfter < now}

\* min of the tracks by (time of the last observation, id).
OldestTrack(ts) ==
    CHOOSE t \in DOMAIN ts : \A u \in DOMAIN ts :
        \/ LastTime(ts[t]) < LastTime(ts[u])
        \/ LastTime(ts[t]) = LastTime(ts[u]) /\ t <= u

\* The loop of _evict_if_needed: with at most MaximumTracks tracks before,
\* one turn makes the room.
Evicted(ts, t) ==
    IF t \notin DOMAIN ts /\ Cardinality(DOMAIN ts) >= MaximumTracks
    THEN {OldestTrack(ts)}
    ELSE {}

\* The tracks that ingest() drops before it evaluates an observation.
Dropped(t, now) ==
    LET stale == Inactive(tracks, now)
    IN stale \cup Evicted(Without(tracks, stale), t)

\* Mutant: a dropped track keeps being served.
SnapshotsKept(gone) == snapshots
\* _snapshots.pop for every track dropped.
SnapshotsAfter(gone) == Without(snapshots, gone)

-----------------------------------------------------------------------------
(* Evidence: the candidates, _expire and _open_or_update                   *)

\* Mutant: evidence expires only after the time it was due.
DueLater(tr, now) == {k \in DOMAIN tr.active : tr.active[k].expires < now}
\* The evidence of a track that is due at a time.
Due(tr, now) == {k \in DOMAIN tr.active : tr.active[k].expires <= now}

\* How many of the retained observations the trajectory window at a time
\* holds: items later than that time are left out.
WindowCount(observations, now) ==
    Cardinality({i \in 1..Len(observations) :
        observations[i] <= now /\ now <= observations[i] + WindowDuration})

\* The candidates that observation o raises on track tr.  o.found is what the
\* evaluators and the receive clock find, where they are asked.
Raised(tr, o) ==
    LET at == o.message.at
        known == tr.observations # <<>>
        observations == Newest(Append(tr.observations, at), MaximumObservations)
    IN {k \in Keys :
          CASE k = "DUPLICATE"      -> o.message \in tr.seen
            [] k = "NON_INCREASING" -> known /\ at <= LastTime(tr)
            [] k = "OUT_OF_ORDER"   -> known /\ at + MaximumReordering < LastTime(tr)
            [] k = "GAP"            -> known /\ LastTime(tr) + GapAfter < at
            [] k = "PAIR"           -> /\ known /\ k \in o.found /\ at >= LastTime(tr)
                                       /\ at - LastTime(tr) \in PairInterval
            [] k = "LATENCY"        -> k \in o.found
            [] k = "WINDOW"         -> /\ k \in o.found
                                       /\ WindowCount(observations, at) >= WindowMinimum}

SeverityOf(k, o) ==
    CASE k = "GAP" -> "INFO"
      [] k \in {"PAIR", "WINDOW"} -> o.severity
      [] OTHER -> "WARNING"

\* The evidence of a key after a candidate: a new one, or the active one
\* updated; its expiry starts again from this observation's time.
OpenOrUpdate(active, k, o) ==
    LET at == o.message.at
        severity == SeverityOf(k, o)
    IN IF k \notin DOMAIN active
       THEN [id |-> o.message, severity |-> severity,
             first |-> at, last |-> at, expires |-> at + EvidenceTtl]
       ELSE [active[k] EXCEPT !.severity = Worse(@, severity),
                              !.last = at, !.expires = at + EvidenceTtl]

\* _event: the state an event carries follows from its type alone.
Event(type, t, k, evidence, at) ==
    [type |-> type, track |-> t, key |-> k, id |-> evidence.id, at |-> at,
     state |-> IF type = "evidence_closed" THEN "NOMINAL" ELSE "QUESTIONABLE"]

-----------------------------------------------------------------------------
(* Message ids, the snapshot, ingest()                                     *)

\* Mutant: a full window forgets nothing.
RememberAll(tr, m) ==
    [tr EXCEPT !.seen = @ \cup {m},
               !.seenOrder = Newest(Append(@, m), MaximumObservations)]
\* A message id not seen yet enters the window, and the oldest one leaves.
RememberMessage(tr, m) ==
    IF m \in tr.seen THEN tr
    ELSE [tr EXCEPT
            !.seen = (IF Len(tr.seenOrder) = MaximumObservations
                      THEN @ \ {Head(tr.seenOrder)} ELSE @) \cup {m},
            !.seenOrder = Newest(Append(@, m), MaximumObservations)]

\* Mutant: only what the latest observation raised counts.
StateOfLatest(tr) ==
    IF Len(tr.observations) < MinimumObservations THEN "INSUFFICIENT_DATA"
    ELSE IF \E k \in DOMAIN tr.active : tr.active[k].last = LastTime(tr) THEN "QUESTIONABLE"
    ELSE "NOMINAL"
\* The state of a track, from its data and its evidence.
StateOf(tr) ==
    IF Len(tr.observations) < MinimumObservations THEN "INSUFFICIENT_DATA"
    ELSE IF DOMAIN tr.active # {} THEN "QUESTIONABLE"
    ELSE "NOMINAL"

Snapshot(tr) ==
    [at |-> LastTime(tr), state |-> StateOf(tr),
     count |-> Len(tr.observations), active |-> tr.active]

\* The track after observation o, given it before.
Observed(tr, o) ==
    LET at == o.message.at
        open == Without(tr.active, Due(tr, at))
        raised == Raised(tr, o)
        seen == RememberMessage(tr, o.message)
    IN [seen EXCEPT
          !.observations = Newest(Append(@, at), MaximumObservations),
          !.active = [k \in DOMAIN open \cup raised |->
                        IF k \in raised THEN OpenOrUpdate(open, k, o) ELSE open[k]]]

\* Mutant: expired evidence goes without an event.
EventsOfCandidates(t, tr, o) ==
    LET new == Observed(tr, o)
        open == DOMAIN tr.active \ Due(tr, o.message.at)
    IN {Event(IF k \in open THEN "evidence_updated" ELSE "evidence_opened",
              t, k, new.active[k], o.message.at) : k \in Raised(tr, o)}

\* The events of the observation: a closing for each evidence that was due,
\* an opening or an update for each candidate.
EventsOf(t, tr, o) ==
    LET new == Observed(tr, o)
        due == Due(tr, o.message.at)
        open == DOMAIN tr.active \ due
    IN {Event("evidence_closed", t, k, tr.active[k], o.message.at) : k \in due}
       \cup {Event(IF k \in open THEN "evidence_updated" ELSE "evidence_opened",
                   t, k, new.active[k], o.message.at) : k \in Raised(tr, o)}

Ingest(o) ==
    LET t == o.message.track
        gone == Dropped(t, o.message.at)
        kept == Without(tracks, gone)
        served == SnapshotsAfter(gone)
        tr == IF t \in DOMAIN kept THEN kept[t] ELSE NewTrack
        new == Observed(tr, o)
    IN /\ tracks' = [u \in DOMAIN kept \cup {t} |-> IF u = t THEN new ELSE kept[u]]
       /\ snapshots' = [u \in DOMAIN served \cup {t} |->
                          IF u = t THEN Snapshot(new) ELSE served[u]]
       /\ events' = EventsOf(t, tr, o)
       /\ dropped' = gone
       /\ forgotten' = [u \in Tracks |->
            IF u \in gone
            THEN forgotten[u] \cup {tracks[u].active[k] : k \in DOMAIN tracks[u].active}
            ELSE forgotten[u]]
       /\ ingests' = ingests + 1

Observations == [message : Messages, found : Findings, severity : KinematicSeverities]

Init ==
    /\ tracks = <<>> /\ snapshots = <<>> /\ events = {} /\ dropped = {}
    /\ forgotten = [t \in Tracks |-> {}]
    /\ ingests = 0

Next == ingests < MaxIngests /\ \E o \in Observations : Ingest(o)

Spec == Init /\ [][Next]_vars

-----------------------------------------------------------------------------
(* Properties                                                              *)

IsTrack(tr) ==
    /\ DOMAIN tr = {"observations", "active", "seen", "seenOrder"}
    /\ tr.observations \in Seq(Nat) /\ tr.seenOrder \in Seq(Messages)
    /\ Len(tr.observations) \in 1..MaximumObservations
    /\ Len(tr.seenOrder) <= MaximumObservations
    /\ tr.seen \subseteq Messages
    /\ DOMAIN tr.active \subseteq Keys
    /\ \A k \in DOMAIN tr.active : tr.active[k] \in Evidence

\* The types of the variables.
TypeOK ==
    /\ DOMAIN tracks \subseteq Tracks /\ DOMAIN snapshots \subseteq Tracks
    /\ \A t \in DOMAIN tracks : IsTrack(tracks[t])
    /\ dropped \subseteq Tracks
    /\ \A t \in Tracks : \A e \in forgotten[t] : e \in Evidence
    /\ ingests \in Nat

\* The caches are bounded, and the snapshots served are those of the tracks
\* held: a purged or evicted track is not served from a stale snapshot.
SnapshotsMatchTracks ==
    /\ Cardinality(DOMAIN tracks) <= MaximumTracks
    /\ DOMAIN snapshots = DOMAIN tracks
    /\ \A t \in DOMAIN tracks :
         /\ snapshots[t].active = tracks[t].active
         /\ snapshots[t].at = LastTime(tracks[t])

\* No snapshot shows evidence that had expired at the snapshot's own time,
\* in whatever order the source times come.
NoExpiredEvidence ==
    \A t \in DOMAIN tracks : \A k \in DOMAIN tracks[t].active :
        LET e == tracks[t].active[k] IN
        e.expires > LastTime(tracks[t]) \/ e.last = LastTime(tracks[t])

\* The set of seen message ids is the content of its bounded window, each id
\* once: a duplicate is reported exactly while it is in the window.
SeenIsTheWindow ==
    \A t \in DOMAIN tracks :
        /\ tracks[t].seen = Elements(tracks[t].seenOrder)
        /\ Cardinality(tracks[t].seen) = Len(tracks[t].seenOrder)

\* A track that stays in the cache returns from QUESTIONABLE to NOMINAL only
\* when all of its evidence has expired.
QuestionableUntilExpired ==
    [][\A t \in (DOMAIN snapshots \cap DOMAIN snapshots') \ dropped' :
         (snapshots[t].state = "QUESTIONABLE" /\ snapshots'[t].state = "NOMINAL")
           => \A k \in DOMAIN snapshots[t].active :
                snapshots[t].active[k].expires <= snapshots'[t].at]_vars

\* A client that follows the events knows the active evidence: whatever is
\* opened, replaced or closed on a track that stays in the cache has an event.
ChangesAreAnnounced ==
    [][\A t \in (DOMAIN tracks \cap DOMAIN tracks') \ dropped' :
         LET old == tracks[t].active
             new == tracks'[t].active
             announced(type, k, e) ==
                 \E ev \in events' : ev.type = type /\ ev.track = t /\ ev.key = k /\ ev.id = e.id
         IN \A k \in Keys :
              /\ (k \in DOMAIN old /\ (k \notin DOMAIN new \/ new[k].id # old[k].id))
                   => announced("evidence_closed", k, old[k])
              /\ (k \in DOMAIN new /\ (k \notin DOMAIN old \/ new[k].id # old[k].id))
                   => announced("evidence_opened", k, new[k])]_vars

\* "A track returns from QUESTIONABLE to NOMINAL only after all active
\* evidence has expired": also when the track left the cache meanwhile.
NominalOnlyAfterExpiry ==
    \A t \in DOMAIN snapshots :
        snapshots[t].state = "NOMINAL" =>
            \A e \in forgotten[t] : e.expires <= snapshots[t].at

\* ... and an event that says NOMINAL is about a track that is not
\* QUESTIONABLE.
EventStateIsTrackState ==
    \A ev \in events :
        ev.state = "NOMINAL" => snapshots[ev.track].state # "QUESTIONABLE"

=============================================================================
