----------------------------- MODULE ExternalSource -----------------------------
(***************************************************************************)
(* The external provider behind its cache, poll interval, backoff and      *)
(* circuit breaker, and the comparison of what it reports with a local     *)
(* observation (backend/app/services/external_observations.py,             *)
(* corroboration_service.py, corroboration.py).                            *)
(*                                                                         *)
(* Requests of the API share one source.  Each of them suspends while the  *)
(* provider answers, for any time (a timeout bounds a phase of a request,  *)
(* not the request), and the time it began at is the time its outcome is   *)
(* recorded with, over what requests that began later have set.  An        *)
(* observation is its age when it is received, a place on a line and an    *)
(* altitude band; -1 stands for a missing one.                             *)
(***************************************************************************)
EXTENDS Integers, Sequences, FiniteSets

CONSTANTS
    Flights,            \* aircraft, each the key of a cache entry
    LocalReports,       \* observations [age, place, altitude] of the station
    ExternalReports,    \* those of the provider
    PollInterval,       \* minimum_poll_interval_seconds
    CacheTtl,           \* cache_ttl_seconds
    FailureBackoff,     \* failure_backoff_seconds
    FailureThreshold,   \* circuit_failure_threshold
    CircuitOpen,        \* circuit_open_seconds
    RetryAfter,         \* what a 429 may ask for
    MaxAge, MaxSkew, MaxTimeDelta, MaxDistance, MaxAltitude,
    MaxTick             \* bound: the clock

VARIABLES
    cache,              \* _cache
    nextRequest,        \* _next_request_at
    circuitUntil,       \* _circuit_open_until
    failuresInRow,      \* consecutive_failures
    fetching,           \* requests that wait for the provider
    verdict,            \* state of the last CorroborationResult
    asked,              \* history, every request: when, and the refusals and
                        \* trips before it
    refusals,           \* history: the failed and rate limited answers
    trips,              \* history, every answer that opened the circuit: when the
                        \* requests then in flight had begun
    tick

sourceVars == <<cache, nextRequest, circuitUntil, failuresInRow, fetching, verdict,
                asked, refusals, trips, tick>>

ASSUME SourceAssumption ==
    /\ PollInterval \in Nat /\ CircuitOpen \in Nat
    /\ FailureBackoff \in Nat /\ FailureThreshold \in Nat
    /\ RetryAfter \subseteq Nat \ {0}

NotFound == [at |-> -1, place |-> -1, altitude |-> -1]
Observed(report) == [at |-> tick - report.age, place |-> report.place, altitude |-> report.altitude]

Difference(a, b) == IF a < b THEN b - a ELSE a - b

-----------------------------------------------------------------------------
(* corroboration.py                                                        *)

OutsideTolerance(local, external, now) ==
    \/ \E o \in {local, external} : now - o.at > MaxAge \/ o.at - now > MaxSkew
    \/ Difference(local.at, external.at) > MaxTimeDelta

Comparable(a, b) == a # -1 /\ b # -1

Disagree(local, external) ==
    \/ /\ Comparable(local.place, external.place)
       /\ Difference(local.place, external.place) > MaxDistance
    \/ /\ Comparable(local.altitude, external.altitude)
       /\ Difference(local.altitude, external.altitude) > MaxAltitude

\* compare_observations, for an aircraft that has a local observation.
Compare(local, external, now, available) ==
    CASE ~available                               -> "UNAVAILABLE"
      [] available /\ external = NotFound         -> "LOCAL_ONLY"
      [] OTHER ->
           IF OutsideTolerance(local, external, now) THEN "STALE"
           ELSE IF Disagree(local, external) THEN "CONFLICTING"
           ELSE IF \/ Comparable(local.place, external.place)
                   \/ Comparable(local.altitude, external.altitude) THEN "CORROBORATED"
           ELSE "STALE"

Concludes(local, external, now, available) ==
    verdict' = Compare(local, external, now, available)

-----------------------------------------------------------------------------
(* corroborate and fetch_states up to the request                          *)

Blocked == tick < circuitUntil \/ tick < nextRequest

\* A position is needed to ask at all.
WithoutPosition(report) ==
    /\ report.place = -1
    /\ verdict' = "STALE"
    /\ UNCHANGED <<cache, nextRequest, circuitUntil, failuresInRow, fetching, asked, refusals, trips, tick>>

\* From the cache while it is valid, and past that while nothing may be sent.
FromCache(f, report) ==
    /\ report.place # -1
    /\ \E entry \in cache[f] :
         /\ tick < entry.until \/ Blocked
         /\ Concludes(Observed(report), entry.found, tick, TRUE)
    /\ UNCHANGED <<cache, nextRequest, circuitUntil, failuresInRow, fetching, asked, refusals, trips, tick>>

RefusedBySource(f, report) ==
    /\ report.place # -1
    /\ cache[f] = {} /\ Blocked
    /\ Concludes(Observed(report), NotFound, tick, FALSE)
    /\ UNCHANGED <<cache, nextRequest, circuitUntil, failuresInRow, fetching, asked, refusals, trips, tick>>

Ask(f, report) ==
    /\ report.place # -1
    /\ \A entry \in cache[f] : tick >= entry.until
    /\ ~Blocked
    /\ nextRequest' = tick + PollInterval
    /\ fetching' = fetching \cup {[nr |-> Len(asked) + 1, flight |-> f,
                                  local |-> Observed(report), began |-> tick]}
    /\ asked' = Append(asked, [at |-> tick, refusals |-> refusals, trips |-> trips])
    /\ UNCHANGED <<cache, circuitUntil, failuresInRow, verdict, refusals, trips, tick>>

-----------------------------------------------------------------------------
(* The answer: a failure, a refusal by the provider, or a snapshot         *)

Answers(r) ==
    /\ r \in fetching
    /\ fetching' = fetching \ {r}
    /\ UNCHANGED <<asked, tick>>

Unavailable(r) ==
    /\ Concludes(r.local, NotFound, r.began, FALSE)
    /\ refusals' = refusals + 1
    /\ UNCHANGED cache

\* _record_failure, when the circuit opens at `threshold` failures in a row.
FailsAt(r, threshold) ==
    /\ Answers(r) /\ Unavailable(r)
    /\ failuresInRow' = failuresInRow + 1
    /\ nextRequest' = r.began + FailureBackoff * 2^failuresInRow
    /\ circuitUntil' = IF failuresInRow' >= threshold THEN r.began + CircuitOpen ELSE circuitUntil
    /\ trips' = IF failuresInRow' >= FailureThreshold
                THEN trips \cup {{other.began : other \in fetching}} ELSE trips

\* Mutant: the circuit opens at one failure more.
FailsLate(r) == FailsAt(r, FailureThreshold + 1)

\* A failed request, or a token that could not be had.
Fails(r) == FailsAt(r, FailureThreshold)

RateLimited(r) ==
    /\ Answers(r) /\ Unavailable(r)
    /\ \E after \in RetryAfter : nextRequest' = r.began + after
    /\ UNCHANGED <<circuitUntil, failuresInRow, trips>>

Succeeds(r) ==
    /\ Answers(r)
    /\ failuresInRow' = 0
    /\ \E found \in {NotFound} \cup {Observed(e) : e \in ExternalReports} :
         /\ cache' = [cache EXCEPT ![r.flight] = {[found |-> found, until |-> r.began + CacheTtl]}]
         /\ Concludes(r.local, found, r.began, TRUE)
    /\ UNCHANGED <<nextRequest, circuitUntil, refusals, trips>>

SourceTicks ==
    /\ tick < MaxTick
    /\ tick' = tick + 1
    /\ UNCHANGED <<cache, nextRequest, circuitUntil, failuresInRow, fetching, verdict, asked,
                   refusals, trips>>

-----------------------------------------------------------------------------
SourceInit ==
    /\ cache = [f \in Flights |-> {}]
    /\ nextRequest = 0 /\ circuitUntil = 0 /\ failuresInRow = 0
    /\ fetching = {}
    /\ verdict = "NONE"
    /\ asked = <<>> /\ refusals = 0 /\ trips = {}
    /\ tick = 0

SourceNext ==
    \/ \E report \in LocalReports :
         \/ WithoutPosition(report)
         \/ \E f \in Flights : FromCache(f, report) \/ RefusedBySource(f, report) \/ Ask(f, report)
    \/ \E r \in fetching : Fails(r) \/ RateLimited(r) \/ Succeeds(r)
    \/ SourceTicks

SourceSpec == SourceInit /\ [][SourceNext]_sourceVars

-----------------------------------------------------------------------------
(* Properties                                                              *)

\* However requests and late answers cross, a window of a poll interval sees
\* one request, and one more for each answer in it that failed or was refused;
\* and after FailureThreshold failures in a row none is sent for CircuitOpen
\* from the beginning of the oldest request then in flight, whatever answers
\* come for the others (external_observations.py _record_failure: an answer
\* sets both times from its own beginning, and may set them back).
ProviderIsSpared ==
    \A k \in DOMAIN asked :
        /\ \A i \in 1..k : asked[k].at - asked[i].at < PollInterval =>
                             k - i <= asked[k].refusals - asked[i].refusals
        /\ \A began \in asked[k].trips : \E b \in began : asked[k].at >= b + CircuitOpen
=============================================================================
