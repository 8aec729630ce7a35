---------------------------- MODULE StationHealth ----------------------------
(***************************************************************************)
(* What a station is said to be: evaluate_station_health, on the evidence  *)
(* its current-state record keeps (station_health.py, station_records.py). *)
(* Times and ages are in one unit; the reasons are names for the sentences *)
(* the code writes.                                                        *)
(***************************************************************************)
EXTENDS Integers

CONSTANTS
    StaleAfter,          \* stale_after_seconds
    PipelineStaleAfter,  \* pipeline_stale_after_seconds
    ClockTolerance       \* how far a time may be ahead: 2 seconds

ASSUME HealthPolicyAssumption ==
    StaleAfter \in Nat \ {0} /\ PipelineStaleAfter \in Nat \ {0} /\ ClockTolerance \in Nat

None == [kind |-> "none"]

Stale(age, limit) == age < -ClockTolerance \/ age > limit

\* The limits a heartbeat is measured against; of rssi, heap and watchdog
\* resets only whether they pass.
TelemetryReasons(telemetry) ==
    {reason \in {"weak signal", "low heap", "watchdog reset"} : reason \in telemetry.warnings}
    \cup {reason \in {"queue not empty"} : telemetry.depth > 0}

PipelineReasons(pipeline, now) ==
    IF pipeline = None THEN {}
    ELSE {reason \in {"pipeline stale"} : Stale(now - pipeline.at, PipelineStaleAfter)}
         \cup {reason \in {"receiver not connected"} :
                  /\ ~Stale(now - pipeline.at, PipelineStaleAfter)
                  /\ pipeline.connection # "CONNECTED"}
         \cup {reason \in {"queue at capacity"} : pipeline.full}
         \cup {reason \in {"receiver silent"} : pipeline.silent}

Health(telemetry, presence, pipeline, now) ==
    LET reasons == TelemetryReasons(telemetry) \cup PipelineReasons(pipeline, now)
    IN  IF telemetry = None /\ presence = None THEN "NO_DATA"
        ELSE IF /\ presence # None /\ presence.status = "OFFLINE"
                /\ telemetry = None \/ presence.at >= telemetry.at
        THEN "OFFLINE"
        ELSE IF telemetry = None THEN "NO_DATA"
        ELSE IF Stale(now - telemetry.at, StaleAfter) THEN "STALE"
        ELSE IF reasons # {} THEN "DEGRADED"
        ELSE "HEALTHY"
=============================================================================
