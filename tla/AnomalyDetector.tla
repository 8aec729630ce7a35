---------------------------- MODULE AnomalyDetector ----------------------------
(***************************************************************************)
(* The anomaly detection loop (services/anomaly_detection/detector.py) and *)
(* the acknowledgement of what it finds (backend/app/api/anomalies.py).    *)
(*                                                                         *)
(* A turn reads the aircraft rows, runs every check and saves what it      *)
(* found in one transaction.  The detector remembers what it has flagged   *)
(* so as not to flag it again for some minutes; it remembers it before the *)
(* transaction is committed.  An operator's answer to an alert reads the   *)
(* row and writes back, with its audit event, the columns it changes of    *)
(* what it has read.  Altitudes are in thousands of feet, rates in         *)
(* thousands of feet a minute; NotKnown stands for a missing field.        *)
(***************************************************************************)
EXTENDS Integers, FiniteSets, Sequences, TLC

CONSTANTS
    Aircrafts,         \* icao_hex
    Rows,              \* what a row may say: [squawk, rate, altitude, speed, restricted]
    SpeedRanges,       \* EXPECTED_SPEED_BY_ALTITUDE: {[from, to, min, max]}
    Quiet,             \* minutes, by kind, before an anomaly is flagged again
    ActiveFor, LostAfter, LostUntil,    \* minutes since last_seen
    MaxMinute,         \* bound: the clock
    MaxFaults,         \* bound: turns that fail
    Verdicts,          \* 0 new, 1 acknowledged, 2 dismissed
    MaxAcknowledged    \* bound: requests to acknowledge

VARIABLES
    row,               \* of each aircraft: what it says, and when it was seen
    recent,            \* recent_anomalies of the detector of the last turn
    anomalies,         \* table anomalies, without what only describes
    lastTurn,          \* of the last turn: when, what it had to report, committed?
    handling,          \* requests that have read their alert: which, what it said,
                       \* and the verdict to be written
    acknowledged,      \* audit events anomaly.acknowledged
    handled, faults, minute

detectorVars ==
    <<row, recent, anomalies, lastTurn, handling, acknowledged, handled, faults, minute>>
ackVars == <<handling, acknowledged, handled>>

ASSUME VerdictAssumption == Verdicts \subseteq Nat

NotKnown == 1000

-----------------------------------------------------------------------------
(* The checks                                                              *)

EmergencyCodes == {"7500", "7600", "7700"}

\* An altitude of zero counts like one that is not known.
NearGround(r) == r.altitude \notin {NotKnown, 0} /\ r.altitude < 3

Descends(r) == r.rate # NotKnown /\ ~NearGround(r) /\ r.rate < -4
Climbs(r)   == r.rate # NotKnown /\ ~NearGround(r) /\ r.rate > 5

\* Thirty percent off the range that its altitude falls into, if any.
SpeedIsOdd(r) ==
    /\ r.speed # NotKnown /\ r.altitude # NotKnown
    /\ \E x \in SpeedRanges : /\ x.from <= r.altitude /\ r.altitude < x.to
                              /\ \/ 10 * r.speed < 7 * x.min
                                 \/ 10 * r.speed > 13 * x.max

\* Inside the box of a restricted zone.
EntersZone(r) == r.restricted

Findings(r) ==
    {k \in EmergencyCodes \cup {"RAPID_DESCENT", "RAPID_CLIMB", "SPEED", "RESTRICTED"} :
        \/ k \in EmergencyCodes /\ r.squawk = k
        \/ k = "RAPID_DESCENT" /\ Descends(r)
        \/ k = "RAPID_CLIMB" /\ Climbs(r)
        \/ k = "SPEED" /\ SpeedIsOdd(r)
        \/ k = "RESTRICTED" /\ EntersZone(r)}

Active(h) == row[h].seen >= minute - ActiveFor

\* detect_track_losses: gone for some time, not for too long, and in flight.
Lost(h) == /\ row[h].seen < minute - LostAfter /\ row[h].seen > minute - LostUntil
           /\ row[h].says.altitude > 5 /\ row[h].says.altitude # NotKnown

Signs ==
    (UNION {{<<h, k>> : k \in Findings(row[h].says)} : h \in {a \in Aircrafts : Active(a)}})
        \cup {<<h, "TRACK_LOSS">> : h \in {a \in Aircrafts : Lost(a)}}

\* Flagged lately; a lost track is flagged once.
Remembers(memory, sign) ==
    /\ sign \in DOMAIN memory
    /\ sign[2] = "TRACK_LOSS" \/ minute - memory[sign] < Quiet[sign[2]]

-----------------------------------------------------------------------------
(* detection_loop                                                          *)

\* Every turn makes a detector of its own.
NewDetector == <<>>

FoundWith(memory) == {s \in Signs : ~Remembers(memory, s)}

Turn ==
    /\ lastTurn.at < minute
    /\ LET found == FoundWith(NewDetector) IN
       /\ recent' = [s \in found |-> minute] @@ NewDetector
       /\ \/ /\ anomalies' = anomalies \cup {[sign |-> s, at |-> minute, state |-> 0, resolved |-> -1]
                                               : s \in found}
             /\ lastTurn' = [at |-> minute, signs |-> Signs, committed |-> TRUE]
             /\ UNCHANGED faults
          \/ /\ faults < MaxFaults /\ faults' = faults + 1
             /\ lastTurn' = [at |-> minute, signs |-> Signs, committed |-> FALSE]
             /\ UNCHANGED anomalies
    /\ UNCHANGED <<row, minute, ackVars>>

-----------------------------------------------------------------------------
(* acknowledge_anomaly                                                     *)

Key(a) == <<a.sign, a.at>>

ReadsAlert(a, verdictGiven) ==
    /\ handled < MaxAcknowledged
    /\ handled' = handled + 1
    /\ handling' = handling \cup {[nr |-> handled', alert |-> Key(a), verdict |-> verdictGiven,
                                   state |-> a.state, resolved |-> a.resolved]}
    /\ UNCHANGED <<row, recent, anomalies, lastTurn, acknowledged, faults, minute>>

ResolvedNow(q) == q.verdict > 0 /\ q.resolved = -1

\* Mutant: every column is written, as it was read.
WrittenWhole(a, q) ==
    [a EXCEPT !.state = q.verdict, !.resolved = IF ResolvedNow(q) THEN minute ELSE q.resolved]

\* The session writes the columns whose value differs from the one it read.
Written(a, q) ==
    [a EXCEPT !.state = IF q.verdict # q.state THEN q.verdict ELSE a.state,
              !.resolved = IF ResolvedNow(q) THEN minute ELSE a.resolved]

Acknowledge(q) ==
    /\ q \in handling
    /\ handling' = handling \ {q}
    /\ anomalies' = {IF Key(a) = q.alert THEN Written(a, q) ELSE a : a \in anomalies}
    /\ acknowledged' = acknowledged \cup {[nr |-> q.nr, alert |-> q.alert, verdict |-> q.verdict,
                                           at |-> minute]}
    /\ UNCHANGED <<row, recent, lastTurn, handled, faults, minute>>

\* The transaction fails, and with it the audit event.
AcknowledgeFails(q) ==
    /\ q \in handling
    /\ handling' = handling \ {q}
    /\ UNCHANGED <<row, recent, anomalies, lastTurn, acknowledged, handled, faults, minute>>

-----------------------------------------------------------------------------
(* Elsewhere                                                               *)

\* The ingestion service writes the row of an aircraft.
IsSeen(h, r) ==
    /\ row' = [row EXCEPT ![h] = [says |-> r, seen |-> minute]]
    /\ UNCHANGED <<recent, anomalies, lastTurn, faults, minute, ackVars>>

MinutePasses ==
    /\ minute < MaxMinute
    /\ minute' = minute + 1
    /\ UNCHANGED <<row, recent, anomalies, lastTurn, faults, ackVars>>

-----------------------------------------------------------------------------
DetectorInit ==
    /\ row \in [Aircrafts -> [says : Rows, seen : {0}]]
    /\ recent = <<>> /\ anomalies = {}
    /\ lastTurn = [at |-> -1, signs |-> {}, committed |-> FALSE]
    /\ handling = {} /\ acknowledged = {} /\ handled = 0
    /\ faults = 0 /\ minute = 0

DetectorNext ==
    \/ Turn
    \/ \E a \in anomalies, v \in Verdicts : ReadsAlert(a, v)
    \/ \E q \in handling : Acknowledge(q) \/ AcknowledgeFails(q)
    \/ \E h \in Aircrafts, r \in Rows : IsSeen(h, r)
    \/ MinutePasses

DetectorSpec == DetectorInit /\ [][DetectorNext]_detectorVars

-----------------------------------------------------------------------------
(* Properties                                                              *)

\* However the requests of several operators cross, an alert says what one of
\* them was recorded to have said, and it is resolved, at the time of one of
\* those, if and only if somebody acknowledged or dismissed it: nobody's answer
\* is erased with what another one had read before it
\* (backend/app/api/anomalies.py acknowledge_anomaly).
AcknowledgementsStand ==
    \A a \in anomalies :
        LET said == {e \in acknowledged : e.alert = Key(a)} IN
        /\ IF said = {} THEN a.state = 0 ELSE \E e \in said : e.verdict = a.state
        /\ IF a.resolved = -1 THEN \A e \in said : e.verdict = 0
           ELSE \E e \in said : e.verdict > 0 /\ e.at = a.resolved

\* "Track recent anomalies to avoid duplicates" (detector.py:69): a condition
\* that lasts is not flagged again within its quiet time.
NoDuplicates ==
    \A a, b \in anomalies : a.sign = b.sign /\ a.at < b.at => b.at - a.at >= Quiet[a.sign[2]]
=============================================================================
