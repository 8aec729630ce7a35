---------------------------- MODULE EdgeTelemetry ----------------------------
(***************************************************************************)
(* The path of a station's health: the station, the bridge beside the      *)
(* receiver (receiver_bridge.py), the broker, the consumer with manual     *)
(* acknowledgement (consumer.py, station_mqtt.py), the tables it writes    *)
(* (station_persistence.py), and the health read from them.                *)
(*                                                                         *)
(* The broker is external and keeps what it has accepted: at-least-once    *)
(* delivery in order over persistent sessions, retained presence, and last *)
(* wills.  Its limit of 1000 messages for a consumer that is away          *)
(* (max_queued_messages, mosquitto.conf), beyond which it drops them, is   *)
(* left out: the properties speak of absences that end before that.        *)
(***************************************************************************)
EXTENDS EdgeStation, StationHealth

CONSTANTS
    Reports        \* what the bridge may report: connection, full, silent

VARIABLES
    session,    \* the broker's view of the station: none, up or down
    retained,   \* the retained presence
    pending,    \* messages for the consumer not acknowledged, in order
    consumer,   \* down or ready
    row,        \* sensor_nodes: the record of the station
    stored,     \* ids in the event tables
    reports,    \* pipeline messages published
    failures,   \* of the consumer
    accepted,   \* history: the ids of valid messages the broker took over
    newest,     \* history: the last valid heartbeat the broker took over
    lastSample  \* history: when the station last took a sample

brokerVars == <<session, retained, pending, accepted, newest>>
consumerVars == <<consumer, row, stored, failures>>
edgeVars == <<stationVars, brokerVars, consumerVars, reports, lastSample>>

Never == -1
NoRow == [telemetry |-> None, presence |-> None, pipeline |-> None]

\* The primary key, and for a heartbeat the unique boot and sequence.
Key(m) ==
    IF m.kind = "telemetry" THEN <<"telemetry", m.sample.boot, m.sample.sequence>>
    ELSE <<m.kind, m.id>>

\* StationMessageError: the schema or the topic rejects the message.
Valid(m) == m.kind = "telemetry" => setting.contract

-----------------------------------------------------------------------------
(* The broker                                                              *)

Queued(ms) ==
    /\ pending' = pending \o ms
    /\ accepted' = accepted \cup {Key(ms[i]) : i \in {j \in 1..Len(ms) : Valid(ms[j])}}

\* The next message of the outbox reaches the broker, and its PUBACK the
\* station; or the PUBACK, and every later one, is lost with the connection.
BrokerAccepts ==
    /\ session = "up" /\ client /\ power = "running" /\ sent < Len(outbox)
    /\ \/ sent = 0 /\ outbox' = Tail(outbox) /\ UNCHANGED sent
       \/ faults < setting.faults /\ sent' = sent + 1 /\ UNCHANGED outbox
    /\ LET m == outbox[sent + 1]
       IN  /\ Queued(<<m>>)
           /\ retained' = IF m.kind = "telemetry" THEN retained ELSE m
           /\ newest' = IF Valid(m) /\ m.kind = "telemetry" THEN m.sample ELSE newest
    /\ UNCHANGED <<power, boot, tasks, links, time>> /\ NoFault
    /\ UNCHANGED <<session, consumerVars, reports, lastSample>>

\* A new connection of a station takes the old one over, with its will.
StationConnects ==
    /\ MqttConnected
    /\ session' = "up"
    /\ IF session = "up"
       THEN Queued(<<LastWill>>) /\ retained' = LastWill
       ELSE UNCHANGED <<pending, accepted, retained>>
    /\ UNCHANGED <<newest, consumerVars, reports, lastSample>>

\* The connection is gone, noticed by its end or by the missing keep-alive.
BrokerNoticesLoss ==
    /\ session = "up" /\ ~client
    /\ session' = "down"
    /\ Queued(<<LastWill>>) /\ retained' = LastWill
    /\ UNCHANGED <<stationVars, newest, consumerVars, reports, lastSample>>

\* A reset: its connection ends at the broker before the next boot connects.
StationFails ==
    /\ StationResets
    /\ \/ session = "up" /\ session' = "down" /\ Queued(<<LastWill>>) /\ retained' = LastWill
       \/ session # "up" /\ UNCHANGED <<session, pending, accepted, retained>>
    /\ UNCHANGED <<newest, consumerVars, reports, lastSample>>

\* main of the bridge: the health of the sidecar, or, without an answer that
\* can be used, DISCONNECTED with an empty queue.
BridgePublishes(report) ==
    /\ reports < setting.reports
    /\ reports' = reports + 1
    /\ LET health == IF report.available THEN report
                     ELSE [connection |-> "DISCONNECTED", full |-> FALSE, silent |-> FALSE]
       IN  Queued(<<[kind |-> "pipeline", id |-> <<0, reports + 1>>, at |-> time,
                     connection |-> health.connection, full |-> health.full,
                     silent |-> health.silent]>>)
    /\ UNCHANGED <<stationVars, session, retained, newest, consumerVars, lastSample>>

-----------------------------------------------------------------------------
(* The consumer                                                            *)

OnlyConsumer ==
    UNCHANGED <<stationVars, session, retained, newest, accepted, reports, lastSample>>

\* observed_at, by the clock of the station.
SampleTime(sample) == sample.at

\* Mutant: presence keeps the time its message was built at, a will at boot.
BuiltAt(m) == IF m.kind = "online" THEN time ELSE 0

\* presence_received_at, which record_to_presence takes for observed_at.
PresenceTime(m) == time

RowWith(m) ==
    CASE m.kind = "telemetry" -> [row EXCEPT !.telemetry = [m.sample EXCEPT !.at = SampleTime(m.sample)]]
      [] m.kind = "pipeline"  -> [row EXCEPT !.pipeline = m]
      [] OTHER -> [row EXCEPT !.presence =
              [status |-> IF m.kind = "online" THEN "ONLINE" ELSE "OFFLINE", at |-> PresenceTime(m)]]

\* Mutant: a message with a known key leaves the record alone.
RowOfNew(m) == IF Key(m) \in stored THEN row ELSE RowWith(m)

\* The three upserts: every receipt is later than the one before it, so the
\* record takes each, also a message it had before.
RowAfter(m) == RowWith(m)

\* The three event inserts: on a conflict of a key, also of the second key of
\* a heartbeat, nothing is inserted.
InsertEvent(m) == stored' = stored \cup {Key(m)}

\* persist_telemetry, persist_presence and persist_pipeline.
Persist(m) == InsertEvent(m) /\ row' = RowAfter(m)

Delivered == consumer = "ready" /\ pending # <<>>
MayFail == failures < setting.failures /\ failures' = failures + 1

\* Mutant: acknowledged when it arrives, with the commit still to come.
ProcessAfterAck ==
    /\ Delivered
    /\ pending' = Tail(pending)
    /\ \/ /\ Valid(Head(pending)) /\ Persist(Head(pending))
          /\ UNCHANGED <<consumer, failures>>
       \/ MayFail /\ consumer' = "down" /\ UNCHANGED <<row, stored>>
    /\ OnlyConsumer

\* _on_message: committed, then acknowledged, unless the process is killed or
\* its connection breaks between the two; or rejected and acknowledged.
Process ==
    /\ Delivered
    /\ \/ /\ Valid(Head(pending))
          /\ Persist(Head(pending))
          /\ \/ pending' = Tail(pending) /\ UNCHANGED <<consumer, failures>>
             \/ MayFail /\ consumer' = "down" /\ UNCHANGED pending
       \/ /\ ~Valid(Head(pending))
          /\ pending' = Tail(pending)
          /\ UNCHANGED <<consumer, row, stored, failures>>
    /\ OnlyConsumer

\* Any other exception: rollback and disconnect, so loop_forever returns and
\* the process ends.
PersistenceFails ==
    /\ Delivered /\ MayFail
    /\ consumer' = "down"
    /\ UNCHANGED <<pending, row, stored>> /\ OnlyConsumer

\* Killed, or disconnected, with nothing in hand.
ConsumerLost ==
    /\ consumer = "ready" /\ pending = <<>> /\ MayFail
    /\ consumer' = "down"
    /\ UNCHANGED <<pending, row, stored>> /\ OnlyConsumer

Resubscribe ==
    /\ IF retained = None THEN UNCHANGED <<pending, accepted>> ELSE Queued(<<retained>>)
    /\ UNCHANGED <<stationVars, session, retained, newest, row, stored>>
    /\ UNCHANGED <<reports, failures, lastSample>>

\* Mutant: the process goes on without its connection.
ConsumerStaysDown ==
    /\ consumer = "down" /\ failures = 0
    /\ consumer' = "ready"
    /\ Resubscribe

\* Restarted, or reconnected: what was not acknowledged is delivered again,
\* and the subscriptions bring the retained presence.
ConsumerStarts ==
    /\ consumer = "down"
    /\ consumer' = "ready"
    /\ Resubscribe

-----------------------------------------------------------------------------
EdgeInit ==
    /\ StationInit
    /\ session = "none" /\ retained = None /\ pending = <<>>
    /\ consumer = "ready" /\ row = NoRow /\ stored = {}
    /\ reports = 0 /\ failures = 0
    /\ accepted = {} /\ newest = NoSample /\ lastSample = Never

StationMoves ==
    /\ StationAlone
    /\ lastSample' = IF sequence' > sequence THEN time ELSE lastSample
    /\ UNCHANGED <<brokerVars, consumerVars, reports>>

ConsumerMoves == Process \/ ConsumerStarts

EdgeNext ==
    \/ StationMoves
    \/ StationConnects \/ BrokerNoticesLoss \/ StationFails
    \/ BrokerAccepts
    \/ \E report \in Reports : BridgePublishes(report)
    \/ ConsumerMoves \/ PersistenceFails \/ ConsumerLost

\* The service is restarted and a client reads what the broker sends it.
EdgeFairness == WF_edgeVars(ConsumerMoves)

EdgeSpec == EdgeInit /\ [][EdgeNext]_edgeVars /\ EdgeFairness

-----------------------------------------------------------------------------
(* Properties                                                              *)

\* What GET /stations answers for the record.
Reported == Health(row.telemetry, row.presence, row.pipeline, time)

Settled == pending = <<>> /\ consumer = "ready" /\ outbox = <<>>

\* A valid message the broker has taken over is waiting or stored, however
\* often the consumer fails (consumer.py _on_message).
AcceptedIsKept ==
    \A key \in accepted : key \in stored \/ \E i \in 1..Len(pending) : Key(pending[i]) = key

\* Once everything is delivered, the record shows the heartbeat that the broker
\* took over last.  Meanwhile it may go back: what is delivered again is received
\* later than what it follows (build_telemetry_node_upsert).
RecordIsLatest ==
    pending = <<>> /\ newest # NoSample => row.telemetry = newest

\* Once everything is delivered, a station that is connected is not reported
\* OFFLINE, and one whose connection the broker has seen end is, but in one case:
\* its clock is ahead, and it stamped its last heartbeat with a time after the
\* receipt of the loss, by no more than its clock is ahead
\* (record_to_presence, evaluate_station_health).
PresenceIsTrue ==
    Settled =>
        /\ session = "down" =>
             \/ Reported = "OFFLINE"
             \/ /\ row.presence.status = "OFFLINE"
                /\ row.telemetry.at - row.presence.at \in 1..setting.skew
        /\ session = "up" => Reported # "OFFLINE"

\* HEALTHY is never said of a station that has not taken a sample within the
\* freshness limit, whatever was queued or delivered late.
HealthyIsRecent ==
    Reported = "HEALTHY" => lastSample # Never /\ time - lastSample <= StaleAfter + setting.skew

\* What GET /stations says of a station is true of it (station_health.py).
ReportedHealthIsTrue == PresenceIsTrue /\ HealthyIsRecent

\* What the broker holds for the consumer is eventually processed.
DeliveredInTheEnd == []<>(pending = <<>>)
=============================================================================
