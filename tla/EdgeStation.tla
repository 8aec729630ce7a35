----------------------------- MODULE EdgeStation -----------------------------
(***************************************************************************)
(* The firmware of a station (firmware/esp32-station/main/main.c): the     *)
(* telemetry task fills a bounded queue, the publisher task empties it     *)
(* into the outbox of the MQTT client, and two event handlers keep track   *)
(* of the connections.  The tasks have one priority and are preempted, so  *)
(* every call to the queue is a step of its own.                           *)
(*                                                                         *)
(* Of a heartbeat the model keeps what identifies it, its time, the depth  *)
(* of the queue and which limits its readings exceed.                       *)
(***************************************************************************)
EXTENDS Integers, Sequences

CONSTANTS
    QueueCapacity,   \* TELEMETRY_QUEUE_CAPACITY
    MaxBackoff,      \* MAX_WIFI_BACKOFF_SECONDS
    Readings,        \* the limits a sample may exceed: sets of reasons
    Instances        \* the settings checked: how far the clock of the station is
                     \* ahead, whether its heartbeats pass the schema, and bounds
                     \* on time, samples, boots, faults (connections lost, resets,
                     \* rejections), failures of the consumer and reports of the
                     \* bridge

ASSUME StationAssumption ==
    QueueCapacity \in Nat \ {0} /\ MaxBackoff \in Nat \ {0}
    /\ \A i \in Instances :
          /\ {i.skew, i.time, i.samples, i.boots, i.faults, i.failures, i.reports} \subseteq Nat
          /\ i.contract \in BOOLEAN

VARIABLES
    power,       \* off, joining (no clock yet) or running
    boot,        \* boot_id
    sequence,    \* sequence_number
    queue,       \* telemetry_queue
    sampler,     \* the telemetry task: idle, built, full or discarded
    publisher,   \* the publisher task: bit, receive or enqueue
    wifi, backoff,
    client,      \* the MQTT client believes it is connected
    mqttBit,     \* MQTT_CONNECTED_BIT
    outbox,      \* messages of the MQTT client not acknowledged, in order
    sent,        \* how many of them were sent over this connection
    connections, \* connections made, for the ids of the ONLINE messages
    time, faults,
    samples,     \* samples taken
    setting      \* the member of Instances this behaviour is in

tasks == <<sequence, queue, sampler, publisher, samples>>
links == <<wifi, backoff, client, mqttBit, connections>>
stationVars == <<power, boot, tasks, links, outbox, sent, time, faults, setting>>

NoSample == [boot |-> 0, sequence |-> 0, at |-> 0, depth |-> 0, warnings |-> {}]
Idle == [at |-> "idle", sample |-> NoSample]
AtBit == [at |-> "bit", sample |-> NoSample]

Telemetry(sample) == [kind |-> "telemetry", sample |-> sample]
Online == [kind |-> "online", id |-> <<boot, connections + 1>>]
\* Built once, before the client connects: one id for the whole boot.
LastWill == [kind |-> "will", id |-> <<boot, 0>>]

Fault == faults < setting.faults /\ faults' = faults + 1 /\ UNCHANGED setting
NoFault == UNCHANGED <<faults, setting>>

-----------------------------------------------------------------------------
(* Power and connections                                                   *)

\* app_main: nothing of an earlier boot is left.
Boot ==
    /\ power = "off" /\ boot < setting.boots
    /\ power' = "joining" /\ boot' = boot + 1 /\ sequence' = 0
    /\ queue' = <<>> /\ sampler' = Idle /\ publisher' = AtBit
    /\ wifi' = FALSE /\ backoff' = 1 /\ client' = FALSE /\ mqttBit' = FALSE
    /\ outbox' = <<>> /\ sent' = 0
    /\ UNCHANGED <<connections, samples, time>> /\ NoFault

\* WIFI_CONNECTED_BIT, and a clock; then the client and the tasks start.
ClockSynchronized ==
    /\ power = "joining" /\ wifi
    /\ power' = "running"
    /\ UNCHANGED <<boot, tasks, links, outbox, sent, time>> /\ NoFault

StationResets ==
    /\ power # "off" /\ Fault
    /\ power' = "off" /\ client' = FALSE
    /\ UNCHANGED <<boot, tasks, wifi, backoff, mqttBit, connections, outbox, sent, time>>

WifiGotIp ==
    /\ power # "off" /\ ~wifi
    /\ wifi' = TRUE /\ backoff' = 1
    /\ UNCHANGED <<power, boot, tasks, client, mqttBit, connections, outbox, sent, time>>
    /\ NoFault

\* STA_DISCONNECTED, also for an attempt that failed.
WifiLost ==
    /\ power # "off" /\ Fault
    /\ wifi' = FALSE /\ mqttBit' = FALSE
    /\ backoff' = IF backoff * 2 > MaxBackoff THEN MaxBackoff ELSE backoff * 2
    /\ UNCHANGED <<power, boot, tasks, client, connections, outbox, sent, time>>

\* MQTT_EVENT_CONNECTED; the session of the client resumes with the outbox.
MqttConnected ==
    /\ power = "running" /\ wifi /\ ~client
    /\ client' = TRUE /\ mqttBit' = TRUE
    /\ connections' = connections + 1
    /\ outbox' = Append(outbox, Online) /\ sent' = 0
    /\ UNCHANGED <<power, boot, tasks, wifi, backoff, time>> /\ NoFault

\* MQTT_EVENT_DISCONNECTED: a loss of Wi-Fi need not break the connection.
MqttDisconnected ==
    /\ power = "running" /\ client /\ Fault
    /\ client' = FALSE /\ mqttBit' = FALSE
    /\ UNCHANGED <<power, boot, tasks, wifi, backoff, connections, outbox, sent, time>>

-----------------------------------------------------------------------------
(* The tasks                                                               *)

\* build_telemetry, which reads the depth of the queue.
Sample ==
    /\ power = "running" /\ sampler.at = "idle" /\ samples < setting.samples
    /\ sequence' = sequence + 1 /\ samples' = samples + 1
    /\ \E warnings \in Readings :
         sampler' = [at |-> "built",
                     sample |-> [boot |-> boot, sequence |-> sequence, at |-> time + setting.skew,
                                 depth |-> Len(queue), warnings |-> warnings]]
    /\ UNCHANGED <<power, boot, queue, publisher, links, outbox, sent, time>> /\ NoFault

\* queue_latest: the first xQueueSend, without waiting.
SendSample ==
    /\ power = "running" /\ sampler.at = "built"
    /\ \/ /\ Len(queue) < QueueCapacity
          /\ queue' = Append(queue, sampler.sample)
          /\ sampler' = Idle
       \/ /\ Len(queue) = QueueCapacity
          /\ sampler' = [sampler EXCEPT !.at = "full"]
          /\ UNCHANGED queue
    /\ UNCHANGED <<power, boot, sequence, samples, publisher, links, outbox, sent, time>> /\ NoFault

\* xQueueReceive: the oldest sample, if the publisher has not emptied it.
Discard ==
    /\ power = "running" /\ sampler.at = "full"
    /\ queue' = IF queue = <<>> THEN queue ELSE Tail(queue)
    /\ sampler' = [sampler EXCEPT !.at = "discarded"]
    /\ UNCHANGED <<power, boot, sequence, samples, publisher, links, outbox, sent, time>> /\ NoFault

\* The second xQueueSend: without room the sample is lost.
SendAgain ==
    /\ power = "running" /\ sampler.at = "discarded"
    /\ queue' = IF Len(queue) < QueueCapacity THEN Append(queue, sampler.sample) ELSE queue
    /\ sampler' = Idle
    /\ UNCHANGED <<power, boot, sequence, samples, publisher, links, outbox, sent, time>> /\ NoFault

PublisherStep ==
    /\ power = "running"
    /\ UNCHANGED <<power, boot, sequence, samples, sampler, links, time>>

\* xEventGroupWaitBits.
WaitForConnection ==
    /\ PublisherStep /\ NoFault
    /\ publisher.at = "bit" /\ mqttBit
    /\ publisher' = [AtBit EXCEPT !.at = "receive"]
    /\ UNCHANGED <<queue, outbox, sent>>

\* xQueueReceive; after a second without a sample the connection is checked.
Receive ==
    /\ PublisherStep /\ NoFault
    /\ publisher.at = "receive"
    /\ \/ /\ queue # <<>>
          /\ publisher' = [at |-> "enqueue", sample |-> Head(queue)]
          /\ queue' = Tail(queue)
       \/ /\ queue = <<>>
          /\ publisher' = AtBit
          /\ UNCHANGED queue
    /\ UNCHANGED <<outbox, sent>>

\* esp_mqtt_client_enqueue stores the message, whatever the connection.
Enqueue ==
    /\ PublisherStep /\ NoFault
    /\ publisher.at = "enqueue"
    /\ outbox' = Append(outbox, Telemetry(publisher.sample))
    /\ publisher' = AtBit
    /\ UNCHANGED <<queue, sent>>

\* The outbox rejects it: back to the front of the queue, if there is room.
EnqueueRejected ==
    /\ PublisherStep /\ Fault
    /\ publisher.at = "enqueue"
    /\ queue' = IF Len(queue) < QueueCapacity THEN <<publisher.sample>> \o queue ELSE queue
    /\ publisher' = AtBit
    /\ UNCHANGED <<outbox, sent>>

StationTime ==
    /\ time < setting.time
    /\ time' = time + 1
    /\ UNCHANGED <<power, boot, tasks, links, outbox, sent>> /\ NoFault

-----------------------------------------------------------------------------
StationInit ==
    /\ power = "off" /\ boot = 0 /\ sequence = 0
    /\ queue = <<>> /\ sampler = Idle /\ publisher = AtBit
    /\ wifi = FALSE /\ backoff = 1 /\ client = FALSE /\ mqttBit = FALSE
    /\ outbox = <<>> /\ sent = 0 /\ connections = 0
    /\ time = 0 /\ faults = 0 /\ samples = 0 /\ setting \in Instances

\* What the broker has no part in.
StationAlone ==
    \/ Boot \/ ClockSynchronized \/ WifiGotIp \/ WifiLost \/ MqttDisconnected
    \/ Sample \/ SendSample \/ Discard \/ SendAgain
    \/ WaitForConnection \/ Receive \/ Enqueue \/ EnqueueRejected
    \/ StationTime

=============================================================================
