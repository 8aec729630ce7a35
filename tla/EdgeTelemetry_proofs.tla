------------------------ MODULE EdgeTelemetry_proofs ------------------------
(***************************************************************************)
(* Proofs about EdgeTelemetry, for every queue, backoff, setting of a      *)
(* station, policy of health and number of failures.                       *)
(***************************************************************************)
EXTENDS EdgeTelemetry, SequenceTheorems, TLAPS

-----------------------------------------------------------------------------
(* Sequences                                                               *)

LEMMA WiderSeq ==
    ASSUME NEW S, NEW T, S \subseteq T, NEW s \in Seq(S)
    PROVE  s \in Seq(T)
OBVIOUS

LEMMA TailFacts ==
    ASSUME NEW S, NEW s \in Seq(S), s # <<>>
    PROVE  /\ Len(s) \in Nat \ {0} /\ Head(s) = s[1] /\ Head(s) \in S
           /\ Tail(s) \in Seq(S) /\ Len(Tail(s)) = Len(s) - 1
           /\ \A i \in 1..(Len(s) - 1) : Tail(s)[i] = s[i + 1]
BY HeadTailProperties, EmptySeq, LenProperties

LEMMA AppendFacts ==
    ASSUME NEW S, NEW s \in Seq(S), NEW m \in S
    PROVE  /\ Append(s, m) \in Seq(S) /\ Len(Append(s, m)) = Len(s) + 1
           /\ Append(s, m)[Len(s) + 1] = m
           /\ \A i \in 1..Len(s) : Append(s, m)[i] = s[i]
           /\ Len(s) \in Nat
BY AppendProperties, LenProperties

-----------------------------------------------------------------------------
(* Types                                                                   *)

Samples == [boot : Nat, sequence : Nat, at : Nat, depth : Nat, warnings : Readings]

\* Every sample that is anywhere was taken by now, by the clock of the station.
TakenBy(last, skew) == {s \in Samples : last \in Nat /\ s.at <= last + skew}
Taken == TakenBy(lastSample, setting.skew)

BridgeHealth == {r \in Reports : r.available} \cup
           {[connection |-> "DISCONNECTED", full |-> FALSE, silent |-> FALSE]}

PresenceMessages == [kind : {"online", "will"}, id : Nat \X Nat]
PipelineMessages ==
    [kind : {"pipeline"}, id : Nat \X Nat, at : Nat, connection : {h.connection : h \in BridgeHealth},
     full : {h.full : h \in BridgeHealth}, silent : {h.silent : h \in BridgeHealth}]

FromStation(T) == [kind : {"telemetry"}, sample : T] \cup [kind : {"online"}, id : Nat \X Nat]
Messages(T) == [kind : {"telemetry"}, sample : T] \cup PresenceMessages \cup PipelineMessages
Presences == [status : {"ONLINE", "OFFLINE"}, at : Nat]
Rows(T) == [telemetry : T \cup {None}, presence : Presences \cup {None},
            pipeline : PipelineMessages \cup {None}]

TaskTypes(T) ==
    /\ queue \in Seq(T)
    /\ sampler \in [at : {"idle", "built", "full", "discarded"}, sample : T \cup {NoSample}]
    /\ sampler.at # "idle" => sampler.sample \in T
    /\ publisher \in [at : {"bit", "receive", "enqueue"}, sample : T \cup {NoSample}]
    /\ publisher.at = "enqueue" => publisher.sample \in T

PathTypes(T) ==
    /\ outbox \in Seq(FromStation(T))
    /\ pending \in Seq(Messages(T))
    /\ row \in Rows(T)

Counters ==
    /\ boot \in Nat /\ sequence \in Nat /\ connections \in Nat /\ reports \in Nat
    /\ time \in Nat /\ sent \in Nat /\ setting \in Instances
    /\ lastSample \in Nat \cup {Never} /\ lastSample <= time

EdgeTypes ==
    /\ Counters
    /\ TaskTypes(Taken) /\ PathTypes(Taken)
    /\ session \in {"none", "up", "down"}
    /\ retained \in PresenceMessages \cup {None}

LEMMA SettingFacts ==
    ASSUME NEW i \in Instances
    PROVE  i.skew \in Nat /\ i.contract \in BOOLEAN
BY StationAssumption DEF StationAssumption

\* What a message is, and that more samples make more messages.
LEMMA MessageFacts ==
    ASSUME NEW T
    PROVE  /\ \A m \in Messages(T) : /\ m.kind \in {"telemetry", "online", "will", "pipeline"}
                                     /\ m.kind = "telemetry" => m.sample \in T
                                     /\ m.kind = "pipeline" => m \in PipelineMessages
           /\ \A m \in FromStation(T) : m \in Messages(T) /\ m.kind \in {"telemetry", "online"}
           /\ \A m \in FromStation(T) : m.kind # "telemetry" => m \in PresenceMessages
           /\ \A m \in PresenceMessages : m \in Messages(T) /\ m.kind \in {"online", "will"}
           /\ \A m \in PipelineMessages : m \in Messages(T) /\ m.kind = "pipeline"
           /\ \A s \in T : Telemetry(s) \in FromStation(T)
BY DEF Messages, FromStation, PresenceMessages, PipelineMessages, Telemetry

LEMMA WiderTypes ==
    ASSUME NEW T, NEW U, T \subseteq U
    PROVE  /\ TaskTypes(T) => TaskTypes(U)
           /\ PathTypes(T) => PathTypes(U)
<1>1. FromStation(T) \subseteq FromStation(U) /\ Messages(T) \subseteq Messages(U)
  BY DEF FromStation, Messages
<1>2. Rows(T) \subseteq Rows(U)
  BY DEF Rows
<1>3. /\ outbox \in Seq(FromStation(T)) => outbox \in Seq(FromStation(U))
      /\ pending \in Seq(Messages(T)) => pending \in Seq(Messages(U))
      /\ queue \in Seq(T) => queue \in Seq(U)
  BY <1>1, WiderSeq
<1>. QED BY <1>2, <1>3 DEF TaskTypes, PathTypes

\* The rows after a message.
LEMMA RowFacts ==
    ASSUME NEW T \in SUBSET Samples, NEW m \in Messages(T), row \in Rows(T), time \in Nat
    PROVE  /\ RowWith(m) \in Rows(T)
           /\ m.kind = "telemetry" => /\ RowWith(m).telemetry = m.sample
                                      /\ RowWith(m).presence = row.presence
           /\ m.kind # "telemetry" => RowWith(m).telemetry = row.telemetry
           /\ m.kind = "pipeline" => RowWith(m).presence = row.presence
           /\ m.kind = "online" => RowWith(m).presence = [status |-> "ONLINE", at |-> time]
           /\ m.kind = "will" => RowWith(m).presence = [status |-> "OFFLINE", at |-> time]
<1>1. /\ m.kind \in {"telemetry", "online", "will", "pipeline"}
      /\ m.kind = "telemetry" => m.sample \in T
      /\ m.kind = "pipeline" => m \in PipelineMessages
  BY MessageFacts
<1>2. CASE m.kind = "telemetry"
  <2>1. m.sample \in T /\ m.sample \in Samples
    BY <1>1, <1>2
  <2>2. [m.sample EXCEPT !.at = SampleTime(m.sample)] = m.sample
    BY <2>1 DEF Samples, SampleTime
  <2>3. RowWith(m) = [row EXCEPT !.telemetry = m.sample]
    BY <1>2, <2>2 DEF RowWith
  <2>. QED BY <1>2, <2>1, <2>3 DEF Rows
<1>3. CASE m.kind = "pipeline"
  <2>1. RowWith(m) = [row EXCEPT !.pipeline = m]
    BY <1>3 DEF RowWith
  <2>. QED BY <1>1, <1>3, <2>1 DEF Rows
<1>4. CASE m.kind \in {"online", "will"}
  <2>. DEFINE p == [status |-> IF m.kind = "online" THEN "ONLINE" ELSE "OFFLINE", at |-> time]
  <2>1. p \in Presences
    BY DEF Presences
  <2>2. RowWith(m) = [row EXCEPT !.presence = p]
    BY <1>4 DEF RowWith, PresenceTime
  <2>3. /\ m.kind = "online" => p = [status |-> "ONLINE", at |-> time]
        /\ m.kind = "will" => p = [status |-> "OFFLINE", at |-> time]
    OBVIOUS
  <2>. HIDE DEF p
  <2>. QED BY <1>4, <2>1, <2>2, <2>3 DEF Rows
<1>. QED BY <1>1, <1>2, <1>3, <1>4

\* The messages that stations and bridge make.
LEMMA MadeMessages ==
    ASSUME boot \in Nat, connections \in Nat, reports \in Nat, time \in Nat
    PROVE  /\ Online \in PresenceMessages /\ Online.kind = "online"
           /\ \A T : Online \in FromStation(T)
           /\ LastWill \in PresenceMessages /\ LastWill.kind = "will"
BY DEF Online, LastWill, PresenceMessages, FromStation

\* What a message that the broker takes over adds.
LEMMA QueuedFacts ==
    ASSUME NEW S, pending \in Seq(S), NEW m \in S, Queued(<<m>>)
    PROVE  /\ pending' \in Seq(S) /\ Len(pending) \in Nat
           /\ Len(pending') = Len(pending) + 1 /\ pending'[Len(pending) + 1] = m
           /\ \A i \in 1..Len(pending) : pending'[i] = pending[i]
           /\ Valid(m) => accepted' = accepted \cup {Key(m)}
           /\ ~Valid(m) => accepted' = accepted
<1>1. pending' = pending \o <<m>> /\ <<m>> \in Seq(S) /\ Len(<<m>>) = 1 /\ <<m>>[1] = m
  BY DEF Queued
<1>2. Len(pending) \in Nat
  BY LenProperties
<1>3. {Key(<<m>>[i]) : i \in {j \in 1..Len(<<m>>) : Valid(<<m>>[j])}}
          = IF Valid(m) THEN {Key(m)} ELSE {}
  <2>. DEFINE J == {j \in 1..Len(<<m>>) : Valid(<<m>>[j])}
  <2>1. J = IF Valid(m) THEN {1} ELSE {}
    BY <1>1
  <2>. HIDE DEF J
  <2>2. {Key(<<m>>[i]) : i \in J} = IF Valid(m) THEN {Key(m)} ELSE {}
    BY <1>1, <2>1
  <2>. QED BY <2>2 DEF J
<1>4. accepted' = accepted \cup (IF Valid(m) THEN {Key(m)} ELSE {})
  BY <1>3 DEF Queued
<1>5. /\ pending' \in Seq(S) /\ Len(pending') = Len(pending) + 1
      /\ \A i \in 1..Len(pending) : pending'[i] = pending[i]
      /\ pending'[Len(pending) + 1] = m
  BY <1>1, <1>2, ConcatProperties
<1>. QED BY <1>2, <1>4, <1>5

-----------------------------------------------------------------------------
(* The types hold                                                          *)

LEMMA TakenGrows ==
    ASSUME NEW last \in Nat \cup {Never}, NEW now \in Nat, last <= now, NEW skew \in Nat
    PROVE  TakenBy(last, skew) \subseteq TakenBy(now, skew)
<1>1. SUFFICES ASSUME NEW s \in TakenBy(last, skew)
               PROVE  s \in TakenBy(now, skew)
  OBVIOUS
<1>2. s \in Samples /\ last \in Nat /\ s.at <= last + skew /\ s.at \in Nat
  BY <1>1 DEF TakenBy, Samples
<1>. QED BY <1>2 DEF TakenBy

\* The sample that the station takes now.
NewSamples ==
    {[boot |-> boot, sequence |-> sequence, at |-> time + setting.skew,
      depth |-> Len(queue), warnings |-> w] : w \in Readings}

LEMMA NewIsTaken ==
    ASSUME Counters, Len(queue) \in Nat
    PROVE  NewSamples \subseteq TakenBy(time, setting.skew)
<1>1. time + setting.skew \in Nat /\ time \in Nat /\ time + setting.skew <= time + setting.skew
  BY SettingFacts DEF Counters
<1>. QED BY <1>1 DEF NewSamples, TakenBy, Samples, Counters

LEMMA TaskStep ==
    ASSUME NEW U, Counters, TaskTypes(U), outbox \in Seq(FromStation(U)), StationAlone,
           Sample => NewSamples \subseteq U
    PROVE  TaskTypes(U)' /\ outbox' \in Seq(FromStation(U))
<1>. DEFINE SamplerTypes == [at : {"idle", "built", "full", "discarded"}, sample : U \cup {NoSample}]
            PublisherTypes == [at : {"bit", "receive", "enqueue"}, sample : U \cup {NoSample}]
<1>1. /\ queue \in Seq(U) /\ sampler \in SamplerTypes /\ publisher \in PublisherTypes
      /\ sampler.at # "idle" => sampler.sample \in U
      /\ publisher.at = "enqueue" => publisher.sample \in U
  BY DEF TaskTypes
<1>2. SUFFICES /\ queue' \in Seq(U) /\ sampler' \in SamplerTypes /\ publisher' \in PublisherTypes
               /\ sampler'.at # "idle" => sampler'.sample \in U
               /\ publisher'.at = "enqueue" => publisher'.sample \in U
               /\ outbox' \in Seq(FromStation(U))
  BY DEF TaskTypes
<1>3. Idle \in SamplerTypes /\ Idle.at = "idle" /\ AtBit \in PublisherTypes /\ AtBit.at = "bit"
  BY DEF Idle, AtBit
<1>4. \A s \in U : Append(queue, s) \in Seq(U) /\ <<s>> \o queue \in Seq(U)
  BY <1>1, AppendProperties, ConcatProperties
<1>5. queue # <<>> => Head(queue) \in U /\ Tail(queue) \in Seq(U)
  BY <1>1, HeadTailProperties
<1>6. <<>> \in Seq(U) /\ <<>> \in Seq(FromStation(U))
  BY EmptySeq
<1>7. CASE Boot
  BY <1>7, <1>3, <1>6 DEF Boot
<1>8. CASE ClockSynchronized \/ WifiGotIp \/ WifiLost \/ MqttDisconnected \/ StationTime
  BY <1>8, <1>1 DEF ClockSynchronized, WifiGotIp, WifiLost, MqttDisconnected, StationTime, tasks
<1>9. CASE Sample
  <2>1. NewSamples \subseteq U
    BY <1>9
  <2>2. PICK w \in Readings :
           sampler' = [at |-> "built",
                       sample |-> [boot |-> boot, sequence |-> sequence,
                                   at |-> time + setting.skew,
                                   depth |-> Len(queue), warnings |-> w]]
    BY <1>9 DEF Sample
  <2>. DEFINE new == [boot |-> boot, sequence |-> sequence, at |-> time + setting.skew,
                      depth |-> Len(queue), warnings |-> w]
  <2>3. new \in U
    BY <2>1 DEF NewSamples
  <2>4. sampler' = [at |-> "built", sample |-> new]
    BY <2>2
  <2>5. queue' = queue /\ publisher' = publisher /\ outbox' = outbox
    BY <1>9 DEF Sample
  <2>. HIDE DEF new
  <2>6. sampler' \in SamplerTypes /\ sampler'.sample \in U
    BY <2>3, <2>4
  <2>. QED BY <2>5, <2>6, <1>1
<1>10. CASE SendSample
  <2>1. sampler.sample \in U
    BY <1>10, <1>1 DEF SendSample
  <2>2. CASE queue' = Append(queue, sampler.sample) /\ sampler' = Idle
    BY <2>1, <2>2, <1>10, <1>1, <1>3, <1>4 DEF SendSample
  <2>3. CASE sampler' = [sampler EXCEPT !.at = "full"] /\ UNCHANGED queue
    <3>1. sampler' \in SamplerTypes /\ sampler'.sample \in U
      BY <2>1, <2>3, <1>1
    <3>. QED BY <2>3, <3>1, <1>10, <1>1 DEF SendSample
  <2>. QED BY <2>2, <2>3, <1>10 DEF SendSample
<1>11. CASE Discard
  BY <1>11, <1>1, <1>5 DEF Discard
<1>12. CASE SendAgain
  <2>1. sampler.sample \in U
    BY <1>12, <1>1 DEF SendAgain
  <2>. QED BY <2>1, <1>12, <1>1, <1>3, <1>4 DEF SendAgain
<1>13. CASE WaitForConnection
  BY <1>13, <1>1, <1>3 DEF WaitForConnection, PublisherStep, AtBit
<1>14. CASE Receive
  <2>1. CASE queue # <<>> /\ publisher' = [at |-> "enqueue", sample |-> Head(queue)]
                         /\ queue' = Tail(queue)
    <3>1. publisher' \in PublisherTypes /\ publisher'.sample \in U /\ queue' \in Seq(U)
      BY <2>1, <1>5
    <3>. QED BY <3>1, <1>14, <1>1 DEF Receive, PublisherStep
  <2>2. CASE publisher' = AtBit /\ queue' = queue
    BY <2>2, <1>14, <1>1, <1>3 DEF Receive, PublisherStep
  <2>. QED BY <2>1, <2>2, <1>14 DEF Receive
<1>15. CASE Enqueue
  <2>1. publisher.sample \in U /\ Telemetry(publisher.sample) \in FromStation(U)
    BY <1>15, <1>1 DEF Enqueue, Telemetry, FromStation
  <2>2. Append(outbox, Telemetry(publisher.sample)) \in Seq(FromStation(U))
    BY <2>1, AppendProperties
  <2>. QED BY <2>2, <1>15, <1>1, <1>3 DEF Enqueue, PublisherStep
<1>16. CASE EnqueueRejected
  <2>1. publisher.sample \in U
    BY <1>16, <1>1 DEF EnqueueRejected
  <2>. QED BY <2>1, <1>16, <1>1, <1>3, <1>4 DEF EnqueueRejected, PublisherStep
<1>. QED BY <1>7, <1>8, <1>9, <1>11, <1>12, <1>13, <1>14, <1>15, <1>16, <1>10 DEF StationAlone

LEMMA ClockStep ==
    ASSUME Counters, Len(queue) \in Nat, [EdgeNext]_edgeVars
    PROVE  /\ Counters' /\ setting' = setting /\ Taken \subseteq Taken'
           /\ StationMoves /\ Sample => NewSamples \subseteq Taken'
<1>1. /\ boot \in Nat /\ sequence \in Nat /\ connections \in Nat /\ reports \in Nat
      /\ time \in Nat /\ sent \in Nat /\ setting \in Instances
      /\ lastSample \in Nat \cup {Never} /\ lastSample <= time
  BY DEF Counters
<1>2. /\ boot' \in Nat /\ sequence' \in Nat /\ connections' \in Nat /\ reports' \in Nat
      /\ time' \in Nat /\ time <= time' /\ sent' \in Nat /\ setting' = setting
      /\ lastSample' \in {lastSample, time}
      /\ StationMoves /\ Sample => lastSample' = time
  <2>1. CASE StationMoves
    <3>1. UNCHANGED reports /\ lastSample' = IF sequence' > sequence THEN time ELSE lastSample
      BY <2>1 DEF StationMoves
    <3>2. CASE Boot
      BY <3>1, <3>2, <1>1 DEF Boot, NoFault, Sample
    <3>3. CASE ClockSynchronized \/ WifiGotIp \/ WifiLost \/ MqttDisconnected \/ StationTime
      BY <3>1, <3>3, <1>1 DEF ClockSynchronized, WifiGotIp, WifiLost, MqttDisconnected,
           StationTime, NoFault, Fault, links, tasks, Sample
    <3>4. CASE Sample
      BY <3>1, <3>4, <1>1 DEF Sample, NoFault, links
    <3>5. CASE SendSample \/ Discard \/ SendAgain
      BY <3>1, <3>5, <1>1 DEF SendSample, Discard, SendAgain, NoFault, links, Sample
    <3>6. CASE WaitForConnection \/ Receive \/ Enqueue \/ EnqueueRejected
      BY <3>1, <3>6, <1>1 DEF WaitForConnection, Receive, Enqueue, EnqueueRejected, PublisherStep,
           NoFault, Fault, links, Sample
    <3>. QED BY <2>1, <3>2, <3>3, <3>4, <3>5, <3>6 DEF StationMoves, StationAlone
  <2>2. ASSUME lastSample' = lastSample, StationMoves
        PROVE  Sample => lastSample' = time
    BY <2>2, <1>1 DEF StationMoves, Sample
  <2>3. CASE StationConnects
    BY <2>3, <2>2, <1>1 DEF StationConnects, MqttConnected, tasks, NoFault
  <2>4. CASE StationFails
    BY <2>4, <2>2, <1>1 DEF StationFails, StationResets, tasks, Fault
  <2>5. CASE BrokerAccepts
    BY <2>5, <2>2, <1>1 DEF BrokerAccepts, tasks, links, NoFault
  <2>6. CASE BrokerNoticesLoss
    BY <2>6, <2>2, <1>1 DEF BrokerNoticesLoss, stationVars, tasks, links
  <2>7. CASE \E report \in Reports : BridgePublishes(report)
    BY <2>7, <2>2, <1>1 DEF BridgePublishes, stationVars, tasks, links
  <2>8. CASE Process \/ PersistenceFails \/ ConsumerLost
    BY <2>8, <2>2, <1>1 DEF Process, PersistenceFails, ConsumerLost, OnlyConsumer, stationVars,
         tasks, links
  <2>9. CASE ConsumerStarts
    BY <2>9, <2>2, <1>1 DEF ConsumerStarts, Resubscribe, stationVars, tasks, links
  <2>10. CASE UNCHANGED edgeVars
    BY <2>10, <2>2, <1>1 DEF edgeVars, stationVars, tasks, links
  <2>. QED BY <2>1, <2>3, <2>4, <2>5, <2>6, <2>7, <2>8, <2>9, <2>10 DEF EdgeNext, ConsumerMoves
<1>3. Counters'
  BY <1>1, <1>2 DEF Counters
<1>4. setting.skew \in Nat
  BY <1>1, SettingFacts
<1>5. TakenBy(lastSample, setting.skew) \subseteq TakenBy(time, setting.skew)
  BY <1>1, <1>4, TakenGrows
<1>6. Taken \subseteq Taken'
  BY <1>2, <1>5 DEF Taken
<1>7. StationMoves /\ Sample => NewSamples \subseteq Taken'
  BY <1>2, NewIsTaken DEF Taken
<1>. QED BY <1>2, <1>3, <1>6, <1>7

LEMMA BridgeMessage ==
    ASSUME NEW report \in Reports, reports \in Nat, time \in Nat, BridgePublishes(report)
    PROVE  \E m \in PipelineMessages : Queued(<<m>>)
<1>. DEFINE health == IF report.available THEN report
                      ELSE [connection |-> "DISCONNECTED", full |-> FALSE, silent |-> FALSE]
<1>1. health \in BridgeHealth
  BY DEF BridgeHealth
<1>2. Queued(<<[kind |-> "pipeline", id |-> <<0, reports + 1>>, at |-> time,
                connection |-> health.connection, full |-> health.full,
                silent |-> health.silent]>>)
  BY DEF BridgePublishes
<1>. HIDE DEF health
<1>3. [kind |-> "pipeline", id |-> <<0, reports + 1>>, at |-> time,
       connection |-> health.connection, full |-> health.full, silent |-> health.silent]
          \in PipelineMessages
  BY <1>1 DEF PipelineMessages
<1>. QED BY <1>2, <1>3

PathGoal(U) ==
    /\ outbox' \in Seq(FromStation(U)) /\ pending' \in Seq(Messages(U)) /\ row' \in Rows(U)
    /\ session' \in {"none", "up", "down"}
    /\ retained' \in PresenceMessages \cup {None}

LEMMA PathStep ==
    ASSUME NEW U \in SUBSET Samples, Counters, PathTypes(U), session \in {"none", "up", "down"},
           retained \in PresenceMessages \cup {None}, EdgeNext, ~StationMoves
    PROVE  PathGoal(U) /\ UNCHANGED <<queue, sampler, publisher>>
<1>1. outbox \in Seq(FromStation(U)) /\ pending \in Seq(Messages(U)) /\ row \in Rows(U)
  BY DEF PathTypes
<1>2. boot \in Nat /\ connections \in Nat /\ reports \in Nat /\ time \in Nat /\ sent \in Nat
  BY DEF Counters
<1>3. /\ Online \in FromStation(U) /\ LastWill \in PresenceMessages
      /\ PresenceMessages \subseteq Messages(U) /\ PipelineMessages \subseteq Messages(U)
      /\ \A m \in FromStation(U) :
            m \in Messages(U) /\ (m.kind # "telemetry" => m \in PresenceMessages)
  BY <1>2, MadeMessages, MessageFacts
<1>4. ASSUME NEW m \in Messages(U), Queued(<<m>>)
      PROVE  pending' \in Seq(Messages(U))
  BY <1>1, <1>4, QueuedFacts
<1>5. outbox # <<>> => Tail(outbox) \in Seq(FromStation(U))
  BY <1>1, HeadTailProperties
<1>6. pending # <<>> => Head(pending) \in Messages(U) /\ Tail(pending) \in Seq(Messages(U))
  BY <1>1, HeadTailProperties
<1>7. CASE StationConnects
  <2>1. outbox' = Append(outbox, Online) /\ row' = row /\ session' = "up"
        /\ UNCHANGED <<queue, sampler, publisher>>
    BY <1>7 DEF StationConnects, MqttConnected, consumerVars, tasks
  <2>2. outbox' \in Seq(FromStation(U))
    BY <2>1, <1>1, <1>3, AppendProperties
  <2>3. \/ Queued(<<LastWill>>) /\ retained' = LastWill
        \/ pending' = pending /\ retained' = retained
    BY <1>7 DEF StationConnects
  <2>. QED BY <2>1, <2>2, <2>3, <1>1, <1>3, <1>4 DEF PathGoal
<1>8. CASE BrokerNoticesLoss
  <2>1. UNCHANGED <<outbox, row, queue, sampler, publisher>> /\ session' = "down"
        /\ Queued(<<LastWill>>) /\ retained' = LastWill
    BY <1>8 DEF BrokerNoticesLoss, stationVars, tasks, consumerVars
  <2>. QED BY <2>1, <1>1, <1>3, <1>4 DEF PathGoal
<1>9. CASE StationFails
  <2>1. /\ UNCHANGED <<outbox, row, queue, sampler, publisher>>
        /\ \/ session' = "down" /\ Queued(<<LastWill>>) /\ retained' = LastWill
           \/ UNCHANGED <<session, pending, retained>>
    BY <1>9 DEF StationFails, StationResets, tasks, consumerVars
  <2>. QED BY <2>1, <1>1, <1>3, <1>4 DEF PathGoal
<1>10. CASE BrokerAccepts
  <2>. DEFINE m == outbox[sent + 1]
  <2>1. sent + 1 \in 1..Len(outbox) /\ m \in FromStation(U) /\ outbox # <<>>
    <3>1. Len(outbox) \in Nat /\ sent < Len(outbox)
      BY <1>10, <1>1, LenProperties DEF BrokerAccepts
    <3>2. sent + 1 \in 1..Len(outbox)
      BY <3>1, <1>2
    <3>. QED BY <3>1, <3>2, <1>1, <1>2, ElementOfSeq, EmptySeq
  <2>2. /\ UNCHANGED <<row, queue, sampler, publisher, session>>
        /\ Queued(<<m>>) /\ retained' = IF m.kind = "telemetry" THEN retained ELSE m
        /\ outbox' \in {outbox, Tail(outbox)}
    BY <1>10 DEF BrokerAccepts, tasks, consumerVars
  <2>. HIDE DEF m
  <2>. QED BY <2>1, <2>2, <1>1, <1>3, <1>4, <1>5 DEF PathGoal
<1>11. CASE \E report \in Reports : BridgePublishes(report)
  <2>1. UNCHANGED <<outbox, row, queue, sampler, publisher, session, retained>>
    BY <1>11 DEF BridgePublishes, stationVars, tasks, consumerVars
  <2>2. \E m \in PipelineMessages : Queued(<<m>>)
    BY <1>11, <1>2, BridgeMessage
  <2>. QED BY <2>1, <2>2, <1>1, <1>3, <1>4 DEF PathGoal
<1>12. CASE ConsumerStarts
  <2>1. UNCHANGED <<outbox, row, queue, sampler, publisher, session, retained>>
    BY <1>12 DEF ConsumerStarts, Resubscribe, stationVars, tasks
  <2>2. \/ pending' = pending
        \/ retained # None /\ Queued(<<retained>>)
    BY <1>12 DEF ConsumerStarts, Resubscribe
  <2>. QED BY <2>1, <2>2, <1>1, <1>3, <1>4 DEF PathGoal
<1>13. CASE PersistenceFails \/ ConsumerLost
  BY <1>13, <1>1 DEF PathGoal, PersistenceFails, ConsumerLost, OnlyConsumer, stationVars, tasks
<1>14. CASE Process
  <2>1. UNCHANGED <<outbox, queue, sampler, publisher, session, retained>> /\ pending # <<>>
    BY <1>14 DEF Process, Delivered, OnlyConsumer, stationVars, tasks
  <2>2. pending' \in {pending, Tail(pending)} /\ row' \in {row, RowWith(Head(pending))}
    BY <1>14 DEF Process, Persist, RowAfter
  <2>3. RowWith(Head(pending)) \in Rows(U)
    BY <2>1, <1>2, <1>1, <1>6, RowFacts
  <2>. QED BY <2>1, <2>2, <2>3, <1>1, <1>6 DEF PathGoal
<1>. QED BY <1>7, <1>8, <1>9, <1>10, <1>11, <1>12, <1>13, <1>14 DEF EdgeNext, ConsumerMoves

LEMMA TypesStep == EdgeTypes /\ [EdgeNext]_edgeVars => EdgeTypes'
<1>. SUFFICES ASSUME EdgeTypes, [EdgeNext]_edgeVars PROVE EdgeTypes'
  OBVIOUS
<1>1. /\ Counters /\ TaskTypes(Taken) /\ PathTypes(Taken) /\ session \in {"none", "up", "down"}
      /\ retained \in PresenceMessages \cup {None}
  BY DEF EdgeTypes
<1>2. Len(queue) \in Nat
  BY <1>1, LenProperties DEF TaskTypes
<1>3. /\ Counters' /\ Taken \subseteq Taken'
      /\ StationMoves /\ Sample => NewSamples \subseteq Taken'
  BY <1>1, <1>2, ClockStep
<1>4. PICK U : U = Taken'
  OBVIOUS
<1>5. U \in SUBSET Samples
  BY <1>4 DEF Taken, TakenBy
<1>6. TaskTypes(U) /\ PathTypes(U)
  BY <1>1, <1>3, <1>4, WiderTypes
<1>7. TaskTypes(U)' /\ PathGoal(U)
  <2>1. CASE StationMoves
    <3>1. UNCHANGED <<session, retained, pending, row>> /\ StationAlone
      BY <2>1 DEF StationMoves, brokerVars, consumerVars
    <3>2. outbox \in Seq(FromStation(U))
      BY <1>6 DEF PathTypes
    <3>3. TaskTypes(U)' /\ outbox' \in Seq(FromStation(U))
      BY <3>1, <3>2, <1>1, <1>3, <1>4, <1>6, <2>1, TaskStep
    <3>. QED BY <3>1, <3>3, <1>1, <1>6 DEF PathTypes, PathGoal
  <2>2. CASE EdgeNext /\ ~StationMoves
    <3>1. PathGoal(U) /\ UNCHANGED <<queue, sampler, publisher>>
      BY <2>2, <1>1, <1>5, <1>6, PathStep
    <3>. QED BY <3>1, <1>6 DEF TaskTypes
  <2>3. CASE UNCHANGED edgeVars
    BY <2>3, <1>1, <1>6 DEF edgeVars, stationVars, brokerVars, consumerVars, tasks, TaskTypes,
         PathTypes, PathGoal
  <2>. QED BY <2>1, <2>2, <2>3
<1>8. TaskTypes(Taken)' /\ PathTypes(Taken)'
  BY <1>4, <1>7 DEF TaskTypes, PathTypes, PathGoal
<1>. QED BY <1>3, <1>7, <1>8 DEF EdgeTypes, PathGoal

LEMMA TypesInit == EdgeInit => EdgeTypes
<1>. SUFFICES ASSUME EdgeInit PROVE EdgeTypes
  OBVIOUS
<1>1. Counters
  BY DEF EdgeInit, StationInit, Counters, Never
<1>2. TaskTypes(Taken)
  BY EmptySeq DEF EdgeInit, StationInit, TaskTypes, Idle, AtBit
<1>3. PathTypes(Taken)
  BY EmptySeq DEF EdgeInit, StationInit, PathTypes, Rows, NoRow
<1>. QED BY <1>1, <1>2, <1>3 DEF EdgeInit, EdgeTypes

-----------------------------------------------------------------------------
(* What a step does to the path                                            *)

Still == UNCHANGED <<pending, accepted, stored, row, newest>>

Took(m) ==
    /\ Queued(<<m>>)
    /\ UNCHANGED <<stored, row>>
    /\ newest' = IF Valid(m) /\ m.kind = "telemetry" THEN m.sample ELSE newest

Processed ==
    /\ pending # <<>>
    /\ UNCHANGED <<accepted, newest>>
    /\ \/ /\ Valid(Head(pending))
          /\ stored' = stored \cup {Key(Head(pending))}
          /\ row' = RowWith(Head(pending))
          /\ pending' \in {pending, Tail(pending)}
       \/ ~Valid(Head(pending)) /\ pending' = Tail(pending) /\ UNCHANGED <<stored, row>>

LEMMA PathEffects ==
    ASSUME NEW U, Counters, PathTypes(U), retained \in PresenceMessages \cup {None},
           [EdgeNext]_edgeVars
    PROVE  Still \/ (\E m \in Messages(U) : Took(m)) \/ Processed
<1>1. boot \in Nat /\ connections \in Nat /\ reports \in Nat /\ time \in Nat /\ sent \in Nat
  BY DEF Counters
<1>2. /\ LastWill \in PresenceMessages
      /\ \A m \in PresenceMessages : m \in Messages(U) /\ m.kind # "telemetry"
      /\ \A m \in PipelineMessages : m \in Messages(U) /\ m.kind # "telemetry"
      /\ \A m \in FromStation(U) : m \in Messages(U)
  BY <1>1, MadeMessages, MessageFacts
<1>3. CASE StationMoves \/ PersistenceFails \/ ConsumerLost \/ UNCHANGED edgeVars
  BY <1>3 DEF StationMoves, PersistenceFails, ConsumerLost, OnlyConsumer, edgeVars, brokerVars,
       consumerVars, Still
<1>4. CASE StationConnects \/ BrokerNoticesLoss \/ StationFails
  <2>1. UNCHANGED <<stored, row, newest>> /\ (Queued(<<LastWill>>) \/ UNCHANGED <<pending, accepted>>)
    BY <1>4 DEF StationConnects, BrokerNoticesLoss, StationFails, consumerVars
  <2>. QED BY <2>1, <1>2 DEF Still, Took
<1>5. CASE BrokerAccepts
  <2>. DEFINE m == outbox[sent + 1]
  <2>1. m \in FromStation(U)
    <3>1. outbox \in Seq(FromStation(U)) /\ Len(outbox) \in Nat /\ sent < Len(outbox)
      BY <1>5, LenProperties DEF BrokerAccepts, PathTypes
    <3>2. sent + 1 \in 1..Len(outbox)
      BY <3>1, <1>1
    <3>. QED BY <3>1, <3>2, ElementOfSeq
  <2>2. Took(m)
    BY <1>5 DEF BrokerAccepts, consumerVars, Took
  <2>. QED BY <2>1, <2>2, <1>2
<1>6. CASE \E report \in Reports : BridgePublishes(report)
  <2>1. UNCHANGED <<stored, row, newest>>
    BY <1>6 DEF BridgePublishes, consumerVars
  <2>. QED BY <2>1, <1>6, <1>1, <1>2, BridgeMessage DEF Took
<1>7. CASE ConsumerStarts
  <2>1. /\ UNCHANGED <<stored, row, newest>>
        /\ \/ UNCHANGED <<pending, accepted>>
           \/ retained # None /\ Queued(<<retained>>)
    BY <1>7 DEF ConsumerStarts, Resubscribe
  <2>. QED BY <2>1, <1>2 DEF Still, Took
<1>8. CASE Process
  BY <1>8 DEF Process, Delivered, Persist, InsertEvent, RowAfter, OnlyConsumer, Processed
<1>. QED BY <1>3, <1>4, <1>5, <1>6, <1>7, <1>8 DEF EdgeNext, ConsumerMoves

-----------------------------------------------------------------------------
(* What the broker has taken over is kept                                  *)

KeptInv ==
    /\ AcceptedIsKept
    /\ \A key \in accepted : key[1] = "telemetry" => setting.contract

LEMMA KeptStep ==
    ASSUME EdgeTypes, KeptInv, setting' = setting, [EdgeNext]_edgeVars
    PROVE  KeptInv'
<1>1. PICK U : U = Taken
  OBVIOUS
<1>2. /\ Counters /\ PathTypes(U) /\ retained \in PresenceMessages \cup {None}
      /\ pending \in Seq(Messages(U)) /\ Len(pending) \in Nat
  BY <1>1, LenProperties DEF EdgeTypes, PathTypes
<1>3. CASE Still
  BY <1>3 DEF Still, KeptInv, AcceptedIsKept
<1>4. ASSUME NEW m \in Messages(U), Took(m)
      PROVE  KeptInv'
  <2>1. /\ Len(pending') = Len(pending) + 1 /\ pending'[Len(pending) + 1] = m
        /\ \A i \in 1..Len(pending) : pending'[i] = pending[i]
        /\ accepted' \subseteq accepted \cup {Key(m)}
        /\ accepted' # accepted => Valid(m)
        /\ stored' = stored
    BY <1>2, <1>4, QueuedFacts DEF Took
  <2>2. ASSUME NEW key \in accepted'
        PROVE  key \in stored' \/ \E i \in 1..Len(pending') : Key(pending'[i]) = key
    <3>1. CASE key = Key(m)
      <4>1. Len(pending) + 1 \in 1..Len(pending')
        BY <1>2, <2>1
      <4>. QED BY <4>1, <2>1, <3>1
    <3>2. CASE key \in accepted
      <4>1. 1..Len(pending) \subseteq 1..Len(pending')
        BY <1>2, <2>1
      <4>. QED BY <4>1, <2>1, <3>2 DEF KeptInv, AcceptedIsKept
    <3>. QED BY <2>1, <3>1, <3>2
  <2>3. ASSUME NEW key \in accepted', key[1] = "telemetry"
        PROVE  setting'.contract
    <3>1. CASE key \in accepted
      BY <2>3, <3>1 DEF KeptInv
    <3>2. CASE key = Key(m) /\ Valid(m)
      <4>1. m.kind = "telemetry"
        BY <2>3, <3>2 DEF Key
      <4>. QED BY <4>1, <3>2 DEF Valid
    <3>. QED BY <2>1, <3>1, <3>2
  <2>. QED BY <2>2, <2>3 DEF KeptInv, AcceptedIsKept
<1>5. CASE Processed
  <2>1. /\ pending # <<>> /\ accepted' = accepted
        /\ Head(pending) = pending[1] /\ Len(Tail(pending)) = Len(pending) - 1
        /\ \A i \in 1..(Len(pending) - 1) : Tail(pending)[i] = pending[i + 1]
        /\ pending' \in {pending, Tail(pending)}
    BY <1>2, <1>5, TailFacts DEF Processed
  <2>2. ASSUME NEW key \in accepted
        PROVE  key \in stored' \/ \E i \in 1..Len(pending') : Key(pending'[i]) = key
    <3>1. CASE key \in stored
      BY <1>5, <3>1 DEF Processed
    <3>2. ASSUME NEW i \in 1..Len(pending), Key(pending[i]) = key, i # 1
          PROVE  \E k \in 1..Len(pending') : Key(pending'[k]) = key
      <4>1. CASE pending' = pending
        BY <3>2, <4>1
      <4>2. CASE pending' = Tail(pending)
        <5>1. i - 1 \in 1..(Len(pending) - 1) /\ (i - 1) + 1 = i
          BY <1>2, <3>2
        <5>2. Tail(pending)[i - 1] = pending[i] /\ i - 1 \in 1..Len(Tail(pending))
          BY <2>1, <5>1
        <5>. QED BY <3>2, <4>2, <5>2
      <4>. QED BY <2>1, <4>1, <4>2
    <3>3. CASE Key(pending[1]) = key
      <4>1. CASE Valid(Head(pending))
        BY <1>5, <2>1, <3>3, <4>1 DEF Processed
      <4>2. CASE ~Valid(Head(pending))
        <5>1. pending[1].kind = "telemetry" /\ ~setting.contract
          BY <2>1, <4>2 DEF Valid
        <5>2. key[1] = "telemetry"
          BY <3>3, <5>1 DEF Key
        <5>. QED BY <2>2, <5>1, <5>2 DEF KeptInv
      <4>. QED BY <4>1, <4>2
    <3>. QED BY <3>1, <3>2, <3>3 DEF KeptInv, AcceptedIsKept
  <2>. QED BY <2>1, <2>2 DEF KeptInv, AcceptedIsKept
<1>. QED BY <1>2, <1>3, <1>4, <1>5, PathEffects

-----------------------------------------------------------------------------
(* The record becomes the last heartbeat                                   *)

NoHeartbeatAfter(i) ==
    \A j \in 1..Len(pending) : j > i => pending[j].kind # "telemetry"

NewestIsStored == NoHeartbeatAfter(0) /\ row.telemetry = newest

NewestIsPending ==
    \E i \in 1..Len(pending) : /\ pending[i].kind = "telemetry" /\ pending[i].sample = newest
                              /\ NoHeartbeatAfter(i)

LatestInv == newest # NoSample => setting.contract /\ (NewestIsStored \/ NewestIsPending)

LEMMA LatestStep ==
    ASSUME EdgeTypes, LatestInv, setting' = setting, [EdgeNext]_edgeVars
    PROVE  LatestInv'
<1>1. PICK U : U = Taken
  OBVIOUS
<1>2. /\ Counters /\ PathTypes(U) /\ retained \in PresenceMessages \cup {None}
      /\ pending \in Seq(Messages(U)) /\ Len(pending) \in Nat /\ row \in Rows(U) /\ time \in Nat
      /\ U \in SUBSET Samples
  BY <1>1, LenProperties DEF EdgeTypes, PathTypes, Counters, Taken, TakenBy
<1>3. CASE Still
  BY <1>3 DEF Still, LatestInv, NewestIsStored, NewestIsPending, NoHeartbeatAfter
<1>4. ASSUME NEW m \in Messages(U), Took(m)
      PROVE  LatestInv'
  <2>1. /\ Len(pending') = Len(pending) + 1 /\ pending'[Len(pending) + 1] = m
        /\ \A i \in 1..Len(pending) : pending'[i] = pending[i]
        /\ row' = row /\ newest' = IF Valid(m) /\ m.kind = "telemetry" THEN m.sample ELSE newest
    BY <1>2, <1>4, QueuedFacts DEF Took
  <2>2. \A i \in 1..Len(pending') : i \in 1..Len(pending) \/ i = Len(pending) + 1
    BY <1>2, <2>1
  <2>3. CASE m.kind = "telemetry" /\ Valid(m)
    <3>1. setting.contract
      BY <2>3 DEF Valid
    <3>2. PICK n : n = Len(pending) + 1
      OBVIOUS
    <3>3. n \in 1..Len(pending') /\ pending'[n] = m /\ NoHeartbeatAfter(n)'
      BY <1>2, <2>1, <3>2 DEF NoHeartbeatAfter
    <3>4. NewestIsPending'
      BY <2>1, <2>3, <3>3 DEF NewestIsPending
    <3>. QED BY <3>1, <3>4 DEF LatestInv
  <2>4. CASE m.kind = "telemetry" /\ ~Valid(m)
    BY <2>1, <2>4 DEF Valid, LatestInv
  <2>5. CASE m.kind # "telemetry"
    <3>1. newest' = newest
      BY <2>1, <2>5
    <3>2. ASSUME NEW i \in Nat, NoHeartbeatAfter(i)
          PROVE  NoHeartbeatAfter(i)'
      BY <2>1, <2>2, <2>5, <3>2 DEF NoHeartbeatAfter
    <3>3. NewestIsStored => NewestIsStored'
      BY <2>1, <3>1, <3>2 DEF NewestIsStored
    <3>4. NewestIsPending => NewestIsPending'
      <4>1. 1..Len(pending) \subseteq 1..Len(pending') /\ 1..Len(pending) \subseteq Nat
        BY <1>2, <2>1
      <4>. QED BY <2>1, <3>1, <3>2, <4>1 DEF NewestIsPending
    <3>. QED BY <3>1, <3>3, <3>4 DEF LatestInv
  <2>. QED BY <2>3, <2>4, <2>5
<1>5. CASE Processed
  <2>1. /\ pending # <<>> /\ newest' = newest /\ Len(pending) \in Nat \ {0}
        /\ Head(pending) = pending[1] /\ Head(pending) \in Messages(U)
        /\ Len(Tail(pending)) = Len(pending) - 1
        /\ \A i \in 1..(Len(pending) - 1) : Tail(pending)[i] = pending[i + 1]
        /\ pending' \in {pending, Tail(pending)}
    BY <1>2, <1>5, TailFacts DEF Processed
  <2>2. SUFFICES ASSUME newest # NoSample
                 PROVE  setting.contract /\ (NewestIsStored' \/ NewestIsPending')
    BY <2>1 DEF LatestInv
  <2>3. setting.contract /\ Valid(Head(pending))
    BY <2>2 DEF LatestInv, Valid
  <2>4. /\ row' = RowWith(Head(pending))
        /\ pending[1].kind = "telemetry" => row'.telemetry = pending[1].sample
        /\ pending[1].kind # "telemetry" => row'.telemetry = row.telemetry
    BY <1>2, <1>5, <2>1, <2>3, RowFacts DEF Processed
  <2>5. ASSUME NEW i \in 1..Len(pending), NoHeartbeatAfter(i), pending' = Tail(pending)
        PROVE  NoHeartbeatAfter(i - 1)'
    <3>1. SUFFICES ASSUME NEW j \in 1..Len(pending'), j > i - 1
                   PROVE  pending'[j].kind # "telemetry"
      BY DEF NoHeartbeatAfter
    <3>2. j \in 1..(Len(pending) - 1) /\ j + 1 \in 1..Len(pending) /\ j + 1 > i
      BY <2>1, <2>5, <3>1
    <3>. QED BY <2>1, <2>5, <3>2 DEF NoHeartbeatAfter
  <2>6. CASE NewestIsStored
    <3>1. pending[1].kind # "telemetry" /\ 1 \in 1..Len(pending)
      BY <2>1, <2>6 DEF NewestIsStored, NoHeartbeatAfter
    <3>2. NoHeartbeatAfter(1)
      BY <2>1, <2>6 DEF NewestIsStored, NoHeartbeatAfter
    <3>3. NoHeartbeatAfter(0)'
      <4>1. CASE pending' = pending
        BY <2>6, <4>1 DEF NewestIsStored, NoHeartbeatAfter
      <4>2. CASE pending' = Tail(pending)
        BY <2>5, <3>1, <3>2, <4>2
      <4>. QED BY <2>1, <4>1, <4>2
    <3>. QED BY <2>1, <2>3, <2>4, <2>6, <3>1, <3>3 DEF NewestIsStored
  <2>7. ASSUME NEW i \in 1..Len(pending), pending[i].kind = "telemetry",
               pending[i].sample = newest, NoHeartbeatAfter(i)
        PROVE  NewestIsStored' \/ NewestIsPending'
    <3>1. CASE pending' = pending
      BY <2>1, <2>7, <3>1 DEF NewestIsPending, NoHeartbeatAfter
    <3>2. CASE pending' = Tail(pending) /\ i = 1
      <4>1. NoHeartbeatAfter(0)'
        BY <2>5, <2>7, <3>2
      <4>. QED BY <2>1, <2>4, <2>7, <3>2, <4>1 DEF NewestIsStored
    <3>3. CASE pending' = Tail(pending) /\ i # 1
      <4>1. i - 1 \in 1..(Len(pending) - 1) /\ (i - 1) + 1 = i /\ i - 1 \in 1..Len(pending')
        BY <2>1, <3>3
      <4>2. pending'[i - 1] = pending[i]
        BY <2>1, <3>3, <4>1
      <4>3. NoHeartbeatAfter(i - 1)'
        BY <2>5, <2>7, <3>3
      <4>. QED BY <2>1, <2>7, <4>1, <4>2, <4>3 DEF NewestIsPending
    <3>. QED BY <2>1, <3>1, <3>2, <3>3
  <2>. QED BY <2>2, <2>3, <2>6, <2>7 DEF LatestInv, NewestIsPending
<1>. QED BY <1>2, <1>3, <1>4, <1>5, PathEffects

-----------------------------------------------------------------------------
(* The presence in the record becomes that of the connection               *)

Without(kinds, i) == \A j \in 1..Len(pending) : j > i => pending[j].kind \notin kinds

\* A message of this kind waits, and after it none of the others.
Waits(kind, others) == \E i \in 1..Len(pending) : pending[i].kind = kind /\ Without(others, i)

OfflineIsStored ==
    /\ Without({"telemetry", "online"}, 0)
    /\ row.presence \in Presences /\ row.presence.status = "OFFLINE"
    /\ row.telemetry = None \/ row.telemetry.at <= row.presence.at + setting.skew

OnlineIsStored == Without({"will"}, 0) /\ row.presence \in Presences /\ row.presence.status = "ONLINE"

GoesOffline == OfflineIsStored \/ Waits("will", {"telemetry", "online"})
GoesOnline == OnlineIsStored \/ Waits("online", {"will"})

OnlineToCome == \E i \in 1..Len(outbox) : outbox[i].kind = "online"

PresenceInv ==
    /\ power = "off" => session # "up"
    /\ session = "down" => retained.kind = "will" /\ GoesOffline
    /\ session = "up" => OnlineToCome \/ (retained.kind = "online" /\ GoesOnline)

\* A heartbeat is never later than the clock of the station.
LEMMA HeartbeatIsPast ==
    ASSUME EdgeTypes
    PROVE  \/ row.telemetry = None
           \/ /\ row.telemetry.at \in Nat /\ lastSample \in Nat /\ setting.skew \in Nat
              /\ row.telemetry.at <= lastSample + setting.skew
              /\ row.telemetry.at <= time + setting.skew
<1>1. row.telemetry \in Taken \cup {None}
  BY DEF EdgeTypes, PathTypes, Rows
<1>2. setting.skew \in Nat /\ lastSample <= time /\ time \in Nat
  BY SettingFacts DEF EdgeTypes, Counters
<1>3. CASE row.telemetry \in Taken
  <2>1. /\ row.telemetry.at \in Nat /\ lastSample \in Nat
        /\ row.telemetry.at <= lastSample + setting.skew
    BY <1>3 DEF Taken, TakenBy, Samples
  <2>. QED BY <1>2, <2>1
<1>. QED BY <1>1, <1>3

LEMMA WithoutTook ==
    ASSUME NEW S, pending \in Seq(S), NEW m \in S, Queued(<<m>>), NEW kinds, m.kind \notin kinds,
           NEW i \in Nat, Without(kinds, i)
    PROVE  Without(kinds, i)'
BY QueuedFacts DEF Without

LEMMA WaitsTook ==
    ASSUME NEW S, pending \in Seq(S), NEW m \in S, Queued(<<m>>), NEW kind, NEW others
    PROVE  /\ m.kind \notin others /\ Waits(kind, others) => Waits(kind, others)'
           /\ m.kind = kind => Waits(kind, others)'
<1>1. /\ Len(pending) \in Nat
      /\ Len(pending') = Len(pending) + 1 /\ pending'[Len(pending) + 1] = m
      /\ \A i \in 1..Len(pending) : pending'[i] = pending[i]
  BY QueuedFacts
<1>2. ASSUME m.kind \notin others, NEW i \in 1..Len(pending), pending[i].kind = kind,
             Without(others, i)
      PROVE  Waits(kind, others)'
  <2>1. i \in Nat /\ i \in 1..Len(pending') /\ pending'[i] = pending[i]
    BY <1>1
  <2>2. Without(others, i)'
    BY <1>2, <2>1, WithoutTook
  <2>. QED BY <1>2, <2>1, <2>2 DEF Waits
<1>3. ASSUME m.kind = kind
      PROVE  Waits(kind, others)'
  <2>1. PICK n : n = Len(pending) + 1
    OBVIOUS
  <2>2. n \in 1..Len(pending') /\ pending'[n] = m /\ Without(others, n)'
    BY <1>1, <2>1 DEF Without
  <2>. QED BY <1>3, <2>2 DEF Waits
<1>. QED BY <1>2, <1>3 DEF Waits

LEMMA WithoutTail ==
    ASSUME NEW S, pending \in Seq(S), pending # <<>>, pending' = Tail(pending), NEW kinds,
           NEW i \in 1..Len(pending), Without(kinds, i)
    PROVE  Without(kinds, i - 1)'
<1>1. /\ Len(pending) \in Nat \ {0} /\ Len(pending') = Len(pending) - 1
      /\ \A k \in 1..(Len(pending) - 1) : pending'[k] = pending[k + 1]
  BY TailFacts
<1>2. SUFFICES ASSUME NEW j \in 1..Len(pending'), j > i - 1
               PROVE  pending'[j].kind \notin kinds
  BY DEF Without
<1>3. j \in 1..(Len(pending) - 1) /\ j + 1 \in 1..Len(pending) /\ j + 1 > i
  BY <1>1, <1>2
<1>. QED BY <1>1, <1>3 DEF Without

\* The head is processed: what waits is the head itself, or waits on.
LEMMA WaitsProcessed ==
    ASSUME NEW S, pending \in Seq(S), pending # <<>>, pending' \in {pending, Tail(pending)},
           NEW kind, NEW others
    PROVE  /\ Without(others, 0) => Without(others, 0)' /\ Head(pending).kind \notin others
           /\ Waits(kind, others) => \/ Waits(kind, others)'
                                     \/ Head(pending).kind = kind /\ Without(others, 0)'
<1>1. /\ Len(pending) \in Nat \ {0} /\ Len(Tail(pending)) = Len(pending) - 1
      /\ \A k \in 1..(Len(pending) - 1) : Tail(pending)[k] = pending[k + 1]
      /\ Head(pending) = pending[1]
  BY TailFacts
<1>2. ASSUME Without(others, 0)
      PROVE  Without(others, 0)' /\ Head(pending).kind \notin others
  <2>1. 1 \in 1..Len(pending) /\ Without(others, 1) /\ Head(pending).kind \notin others
    BY <1>1, <1>2 DEF Without
  <2>2. CASE pending' = pending
    BY <1>2, <2>1, <2>2 DEF Without
  <2>3. CASE pending' = Tail(pending)
    <3>1. Without(others, 1 - 1)'
      BY <2>1, <2>3, WithoutTail
    <3>. QED BY <2>1, <3>1
  <2>. QED BY <2>2, <2>3
<1>3. ASSUME NEW i \in 1..Len(pending), pending[i].kind = kind, Without(others, i)
      PROVE  Waits(kind, others)' \/ (Head(pending).kind = kind /\ Without(others, 0)')
  <2>1. CASE pending' = pending
    BY <1>3, <2>1 DEF Waits, Without
  <2>2. CASE pending' = Tail(pending)
    <3>1. Without(others, i - 1)'
      BY <1>3, <2>2, WithoutTail
    <3>2. CASE i = 1
      BY <1>1, <1>3, <3>1, <3>2
    <3>3. CASE i # 1
      <4>1. i - 1 \in 1..(Len(pending) - 1) /\ (i - 1) + 1 = i /\ i - 1 \in 1..Len(pending')
        BY <1>1, <2>2, <3>3
      <4>2. pending'[i - 1] = pending[i]
        BY <1>1, <2>2, <4>1
      <4>. QED BY <1>3, <3>1, <4>1, <4>2 DEF Waits
    <3>. QED BY <3>2, <3>3
  <2>. QED BY <2>1, <2>2
<1>. QED BY <1>2, <1>3 DEF Waits

LEMMA PresenceTook ==
    ASSUME NEW U, pending \in Seq(Messages(U)), NEW m \in Messages(U), Queued(<<m>>),
           UNCHANGED <<row, setting>>
    PROVE  /\ m.kind = "will" => GoesOffline'
           /\ m.kind = "pipeline" /\ GoesOffline => GoesOffline'
           /\ m.kind = "online" => GoesOnline'
           /\ m.kind # "will" /\ GoesOnline => GoesOnline'
<1>1. m.kind = "will" => GoesOffline'
  BY WaitsTook DEF GoesOffline
<1>2. m.kind = "online" => GoesOnline'
  BY WaitsTook DEF GoesOnline
<1>3. ASSUME m.kind = "pipeline", GoesOffline
      PROVE  GoesOffline'
  <2>1. m.kind \notin {"telemetry", "online"}
    BY <1>3
  <2>2. OfflineIsStored => OfflineIsStored'
    BY <2>1, WithoutTook DEF OfflineIsStored
  <2>3. Waits("will", {"telemetry", "online"}) => Waits("will", {"telemetry", "online"})'
    BY <2>1, WaitsTook
  <2>. QED BY <1>3, <2>2, <2>3 DEF GoesOffline
<1>4. ASSUME m.kind # "will", GoesOnline
      PROVE  GoesOnline'
  <2>1. m.kind \notin {"will"}
    BY <1>4
  <2>2. OnlineIsStored => OnlineIsStored'
    BY <2>1, WithoutTook DEF OnlineIsStored
  <2>3. Waits("online", {"will"}) => Waits("online", {"will"})'
    BY <2>1, WaitsTook
  <2>. QED BY <1>4, <2>2, <2>3 DEF GoesOnline
<1>. QED BY <1>1, <1>2, <1>3, <1>4

\* The row after the head of pending, which the two lemmas below need.
HeadIsStored ==
    LET m == Head(pending)
    IN  /\ m.kind \in {"telemetry", "online", "will", "pipeline"}
        /\ pending # <<>> /\ pending' \in {pending, Tail(pending)}
        /\ m.kind = "telemetry" => row'.presence = row.presence
        /\ m.kind # "telemetry" => row'.telemetry = row.telemetry
        /\ m.kind = "pipeline" => row'.presence = row.presence
        /\ m.kind = "online" => row'.presence = [status |-> "ONLINE", at |-> time]
        /\ m.kind = "will" => row'.presence = [status |-> "OFFLINE", at |-> time]

LEMMA ProcessedStores == EdgeTypes /\ Processed => HeadIsStored
<1>. SUFFICES ASSUME EdgeTypes, Processed PROVE HeadIsStored
  OBVIOUS
<1>1. PICK U : U = Taken
  OBVIOUS
<1>2. /\ U \in SUBSET Samples /\ pending \in Seq(Messages(U)) /\ row \in Rows(U) /\ time \in Nat
  BY <1>1 DEF EdgeTypes, PathTypes, Counters, Taken, TakenBy
<1>3. pending # <<>> /\ Head(pending) \in Messages(U)
  BY <1>2, TailFacts DEF Processed
<1>4. Head(pending).kind \in {"telemetry", "online", "will", "pipeline"}
  BY <1>3, MessageFacts
<1>5. CASE Valid(Head(pending))
  <2>1. row' = RowWith(Head(pending)) /\ pending' \in {pending, Tail(pending)}
    BY <1>5 DEF Processed
  <2>. QED BY <1>2, <1>3, <1>4, <2>1, RowFacts DEF HeadIsStored
<1>6. CASE ~Valid(Head(pending))
  <2>1. Head(pending).kind = "telemetry"
    BY <1>6 DEF Valid
  <2>. QED BY <1>3, <1>4, <1>6, <2>1 DEF HeadIsStored, Processed
<1>. QED BY <1>5, <1>6

LEMMA PresenceProcessed ==
    ASSUME EdgeTypes, HeadIsStored, setting' = setting
    PROVE  /\ GoesOffline => GoesOffline'
           /\ GoesOnline => GoesOnline'
<1>1. PICK U : pending \in Seq(Messages(U))
  BY DEF EdgeTypes, PathTypes
<1>2. /\ pending # <<>> /\ pending' \in {pending, Tail(pending)} /\ time \in Nat
      /\ Head(pending).kind \in {"telemetry", "online", "will", "pipeline"}
  BY DEF HeadIsStored, EdgeTypes, Counters
<1>3. \A kind, others :
         /\ Without(others, 0) => Without(others, 0)' /\ Head(pending).kind \notin others
         /\ Waits(kind, others) => \/ Waits(kind, others)'
                                   \/ Head(pending).kind = kind /\ Without(others, 0)'
  BY <1>1, <1>2, WaitsProcessed
<1>4. /\ Head(pending).kind = "will" =>
            /\ row'.presence \in Presences /\ row'.presence.status = "OFFLINE"
            /\ row'.telemetry = None \/ row'.telemetry.at <= row'.presence.at + setting'.skew
      /\ Head(pending).kind = "online" =>
            row'.presence \in Presences /\ row'.presence.status = "ONLINE"
  BY <1>2, HeartbeatIsPast DEF HeadIsStored, Presences
<1>5. ASSUME OfflineIsStored
      PROVE  OfflineIsStored'
  <2>1. Without({"telemetry", "online"}, 0)' /\ Head(pending).kind \in {"will", "pipeline"}
    BY <1>2, <1>3, <1>5 DEF OfflineIsStored
  <2>2. CASE Head(pending).kind = "will"
    BY <1>4, <2>1, <2>2 DEF OfflineIsStored
  <2>3. CASE Head(pending).kind = "pipeline"
    <3>1. row'.presence = row.presence /\ row'.telemetry = row.telemetry
      BY <2>3 DEF HeadIsStored
    <3>. QED BY <1>5, <2>1, <3>1 DEF OfflineIsStored
  <2>. QED BY <2>1, <2>2, <2>3
<1>6. ASSUME OnlineIsStored
      PROVE  OnlineIsStored'
  <2>1. Without({"will"}, 0)' /\ Head(pending).kind \in {"telemetry", "online", "pipeline"}
    BY <1>2, <1>3, <1>6 DEF OnlineIsStored
  <2>2. CASE Head(pending).kind = "online"
    BY <1>4, <2>1, <2>2 DEF OnlineIsStored
  <2>3. CASE Head(pending).kind \in {"telemetry", "pipeline"}
    <3>1. row'.presence = row.presence
      BY <2>3 DEF HeadIsStored
    <3>. QED BY <1>6, <2>1, <3>1 DEF OnlineIsStored
  <2>. QED BY <2>1, <2>2, <2>3
<1>7. GoesOffline => GoesOffline'
  BY <1>3, <1>4, <1>5 DEF GoesOffline, OfflineIsStored
<1>8. GoesOnline => GoesOnline'
  BY <1>3, <1>4, <1>6 DEF GoesOnline, OnlineIsStored
<1>. QED BY <1>7, <1>8

\* A step that leaves record and messages alone.
LEMMA PresenceKept ==
    ASSUME UNCHANGED <<pending, row, setting>>
    PROVE  (GoesOffline => GoesOffline') /\ (GoesOnline => GoesOnline')
BY DEF GoesOffline, GoesOnline, OfflineIsStored, OnlineIsStored, Waits, Without

LEMMA OutboxFacts ==
    ASSUME NEW S, outbox \in Seq(S)
    PROVE  /\ \A m \in S : outbox' = Append(outbox, m) /\ (m.kind = "online" \/ OnlineToCome)
                            => OnlineToCome'
           /\ outbox # <<>> /\ outbox' = Tail(outbox) /\ outbox[1].kind # "online" /\ OnlineToCome
                 => OnlineToCome'
           /\ outbox' = outbox /\ OnlineToCome => OnlineToCome'
<1>1. ASSUME NEW m \in S, outbox' = Append(outbox, m), m.kind = "online" \/ OnlineToCome
      PROVE  OnlineToCome'
  <2>1. /\ Len(outbox') = Len(outbox) + 1 /\ outbox'[Len(outbox) + 1] = m /\ Len(outbox) \in Nat
        /\ \A i \in 1..Len(outbox) : outbox'[i] = outbox[i]
    BY <1>1, AppendFacts
  <2>2. Len(outbox) + 1 \in 1..Len(outbox') /\ \A i \in 1..Len(outbox) : i \in 1..Len(outbox')
    BY <2>1
  <2>. QED BY <1>1, <2>1, <2>2 DEF OnlineToCome
<1>2. ASSUME outbox # <<>>, outbox' = Tail(outbox), outbox[1].kind # "online",
             NEW i \in 1..Len(outbox), outbox[i].kind = "online"
      PROVE  OnlineToCome'
  <2>1. /\ Len(outbox) \in Nat \ {0} /\ Len(outbox') = Len(outbox) - 1
        /\ \A k \in 1..(Len(outbox) - 1) : outbox'[k] = outbox[k + 1]
    BY <1>2, TailFacts
  <2>2. i - 1 \in 1..(Len(outbox) - 1) /\ (i - 1) + 1 = i /\ i - 1 \in 1..Len(outbox')
    BY <1>2, <2>1
  <2>. QED BY <1>2, <2>1, <2>2 DEF OnlineToCome
<1>. QED BY <1>1, <1>2 DEF OnlineToCome

LEMMA PresenceStep ==
    ASSUME EdgeTypes, PresenceInv, setting' = setting, [EdgeNext]_edgeVars
    PROVE  PresenceInv'
<1>1. PICK U : U = Taken
  OBVIOUS
<1>2. /\ Counters /\ PathTypes(U) /\ retained \in PresenceMessages \cup {None}
      /\ pending \in Seq(Messages(U)) /\ outbox \in Seq(FromStation(U))
      /\ boot \in Nat /\ connections \in Nat /\ reports \in Nat /\ time \in Nat /\ sent \in Nat
  BY <1>1 DEF EdgeTypes, PathTypes, Counters
<1>3. /\ Online \in FromStation(U) /\ Online.kind = "online"
      /\ LastWill \in Messages(U) /\ LastWill.kind = "will"
      /\ \A m \in PresenceMessages : m \in Messages(U) /\ m.kind \in {"online", "will"}
      /\ \A m \in PipelineMessages : m \in Messages(U) /\ m.kind = "pipeline"
      /\ \A m \in FromStation(U) : m \in Messages(U) /\ m.kind \in {"telemetry", "online"}
  BY <1>2, MadeMessages, MessageFacts
<1>4. ASSUME Queued(<<LastWill>>), UNCHANGED row
      PROVE  GoesOffline'
  BY <1>2, <1>3, <1>4, PresenceTook
<1>5. ASSUME UNCHANGED <<pending, row, session, retained, outbox>>, power' = "off" => power = "off"
      PROVE  PresenceInv'
  <2>1. OnlineToCome => OnlineToCome'
    BY <1>5 DEF OnlineToCome
  <2>. QED BY <1>5, <2>1, PresenceKept DEF PresenceInv
<1>6. CASE StationMoves
  <2>1. UNCHANGED <<pending, row, session, retained>> /\ StationAlone
    BY <1>6 DEF StationMoves, brokerVars, consumerVars
  <2>2. CASE Boot
    BY <2>1, <2>2, PresenceKept DEF Boot, PresenceInv
  <2>3. CASE Enqueue
    <3>1. TaskTypes(U)
      BY <1>1 DEF EdgeTypes
    <3>2. Telemetry(publisher.sample) \in FromStation(U)
      BY <2>3, <3>1 DEF TaskTypes, Enqueue, Telemetry, FromStation
    <3>3. outbox' = Append(outbox, Telemetry(publisher.sample)) /\ power' = power
      BY <2>3 DEF Enqueue, PublisherStep
    <3>4. OnlineToCome => OnlineToCome'
      BY <1>2, <3>2, <3>3, OutboxFacts
    <3>. QED BY <2>1, <3>3, <3>4, PresenceKept DEF PresenceInv
  <2>4. CASE ~Boot /\ ~Enqueue
    <3>1. outbox' = outbox /\ (power' = "off" => power = "off")
      BY <2>1, <2>4 DEF StationAlone, ClockSynchronized, WifiGotIp, WifiLost, MqttDisconnected, Sample,
         SendSample, Discard, SendAgain, WaitForConnection, Receive, EnqueueRejected, StationTime,
         PublisherStep
    <3>. QED BY <1>5, <2>1, <3>1
  <2>. QED BY <2>2, <2>3, <2>4
<1>7. CASE StationConnects
  <2>1. session' = "up" /\ power' = "running" /\ outbox' = Append(outbox, Online)
    BY <1>7 DEF StationConnects, MqttConnected
  <2>2. OnlineToCome'
    BY <1>2, <1>3, <2>1, OutboxFacts
  <2>. QED BY <2>1, <2>2 DEF PresenceInv
<1>8. CASE BrokerNoticesLoss
  <2>1. session' = "down" /\ retained' = LastWill /\ Queued(<<LastWill>>) /\ row' = row
    BY <1>8 DEF BrokerNoticesLoss, consumerVars
  <2>. QED BY <1>3, <1>4, <2>1 DEF PresenceInv
<1>9. CASE StationFails
  <2>1. row' = row
    BY <1>9 DEF StationFails, consumerVars
  <2>2. CASE session' = "down" /\ retained' = LastWill /\ Queued(<<LastWill>>)
    BY <1>3, <1>4, <2>1, <2>2 DEF PresenceInv
  <2>3. CASE session # "up" /\ UNCHANGED <<session, pending, retained>>
    BY <2>1, <2>3, PresenceKept DEF PresenceInv
  <2>. QED BY <1>9, <2>2, <2>3 DEF StationFails
<1>10. CASE BrokerAccepts
  <2>. DEFINE m == outbox[sent + 1]
  <2>1. Len(outbox) \in Nat /\ sent < Len(outbox) /\ session = "up" /\ outbox # <<>>
    BY <1>2, <1>10, LenProperties, EmptySeq DEF BrokerAccepts
  <2>2. m \in FromStation(U)
    <3>1. sent + 1 \in 1..Len(outbox)
      BY <1>2, <2>1
    <3>. QED BY <1>2, <3>1, ElementOfSeq
  <2>3. /\ session' = "up" /\ power' = "running" /\ row' = row /\ Queued(<<m>>)
        /\ retained' = IF m.kind = "telemetry" THEN retained ELSE m
        /\ outbox' = outbox \/ (outbox' = Tail(outbox) /\ m = outbox[1])
    BY <1>2, <1>10 DEF BrokerAccepts, consumerVars
  <2>. HIDE DEF m
  <2>4. m \in Messages(U) /\ m.kind \in {"telemetry", "online"}
    BY <1>3, <2>2
  <2>5. CASE m.kind = "online"
    <3>1. GoesOnline'
      BY <1>2, <2>3, <2>4, <2>5, PresenceTook
    <3>. QED BY <2>3, <2>5, <3>1 DEF PresenceInv
  <2>6. CASE m.kind = "telemetry"
    <3>1. OnlineToCome => OnlineToCome'
      BY <1>2, <2>1, <2>3, <2>6, OutboxFacts
    <3>2. GoesOnline => GoesOnline'
      BY <1>2, <2>3, <2>4, <2>6, PresenceTook
    <3>. QED BY <2>1, <2>3, <2>6, <3>1, <3>2 DEF PresenceInv
  <2>. QED BY <2>4, <2>5, <2>6
<1>11. CASE \E report \in Reports : BridgePublishes(report)
  <2>1. UNCHANGED <<row, session, retained, outbox, power>>
    BY <1>11 DEF BridgePublishes, stationVars, consumerVars
  <2>2. PICK m \in PipelineMessages : Queued(<<m>>)
    BY <1>2, <1>11, BridgeMessage
  <2>3. m \in Messages(U) /\ m.kind = "pipeline"
    BY <1>3
  <2>4. (GoesOffline => GoesOffline') /\ (GoesOnline => GoesOnline')
    BY <1>2, <2>1, <2>2, <2>3, PresenceTook
  <2>5. OnlineToCome => OnlineToCome'
    BY <2>1 DEF OnlineToCome
  <2>. QED BY <2>1, <2>4, <2>5 DEF PresenceInv
<1>12. CASE ConsumerStarts
  <2>1. UNCHANGED <<row, session, retained, outbox, power>>
    BY <1>12 DEF ConsumerStarts, Resubscribe, stationVars
  <2>2. CASE pending' = pending
    BY <1>5, <2>1, <2>2
  <2>3. CASE retained # None /\ Queued(<<retained>>)
    <3>1. retained \in Messages(U) /\ retained.kind \in {"online", "will"}
      BY <1>2, <1>3, <2>3
    <3>2. /\ retained.kind = "will" => GoesOffline'
          /\ retained.kind = "online" => GoesOnline'
      BY <1>2, <2>1, <2>3, <3>1, PresenceTook
    <3>3. OnlineToCome => OnlineToCome'
      BY <2>1 DEF OnlineToCome
    <3>. QED BY <2>1, <3>2, <3>3 DEF PresenceInv
  <2>. QED BY <1>12, <2>2, <2>3 DEF ConsumerStarts, Resubscribe
<1>13. CASE Process
  <2>1. UNCHANGED <<session, retained, outbox, power>>
    BY <1>13 DEF Process, OnlyConsumer, stationVars
  <2>2. Processed
    BY <1>13 DEF Process, Delivered, Persist, InsertEvent, RowAfter, OnlyConsumer, Processed
  <2>3. (GoesOffline => GoesOffline') /\ (GoesOnline => GoesOnline')
    BY <2>2, ProcessedStores, PresenceProcessed
  <2>4. OnlineToCome => OnlineToCome'
    BY <2>1 DEF OnlineToCome
  <2>. QED BY <2>1, <2>3, <2>4 DEF PresenceInv
<1>14. CASE PersistenceFails \/ ConsumerLost
  BY <1>5, <1>14 DEF PersistenceFails, ConsumerLost, OnlyConsumer, stationVars
<1>15. CASE UNCHANGED edgeVars
  BY <1>5, <1>15 DEF edgeVars, stationVars, brokerVars, consumerVars
<1>. QED BY <1>6, <1>7, <1>8, <1>9, <1>10, <1>11, <1>12, <1>13, <1>14, <1>15 DEF EdgeNext, ConsumerMoves

-----------------------------------------------------------------------------
(* The theorems                                                            *)

EdgeInv == EdgeTypes /\ KeptInv /\ LatestInv /\ PresenceInv

LEMMA EdgeInvHolds == EdgeSpec => []EdgeInv
<1>1. EdgeInit => EdgeInv
  <2>. SUFFICES ASSUME EdgeInit PROVE KeptInv /\ LatestInv /\ PresenceInv
    BY TypesInit DEF EdgeInv
  <2>. QED BY DEF EdgeInit, StationInit, KeptInv, AcceptedIsKept, LatestInv, PresenceInv
<1>2. EdgeInv /\ [EdgeNext]_edgeVars => EdgeInv'
  <2>. SUFFICES ASSUME EdgeInv, [EdgeNext]_edgeVars PROVE EdgeInv'
    OBVIOUS
  <2>1. EdgeTypes /\ KeptInv /\ LatestInv /\ PresenceInv
    BY DEF EdgeInv
  <2>2. EdgeTypes'
    BY <2>1, TypesStep
  <2>3. setting' = setting
    <3>1. Counters /\ Len(queue) \in Nat
      BY <2>1, LenProperties DEF EdgeTypes, TaskTypes
    <3>. QED BY <3>1, ClockStep
  <2>. QED BY <2>1, <2>2, <2>3, KeptStep, LatestStep, PresenceStep DEF EdgeInv
<1>. QED BY <1>1, <1>2, PTL DEF EdgeSpec

\* A valid message the broker has taken over is waiting or stored, whatever
\* the consumer does: the acknowledgement follows the commit.
THEOREM AcceptedCorrect == EdgeSpec => []AcceptedIsKept
<1>1. EdgeInv => AcceptedIsKept
  BY DEF EdgeInv, KeptInv
<1>. QED BY <1>1, EdgeInvHolds, PTL

\* Once everything is delivered the record shows the last heartbeat, however
\* often those before it were delivered again.
THEOREM LatestCorrect == EdgeSpec => []RecordIsLatest
<1>1. EdgeInv => RecordIsLatest
  <2>. SUFFICES ASSUME EdgeInv, pending = <<>>, newest # NoSample
                PROVE  row.telemetry = newest
    BY DEF RecordIsLatest
  <2>1. Len(pending) = 0
    OBVIOUS
  <2>2. ~NewestIsPending
    BY <2>1 DEF NewestIsPending
  <2>. QED BY <2>2 DEF EdgeInv, LatestInv, NewestIsStored
<1>. QED BY <1>1, EdgeInvHolds, PTL

LEMMA PresenceOfInv == EdgeInv => PresenceIsTrue
<1>. SUFFICES ASSUME EdgeInv, Settled
              PROVE  /\ session = "down" =>
                          \/ Reported = "OFFLINE"
                          \/ /\ row.presence.status = "OFFLINE"
                             /\ row.telemetry.at - row.presence.at \in 1..setting.skew
                     /\ session = "up" => Reported # "OFFLINE"
  BY DEF PresenceIsTrue
<1>1. \A kind, others : ~Waits(kind, others)
  <2>1. Len(pending) = 0
    BY DEF Settled
  <2>. QED BY <2>1 DEF Waits
<1>2. ~OnlineToCome
  <2>1. Len(outbox) = 0
    BY DEF Settled
  <2>. QED BY <2>1 DEF OnlineToCome
<1>3. ASSUME session = "down"
      PROVE  \/ Reported = "OFFLINE"
             \/ /\ row.presence.status = "OFFLINE"
                /\ row.telemetry.at - row.presence.at \in 1..setting.skew
  <2>1. OfflineIsStored
    BY <1>1, <1>3 DEF EdgeInv, PresenceInv, GoesOffline
  <2>2. row.presence # None /\ row.presence.at \in Nat
    BY <2>1 DEF OfflineIsStored, Presences, None
  <2>3. CASE row.telemetry = None \/ row.presence.at >= row.telemetry.at
    BY <2>1, <2>2, <2>3 DEF Reported, Health, OfflineIsStored
  <2>4. CASE row.telemetry # None /\ ~(row.presence.at >= row.telemetry.at)
    <3>1. row.telemetry.at \in Nat /\ setting.skew \in Nat
      BY <2>4, HeartbeatIsPast DEF EdgeInv
    <3>2. row.telemetry.at <= row.presence.at + setting.skew
      BY <2>1, <2>4 DEF OfflineIsStored
    <3>. QED BY <2>1, <2>2, <2>4, <3>1, <3>2 DEF OfflineIsStored
  <2>. QED BY <2>3, <2>4
<1>4. ASSUME session = "up"
      PROVE  Reported # "OFFLINE"
  <2>1. row.presence.status = "ONLINE"
    BY <1>1, <1>2, <1>4 DEF EdgeInv, PresenceInv, GoesOnline, OnlineIsStored
  <2>. QED BY <2>1 DEF Reported, Health
<1>. QED BY <1>3, <1>4

LEMMA RecencyOfInv == EdgeInv => HealthyIsRecent
<1>. SUFFICES ASSUME EdgeInv, Reported = "HEALTHY"
              PROVE  lastSample # Never /\ time - lastSample <= StaleAfter + setting.skew
  BY DEF HealthyIsRecent
<1>1. row.telemetry # None /\ ~Stale(time - row.telemetry.at, StaleAfter)
  BY DEF Reported, Health
<1>2. /\ row.telemetry.at \in Nat /\ lastSample \in Nat /\ setting.skew \in Nat
      /\ row.telemetry.at <= lastSample + setting.skew
  BY <1>1, HeartbeatIsPast DEF EdgeInv
<1>3. time \in Nat /\ StaleAfter \in Nat
  BY HealthPolicyAssumption DEF EdgeInv, EdgeTypes, Counters
<1>4. \A t, at, last, skew, limit \in Nat :
         at <= last + skew /\ ~(t - at > limit) => t - last <= limit + skew
  OBVIOUS
<1>5. ~(time - row.telemetry.at > StaleAfter)
  BY <1>1 DEF Stale
<1>. QED BY <1>2, <1>3, <1>4, <1>5 DEF Never

\* What GET /stations says is true, for any clock of the station: once all is
\* delivered, OFFLINE only of a station the broker has lost, and of each of those but
\* one that stamped its last heartbeat after the receipt of the loss, by as much as
\* its clock is ahead or less; and HEALTHY only of one that samples.
THEOREM HealthCorrect == EdgeSpec => []ReportedHealthIsTrue
<1>1. EdgeInv => ReportedHealthIsTrue
  BY PresenceOfInv, RecencyOfInv DEF ReportedHealthIsTrue
<1>. QED BY <1>1, EdgeInvHolds, PTL
=============================================================================
