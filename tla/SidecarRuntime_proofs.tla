----------------------- MODULE SidecarRuntime_proofs ------------------------
(***************************************************************************)
(* Proofs about SidecarRuntime, for every value of its constants: the      *)
(* types, the account of frames, the agreement of health and connection,   *)
(* the order in which frames are taken, and the stream without gaps.       *)
(***************************************************************************)
EXTENDS SidecarRuntime, SequenceTheorems, FiniteSetTheorems, WellFoundedInduction, TLAPS

-----------------------------------------------------------------------------
(* Lemmas about the operators                                              *)

\* The messages one publish() hands out are consecutive numbers.
LEMMA RunProperties ==
    ASSUME NEW first \in Nat, NEW count \in Nat
    PROVE  /\ Run(first + 1, count) \in Seq(Nat)
           /\ Len(Run(first + 1, count)) = count
           /\ \A i \in 1..count : Run(first + 1, count)[i] = first + i
BY SeqDef, LenProperties DEF Run

\* publish() keeps the types, whatever number of messages it is given.
LEMMA PublishKeepsTypes ==
    ASSUME NEW k \in Nat, Publish(k), StreamTypeOK, ConstantsAssumption
    PROVE  StreamTypeOK'
<1>. USE DEF StreamTypeOK, Publish
<1>1. SubscriberMaxsize \in Nat
  BY DEF ConstantsAssumption
<1>2. ASSUME NEW s \in registered
      PROVE  /\ outbox[s] \o Run(published + 1, Least(k, Room(s))) \in Seq(Nat)
             /\ Len(outbox[s] \o Run(published + 1, Least(k, Room(s)))) <= SubscriberMaxsize
  <2>1. s \in Subscribers /\ outbox[s] \in Seq(Nat) /\ Len(outbox[s]) \in Nat
    BY LenProperties
  <2>2. Room(s) \in Nat /\ Least(k, Room(s)) \in Nat /\ Least(k, Room(s)) <= Room(s)
    BY <1>1, <2>1 DEF Room, Least
  <2>. DEFINE run == Run(published + 1, Least(k, Room(s)))
  <2>3. run \in Seq(Nat) /\ Len(run) = Least(k, Room(s))
    BY <2>2, RunProperties
  <2>4. outbox[s] \o run \in Seq(Nat) /\ Len(outbox[s] \o run) = Len(outbox[s]) + Len(run)
    BY <2>1, <2>3, ConcatProperties
  <2>. QED BY <1>1, <2>1, <2>2, <2>3, <2>4 DEF Room
<1>3. outbox' \in [Subscribers -> Seq(Nat)]
  BY <1>2
<1>4. \A s \in Subscribers : Len(outbox'[s]) <= SubscriberMaxsize
  BY <1>2
<1>. QED BY <1>3, <1>4

\* Frames are stored as they come in.
LEMMA EnqueueKeepsTypes ==
    ASSUME NEW f \in Frame, Enqueue(f), TypeOK, ConstantsAssumption
    PROVE  /\ queue' \in Seq(Frame) /\ Len(queue') <= QueueMaxsize
           /\ health' \in {"CONNECTED", "DEGRADED", "DISCONNECTED"}
           /\ dropped' \in Nat
<1>1. QueueMaxsize \in Nat
  BY DEF ConstantsAssumption
<1>2. queue \in Seq(Frame) /\ Len(queue) \in Nat /\ Len(queue) <= QueueMaxsize
  BY LenProperties DEF TypeOK
<1>3. dropped \in Nat /\ health \in {"CONNECTED", "DEGRADED", "DISCONNECTED"}
  BY DEF TypeOK
<1>4. CASE Len(queue) < QueueMaxsize
  <2>1. queue' = Append(queue, f) /\ UNCHANGED <<health, dropped>>
    BY <1>1, <1>2, <1>4 DEF Enqueue
  <2>2. Append(queue, f) \in Seq(Frame) /\ Len(Append(queue, f)) = Len(queue) + 1
    BY <1>2, AppendProperties
  <2>. QED BY <1>1, <1>2, <1>3, <1>4, <2>1, <2>2
<1>5. CASE Len(queue) >= QueueMaxsize
  BY <1>1, <1>2, <1>3, <1>5 DEF Enqueue
<1>. QED BY <1>1, <1>2, <1>4, <1>5

\* The frame that is enqueued carries the next number.
LEMMA NextFrame ==
    ASSUME TypeOK, ReceiveLine
    PROVE  \E f \in Frame : Enqueue(f) /\ f.n = received + 1
<1>1. received \in Nat /\ MaxFrames \in Nat /\ received < MaxFrames
  BY ConstantsAssumption DEF TypeOK, ReceiveLine, ConstantsAssumption
<1>2. PICK hex \in Aircraft, at \in Times, shape \in Shapes :
        Enqueue([n |-> received + 1, hex |-> hex, at |-> at, shape |-> shape])
  BY DEF ReceiveLine
<1>. DEFINE f == [n |-> received + 1, hex |-> hex, at |-> at, shape |-> shape]
<1>3. received + 1 \in 1..MaxFrames
  BY <1>1
<1>4. f \in Frame /\ f.n = received + 1
  BY <1>3 DEF Frame
<1>5. Enqueue(f)
  BY <1>2
<1>. HIDE DEF f
<1>. QED BY <1>4, <1>5

\* The merged states stay states.
LEMMA MergeKeepsTypes ==
    ASSUME NEW f \in Frame, states \in [Aircraft -> States], ConstantsAssumption
    PROVE  WithinLimit([states EXCEPT ![f.hex] = MergeState(@, f)]) \in [Aircraft -> States]
<1>1. MergeState(states[f.hex], f) \in States
  BY DEF MergeState, StateOf, States, Frame, Fields, AllFields, ConstantsAssumption
<1>2. NoState \in States
  BY DEF NoState, States
<1>. QED BY <1>1, <1>2 DEF WithinLimit

-----------------------------------------------------------------------------
(* Type correctness                                                        *)

LEMMA TypeStep == TypeOK /\ [Next]_vars => TypeOK'
<1>. SUFFICES ASSUME TypeOK, [Next]_vars PROVE TypeOK'
  OBVIOUS
<1>. USE ConstantsAssumption
<1>. USE DEF TypeOK, metrics, frameCounts, linkCounts
<1>1. CASE Connect
  <2>1. StreamTypeOK'
    BY <1>1, PublishKeepsTypes DEF Connect
  <2>. QED BY <1>1, <2>1 DEF Connect, processorVars, stopVars, ConstantsAssumption
<1>2. CASE ConnectFails
  <2>1. StreamTypeOK'
    BY <1>2, PublishKeepsTypes DEF ConnectFails, ReportDisconnected
  <2>. QED BY <1>2, <2>1 DEF ConnectFails, ReportDisconnected, processorVars, stopVars
<1>3. CASE ReceiveLine
  <2>1. PICK f \in Frame : Enqueue(f) /\ f.n = received + 1
    BY <1>3, NextFrame
  <2>2. /\ queue' \in Seq(Frame) /\ Len(queue') <= QueueMaxsize
        /\ health' \in {"CONNECTED", "DEGRADED", "DISCONNECTED"}
        /\ dropped' \in Nat
    BY <2>1, EnqueueKeepsTypes
  <2>3. received' \in 0..MaxFrames
    BY <1>3 DEF ReceiveLine, ConstantsAssumption
  <2>. QED BY <1>3, <2>2, <2>3
       DEF ReceiveLine, readerVars, processorVars, streamVars, stopVars, StreamTypeOK
<1>4. CASE OversizedLine
  BY <1>4 DEF OversizedLine, readerVars, processorVars, streamVars, stopVars, StreamTypeOK, ConstantsAssumption
<1>5. CASE SourceCloses
  BY <1>5 DEF SourceCloses, processorVars, streamVars, stopVars, StreamTypeOK
<1>6. CASE FinishClose
  <2>1. StreamTypeOK'
    BY <1>6, PublishKeepsTypes DEF FinishClose, ReportDisconnected
  <2>. QED BY <1>6, <2>1 DEF FinishClose, ReportDisconnected, processorVars, stopVars
<1>7. CASE ClosingRaises
  BY <1>7 DEF ClosingRaises, processorVars, streamVars, stopVars, StreamTypeOK
<1>8. CASE BackoffEnds
  BY <1>8 DEF BackoffEnds, NextDelay, Least, processorVars, streamVars, stopVars, StreamTypeOK, ConstantsAssumption
<1>9. CASE ReaderCancelled
  <2>1. StreamTypeOK'
    BY <1>9, PublishKeepsTypes DEF ReaderCancelled, ReportDisconnected, streamVars, StreamTypeOK
  <2>. QED BY <1>9, <2>1 DEF ReaderCancelled, ReportDisconnected, processorVars, stopVars
<1>10. CASE ProcessLine
  <2>. DEFINE f == Head(queue)
  <2>1. f \in Frame /\ f.n \in Nat /\ f.hex \in Aircraft
        /\ queue' \in Seq(Frame) /\ Len(queue') <= QueueMaxsize
    <3>1. queue # <<>> /\ queue \in Seq(Frame) /\ queue' = Tail(queue)
      BY <1>10 DEF ProcessLine
    <3>2. f \in Frame /\ Tail(queue) \in Seq(Frame) /\ Len(Tail(queue)) = Len(queue) - 1
      BY <3>1, HeadTailProperties
    <3>3. QueueMaxsize \in Nat /\ Len(queue) \in Nat
      BY <3>1, LenProperties DEF ConstantsAssumption
    <3>4. f.n \in Nat /\ f.hex \in Aircraft
      BY <3>2 DEF Frame
    <3>. QED BY <3>1, <3>2, <3>3, <3>4
  <2>2. CASE RejectFrame(f)
    BY <1>10, <2>1, <2>2
       DEF ProcessLine, RejectFrame, readerVars, streamVars, stopVars, StreamTypeOK
  <2>. DEFINE merged == WithinLimit([states EXCEPT ![f.hex] = MergeState(@, f)])
  <2>5. merged \in [Aircraft -> States]
    BY <2>1, MergeKeepsTypes
  <2>6. taken' = f.n
    BY <1>10 DEF ProcessLine
  <2>. HIDE DEF f, merged
  <2>3. CASE ValidationRaises(f)
    <3>1. states' = merged /\ processor' = "failed"
      BY <2>3 DEF ValidationRaises, merged
    <3>2. /\ parsed' \in Nat /\ lost' \in Nat /\ UNCHANGED <<failures, evaluated, health>>
          /\ StreamTypeOK'
      BY <2>3 DEF ValidationRaises, streamVars, StreamTypeOK
    <3>. QED
      BY <1>10, <2>1, <2>5, <2>6, <3>1, <3>2 DEF ProcessLine, readerVars, stopVars
  <2>4. CASE EvaluateFrame(f)
    <3>1. StreamTypeOK'
      BY <2>4, PublishKeepsTypes DEF EvaluateFrame, ConstantsAssumption
    <3>2. states' = merged
      BY <2>4 DEF EvaluateFrame, merged
    <3>3. /\ health' \in {"CONNECTED", "DEGRADED", "DISCONNECTED"}
          /\ parsed' \in Nat /\ evaluated' \in Nat /\ lost' \in Nat /\ failures' \in Nat
          /\ processor' \in {"running", "failed", "ended"}
      BY <2>4 DEF EvaluateFrame, HealthAfterEvaluation
    <3>. QED
      BY <1>10, <2>1, <2>5, <2>6, <3>1, <3>2, <3>3
         DEF ProcessLine, readerVars, stopVars
  <2>. QED BY <1>10, <2>2, <2>3, <2>4 DEF ProcessLine, f
<1>11. CASE ProcessorCancelled
  BY <1>11 DEF ProcessorCancelled, readerVars, streamVars, stopVars, StreamTypeOK
<1>12. CASE Stop
  BY <1>12 DEF Stop, readerVars, processorVars, streamVars, StreamTypeOK
<1>13. CASE StopReturns
  BY <1>13 DEF StopReturns, readerVars, processorVars, streamVars, StreamTypeOK
<1>14. ASSUME NEW s \in Subscribers, HandlerStep(s)
       PROVE  TypeOK'
  <2>. USE DEF StreamTypeOK
  <2>1. outbox[s] \in Seq(Nat)
    OBVIOUS
  <2>2. CASE Subscribe(s)
    BY <2>2, EmptySeq DEF Subscribe, readerVars, processorVars, stopVars, ConstantsAssumption
  <2>3. CASE SendMessage(s)
    <3>1. outbox[s] # <<>> /\ Len(outbox[s]) \in Nat /\ SubscriberMaxsize \in Nat
      BY <2>1, <2>3, LenProperties DEF SendMessage, ConstantsAssumption
    <3>2. /\ Head(outbox[s]) \in Nat
          /\ Tail(outbox[s]) \in Seq(Nat) /\ Len(Tail(outbox[s])) = Len(outbox[s]) - 1
      BY <2>1, <3>1, HeadTailProperties
    <3>3. Len(Tail(outbox[s])) <= SubscriberMaxsize
      BY <3>1, <3>2
    <3>4. StreamTypeOK'
      BY <2>3, <3>2, <3>3 DEF SendMessage
    <3>. QED BY <2>3, <3>4 DEF SendMessage, readerVars, processorVars, stopVars
  <2>4. CASE ClientLeaves(s)
    BY <2>4 DEF ClientLeaves, readerVars, processorVars, stopVars
  <2>5. CASE HandlerEnds(s)
    BY <2>5, EmptySeq DEF HandlerEnds, readerVars, processorVars, stopVars, ConstantsAssumption
  <2>. QED BY <1>14, <2>2, <2>3, <2>4, <2>5 DEF HandlerStep
<1>15. CASE UNCHANGED vars
  BY <1>15 DEF vars, readerVars, processorVars, streamVars, stopVars, StreamTypeOK
<1>. QED
  BY <1>1, <1>2, <1>3, <1>4, <1>5, <1>6, <1>7, <1>8, <1>9, <1>10, <1>11, <1>12, <1>13,
     <1>14, <1>15 DEF Next, ReaderStep

\* Type correctness, with the bounds of the processing queue and of the
\* subscriber queues (service.py enqueue, publish).
THEOREM TypeCorrect == Spec => []TypeOK
<1>1. Init => TypeOK
  <2>. SUFFICES ASSUME Init PROVE TypeOK
    OBVIOUS
  <2>1. NoState \in States
    BY DEF NoState, States
  <2>2. states \in [Aircraft -> States]
    BY <2>1 DEF Init
  <2>3. /\ {QueueMaxsize, SubscriberMaxsize, DelayCap, MaxFrames} \subseteq Nat
        /\ 1 <= DelayCap
    BY ConstantsAssumption DEF ConstantsAssumption
  <2>4. StreamTypeOK
    BY <2>3, EmptySeq DEF Init, StreamTypeOK
  <2>5. queue \in Seq(Frame) /\ Len(queue) <= QueueMaxsize
    BY <2>3, EmptySeq DEF Init
  <2>6. delay \in 1..DelayCap /\ received \in 0..MaxFrames
    BY <2>3 DEF Init
  <2>7. TypeOK!1 /\ TypeOK!2 /\ TypeOK!3 /\ TypeOK!4 /\ TypeOK!5 /\ TypeOK!6
    BY DEF Init
  <2>. QED BY <2>2, <2>4, <2>5, <2>6, <2>7 DEF Init, TypeOK
<1>. QED BY <1>1, TypeStep, PTL DEF Spec

-----------------------------------------------------------------------------
(* Safety: each of the following invariants is inductive given the types   *)

\* What every step does to the account of frames, to the connection and its
\* reported health, and to the order of the queue.
LEMMA QueueStep ==
    ASSUME TypeOK, queue # <<>>
    PROVE  /\ Head(queue) \in Frame /\ Head(queue) = queue[1]
           /\ Len(queue) \in Nat \ {0} /\ Len(Tail(queue)) = Len(queue) - 1
           /\ \A i \in 1..Len(Tail(queue)) : Tail(queue)[i] = queue[i + 1]
<1>1. queue \in Seq(Frame)
  BY DEF TypeOK
<1>2. Len(queue) \in Nat \ {0}
  BY <1>1, LenProperties, EmptySeq
<1>3. Head(queue) \in Frame /\ Len(Tail(queue)) = Len(queue) - 1
  BY <1>1, HeadTailProperties
<1>4. Head(queue) = queue[1]
  BY <1>1
<1>5. \A i \in 1..Len(Tail(queue)) : Tail(queue)[i] = queue[i + 1]
  BY <1>1, HeadTailProperties
<1>. QED BY <1>2, <1>3, <1>4, <1>5

LEMMA AccountStep == TypeOK /\ FramesAccounted /\ [Next]_vars => FramesAccounted'
<1>. SUFFICES ASSUME TypeOK, FramesAccounted, [Next]_vars PROVE FramesAccounted'
  OBVIOUS
<1>0. /\ received \in Nat /\ failures \in Nat /\ parsed \in Nat /\ evaluated \in Nat
      /\ dropped \in Nat /\ lost \in Nat /\ queue \in Seq(Frame) /\ Len(queue) \in Nat
  BY ConstantsAssumption, LenProperties DEF TypeOK, ConstantsAssumption
<1>. USE DEF FramesAccounted
<1>1. CASE UNCHANGED <<frameCounts, queue, processor, lost>>
  BY <1>1 DEF frameCounts
<1>2. CASE ReceiveLine
  <2>1. PICK f \in Frame : Enqueue(f)
    BY <1>2, NextFrame
  <2>2. /\ received' = received + 1
        /\ UNCHANGED <<failures, parsed, evaluated, processor, lost>>
    BY <1>2 DEF ReceiveLine, processorVars
  <2>3. dropped' + Len(queue') = dropped + Len(queue) + 1
    <3>1. Len(Append(queue, f)) = Len(queue) + 1
      BY <1>0, <2>1, AppendProperties
    <3>. QED BY <1>0, <2>1, <3>1 DEF Enqueue
  <2>4. dropped' \in Nat /\ Len(queue') \in Nat
    <3>1. Len(Append(queue, f)) = Len(queue) + 1
      BY <1>0, <2>1, AppendProperties
    <3>. QED BY <1>0, <2>1, <3>1 DEF Enqueue
  <2>5. received' = failures' + evaluated' + dropped' + Len(queue') + lost'
    BY <1>0, <2>2, <2>3, <2>4
  <2>. QED BY <1>0, <2>2, <2>5
<1>3. CASE OversizedLine
  BY <1>0, <1>3 DEF OversizedLine, processorVars
<1>4. CASE ProcessLine
  <2>1. queue # <<>> /\ processor = "running" /\ queue' = Tail(queue)
        /\ UNCHANGED <<received, dropped>>
    BY <1>4 DEF ProcessLine
  <2>2. Len(queue') = Len(queue) - 1 /\ lost = 0
    BY <2>1, QueueStep
  <2>3. PICK f : RejectFrame(f) \/ ValidationRaises(f) \/ EvaluateFrame(f)
    BY <1>4 DEF ProcessLine
  <2>4. \/ /\ failures' = failures + 1 /\ UNCHANGED <<parsed, evaluated, lost>>
        \/ /\ lost' = lost + 1 /\ parsed' = parsed + 1 /\ processor' = "failed"
           /\ UNCHANGED <<failures, evaluated>>
        \/ /\ parsed' = parsed + 1 /\ evaluated' = evaluated + 1
           /\ UNCHANGED <<failures, lost>>
    BY <2>3 DEF RejectFrame, ValidationRaises, EvaluateFrame
  <2>5. received' = failures' + evaluated' + dropped' + Len(queue') + lost'
    BY <1>0, <2>1, <2>2, <2>4
  <2>6. parsed' = evaluated' + lost' /\ (lost' = 0 \/ (lost' = 1 /\ processor' = "failed"))
    BY <1>0, <2>1, <2>2, <2>4
  <2>. QED BY <2>5, <2>6
<1>5. CASE ProcessorCancelled
  BY <1>5 DEF ProcessorCancelled, metrics, frameCounts
<1>. QED
  BY <1>1, <1>2, <1>3, <1>4, <1>5
     DEF Next, ReaderStep, HandlerStep, Connect, ConnectFails, SourceCloses, FinishClose,
         ClosingRaises, BackoffEnds, ReaderCancelled, Stop, StopReturns,
         Subscribe, SendMessage, ClientLeaves, HandlerEnds, vars, metrics, frameCounts,
         processorVars

\* Every frame read is counted as rejected, evaluated or dropped, or still
\* queued, but for the one whose exception ended the processor.
THEOREM AccountCorrect == Spec => []FramesAccounted
<1>1. Init => FramesAccounted
  BY EmptySeq DEF Init, FramesAccounted
<1>. QED BY <1>1, AccountStep, TypeCorrect, PTL DEF Spec

LEMMA HealthStep ==
    TypeOK /\ HealthMatchesConnection /\ [Next]_vars => HealthMatchesConnection'
<1>. SUFFICES ASSUME TypeOK, HealthMatchesConnection, [Next]_vars
              PROVE  HealthMatchesConnection'
  OBVIOUS
<1>. USE DEF HealthMatchesConnection
<1>0. connectionState \in {0, 1}
  BY DEF TypeOK
<1>1. CASE UNCHANGED <<reader, connectionState, health>>
  BY <1>1
<1>2. CASE Connect \/ ConnectFails \/ FinishClose \/ ClosingRaises \/ SourceCloses
           \/ BackoffEnds \/ ReaderCancelled
  BY <1>0, <1>2 DEF Connect, ConnectFails, FinishClose, ClosingRaises, SourceCloses,
                    BackoffEnds, ReaderCancelled, ReportDisconnected
<1>3. CASE ReceiveLine \/ OversizedLine
  <2>1. reader = "reading" /\ UNCHANGED <<reader, connectionState>>
    BY <1>3 DEF ReceiveLine, OversizedLine, readerVars
  <2>2. health' = health \/ health' = "DEGRADED"
    BY <1>3 DEF ReceiveLine, OversizedLine, Enqueue
  <2>. QED BY <2>1, <2>2
<1>4. CASE ProcessLine
  <2>1. UNCHANGED <<reader, connectionState>>
    BY <1>4 DEF ProcessLine, readerVars
  <2>2. health' = health \/ health' = HealthAfterEvaluation
    BY <1>4 DEF ProcessLine, RejectFrame, ValidationRaises, EvaluateFrame
  <2>. QED BY <1>0, <2>1, <2>2 DEF HealthAfterEvaluation
<1>. QED
  BY <1>1, <1>2, <1>3, <1>4
     DEF Next, ReaderStep, HandlerStep, ProcessorCancelled, Stop, StopReturns,
         Subscribe, SendMessage, ClientLeaves, HandlerEnds, vars, readerVars

\* The health report is DISCONNECTED exactly while connection_state is 0.
THEOREM HealthCorrect == Spec => []HealthMatchesConnection
<1>1. Init => HealthMatchesConnection
  BY DEF Init, HealthMatchesConnection
<1>. QED BY <1>1, HealthStep, TypeCorrect, PTL DEF Spec

\* ArrivalOrder alone says nothing of an empty queue: the frame that comes
\* next is beyond the last one taken because that one had been received.
ArrivalInv == ArrivalOrder /\ taken <= received

LEMMA ArrivalStep == TypeOK /\ ArrivalInv /\ [Next]_vars => ArrivalInv'
<1>. SUFFICES ASSUME TypeOK, ArrivalInv, [Next]_vars PROVE ArrivalInv'
  OBVIOUS
<1>. USE DEF ArrivalInv, ArrivalOrder
<1>0. /\ received \in Nat /\ taken \in Nat
      /\ queue \in Seq(Frame) /\ Len(queue) \in Nat
      /\ \A i \in 1..Len(queue) : queue[i] \in Frame /\ queue[i].n \in Nat
  <2>1. received \in Nat /\ taken \in Nat /\ queue \in Seq(Frame)
    BY ConstantsAssumption DEF TypeOK, ConstantsAssumption
  <2>2. Len(queue) \in Nat /\ \A i \in 1..Len(queue) : queue[i] \in Frame
    BY <2>1, LenProperties, ElementOfSeq
  <2>. QED BY <2>1, <2>2, ConstantsAssumption DEF Frame, ConstantsAssumption
<1>1. CASE UNCHANGED <<received, taken, queue>>
  BY <1>1
<1>2. CASE ReceiveLine
  <2>1. PICK f \in Frame : Enqueue(f) /\ f.n = received + 1
    BY <1>2, NextFrame
  <2>2. received' = received + 1 /\ taken' = taken
    BY <1>2 DEF ReceiveLine, processorVars
  <2>3. CASE UNCHANGED queue
    BY <1>0, <2>2, <2>3
  <2>4. CASE queue' = Append(queue, f)
    <3>1. /\ Len(queue') = Len(queue) + 1
          /\ \A i \in 1..Len(queue) : queue'[i] = queue[i]
          /\ queue'[Len(queue) + 1] = f
      BY <1>0, <2>4, AppendProperties
    <3>2. ASSUME NEW i \in 1..Len(queue')
          PROVE  taken' < queue'[i].n /\ queue'[i].n <= received'
      <4>1. CASE i \in 1..Len(queue)
        BY <1>0, <2>2, <3>1, <4>1
      <4>2. CASE i = Len(queue) + 1
        BY <1>0, <2>1, <2>2, <3>1, <4>2
      <4>. QED BY <1>0, <3>1, <4>1, <4>2
    <3>3. ASSUME NEW i \in 1..Len(queue'), NEW j \in 1..Len(queue'), i < j
          PROVE  queue'[i].n < queue'[j].n
      <4>1. i \in 1..Len(queue) /\ queue'[i] = queue[i]
        BY <1>0, <3>1, <3>3
      <4>2. CASE j \in 1..Len(queue)
        BY <1>0, <3>1, <3>3, <4>1, <4>2
      <4>3. CASE j = Len(queue) + 1
        BY <1>0, <2>1, <3>1, <4>1, <4>3
      <4>. QED BY <1>0, <3>1, <4>2, <4>3
    <3>. QED BY <1>0, <2>2, <3>2, <3>3
  <2>. QED BY <2>1, <2>3, <2>4 DEF Enqueue
<1>3. CASE OversizedLine
  BY <1>0, <1>3 DEF OversizedLine, processorVars
<1>4. CASE ProcessLine
  <2>1. queue # <<>> /\ queue' = Tail(queue) /\ taken' = Head(queue).n
        /\ received' = received
    BY <1>4 DEF ProcessLine
  <2>2. /\ taken' = queue[1].n /\ Len(queue) \in Nat \ {0}
        /\ Len(queue') = Len(queue) - 1
        /\ \A i \in 1..Len(queue') : queue'[i] = queue[i + 1]
    BY <2>1, QueueStep
  <2>3. /\ 1 \in 1..Len(queue)
        /\ \A i \in 1..Len(queue') : i + 1 \in 1..Len(queue) /\ 1 < i + 1
    BY <2>2
  <2>4. taken' <= received'
    BY <2>1, <2>2, <2>3
  <2>5. \A i \in 1..Len(queue') : taken' < queue'[i].n /\ queue'[i].n <= received'
    BY <2>1, <2>2, <2>3
  <2>6. ASSUME NEW i \in 1..Len(queue'), NEW j \in 1..Len(queue'), i < j
        PROVE  queue'[i].n < queue'[j].n
    BY <2>2, <2>3, <2>6
  <2>. QED BY <2>4, <2>5, <2>6
<1>. QED
  BY <1>1, <1>2, <1>3, <1>4
     DEF Next, ReaderStep, HandlerStep, Connect, ConnectFails, SourceCloses, FinishClose,
         ClosingRaises, BackoffEnds, ReaderCancelled, ProcessorCancelled, Stop, StopReturns,
         Subscribe, SendMessage, ClientLeaves, HandlerEnds, vars, metrics, frameCounts,
         processorVars

\* Frames are taken from the queue in the order they were read.
THEOREM ArrivalCorrect == Spec => []ArrivalOrder
<1>1. Init => ArrivalInv
  BY EmptySeq DEF Init, ArrivalInv, ArrivalOrder
<1>2. ArrivalInv => ArrivalOrder
  BY DEF ArrivalInv
<1>. QED BY <1>1, <1>2, ArrivalStep, TypeCorrect, PTL DEF Spec

LEMMA Arithmetic ==
    /\ \A a, b \in Int : a + (b + 1) = (a + 1) + b
    /\ \A a, b, c \in Int : (a + b) + (c - b) = a + c
OBVIOUS

\* publish() leaves no gap: what it appends continues the queue's numbers, and
\* who stays registered got all of it.
LEMMA PublishLeavesNoGap ==
    ASSUME NEW k \in Nat, Publish(k), StreamTypeOK, StreamHasNoGaps
    PROVE  StreamHasNoGaps'
<1>. USE DEF StreamTypeOK, Publish
<1>. SUFFICES ASSUME NEW s \in Subscribers
              PROVE  /\ \A i \in 1..Len(outbox'[s]) : outbox'[s][i] = sent'[s] + i
                     /\ s \in registered' => sent'[s] + Len(outbox'[s]) = published'
  BY DEF StreamHasNoGaps
<1>0. /\ published \in Nat /\ sent[s] \in Nat /\ SubscriberMaxsize \in Nat
      /\ outbox[s] \in Seq(Nat) /\ Len(outbox[s]) \in Nat
      /\ Len(outbox[s]) <= SubscriberMaxsize
  BY ConstantsAssumption, LenProperties DEF ConstantsAssumption
<1>1. /\ \A i \in 1..Len(outbox[s]) : outbox[s][i] = sent[s] + i
      /\ s \in registered => sent[s] + Len(outbox[s]) = published
  BY DEF StreamHasNoGaps
<1>2. sent' = sent /\ published' = published + k
  OBVIOUS
<1>3. CASE s \notin registered
  BY <1>1, <1>2, <1>3
<1>4. CASE s \in registered
  <2>. DEFINE fit == Least(k, Room(s))
              run == Run(published + 1, fit)
  <2>1. fit \in Nat /\ (k <= Room(s) => fit = k)
    BY <1>0 DEF Room, Least
  <2>2. /\ run \in Seq(Nat) /\ Len(run) = fit
        /\ \A i \in 1..fit : run[i] = published + i
    BY <1>0, <2>1, RunProperties
  <2>3. outbox'[s] = outbox[s] \o run
    BY <1>4
  <2>. HIDE DEF fit, run
  <2>4. /\ Len(outbox'[s]) = Len(outbox[s]) + fit
        /\ \A i \in 1..Len(outbox[s]) + fit :
             outbox'[s][i] = IF i <= Len(outbox[s]) THEN outbox[s][i]
                                                    ELSE run[i - Len(outbox[s])]
    <3>1. /\ Len(outbox[s] \o run) = Len(outbox[s]) + Len(run)
          /\ \A i \in 1..Len(outbox[s]) + Len(run) :
               (outbox[s] \o run)[i] = IF i <= Len(outbox[s])
                                        THEN outbox[s][i] ELSE run[i - Len(outbox[s])]
      BY <1>0, <2>2, ConcatProperties
    <3>. QED BY <2>2, <2>3, <3>1
  <2>7. /\ published \in Nat /\ sent[s] \in Nat /\ Len(outbox[s]) \in Nat /\ fit \in Nat
        /\ sent[s] + Len(outbox[s]) = published /\ sent'[s] = sent[s]
        /\ published' = published + k
    BY <1>0, <1>1, <1>2, <1>4, <2>1
  <2>5. ASSUME NEW i \in 1..Len(outbox'[s])
        PROVE  outbox'[s][i] = sent'[s] + i
    <3>1. CASE i <= Len(outbox[s])
      BY <1>0, <1>1, <1>2, <2>1, <2>4, <3>1
    <3>2. CASE ~(i <= Len(outbox[s]))
      <4>1. i - Len(outbox[s]) \in 1..fit
        BY <1>0, <2>1, <2>4, <3>2
      <4>2. outbox'[s][i] = published + (i - Len(outbox[s]))
        BY <2>2, <2>4, <3>2, <4>1
      <4>3. i \in Int
        OBVIOUS
      <4>4. published + (i - Len(outbox[s])) = sent[s] + i
        <5>1. sent[s] \in Int /\ Len(outbox[s]) \in Int
          BY <2>7
        <5>. QED BY <2>7, <4>3, <5>1, Arithmetic
      <4>. QED BY <2>7, <4>2, <4>4
    <3>. QED BY <3>1, <3>2
  <2>6. s \in registered' => sent'[s] + Len(outbox'[s]) = published'
    <3>1. s \in registered' => k <= Room(s)
      OBVIOUS
    <3>2. Len(outbox'[s]) = Len(outbox[s]) + fit
      BY <2>4
    <3>3. k \in Nat
      OBVIOUS
    <3>. QED BY <2>1, <2>7, <3>1, <3>2, <3>3
  <2>. QED BY <2>5, <2>6
<1>. QED BY <1>3, <1>4

LEMMA StreamStep == TypeOK /\ StreamHasNoGaps /\ [Next]_vars => StreamHasNoGaps'
<1>. SUFFICES ASSUME TypeOK, StreamHasNoGaps, [Next]_vars PROVE StreamHasNoGaps'
  OBVIOUS
<1>0. StreamTypeOK
  BY DEF TypeOK
<1>1. CASE UNCHANGED streamVars
  BY <1>1 DEF streamVars, StreamHasNoGaps
<1>2. CASE \E k \in Nat : Publish(k)
  BY <1>0, <1>2, PublishLeavesNoGap
<1>3. ASSUME NEW s \in Subscribers, HandlerStep(s)
      PROVE  StreamHasNoGaps'
  <2>. SUFFICES ASSUME NEW q \in Subscribers
                PROVE  /\ \A i \in 1..Len(outbox'[q]) : outbox'[q][i] = sent'[q] + i
                       /\ q \in registered' => sent'[q] + Len(outbox'[q]) = published'
    BY DEF StreamHasNoGaps
  <2>. USE DEF StreamTypeOK
  <2>0. /\ published \in Nat /\ sent[q] \in Nat
        /\ outbox[q] \in Seq(Nat) /\ Len(outbox[q]) \in Nat
        /\ \A i \in 1..Len(outbox[q]) : outbox[q][i] = sent[q] + i
        /\ q \in registered => sent[q] + Len(outbox[q]) = published
    BY <1>0, LenProperties DEF StreamHasNoGaps
  <2>1. CASE q # s
    <3>1. /\ outbox'[q] = outbox[q] /\ sent'[q] = sent[q] /\ published' = published
          /\ q \in registered' <=> q \in registered
      BY <1>0, <1>3, <2>1 DEF HandlerStep, Subscribe, SendMessage, ClientLeaves, HandlerEnds
    <3>. QED BY <2>0, <3>1
  <2>2. CASE q = s /\ Subscribe(s)
    <3>1. outbox'[q] = <<>> /\ sent'[q] = published /\ published' = published
      BY <1>0, <2>2 DEF Subscribe
    <3>. QED BY <2>0, <3>1, EmptySeq
  <2>3. CASE q = s /\ SendMessage(s)
    <3>1. /\ outbox[q] # <<>> /\ outbox'[q] = Tail(outbox[q])
          /\ sent'[q] = Head(outbox[q]) /\ published' = published
          /\ registered' = registered
      BY <1>0, <2>3 DEF SendMessage
    <3>2. /\ Len(outbox'[q]) = Len(outbox[q]) - 1 /\ Len(outbox[q]) \in Nat \ {0}
          /\ \A i \in 1..Len(outbox'[q]) : outbox'[q][i] = outbox[q][i + 1]
      BY <2>0, <3>1, HeadTailProperties, LenProperties, EmptySeq
    <3>3. sent'[q] = sent[q] + 1
      <4>1. Head(outbox[q]) = outbox[q][1]
        BY <2>0
      <4>. QED BY <2>0, <3>1, <3>2, <4>1
    <3>4. ASSUME NEW i \in 1..Len(outbox'[q])
          PROVE  outbox'[q][i] = sent'[q] + i
      <4>1. i + 1 \in 1..Len(outbox[q]) /\ i \in Int
        BY <3>2
      <4>2. outbox'[q][i] = outbox[q][i + 1] /\ outbox[q][i + 1] = sent[q] + (i + 1)
        BY <2>0, <3>2, <4>1
      <4>3. sent[q] + (i + 1) = (sent[q] + 1) + i
        <5>1. sent[q] \in Int
          BY <2>0
        <5>. QED BY <4>1, <5>1, Arithmetic
      <4>. QED BY <3>3, <4>2, <4>3
    <3>. QED BY <2>0, <3>1, <3>2, <3>3, <3>4
  <2>4. CASE q = s /\ ClientLeaves(s)
    BY <2>0, <2>4 DEF ClientLeaves
  <2>5. CASE q = s /\ HandlerEnds(s)
    <3>1. outbox'[q] = <<>> /\ q \notin registered'
      BY <1>0, <2>5 DEF HandlerEnds
    <3>. QED BY <3>1, EmptySeq
  <2>. QED BY <1>3, <2>1, <2>2, <2>3, <2>4, <2>5 DEF HandlerStep
<1>4. CASE Connect \/ ConnectFails \/ FinishClose
  BY <1>2, <1>4 DEF Connect, ConnectFails, FinishClose, ReportDisconnected
<1>5. CASE ReaderCancelled
  BY <1>1, <1>2, <1>5 DEF ReaderCancelled, ReportDisconnected, streamVars
<1>6. CASE ProcessLine
  <2>1. PICK f : RejectFrame(f) \/ ValidationRaises(f) \/ EvaluateFrame(f)
    BY <1>6 DEF ProcessLine
  <2>2. CASE RejectFrame(f) \/ ValidationRaises(f)
    BY <1>1, <2>2 DEF RejectFrame, ValidationRaises
  <2>3. CASE EvaluateFrame(f)
    BY <1>2, <2>3, ConstantsAssumption DEF EvaluateFrame, ConstantsAssumption
  <2>. QED BY <2>1, <2>2, <2>3
<1>7. CASE ReceiveLine \/ OversizedLine \/ SourceCloses \/ ClosingRaises \/ BackoffEnds
           \/ ProcessorCancelled \/ Stop \/ StopReturns \/ UNCHANGED vars
  BY <1>1, <1>7 DEF ReceiveLine, OversizedLine, SourceCloses, ClosingRaises, BackoffEnds,
                    ProcessorCancelled, Stop, StopReturns, vars
<1>. QED BY <1>3, <1>4, <1>5, <1>6, <1>7 DEF Next, ReaderStep

\* A subscriber of the stream misses no message up to where it was cut off.
THEOREM StreamCorrect == Spec => []StreamHasNoGaps
<1>1. Init => StreamHasNoGaps
  BY EmptySeq DEF Init, StreamHasNoGaps
<1>. QED BY <1>1, StreamStep, TypeCorrect, PTL DEF Spec

-----------------------------------------------------------------------------
(* The cache of merged states                                              *)

LEMMA LeastNumber ==
    ASSUME NEW T \in SUBSET Nat, T # {}
    PROVE  \E x \in T : \A y \in T : x <= y
<1>1. PICK x \in T : \A y \in T : ~(<<y, x>> \in OpToRel(<, Nat))
  BY NatLessThanWellFounded, WFMin
<1>2. \A y \in T : <<y, x>> \in OpToRel(<, Nat) <=> y < x
  BY DEF OpToRel
<1>3. \A y \in T : ~(y < x)
  BY <1>1, <1>2
<1>4. \A y \in T : x \in Nat /\ y \in Nat
  OBVIOUS
<1>5. \A m, n \in Nat : ~(n < m) => m <= n
  OBVIOUS
<1>. QED BY <1>3, <1>4, <1>5

\* The choice of Oldest is never empty-handed: of the cached aircraft with
\* the least time, the one with the least address qualifies.
LEMMA OldestIsCached ==
    ASSUME NEW st \in [Aircraft -> States], Cached(st) # {}
    PROVE  Oldest(st) \in Cached(st)
<1>. DEFINE ats == {st[h].at : h \in Cached(st)}
<1>1. \A h \in Cached(st) : h \in Nat /\ st[h].at \in Nat
  BY ConstantsAssumption DEF Cached, States, ConstantsAssumption
<1>2. PICK t \in ats : \A u \in ats : t <= u
  <2>1. ats \in SUBSET Nat /\ ats # {}
    BY <1>1
  <2>. QED BY <2>1, LeastNumber
<1>. DEFINE first == {h \in Cached(st) : st[h].at = t}
<1>3. PICK h \in first : \A g \in first : h <= g
  <2>1. first \in SUBSET Nat /\ first # {}
    BY <1>1
  <2>. QED BY <2>1, LeastNumber
<1>4. ASSUME NEW g \in Cached(st)
      PROVE  st[h].at < st[g].at \/ (st[h].at = st[g].at /\ h <= g)
  <2>1. t \in Nat /\ st[g].at \in Nat /\ t <= st[g].at /\ st[h].at = t
    BY <1>1, <1>2
  <2>2. st[g].at = t => h <= g
    BY <1>3
  <2>. QED BY <2>1, <2>2
<1>5. h \in Cached(st)
  OBVIOUS
<1>. HIDE DEF ats, first
<1>. QED BY <1>4, <1>5 DEF Oldest

\* One merge and the eviction after it keep the cache within the limit.
LEMMA MergeKeepsBound ==
    ASSUME NEW f \in Frame, states \in [Aircraft -> States],
           IsFiniteSet(Cached(states)), Cardinality(Cached(states)) <= MaximumTracks
    PROVE  LET st == WithinLimit([states EXCEPT ![f.hex] = MergeState(@, f)])
           IN  IsFiniteSet(Cached(st)) /\ Cardinality(Cached(st)) <= MaximumTracks
<1>. DEFINE merged == [states EXCEPT ![f.hex] = MergeState(@, f)]
            o == Oldest(merged)
            evicted == [merged EXCEPT ![o] = NoState]
<1>1. f.hex \in Aircraft /\ MaximumTracks \in Nat \ {0}
  BY ConstantsAssumption DEF Frame, ConstantsAssumption
<1>2. MergeState(states[f.hex], f) \in States /\ MergeState(states[f.hex], f).cached
  BY <1>1, ConstantsAssumption
     DEF MergeState, StateOf, States, Frame, Fields, AllFields, ConstantsAssumption
<1>3. merged \in [Aircraft -> States]
  BY <1>1, <1>2
<1>4. Cached(merged) = Cached(states) \cup {f.hex}
  BY <1>1, <1>2 DEF Cached
<1>5. /\ IsFiniteSet(Cached(merged))
      /\ Cardinality(Cached(merged)) \in Nat
      /\ Cardinality(Cached(merged)) <= MaximumTracks + 1
  <2>1. Cardinality(Cached(states)) \in Nat
    BY FS_CardinalityType
  <2>. HIDE DEF merged
  <2>2. /\ IsFiniteSet(Cached(merged))
        /\ \/ Cardinality(Cached(merged)) = Cardinality(Cached(states))
           \/ Cardinality(Cached(merged)) = Cardinality(Cached(states)) + 1
    BY <1>4, FS_AddElement
  <2>. QED BY <1>1, <2>1, <2>2
<1>. HIDE DEF merged
<1>6. CASE Cardinality(Cached(merged)) > MaximumTracks
  <2>1. Cached(merged) # {}
    BY <1>1, <1>6, FS_EmptySet
  <2>2. o \in Cached(merged)
    BY <1>3, <2>1, OldestIsCached
  <2>. HIDE DEF o
  <2>3. Cached(evicted) = Cached(merged) \ {o}
    BY <1>3, <2>2 DEF Cached, NoState
  <2>4. IsFiniteSet(Cached(evicted)) /\ Cardinality(Cached(evicted)) = Cardinality(Cached(merged)) - 1
    BY <1>5, <2>2, <2>3, FS_RemoveElement
  <2>5. WithinLimit(merged) = evicted
    BY <1>6 DEF WithinLimit, o
  <2>6. Cardinality(Cached(evicted)) <= MaximumTracks
    BY <1>1, <1>5, <2>4
  <2>. QED BY <2>4, <2>5, <2>6 DEF merged
<1>7. CASE ~(Cardinality(Cached(merged)) > MaximumTracks)
  <2>1. WithinLimit(merged) = merged
    BY <1>7 DEF WithinLimit
  <2>2. Cardinality(Cached(merged)) <= MaximumTracks
    BY <1>1, <1>5, <1>7
  <2>. QED BY <1>5, <2>1, <2>2 DEF merged
<1>. QED BY <1>6, <1>7

BoundInv == IsFiniteSet(Cached(states)) /\ StatesBounded

LEMMA BoundStep == TypeOK /\ BoundInv /\ [Next]_vars => BoundInv'
<1>. SUFFICES ASSUME TypeOK, BoundInv, [Next]_vars PROVE BoundInv'
  OBVIOUS
<1>1. CASE UNCHANGED states
  BY <1>1 DEF BoundInv, StatesBounded, Cached
<1>2. CASE ProcessLine
  <2>1. Head(queue) \in Frame /\ states \in [Aircraft -> States]
    BY <1>2, QueueStep DEF ProcessLine, TypeOK
  <2>. DEFINE f == Head(queue)
              merged == WithinLimit([states EXCEPT ![f.hex] = MergeState(@, f)])
  <2>2. IsFiniteSet(Cached(merged)) /\ Cardinality(Cached(merged)) <= MaximumTracks
    BY <2>1, MergeKeepsBound DEF BoundInv, StatesBounded
  <2>3. states' = states \/ states' = merged
    BY <1>2 DEF ProcessLine, RejectFrame, ValidationRaises, EvaluateFrame
  <2>. HIDE DEF merged
  <2>. QED BY <1>1, <2>2, <2>3 DEF BoundInv, StatesBounded, Cached
<1>. QED
  BY <1>1, <1>2
     DEF Next, ReaderStep, HandlerStep, Connect, ConnectFails, ReceiveLine, OversizedLine,
         SourceCloses, FinishClose, ClosingRaises, BackoffEnds, ReaderCancelled,
         ProcessorCancelled, Stop, StopReturns, Subscribe, SendMessage, ClientLeaves,
         HandlerEnds, vars, processorVars

\* The cache of merged states never outgrows the policy's limit.
THEOREM CacheBounded == Spec => []StatesBounded
<1>1. Init => BoundInv
  <2>. SUFFICES ASSUME Init PROVE BoundInv
    OBVIOUS
  <2>1. Cached(states) = {}
    BY DEF Init, Cached, NoState
  <2>2. MaximumTracks \in Nat
    BY ConstantsAssumption DEF ConstantsAssumption
  <2>. QED BY <2>1, <2>2, FS_EmptySet DEF BoundInv, StatesBounded
<1>2. BoundInv => StatesBounded
  BY DEF BoundInv
<1>. QED BY <1>1, <1>2, BoundStep, TypeCorrect, PTL DEF Spec

=============================================================================
