--------------------------- MODULE SidecarRuntime ---------------------------
(***************************************************************************)
(* The runtime of the feeder sidecar (sidecar/service.py): two asyncio     *)
(* tasks on one event loop, the SBS reader and the integrity processor,    *)
(* a bounded queue between them, the receiver health they both write, and  *)
(* the WebSocket subscribers that publish() feeds through bounded queues.  *)
(*                                                                         *)
(* A task runs without interruption between two suspending awaits, so an   *)
(* action is the code between two of them; process_line awaits only        *)
(* publish(), which never suspends, hence one action.  The frames' data is *)
(* reduced to what the code branches on: which aircraft, which source      *)
(* time, and whether the parser and the observation schema take it.  What  *)
(* the engine returns is abstracted to how many events it produced, what   *)
(* the store does to whether an append raises.                             *)
(***************************************************************************)
EXTENDS Naturals, Sequences, FiniteSets

CONSTANTS
    Aircraft,           \* the ICAO addresses, as numbers (their hex order)
    Times,              \* the source times a frame may carry
    Shapes,             \* the kinds of frame the source sends, see Fields
    Subscribers,        \* the WebSocket handlers that may be open at once
    QueueMaxsize,       \* config.queue_maxsize
    SubscriberMaxsize,  \* maxsize of a subscriber's queue (128)
    MaximumTracks,      \* policy.runtime.maximum_tracks
    DelayCap,           \* the cap of the reconnect delay (30 seconds)
    Losses,             \* how the source ends a connection: "eof", "reset"
    StoreMayFail,       \* whether an append to the event store may raise
    MaxFrames,          \* bound: frames the source sends
    MaxFaults,          \* bound: refused connections and lost connections
    MaxEvents           \* bound: events one observation produces

ASSUME ConstantsAssumption ==
    /\ Aircraft \subseteq Nat
    /\ Times \subseteq Nat
    /\ Shapes \subseteq {"malformed", "position", "velocity", "latOnly", "outOfRange"}
    /\ Losses \subseteq {"eof", "reset"}
    /\ StoreMayFail \in BOOLEAN
    /\ {QueueMaxsize, SubscriberMaxsize, MaximumTracks, DelayCap} \subseteq Nat \ {0}
    /\ {MaxFrames, MaxFaults, MaxEvents} \subseteq Nat

VARIABLES
    reader,           \* where the task _read_loop is suspended
    loss,             \* what ended the connection being closed
    processor,        \* the task _process_loop
    stopping,         \* _stopping, the event stop() sets
    storeClosed,      \* stop() has returned
    connectionState,  \* metrics.connection_state
    health,           \* health.connection
    delay,            \* the local delay of _read_loop
    queue,            \* queue: frames received and not yet taken
    states,           \* _states: merged fields per aircraft
    received,         \* history: frames read, oversized ones included
    failures,         \* metrics.failures, summed over the reasons
    parsed,           \* metrics.parsed
    evaluated,        \* metrics.evaluated
    dropped,          \* metrics.dropped
    reconnects,       \* metrics.reconnects
    faults,           \* history: connections refused or lost
    taken,            \* history: number of the last frame taken from queue
    lost,             \* history: frames taken, neither evaluated nor counted
    registered,       \* _subscribers
    outbox,           \* each subscriber's queue, of message numbers
    handler,          \* each WebSocket handler
    sent,             \* history: number of the last message sent
    published         \* history: number of messages published

readerVars == <<reader, loss, connectionState, delay>>
processorVars == <<processor, states, taken, lost>>
streamVars == <<registered, outbox, handler, sent, published>>
stopVars == <<stopping, storeClosed>>
frameCounts == <<received, failures, parsed, evaluated, dropped>>
linkCounts == <<reconnects, faults>>
metrics == <<frameCounts, linkCounts>>
vars == <<readerVars, processorVars, streamVars, stopVars, health, queue, metrics>>

-----------------------------------------------------------------------------
(* Frames and the merged per-aircraft state                                *)

Frame == [n : 1..MaxFrames, hex : Aircraft, at : Times, shape : Shapes]

\* The fields a frame sets that the observation schema looks at.
Fields(shape) ==
    CASE shape = "position"   -> {"lat", "lon"}
      [] shape = "latOnly"    -> {"lat"}
      [] shape = "outOfRange" -> {"bad"}
      [] OTHER                -> {}

AllFields == {"lat", "lon", "bad"}
NoState == [at |-> 0, fields |-> {}, cached |-> FALSE]
StateOf(at, fields) == [at |-> at, fields |-> fields, cached |-> TRUE]
States == [at : Nat, fields : SUBSET AllFields, cached : BOOLEAN]

\* merge_state: the new message's fields and time over the known fields.
MergeState(existing, f) == StateOf(f.at, existing.fields \cup Fields(f.shape))

Cached(st) == {h \in Aircraft : st[h].cached}

\* min of _states by (_observed_at, hex).
Oldest(st) ==
    CHOOSE h \in Cached(st) : \A g \in Cached(st) :
        st[h].at < st[g].at \/ (st[h].at = st[g].at /\ h <= g)

\* Mutant: the cache keeps every aircraft ever seen.
WithoutLimit(st) == st

\* The cache after a merge: one state over the limit is dropped, the oldest.
WithinLimit(st) ==
    IF Cardinality(Cached(st)) > MaximumTracks
    THEN [st EXCEPT ![Oldest(st)] = NoState]
    ELSE st

\* TrackObservation refuses a value out of range and half a position.
SchemaAccepts(fields) ==
    /\ "bad" \notin fields
    /\ ("lat" \in fields) <=> ("lon" \in fields)

-----------------------------------------------------------------------------
(* publish(): every registered subscriber gets the k messages, or as many  *)
(* as fit; one whose queue is full is discarded from the set.              *)

Least(a, b) == IF a <= b THEN a ELSE b
Run(first, count) == [i \in 1..count |-> first + i - 1]
Room(s) == SubscriberMaxsize - Len(outbox[s])

\* Mutant: a full queue loses its oldest message, as a ring buffer would.
PublishKeepingSlow(k) ==
    /\ published' = published + k
    /\ registered' = registered
    /\ outbox' = [s \in Subscribers |->
         IF s \in registered
         THEN LET all == outbox[s] \o Run(published + 1, k)
                  over == IF Len(all) > SubscriberMaxsize
                          THEN Len(all) - SubscriberMaxsize ELSE 0
              IN SubSeq(all, over + 1, Len(all))
         ELSE outbox[s]]
    /\ UNCHANGED <<handler, sent>>

Publish(k) ==
    /\ published' = published + k
    /\ registered' = {s \in registered : k <= Room(s)}
    /\ outbox' = [s \in Subscribers |->
         IF s \in registered
         THEN outbox[s] \o Run(published + 1, Least(k, Room(s)))
         ELSE outbox[s]]
    /\ UNCHANGED <<handler, sent>>

-----------------------------------------------------------------------------
(* The reader task                                                         *)

\* open_connection returned: health CONNECTED, the delay starts over.
Connect ==
    /\ reader = "connecting" /\ ~stopping
    /\ reader' = "reading"
    /\ connectionState' = 1
    /\ health' = "CONNECTED"
    /\ delay' = 1
    /\ Publish(1)
    /\ UNCHANGED <<loss, queue, metrics, processorVars, stopVars>>

\* What the finally block does once the writer is closed.
ReportDisconnected ==
    /\ connectionState' = 0
    /\ health' = "DISCONNECTED"
    /\ Publish(1)

\* open_connection raised: no writer to close, then the backoff.
ConnectFails ==
    /\ reader = "connecting" /\ ~stopping
    /\ faults < MaxFaults
    /\ reader' = "backoff"
    /\ ReportDisconnected
    /\ faults' = faults + 1 /\ reconnects' = reconnects + 1
    /\ UNCHANGED <<loss, delay, queue, frameCounts, processorVars, stopVars>>

\* Mutant: a full queue is reported but the drop is not counted.
EnqueueUncounted(f) ==
    \/ /\ Len(queue) < QueueMaxsize
       /\ queue' = Append(queue, f)
       /\ UNCHANGED <<health, dropped>>
    \/ /\ Len(queue) >= QueueMaxsize
       /\ health' = "DEGRADED"
       /\ UNCHANGED <<queue, dropped>>

\* Mutant: the newest frame is served first.
EnqueueInFront(f) ==
    \/ /\ Len(queue) < QueueMaxsize
       /\ queue' = <<f>> \o queue
       /\ UNCHANGED <<health, dropped>>
    \/ /\ Len(queue) >= QueueMaxsize
       /\ dropped' = dropped + 1
       /\ health' = "DEGRADED"
       /\ UNCHANGED queue

\* enqueue(): put_nowait, or count the drop and report the overload.
Enqueue(f) ==
    \/ /\ Len(queue) < QueueMaxsize
       /\ queue' = Append(queue, f)
       /\ UNCHANGED <<health, dropped>>
    \/ /\ Len(queue) >= QueueMaxsize
       /\ dropped' = dropped + 1
       /\ health' = "DEGRADED"
       /\ UNCHANGED queue

\* readline returned a line of the source.
ReceiveLine ==
    /\ reader = "reading" /\ ~stopping
    /\ received < MaxFrames
    /\ received' = received + 1
    /\ \E hex \in Aircraft, at \in Times, shape \in Shapes :
         Enqueue([n |-> received + 1, hex |-> hex, at |-> at, shape |-> shape])
    /\ UNCHANGED <<failures, parsed, evaluated, linkCounts,
                   readerVars, processorVars, streamVars, stopVars>>

\* readline raised ValueError: a line longer than the stream's limit.
OversizedLine ==
    /\ reader = "reading" /\ ~stopping
    /\ received < MaxFrames
    /\ "malformed" \in Shapes
    /\ received' = received + 1 /\ failures' = failures + 1
    /\ health' = "DEGRADED"
    /\ UNCHANGED <<parsed, evaluated, dropped, linkCounts, readerVars, queue, processorVars, streamVars, stopVars>>

\* The source ended the connection; the finally block calls writer.close()
\* and suspends in wait_closed().
SourceCloses ==
    /\ reader = "reading" /\ ~stopping
    /\ faults < MaxFaults
    /\ reader' = "closing"
    /\ loss' \in Losses
    /\ faults' = faults + 1
    /\ UNCHANGED <<reconnects, frameCounts, connectionState, delay, health, queue, processorVars, streamVars, stopVars>>

\* Mutant: the loop is left at the end of the stream.
FinishCloseAndReturn ==
    /\ reader = "closing" /\ loss \in {"eof", "cancelled"}
    /\ loss = "eof" => ~stopping
    /\ reader' = "ended" /\ loss' = "none"
    /\ reconnects' = reconnects + (IF loss = "eof" THEN 1 ELSE 0)
    /\ ReportDisconnected
    /\ UNCHANGED <<delay, queue, frameCounts, faults, processorVars, stopVars>>

\* wait_closed() returned after an orderly end: report, count, back off;
\* after a cancellation the task ends.
FinishClose ==
    /\ reader = "closing"
    /\ \/ loss = "eof" /\ ~stopping
          /\ reader' = "backoff"
          /\ reconnects' = reconnects + 1
       \/ loss = "cancelled"
          /\ reader' = "ended"
          /\ UNCHANGED reconnects
    /\ loss' = "none"
    /\ ReportDisconnected
    /\ UNCHANGED <<delay, queue, frameCounts, faults, processorVars, stopVars>>

\* wait_closed() raises the ConnectionResetError the connection was lost
\* with, out of the finally block: nothing below it runs and the task ends.
ClosingRaises ==
    /\ reader = "closing" /\ loss = "reset" /\ ~stopping
    /\ reader' = "failed"
    /\ UNCHANGED <<loss, connectionState, delay, health, queue, metrics,
                   processorVars, streamVars, stopVars>>

\* Mutant: the delay is not capped.
UncappedDelay(d) == d * 2
\* The next delay is twice as long, up to the cap.
NextDelay(d) == Least(d * 2, DelayCap)

\* The sleep between two attempts ends.
BackoffEnds ==
    /\ reader = "backoff" /\ ~stopping
    /\ reader' = "connecting"
    /\ delay' = NextDelay(delay)
    /\ UNCHANGED <<loss, connectionState, health, queue, metrics,
                   processorVars, streamVars, stopVars>>

\* stop() cancelled the task where it is suspended.
ReaderCancelled ==
    /\ stopping
    /\ \/ /\ reader = "connecting"
          /\ reader' = "ended"
          /\ ReportDisconnected
          /\ UNCHANGED loss
       \/ /\ reader = "reading"
          /\ reader' = "closing" /\ loss' = "cancelled"
          /\ UNCHANGED <<connectionState, health, streamVars>>
       \/ /\ reader = "backoff" \/ (reader = "closing" /\ loss # "cancelled")
          /\ reader' = "ended"
          /\ UNCHANGED <<loss, connectionState, health, streamVars>>
    /\ UNCHANGED <<delay, queue, metrics, processorVars, stopVars>>

-----------------------------------------------------------------------------
(* The processor task                                                      *)

\* Mutant: the evaluation of a queued frame reports CONNECTED regardless.
HealthAlwaysConnected == "CONNECTED"

\* An evaluated frame clears a DEGRADED report, while connected.
HealthAfterEvaluation == IF connectionState = 1 THEN "CONNECTED" ELSE health

\* Mutant: the loop is left, not continued, after a refused frame.
RejectFrameAndReturn(f) ==
    /\ f.shape = "malformed"
    /\ failures' = failures + 1
    /\ processor' = "ended"
    /\ UNCHANGED <<parsed, evaluated, states, lost, health, streamVars>>

\* parse_sbs_line refused the frame.
RejectFrame(f) ==
    /\ f.shape = "malformed"
    /\ failures' = failures + 1
    /\ UNCHANGED <<parsed, evaluated, processor, states, lost, health, streamVars>>

\* The merged state is no TrackObservation: the ValidationError leaves
\* process_line, and _process_loop, which has no except clause.
ValidationRaises(f) ==
    /\ f.shape # "malformed"
    /\ ~SchemaAccepts(MergeState(states[f.hex], f).fields)
    /\ states' = WithinLimit([states EXCEPT ![f.hex] = MergeState(@, f)])
    /\ parsed' = parsed + 1
    /\ lost' = lost + 1
    /\ processor' = "failed"
    /\ UNCHANGED <<failures, evaluated, health, streamVars>>

\* The engine evaluated the observation and produced some events; each is
\* stored, then published, then the snapshot is published.  An append that
\* raises ends the task before the message it stands for is published.
EvaluateFrame(f) ==
    /\ f.shape # "malformed"
    /\ SchemaAccepts(MergeState(states[f.hex], f).fields)
    /\ states' = WithinLimit([states EXCEPT ![f.hex] = MergeState(@, f)])
    /\ parsed' = parsed + 1 /\ evaluated' = evaluated + 1
    /\ health' = HealthAfterEvaluation
    /\ \E events \in 0..MaxEvents :
         \/ /\ Publish(events + 1)
            /\ UNCHANGED processor
         \/ /\ StoreMayFail /\ events > 0
            /\ Publish(events - 1)
            /\ processor' = "failed"
    /\ UNCHANGED <<failures, lost>>

\* queue.get(), then process_line.
ProcessLine ==
    /\ processor = "running" /\ ~stopping
    /\ queue # <<>>
    /\ LET f == Head(queue) IN
         /\ RejectFrame(f) \/ ValidationRaises(f) \/ EvaluateFrame(f)
         /\ taken' = f.n
    /\ queue' = Tail(queue)
    /\ UNCHANGED <<received, dropped, linkCounts, readerVars, stopVars>>

\* Mutant: stop() only sets the event, which the task reads between frames.
ProcessorNoticesStop ==
    /\ stopping /\ processor = "running" /\ queue # <<>>
    /\ processor' = "ended"
    /\ UNCHANGED <<readerVars, states, taken, lost, streamVars, stopVars, health, queue, metrics>>

\* stop() cancelled the task, which waits in queue.get().
ProcessorCancelled ==
    /\ stopping /\ processor = "running"
    /\ processor' = "ended"
    /\ UNCHANGED <<readerVars, states, taken, lost, streamVars, stopVars, health, queue, metrics>>

-----------------------------------------------------------------------------
(* stop() and the WebSocket handlers of sidecar/app.py                     *)

Stop ==
    /\ ~stopping
    /\ stopping' = TRUE
    /\ UNCHANGED <<readerVars, processorVars, streamVars, storeClosed, health, queue, metrics>>

\* gather() has both tasks: the store is closed.
StopReturns ==
    /\ stopping /\ ~storeClosed
    /\ reader \in {"ended", "failed"} /\ processor \in {"ended", "failed"}
    /\ storeClosed' = TRUE
    /\ UNCHANGED <<readerVars, processorVars, streamVars, stopping, health, queue, metrics>>

Subscribe(s) ==
    /\ handler[s] = "none"
    /\ handler' = [handler EXCEPT ![s] = "open"]
    /\ registered' = registered \cup {s}
    /\ outbox' = [outbox EXCEPT ![s] = <<>>]
    /\ sent' = [sent EXCEPT ![s] = published]
    /\ UNCHANGED <<published, readerVars, processorVars, stopVars, health, queue, metrics>>

\* The handler's queue.get() returned and the message went out.
SendMessage(s) ==
    /\ handler[s] = "open" /\ outbox[s] # <<>>
    /\ sent' = [sent EXCEPT ![s] = Head(outbox[s])]
    /\ outbox' = [outbox EXCEPT ![s] = Tail(@)]
    /\ UNCHANGED <<registered, handler, published,
                   readerVars, processorVars, stopVars, health, queue, metrics>>

\* The client goes; the handler, waiting for its queue, does not notice.
ClientLeaves(s) ==
    /\ handler[s] = "open"
    /\ handler' = [handler EXCEPT ![s] = "orphan"]
    /\ UNCHANGED <<registered, outbox, sent, published,
                   readerVars, processorVars, stopVars, health, queue, metrics>>

\* The next send raises WebSocketDisconnect: unsubscribe.
HandlerEnds(s) ==
    /\ handler[s] = "orphan" /\ outbox[s] # <<>>
    /\ handler' = [handler EXCEPT ![s] = "none"]
    /\ registered' = registered \ {s}
    /\ outbox' = [outbox EXCEPT ![s] = <<>>]
    /\ UNCHANGED <<sent, published, readerVars, processorVars, stopVars, health, queue, metrics>>

-----------------------------------------------------------------------------
Init ==
    /\ reader = "connecting" /\ loss = "none"
    /\ processor = "running"
    /\ stopping = FALSE /\ storeClosed = FALSE
    /\ connectionState = 0 /\ health = "DISCONNECTED"
    /\ delay = 1
    /\ queue = <<>>
    /\ states = [h \in Aircraft |-> NoState]
    /\ received = 0 /\ failures = 0 /\ parsed = 0 /\ evaluated = 0 /\ dropped = 0
    /\ reconnects = 0 /\ faults = 0
    /\ taken = 0 /\ lost = 0
    /\ registered = {}
    /\ outbox = [s \in Subscribers |-> <<>>]
    /\ handler = [s \in Subscribers |-> "none"]
    /\ sent = [s \in Subscribers |-> 0]
    /\ published = 0

ReaderStep ==
    \/ Connect \/ ConnectFails \/ ReceiveLine \/ OversizedLine \/ SourceCloses
    \/ FinishClose \/ ClosingRaises \/ BackoffEnds \/ ReaderCancelled

HandlerStep(s) == Subscribe(s) \/ SendMessage(s) \/ ClientLeaves(s) \/ HandlerEnds(s)

Next ==
    \/ ReaderStep
    \/ ProcessLine \/ ProcessorCancelled
    \/ Stop \/ StopReturns
    \/ \E s \in Subscribers : HandlerStep(s)

Spec == Init /\ [][Next]_vars

\* The event loop runs every task that is ready; an attempt to connect ends
\* one way or the other.  Nothing is assumed of the source, the clients or
\* the operator: they need not send, leave, subscribe or stop.
Fairness ==
    /\ WF_vars(Connect \/ ConnectFails)
    /\ WF_vars(FinishClose \/ ClosingRaises)
    /\ WF_vars(BackoffEnds)
    /\ WF_vars(ReaderCancelled)
    /\ WF_vars(ProcessLine \/ ProcessorCancelled)
    /\ WF_vars(StopReturns)
    /\ \A s \in Subscribers : WF_vars(SendMessage(s) \/ HandlerEnds(s))

FairSpec == Spec /\ Fairness

-----------------------------------------------------------------------------
(* Properties                                                              *)

StreamTypeOK ==
    /\ registered \subseteq Subscribers
    /\ outbox \in [Subscribers -> Seq(Nat)]
    /\ \A s \in Subscribers : Len(outbox[s]) <= SubscriberMaxsize
    /\ handler \in [Subscribers -> {"none", "open", "orphan"}]
    /\ sent \in [Subscribers -> Nat]
    /\ published \in Nat

\* The types of the variables, with the bounds of the two kinds of queue.
TypeOK ==
    /\ reader \in {"connecting", "reading", "closing", "backoff", "failed", "ended"}
    /\ loss \in Losses \cup {"none", "cancelled"}
    /\ processor \in {"running", "failed", "ended"}
    /\ stopping \in BOOLEAN /\ storeClosed \in BOOLEAN
    /\ connectionState \in {0, 1}
    /\ health \in {"CONNECTED", "DEGRADED", "DISCONNECTED"}
    /\ delay \in 1..DelayCap
    /\ queue \in Seq(Frame) /\ Len(queue) <= QueueMaxsize
    /\ states \in [Aircraft -> States]
    /\ received \in 0..MaxFrames /\ failures \in Nat /\ parsed \in Nat
    /\ evaluated \in Nat /\ dropped \in Nat /\ reconnects \in Nat /\ faults \in Nat
    /\ taken \in Nat /\ lost \in Nat
    /\ StreamTypeOK

\* Every frame the source sent is rejected and counted, evaluated, dropped
\* and counted, or still queued; the only exception is the one frame whose
\* exception ended the processor (service.py enqueue, process_line).
FramesAccounted ==
    /\ received = failures + evaluated + dropped
                          + Len(queue) + lost
    /\ parsed = evaluated + lost
    /\ lost = 0 \/ (lost = 1 /\ processor = "failed")

\* The reported health is DISCONNECTED exactly while connection_state is 0,
\* whatever is still being processed from the queue (service.py 175-177).
HealthMatchesConnection ==
    /\ connectionState = 0 <=> health = "DISCONNECTED"
    /\ reader \in {"connecting", "backoff"} => connectionState = 0
    /\ reader \in {"reading", "closing", "failed"} => connectionState = 1

\* Frames are evaluated in the order they came, whatever was dropped between
\* them: the queue holds increasing numbers beyond the last one taken.
ArrivalOrder ==
    /\ \A i \in 1..Len(queue) : taken < queue[i].n /\ queue[i].n <= received
    /\ \A i, j \in 1..Len(queue) : i < j => queue[i].n < queue[j].n

\* A WebSocket client sees every message published since it subscribed,
\* without a gap, up to the point where it was cut off: a subscriber that
\* could not keep up is removed, never thinned out (service.py publish).
StreamHasNoGaps ==
    \A s \in Subscribers :
        /\ \A i \in 1..Len(outbox[s]) : outbox[s][i] = sent[s] + i
        /\ s \in registered => sent[s] + Len(outbox[s]) = published

\* The cache of merged states that process_line fills stays within the
\* policy's limit, at whatever source times the aircraft report.
StatesBounded == Cardinality(Cached(states)) <= MaximumTracks

\* A frame in the queue is eventually taken, unless the runtime is being
\* stopped or an exception ended the processor (service.py _process_loop).
FramesAreTaken ==
    \A n \in 1..MaxFrames :
        (\E i \in 1..Len(queue) : queue[i].n = n)
            ~> (taken >= n \/ stopping \/ processor = "failed")

\* After an orderly end of the source's stream the reader connects again,
\* unless the runtime is being stopped (service.py _read_loop).
OrderlyEndReconnects ==
    (reader = "closing" /\ loss = "eof") ~> (reader = "reading" \/ stopping)

\* "Killing and restarting the SBS source produces a visible degraded state
\* and automatic recovery": a connection that ended is followed by another,
\* unless the runtime is being stopped (service.py _read_loop).
ReconnectIsAutomatic == (reader = "closing") ~> (reader = "reading" \/ stopping)

\* stop() returns (service.py 66-71).
StopCompletes == stopping ~> storeClosed

\* "The sidecar never treats a silent drop as success": no frame leaves the
\* queue without being evaluated or counted.
NoSilentLoss == lost = 0

=============================================================================
