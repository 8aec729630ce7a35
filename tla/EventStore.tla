----------------------------- MODULE EventStore -----------------------------
(***************************************************************************)
(* The sidecar's event store (sidecar/store.py): integrity events appended *)
(* to rotating JSONL segments, bounded in age and in total size, recovered *)
(* when the process starts, with the ids of the newest events kept in      *)
(* memory to suppress duplicates.                                          *)
(*                                                                         *)
(* The store is called by one task; what interleaves with it is the crash  *)
(* of the process, so append, remember and the constructor are split where *)
(* a crash leaves a different directory behind.  An event is its event_id, *)
(* which every record of the sidecar has; a record is one unit long.       *)
(***************************************************************************)
EXTENDS Naturals, Sequences, FiniteSets

CONSTANTS
    Events,          \* event ids
    Window,          \* maxlen of recovered_events and _event_id_order (10,000)
    SegmentBytes,    \* segment_bytes, in records
    MaxBytes,        \* max_bytes, in records
    Retention,       \* retention, in ticks of the clock
    MaxSegments,     \* bound: segment numbers
    MaxClock,        \* bound: clock ticks
    MaxCrashes,      \* bound: times the process goes down
    MaxCorruptions,  \* bound: segments damaged while the process is down
    None             \* no event

ASSUME ConstantsAssumption ==
    /\ {Window, SegmentBytes, MaxBytes, MaxSegments} \subseteq Nat \ {0}
    /\ {Retention, MaxClock, MaxCrashes, MaxCorruptions} \subseteq Nat
    /\ SegmentBytes <= MaxBytes
    /\ None \notin Events

Numbers == 1..MaxSegments

VARIABLES
    \* the directory
    segments,      \* events-<n>.jsonl, per number n
    quarantine,    \* numbers of the files events-<n>.jsonl.invalid
    \* the process
    pc,            \* where it is
    unread,        \* segments _recover has still to read
    sequence,      \* _sequence: the number of the next segment
    current,       \* _path: the number of the open segment
    pending,       \* the event remember() is storing
    memory,        \* recovered_events
    order,         \* _event_id_order
    ids,           \* _event_ids
    known,         \* history: the log as the process read it, and what it stored
    \* the world
    clock, crashes, corruptions

disk == <<segments, quarantine>>
process == <<pc, unread, sequence, current, pending, memory, order, ids, known>>
world == <<clock, crashes, corruptions>>
vars == <<disk, process, world>>

-----------------------------------------------------------------------------
(* Segments                                                                *)

NoSegment == [exists |-> FALSE, records |-> <<>>, torn |-> FALSE,
              corrupt |-> FALSE, born |-> 0, mtime |-> 0]

\* A segment just opened.  born, the time of its first record, is history.
EmptySegment == [NoSegment EXCEPT !.exists = TRUE, !.born = clock, !.mtime = clock]

Present == {n \in Numbers : segments[n].exists}
Lowest(S) == CHOOSE n \in S : \A m \in S : n <= m
Highest(S) == CHOOSE n \in S : \A m \in S : m <= n

\* A torn last line takes room as well.
Size(seg) == Len(seg.records) + (IF seg.torn THEN 1 ELSE 0)

\* The sum of the sizes of the segments up to number n.
TotalUpTo[n \in 0..MaxSegments] ==
    IF n = 0 THEN 0 ELSE TotalUpTo[n - 1] + Size(segments[n])
Total == TotalUpTo[MaxSegments]

\* The records of the readable segments, oldest first.
LogUpTo[n \in 0..MaxSegments] ==
    IF n = 0 THEN <<>>
    ELSE LogUpTo[n - 1] \o (IF segments[n].corrupt THEN <<>> ELSE segments[n].records)
Log == LogUpTo[MaxSegments]

\* A deque with maxlen keeps its newest elements.
Newest(s) == IF Len(s) > Window THEN SubSeq(s, Len(s) - Window + 1, Len(s)) ELSE s

Elements(s) == {s[i] : i \in 1..Len(s)}

-----------------------------------------------------------------------------
(* Starting: __init__                                                      *)

\* Mutant: numbering starts over in every process.
FirstSequence == 1
\* _next_sequence: one more than the highest number in the directory.
NextSequence == IF Present = {} THEN 1 ELSE Highest(Present) + 1

Boot ==
    /\ pc = "down"
    /\ NextSequence <= MaxSegments
    /\ pc' = "recovering"
    /\ unread' = Present
    /\ sequence' = NextSequence
    /\ memory' = <<>> /\ order' = <<>> /\ ids' = {}
    /\ UNCHANGED <<disk, current, pending, known, world>>

\* Mutant: the segments are read in the order glob happens to give them.
RecoverUnsorted ==
    /\ pc = "recovering" /\ unread # {}
    /\ \E n \in unread :
         /\ unread' = unread \ {n}
         /\ ~segments[n].corrupt
         /\ memory' = Newest(memory \o segments[n].records)
    /\ UNCHANGED <<disk, pc, sequence, current, pending, order, ids, known, world>>

\* Mutant: an unreadable segment raises out of the constructor.
RecoverOrRaise ==
    /\ pc = "recovering" /\ unread # {}
    /\ LET n == Lowest(unread) IN
         /\ unread' = unread \ {n}
         /\ memory' = Newest(memory \o segments[n].records)
         /\ pc' = IF segments[n].corrupt THEN "failed" ELSE pc
    /\ UNCHANGED <<disk, sequence, current, pending, order, ids, known, world>>

\* One turn of the loop of _recover: the records of a valid segment, its
\* unterminated last line left out; an invalid segment is renamed.
RecoverSegment ==
    /\ pc = "recovering" /\ unread # {}
    /\ LET n == Lowest(unread) IN
         /\ unread' = unread \ {n}
         /\ \/ /\ ~segments[n].corrupt
               /\ memory' = Newest(memory \o segments[n].records)
               /\ UNCHANGED disk
            \/ /\ segments[n].corrupt
               /\ segments' = [segments EXCEPT ![n] = NoSegment]
               /\ quarantine' = quarantine \cup {n}
               /\ UNCHANGED memory
    /\ UNCHANGED <<pc, sequence, current, pending, order, ids, known, world>>

\* open(.., "a"): a file that is there is continued.
Opened(seg) == IF seg.exists THEN seg ELSE EmptySegment

\* Mutant: the number is advanced before the name is made, and again after.
OpenSegmentSkipping ==
    /\ current' = sequence
    /\ sequence' = sequence + 2
    /\ segments' = [segments EXCEPT ![sequence] = Opened(@)]

\* _open_segment.
OpenSegment ==
    /\ current' = sequence
    /\ sequence' = sequence + 1
    /\ segments' = [segments EXCEPT ![sequence] = Opened(@)]

\* The memory is built, a segment opened; enforce_bounds comes next.
StartWriting ==
    /\ pc = "recovering" /\ unread = {}
    /\ pc' = "bounding"
    /\ order' = Newest(memory)
    /\ ids' = Elements(order')
    /\ OpenSegment
    /\ pending' = None
    /\ known' = Log
    /\ UNCHANGED <<quarantine, unread, memory, world>>

-----------------------------------------------------------------------------
(* remember() and append()                                                 *)

\* Mutant: the size is compared before the record is added.
RotatesLate == Size(segments[current]) > SegmentBytes
\* The record would not fit in the open segment.
MustRotate == Size(segments[current]) + 1 > SegmentBytes

\* Mutant: duplicates are looked for among the records of the open segment.
KnownInSegment(e) == e \in Elements(segments[current].records)
\* The id is among the newest ones kept in memory.
Known(e) == e \in ids

\* remember(e) of an unknown event; a known one changes nothing.
Remember(e) ==
    /\ pc = "idle"
    /\ ~Known(e)
    /\ pc' = "writing"
    /\ pending' = e
    /\ \/ ~MustRotate /\ UNCHANGED <<segments, current, sequence>>
       \/ MustRotate /\ sequence <= MaxSegments /\ OpenSegment
    /\ UNCHANGED <<quarantine, unread, memory, order, ids, known, world>>

Written(seg) ==
    [seg EXCEPT !.records = Append(@, pending), !.mtime = clock,
                !.born = IF seg.records = <<>> THEN clock ELSE @]
Torn(seg) == [seg EXCEPT !.torn = TRUE, !.mtime = clock]

\* write, flush and fsync returned.
WriteRecord ==
    /\ pc = "writing"
    /\ pc' = "bounding"
    /\ segments' = [segments EXCEPT ![current] = Written(@)]
    /\ known' = Append(known, pending)
    /\ UNCHANGED <<quarantine, unread, sequence, current, pending, memory, order, ids, world>>

\* write, flush or fsync raised, with part or all of the line written: the
\* exception ends the processor, the store is not called again.
WriteRaises ==
    /\ pc = "writing"
    /\ pc' = "failed"
    /\ segments' \in {segments, [segments EXCEPT ![current] = Torn(@)],
                      [segments EXCEPT ![current] = Written(@)]}
    /\ UNCHANGED <<quarantine, unread, sequence, current, pending, memory, order, ids,
                   known, world>>

Expired == {n \in Present \ {current} : segments[n].mtime + Retention < clock}

\* Mutant: only the age is enforced.
AgeVictims == IF Expired # {} THEN {Lowest(Expired)} ELSE {}
\* Mutant: the directory is walked from its newest segment down.
NewestVictims ==
    IF Total > MaxBytes /\ Present \ {current} # {}
    THEN {Highest(Present \ {current})}
    ELSE {}
\* What enforce_bounds unlinks next: expired segments, then, while the
\* directory is too large, the oldest; never the open one.
Victims ==
    IF Expired # {} THEN {Lowest(Expired)}
    ELSE IF Total > MaxBytes /\ Present \ {current} # {}
    THEN {Lowest(Present \ {current})}
    ELSE {}

Unlink ==
    /\ pc = "bounding"
    /\ \E n \in Victims : segments' = [segments EXCEPT ![n] = NoSegment]
    /\ UNCHANGED <<quarantine, process, world>>

\* enforce_bounds is done: back in the constructor, or in remember().
BoundsEnforced ==
    /\ pc = "bounding" /\ Victims = {}
    /\ pc' = IF pending = None THEN "idle" ELSE "remembering"
    /\ UNCHANGED <<disk, unread, sequence, current, pending, memory, order, ids, known, world>>

\* Mutant: the id that leaves the window stays in the set.
IdsNeverForgotten == ids \cup {pending}
\* The oldest id leaves the set when the window is full.
IdsAfter ==
    (IF Len(order) = Window THEN ids \ {Head(order)} ELSE ids) \cup {pending}

\* The rest of remember(): the event becomes visible to query().
UpdateMemory ==
    /\ pc = "remembering"
    /\ pc' = "idle"
    /\ memory' = Newest(Append(memory, pending))
    /\ ids' = IdsAfter
    /\ order' = Newest(Append(order, pending))
    /\ pending' = None
    /\ UNCHANGED <<disk, unread, sequence, current, known, world>>

-----------------------------------------------------------------------------
(* The world: crashes, damage, time                                        *)

GoDown ==
    /\ pc' = "down"
    /\ unread' = {} /\ pending' = None
    /\ memory' = <<>> /\ order' = <<>> /\ ids' = {} /\ known' = <<>>
    /\ UNCHANGED <<sequence, current, quarantine>>

\* The process is stopped or killed, anywhere; in the middle of a write it
\* leaves an unterminated line.
Crash ==
    /\ pc # "down" /\ crashes < MaxCrashes
    /\ crashes' = crashes + 1
    /\ GoDown
    /\ \/ UNCHANGED segments
       \/ /\ pc = "writing"
          /\ segments' = [segments EXCEPT ![current] = Torn(@)]
    /\ UNCHANGED <<clock, corruptions>>

Corrupt ==
    /\ pc = "down" /\ corruptions < MaxCorruptions
    /\ corruptions' = corruptions + 1
    /\ \E n \in Present :
         /\ ~segments[n].corrupt
         /\ segments' = [segments EXCEPT ![n].corrupt = TRUE]
    /\ UNCHANGED <<quarantine, process, clock, crashes>>

\* An operation of the store takes no time on the scale of the retention.
Tick ==
    /\ pc \in {"down", "idle", "failed"} /\ clock < MaxClock
    /\ clock' = clock + 1
    /\ UNCHANGED <<disk, process, crashes, corruptions>>

-----------------------------------------------------------------------------
Init ==
    /\ segments = [n \in Numbers |-> NoSegment]
    /\ quarantine = {}
    /\ pc = "down"
    /\ unread = {} /\ pending = None
    /\ sequence = 1 /\ current = 0
    /\ memory = <<>> /\ order = <<>> /\ ids = {} /\ known = <<>>
    /\ clock = 0 /\ crashes = 0 /\ corruptions = 0

StoreStep ==
    \/ Boot \/ RecoverSegment \/ StartWriting
    \/ WriteRecord \/ WriteRaises \/ Unlink \/ BoundsEnforced \/ UpdateMemory

Next ==
    \/ StoreStep
    \/ \E e \in Events : Remember(e)
    \/ Crash \/ Corrupt \/ Tick

Spec == Init /\ [][Next]_vars

\* The supervisor restarts the process and the process runs; crashes are
\* finitely many.
FairSpec == Spec /\ WF_vars(StoreStep)

-----------------------------------------------------------------------------
(* Properties                                                              *)

Segment == [exists : BOOLEAN, records : Seq(Events), torn : BOOLEAN,
            corrupt : BOOLEAN, born : Nat, mtime : Nat]

\* The types of the variables.
TypeOK ==
    /\ segments \in [Numbers -> Segment]
    /\ quarantine \subseteq Numbers
    /\ pc \in {"down", "recovering", "idle", "writing", "bounding", "remembering", "failed"}
    /\ unread \subseteq Numbers
    /\ sequence \in 1..(MaxSegments + 1)
    /\ current \in 0..MaxSegments
    /\ pending \in Events \cup {None}
    /\ memory \in Seq(Events) /\ order \in Seq(Events)
    /\ ids \subseteq Events
    /\ known \in Seq(Events)
    /\ clock \in Nat /\ crashes \in Nat /\ corruptions \in Nat

\* Suppression never loses an event: an id that remember() refuses is the
\* id of an event query() still serves (store.py remember, query).
SuppressesOnlyKnown == ids \subseteq Elements(memory)

\* While no segment was quarantined, the ids that are suppressed are exactly
\* those of the window, each once: an event is never stored twice within it.
WindowIsExact ==
    (corruptions = 0 /\ pc \in {"idle", "writing", "bounding", "remembering"}) =>
        /\ ids = Elements(order)
        /\ Cardinality(ids) = Len(order)
        /\ order = memory

\* A line is never appended behind an unterminated one: the segment being
\* written is a file of this process (store.py _next_sequence, _open_segment).
OpenSegmentIsWhole ==
    pc \in {"idle", "writing", "bounding", "remembering"} =>
        /\ segments[current].exists
        /\ ~segments[current].torn /\ ~segments[current].corrupt
        /\ Len(segments[current].records) <= SegmentBytes

\* The size bound is hard: between two operations the segments together are
\* within max_bytes, whatever crashes left behind (store.py enforce_bounds).
SizeBound == pc = "idle" => Total <= MaxBytes

IsSuffixOf(s, t) ==
    /\ Len(s) <= Len(t)
    /\ s = SubSeq(t, Len(t) - Len(s) + 1, Len(t))

\* What query() serves is the newest Window of what the process recovered and
\* has stored since; and of that, what a restart would read is the end: the
\* memory misses no event of the directory and orders none differently, and
\* the directory lost only old events (store.py _recover, remember).
MemoryMatchesDisk ==
    pc = "idle" => memory = Newest(known) /\ IsSuffixOf(Log, known)

\* "Maximum event age in the local store": once enforce_bounds is done, no
\* segment holds an event older than the retention.
RetentionBoundsAge ==
    pc = "remembering" =>
        \A n \in Present : segments[n].records # <<>> => segments[n].born + Retention >= clock

\* A process that went down is serving again, invalid segments or not, as
\* long as the bound leaves segment numbers for it and for what may crash it.
StartsAgain ==
    (pc = "down" /\ NextSequence + (MaxCrashes - crashes) <= MaxSegments) ~> (pc = "idle")

=============================================================================
