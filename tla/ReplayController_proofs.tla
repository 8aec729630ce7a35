----------------------- MODULE ReplayController_proofs -----------------------
(***************************************************************************)
(* Proofs about ReplayController, for every recording that the code loads, *)
(* every set of clients and speeds, and clocks without a bound.            *)
(***************************************************************************)
EXTENDS ReplayController, WellFoundedInduction, TLAPS

-----------------------------------------------------------------------------
(* The recording                                                           *)

\* A set of naturals that is not empty has a least element.
LEMMA LeastIndex ==
    ASSUME NEW T \in SUBSET Nat, T # {}
    PROVE  \E x \in T : \A y \in T : x <= y
<1>1. PICK x \in T : \A y \in T : ~(<<y, x>> \in OpToRel(<, Nat))
  BY NatLessThanWellFounded, WFMin
<1>2. \A y \in T : <<y, x>> \in OpToRel(<, Nat) <=> y < x
  BY DEF OpToRel
<1>3. \A y \in T : ~(y < x)
  BY <1>1, <1>2
<1>4. \A y \in T : x \in Nat /\ y \in Nat
  OBVIOUS
<1>5. \A m, n \in Nat : ~(n < m) => m <= n
  OBVIOUS
<1>. QED BY <1>3, <1>4, <1>5

\* The recording has a first and a last event, and its offsets are naturals.
LEMMA RecordingFacts ==
    /\ Len(Offsets) \in Nat \ {0}
    /\ \A i \in 1..Len(Offsets) : Offsets[i] \in Nat
    /\ Duration \in Nat
<1>1. Offsets \in Seq(Int) /\ Offsets # <<>>
  BY RecordingAssumption DEF RecordingAssumption, ValidRecording
<1>2. Len(Offsets) \in Nat \ {0}
  BY <1>1
<1>3. \A i \in 1..Len(Offsets) : Offsets[i] \in Nat
  BY RecordingAssumption DEF RecordingAssumption, ValidRecording, ValidEvent
<1>. QED BY <1>2, <1>3 DEF Duration

\* What Recording.from_dict checks of neighbours holds of any two events.
LEMMA OffsetsSorted ==
    ASSUME NEW i \in 1..Len(Offsets), NEW j \in 1..Len(Offsets), i <= j
    PROVE  Offsets[i] <= Offsets[j]
<1>. DEFINE Lower == {k \in i..Len(Offsets) : Offsets[k] < Offsets[i]}
<1>0. /\ Len(Offsets) \in Nat \ {0}
      /\ \A k \in 1..Len(Offsets) : Offsets[k] \in Nat
  BY RecordingFacts
<1>1. \A k \in 2..Len(Offsets) : Offsets[k - 1] <= Offsets[k]
  BY RecordingAssumption DEF RecordingAssumption, ValidRecording
<1>2. ASSUME Lower # {}
      PROVE  FALSE
  <2>1. Lower \in SUBSET Nat
    BY <1>0
  <2>2. PICK k \in Lower : \A m \in Lower : k <= m
    <3>. HIDE DEF Lower
    <3>. QED BY <1>2, <2>1, LeastIndex
  <2>3. k \in i..Len(Offsets) /\ k # i /\ Offsets[k] < Offsets[i]
    BY <1>0, <2>2
  <2>4. k - 1 \in i..Len(Offsets) /\ k \in 2..Len(Offsets)
    BY <1>0, <2>3
  <2>5. Offsets[k - 1] <= Offsets[k] /\ Offsets[k - 1] \in Nat /\ Offsets[k] \in Nat
    BY <1>0, <1>1, <2>4
  <2>6. k - 1 \in Lower
    BY <1>0, <2>3, <2>4, <2>5
  <2>. QED BY <2>2, <2>3, <2>6
<1>3. j \in i..Len(Offsets) /\ j \notin Lower
  BY <1>0, <1>2
<1>. QED BY <1>0, <1>3

\* bisect_left: the events before a position are the first ones.
LEMMA IndexFound ==
    ASSUME NEW p \in Nat
    PROVE  IndexAt(p) \in 0..Len(Offsets) /\ \A i \in 1..IndexAt(p) : Offsets[i] < p
<1>. DEFINE n == Len(Offsets)
            Later == {k \in 1..(n + 1) : k = n + 1 \/ Offsets[k] >= p}
<1>0. n \in Nat \ {0} /\ \A k \in 1..n : Offsets[k] \in Nat
  BY RecordingFacts
<1>1. Later \in SUBSET Nat /\ n + 1 \in Later
  BY <1>0
<1>2. PICK k \in Later : \A m \in Later : k <= m
  <2>. HIDE DEF Later
  <2>. QED BY <1>1, LeastIndex
<1>3. k - 1 \in 0..n
  BY <1>0, <1>2
<1>4. 1..(k - 1) = Before(p)
  <2>1. ASSUME NEW i \in 1..(k - 1)
        PROVE  i \in Before(p)
    <3>1. i \in 1..n /\ i \notin Later
      BY <1>0, <1>2
    <3>. QED BY <1>0, <3>1 DEF Before
  <2>2. ASSUME NEW i \in Before(p)
        PROVE  i \in 1..(k - 1)
    <3>1. i \in 1..n /\ Offsets[i] < p
      BY DEF Before
    <3>2. CASE k <= i
      <4>1. k \in 1..n /\ Offsets[k] >= p
        BY <1>0, <1>2, <3>1, <3>2
      <4>2. Offsets[k] <= Offsets[i]
        BY <3>1, <3>2, <4>1, OffsetsSorted
      <4>. QED BY <1>0, <3>1, <4>1, <4>2
    <3>. QED BY <1>0, <1>3, <3>1, <3>2
  <2>. QED BY <2>1, <2>2
<1>5. IndexAt(p) \in 0..n /\ 1..IndexAt(p) = Before(p)
  BY <1>3, <1>4 DEF IndexAt
<1>. QED BY <1>5 DEF Before

-----------------------------------------------------------------------------
(* Types                                                                   *)

Places == {"idle", "ready", "waiting", "expired", "sending"}
HandlerState == [at : Places, until : Int, looping : BOOLEAN]

\* What becomes of a handler in one step.
LEMMA HandlerStates ==
    /\ Idle \in HandlerState /\ [Idle EXCEPT !.at = "ready"] \in HandlerState
    /\ \A h \in HandlerState : \A p \in Places : [h EXCEPT !.at = p] \in HandlerState
    /\ \A until \in Int : \A looping \in BOOLEAN :
          [at |-> "waiting", until |-> until, looping |-> looping] \in HandlerState
<1>1. Idle \in HandlerState
  BY DEF Idle, HandlerState, Places
<1>2. ASSUME NEW h \in HandlerState, NEW p \in Places
      PROVE  [h EXCEPT !.at = p] \in HandlerState
  BY DEF HandlerState
<1>3. ASSUME NEW until \in Int, NEW looping \in BOOLEAN
      PROVE  [at |-> "waiting", until |-> until, looping |-> looping] \in HandlerState
  BY DEF HandlerState, Places
<1>4. "ready" \in Places
  BY DEF Places
<1>. QED BY <1>1, <1>2, <1>3, <1>4

ReplayTypes ==
    /\ playback \in {"PLAYING", "PAUSED", "COMPLETED"}
    /\ speed \in Speeds /\ loop \in BOOLEAN
    /\ position \in 0..Duration
    /\ anchor \in Nat /\ time \in Nat /\ anchor <= time
    /\ index \in 0..Len(Offsets)
    /\ handler \in [Clients -> HandlerState]
    /\ commands \in Nat

\* Where the playhead is after a way from p, and its stops at the end.
Clip(p, way) == IF p + way > Duration THEN Duration ELSE p + way

LEMMA ClipFacts ==
    ASSUME NEW p \in 0..Duration
    PROVE  /\ Clip(p, 0) = p
           /\ \A w \in Nat : Clip(p, w) \in 0..Duration
           /\ \A v, w \in Nat : v <= w => Clip(p, v) <= Clip(p, w)
<1>1. Duration \in Nat
  BY RecordingFacts
<1>. QED BY <1>1 DEF Clip

LEMMA WayFacts ==
    ASSUME NEW now \in Nat, NEW since \in Nat, since <= now, NEW s \in Nat
    PROVE  /\ (now - since) * s \in Nat
           /\ (now + 1 - since) * s \in Nat
           /\ (now - since) * s <= (now + 1 - since) * s
           /\ now = since => (now - since) * s = 0
<1>1. \A k \in Nat : k * s \in Nat /\ (k + 1) * s \in Nat /\ k * s <= (k + 1) * s
  <2>1. \A k \in Nat : (k + 1) * s = k * s + s /\ k * s \in Nat
    OBVIOUS
  <2>. QED BY <2>1
<1>2. now - since \in Nat /\ now + 1 - since = (now - since) + 1
  OBVIOUS
<1>3. 0 * s = 0
  OBVIOUS
<1>4. now = since => now - since = 0
  OBVIOUS
<1>. QED BY <1>1, <1>2, <1>3, <1>4

\* The playhead stays within the recording.
LEMMA PlayheadRange == ReplayTypes => Playhead \in 0..Duration
<1>. SUFFICES ASSUME ReplayTypes
              PROVE  Playhead \in 0..Duration
  OBVIOUS
<1>1. position \in 0..Duration /\ speed \in Nat
  BY RecordingAssumption DEF ReplayTypes, RecordingAssumption
<1>2. (time - anchor) * speed \in Nat
  BY <1>1, WayFacts DEF ReplayTypes
<1>3. Clip(position, (time - anchor) * speed) \in 0..Duration
  BY <1>1, <1>2, ClipFacts
<1>. QED BY <1>1, <1>3 DEF Playhead, Clip

LEMMA WakeTypes ==
    ASSUME NEW h \in [Clients -> HandlerState]
    PROVE  Wake(h) \in [Clients -> HandlerState]
BY HandlerStates DEF Wake, Places

LEMMA ReplayTypesInit == ReplayInit => ReplayTypes
BY RecordingFacts, HandlerStates DEF ReplayInit, ReplayTypes

\* A playhead that has just been fixed, or does not move, is the position.
LEMMA PlayheadFixed ==
    ASSUME ReplayTypes', anchor' = time' \/ playback' # "PLAYING"
    PROVE  Playhead' = position'
<1>1. CASE playback' # "PLAYING"
  BY <1>1 DEF Playhead
<1>2. CASE anchor' = time'
  <2>1. position' \in 0..Duration /\ speed' \in Nat /\ time' \in Nat /\ anchor' \in Nat
    BY RecordingAssumption DEF ReplayTypes, RecordingAssumption
  <2>2. (time' - anchor') * speed' = 0
    BY <1>2, <2>1, WayFacts DEF ReplayTypes
  <2>3. Clip(position', (time' - anchor') * speed') = position'
    BY <2>1, <2>2, ClipFacts
  <2>. QED BY <2>3 DEF Playhead, Clip
<1>. QED BY <1>1, <1>2

\* The playhead before and after a moment of time.
LEMMA NextPlayhead ==
    ASSUME time \in Nat, anchor \in Nat, speed \in Nat,
           time' = time + 1, UNCHANGED <<playback, position, anchor, speed>>
    PROVE  /\ Playhead = IF playback = "PLAYING"
                         THEN Clip(position, (time - anchor) * speed) ELSE position
           /\ Playhead' = IF playback = "PLAYING"
                          THEN Clip(position, (time + 1 - anchor) * speed) ELSE position
<1>1. Playhead = IF playback = "PLAYING"
                 THEN Clip(position, (time - anchor) * speed) ELSE position
  BY DEF Playhead, Clip
<1>2. Playhead' = IF playback' = "PLAYING"
                  THEN Clip(position', (time' - anchor') * speed') ELSE position'
  BY DEF Playhead, Clip
<1>3. playback' = playback /\ position' = position /\ anchor' = anchor /\ speed' = speed
  OBVIOUS
<1>4. (time' - anchor') * speed' = (time + 1 - anchor) * speed
  BY <1>3
<1>. QED BY <1>1, <1>2, <1>3, <1>4, Zenon

LEMMA ReplayTypesStep == ReplayTypes /\ [ReplayNext]_replayVars => ReplayTypes'
<1>. SUFFICES ASSUME ReplayTypes, [ReplayNext]_replayVars
              PROVE  ReplayTypes'
  OBVIOUS
<1>0. /\ Duration \in Nat /\ Len(Offsets) \in Nat /\ LoopDelay \in Nat
      /\ Playhead \in 0..Duration /\ speed \in Nat \ {0}
  BY RecordingFacts, PlayheadRange, RecordingAssumption DEF RecordingAssumption, ReplayTypes
<1>1. Wake(handler) \in [Clients -> HandlerState] /\ handler \in [Clients -> HandlerState]
  BY WakeTypes DEF ReplayTypes
<1>2. CASE Pause
  BY <1>0, <1>1, <1>2 DEF Pause, Command, ReplayTypes
<1>3. CASE Resume
  BY <1>0, <1>1, <1>3 DEF Resume, Command, ReplayTypes
<1>4. CASE Restart
  BY <1>0, <1>1, <1>4 DEF Restart, FromTheStart, Command, ReplayTypes
<1>5. ASSUME NEW p \in 0..(Duration + 1), Seek(p)
      PROVE  ReplayTypes'
  <2>1. position' \in 0..Duration /\ position' \in Nat
    BY <1>0, <1>5 DEF Seek
  <2>2. index' \in 0..Len(Offsets)
    BY <1>5, <2>1, IndexFound DEF Seek
  <2>. QED BY <1>0, <1>1, <1>5, <2>1, <2>2 DEF Seek, Command, ReplayTypes
<1>6. ASSUME NEW s \in Speeds, SetSpeed(s)
      PROVE  ReplayTypes'
  BY <1>0, <1>1, <1>6 DEF SetSpeed, Command, ReplayTypes
<1>7. ASSUME NEW c \in Clients, Look(c)
      PROVE  ReplayTypes'
  <2>1. UNCHANGED <<speed, loop, anchor, left, time, commands>>
    BY <1>7 DEF Look
  <2>2. CASE TakesEvent(c)
    <3>1. handler' \in [Clients -> HandlerState]
      BY <1>1, <2>2, HandlerStates DEF TakesEvent, Places
    <3>. QED BY <1>0, <2>1, <2>2, <3>1 DEF TakesEvent, ReplayTypes
  <2>3. CASE AwaitsEvent(c)
    <3>1. index + 1 \in 1..Len(Offsets)
      BY <1>0, <2>3 DEF AwaitsEvent, ReplayTypes
    <3>2. Offsets[index + 1] \in Nat
      BY <3>1, RecordingFacts
    <3>3. DueIn(index + 1) \in Int
      <4>. DEFINE far == Offsets[index + 1] - Playhead + speed - 1
      <4>1. far \in Int /\ speed \in Nat \ {0}
        BY <1>0, <3>2
      <4>2. far \div speed \in Int
        BY <4>1
      <4>. QED BY <4>2 DEF DueIn
    <3>4. time + DueIn(index + 1) \in Int
      BY <3>3 DEF ReplayTypes
    <3>5. handler' \in [Clients -> HandlerState]
      BY <1>1, <2>3, <3>4, HandlerStates DEF AwaitsEvent, Waits
    <3>. QED BY <2>1, <2>3, <3>5 DEF AwaitsEvent, ReplayTypes
  <2>4. CASE CompletesPlayback(c)
    <3>1. (IF loop THEN time + LoopDelay ELSE Never) \in Int /\ loop \in BOOLEAN
      BY <1>0 DEF Never, ReplayTypes
    <3>2. handler' \in [Clients -> HandlerState]
      BY <1>1, <2>4, <3>1, HandlerStates DEF CompletesPlayback, Waits
    <3>. QED BY <1>0, <2>1, <2>4, <3>2 DEF CompletesPlayback, ReplayTypes
  <2>5. CASE AwaitsCommand(c)
    <3>1. Never \in Int
      BY DEF Never
    <3>2. handler' \in [Clients -> HandlerState]
      BY <1>1, <2>5, <3>1, HandlerStates DEF AwaitsCommand, Waits
    <3>. QED BY <2>1, <2>5, <3>2 DEF AwaitsCommand, ReplayTypes
  <2>. QED BY <1>7, <2>2, <2>3, <2>4, <2>5 DEF Look
<1>8. ASSUME NEW c \in Clients, ResumeHandler(c)
      PROVE  ReplayTypes'
  <2>1. [handler EXCEPT ![c].at = "ready"]
            \in [Clients -> HandlerState]
    BY <1>1, HandlerStates DEF Places
  <2>2. handler' \in [Clients -> HandlerState]
    BY <1>8, <2>1, WakeTypes DEF ResumeHandler
  <2>. QED BY <1>0, <1>8, <2>2 DEF ResumeHandler, FromTheStart, ReplayTypes
<1>9. ASSUME NEW c \in Clients,
             ClientConnects(c) \/ ClientLeavesReplay(c) \/ TimerFires(c) \/ Send(c)
      PROVE  ReplayTypes'
  <2>1. handler' \in [Clients -> HandlerState]
    <3>1. /\ handler \in [Clients -> HandlerState] /\ "ready" \in Places /\ "expired" \in Places
          /\ handler[c] \in HandlerState
      BY DEF ReplayTypes, Places
    <3>2. CASE ClientConnects(c)
      BY <3>1, <3>2, HandlerStates DEF ClientConnects
    <3>3. CASE TimerFires(c)
      BY <3>1, <3>3, HandlerStates DEF TimerFires
    <3>4. CASE Send(c)
      BY <3>1, <3>4, HandlerStates DEF Send
    <3>5. CASE ClientLeavesReplay(c)
      BY <3>1, <3>5 DEF ClientLeavesReplay
    <3>. QED BY <1>9, <3>2, <3>3, <3>4, <3>5
  <2>. QED BY <1>9, <2>1 DEF ClientConnects, ClientLeavesReplay, TimerFires, Send, controller, ReplayTypes
<1>10. CASE TimePasses
  BY <1>10 DEF TimePasses, controller, ReplayTypes
<1>11. CASE UNCHANGED replayVars
  BY <1>11 DEF replayVars, controller, ReplayTypes
<1>. QED
  BY <1>2, <1>3, <1>4, <1>5, <1>6, <1>7, <1>8, <1>9, <1>10, <1>11 DEF ReplayNext, HandlerStep

-----------------------------------------------------------------------------
(* The properties                                                          *)

\* No step takes the playhead behind an event that was handed out.
LEMMA DueStep == ReplayTypes /\ EventsAreDue /\ [ReplayNext]_replayVars => EventsAreDue'
<1>. SUFFICES ASSUME ReplayTypes, EventsAreDue, [ReplayNext]_replayVars, ReplayTypes'
              PROVE  EventsAreDue'
  BY ReplayTypesStep
<1>0. /\ Duration \in Nat /\ Len(Offsets) \in Nat /\ index \in 0..Len(Offsets)
      /\ position \in 0..Duration
      /\ Playhead \in 0..Duration /\ speed \in Nat \ {0}
      /\ \A i \in 1..Len(Offsets) : Offsets[i] \in Nat
      /\ anchor \in Nat /\ time \in Nat /\ anchor <= time
  BY RecordingFacts, PlayheadRange, RecordingAssumption DEF RecordingAssumption, ReplayTypes
<1>1. ASSUME index' = index, Playhead' = Playhead
      PROVE  EventsAreDue'
  BY <1>1 DEF EventsAreDue
<1>2. CASE Pause
  <2>1. CASE playback = "PLAYING"
    BY <1>1, <1>2, <2>1, PlayheadFixed DEF Pause, Command
  <2>2. CASE playback # "PLAYING"
    BY <1>1, <1>2, <2>2 DEF Pause, Command, Playhead
  <2>. QED BY <2>1, <2>2
<1>3. CASE Resume
  <2>1. CASE playback = "PAUSED"
    <3>1. Playhead' = position' /\ position' = position /\ Playhead = position /\ index' = index
      BY <1>3, <2>1, PlayheadFixed DEF Resume, Command, Playhead
    <3>. QED BY <1>1, <3>1
  <2>2. CASE playback # "PAUSED"
    BY <1>1, <1>3, <2>2 DEF Resume, Command, Playhead
  <2>. QED BY <2>1, <2>2
<1>4. ASSUME FromTheStart
      PROVE  EventsAreDue'
  BY <1>4 DEF FromTheStart, EventsAreDue
<1>5. ASSUME NEW p \in 0..(Duration + 1), Seek(p)
      PROVE  EventsAreDue'
  <2>1. position' \in 0..Duration /\ position' \in Nat /\ index' = IndexAt(position')
    BY <1>0, <1>5 DEF Seek
  <2>2. Playhead' = position'
    BY <1>5, PlayheadFixed DEF Seek, Command
  <2>3. index' \in 0..Len(Offsets) /\ \A i \in 1..index' : Offsets[i] < position'
    BY <2>1, IndexFound
  <2>. QED BY <1>0, <2>1, <2>2, <2>3 DEF EventsAreDue
<1>6. ASSUME NEW s \in Speeds, SetSpeed(s)
      PROVE  EventsAreDue'
  BY <1>1, <1>6, PlayheadFixed DEF SetSpeed, Command
<1>7. ASSUME NEW c \in Clients, Look(c)
      PROVE  EventsAreDue'
  <2>1. UNCHANGED <<speed, anchor, time>>
    BY <1>7 DEF Look
  <2>2. CASE TakesEvent(c)
    <3>1. Playhead' = Playhead
      BY <2>1, <2>2 DEF TakesEvent, Playhead
    <3>2. ASSUME NEW i \in 1..index'
          PROVE  Offsets[i] <= Playhead
      BY <1>0, <2>2 DEF TakesEvent, EventsAreDue
    <3>. QED BY <3>1, <3>2 DEF EventsAreDue
  <2>3. CASE CompletesPlayback(c)
    <3>1. Playhead' = Duration /\ index' = Len(Offsets)
      BY <2>3, PlayheadFixed DEF CompletesPlayback
    <3>2. \A i \in 1..Len(Offsets) : Offsets[i] <= Duration
      <4>1. Len(Offsets) \in 1..Len(Offsets)
        BY RecordingFacts
      <4>. QED BY <4>1, OffsetsSorted DEF Duration
    <3>. QED BY <3>1, <3>2 DEF EventsAreDue
  <2>4. CASE AwaitsEvent(c) \/ AwaitsCommand(c)
    BY <1>1, <2>1, <2>4 DEF AwaitsEvent, AwaitsCommand, Playhead
  <2>. QED BY <1>7, <2>2, <2>3, <2>4 DEF Look
<1>8. ASSUME NEW c \in Clients, ResumeHandler(c)
      PROVE  EventsAreDue'
  BY <1>1, <1>4, <1>8 DEF ResumeHandler, Playhead
<1>9. CASE UNCHANGED <<controller, time>>
  BY <1>1, <1>9 DEF controller, Playhead
<1>10. CASE TimePasses
  <2>1. /\ time' = time + 1
        /\ UNCHANGED <<playback, position, anchor, speed, index>>
    BY <1>10 DEF TimePasses, controller
  <2>. DEFINE gone == (time - anchor) * speed
              more == (time + 1 - anchor) * speed
  <2>2. gone \in Nat /\ more \in Nat /\ gone <= more
    BY <1>0, WayFacts
  <2>3. /\ Playhead = IF playback = "PLAYING" THEN Clip(position, gone) ELSE position
        /\ Playhead' = IF playback = "PLAYING" THEN Clip(position, more) ELSE position
    BY <1>0, <2>1, NextPlayhead
  <2>. HIDE DEF gone, more
  <2>4. Playhead <= Playhead' /\ Playhead' \in 0..Duration
    BY <1>0, <2>2, <2>3, ClipFacts
  <2>. QED BY <1>0, <2>1, <2>4 DEF EventsAreDue
<1>11. ASSUME NEW c \in Clients,
              ClientConnects(c) \/ ClientLeavesReplay(c) \/ TimerFires(c) \/ Send(c)
       PROVE  EventsAreDue'
  BY <1>9, <1>11 DEF ClientConnects, ClientLeavesReplay, TimerFires, Send
<1>12. CASE UNCHANGED replayVars
  BY <1>9, <1>12 DEF replayVars
<1>. QED
  BY <1>2, <1>3, <1>4, <1>5, <1>6, <1>7, <1>8, <1>10, <1>11, <1>12
     DEF ReplayNext, HandlerStep, Restart

\* The handler that found the end of a loop waits until it starts it over.
LEMMA LoopStep == ReplayTypes /\ LoopIsPending /\ [ReplayNext]_replayVars => LoopIsPending'
<1>. SUFFICES ASSUME ReplayTypes, LoopIsPending, [ReplayNext]_replayVars
              PROVE  LoopIsPending'
  OBVIOUS
<1>. DEFINE Pending(h) == \E c \in Clients : h[c].at \in {"waiting", "expired"} /\ h[c].looping
<1>0. /\ handler \in [Clients -> HandlerState]
      /\ index \in 0..Len(Offsets) /\ Len(Offsets) \in Nat
  BY RecordingFacts DEF ReplayTypes
<1>1. CASE Command
  <2>1. commands' # 0
    BY <1>1 DEF Command, ReplayTypes
  <2>. QED BY <2>1 DEF LoopIsPending
<1>2. CASE playback' = "PLAYING"
  BY <1>2 DEF LoopIsPending
<1>3. ASSUME NEW c \in Clients, handler[c].at \notin {"waiting", "expired"},
             \A d \in Clients \ {c} : handler'[d] = handler[d],
             UNCHANGED <<playback, loop, commands>>
      PROVE  LoopIsPending'
  BY <1>3 DEF LoopIsPending
<1>4. ASSUME NEW c \in Clients, Look(c)
      PROVE  LoopIsPending'
  <2>1. handler[c].at = "ready" /\ UNCHANGED <<loop, commands>>
    BY <1>4 DEF Look
  <2>2. CASE TakesEvent(c) \/ AwaitsEvent(c)
    BY <1>2, <2>2 DEF TakesEvent, AwaitsEvent
  <2>3. CASE CompletesPlayback(c)
    <3>1. handler'[c].at = "waiting" /\ handler'[c].looping = loop
      BY <1>0, <2>3 DEF CompletesPlayback, Waits
    <3>. QED BY <2>1, <3>1 DEF LoopIsPending
  <2>4. CASE AwaitsCommand(c)
    <3>1. /\ \A d \in Clients \ {c} : handler'[d] = handler[d]
          /\ UNCHANGED playback
      BY <1>0, <2>4 DEF AwaitsCommand, Waits
    <3>. QED BY <1>3, <2>1, <3>1
  <2>. QED BY <1>4, <2>2, <2>3, <2>4 DEF Look
<1>5. ASSUME NEW c \in Clients, TimerFires(c)
      PROVE  LoopIsPending'
  <2>1. /\ handler[c].at = "waiting"
        /\ handler'[c].at = "expired" /\ handler'[c].looping = handler[c].looping
        /\ \A d \in Clients \ {c} : handler'[d] = handler[d]
    BY <1>0, <1>5 DEF TimerFires
  <2>2. UNCHANGED <<playback, loop, commands>>
    BY <1>5 DEF TimerFires, controller
  <2>. QED BY <2>1, <2>2 DEF LoopIsPending
<1>6. ASSUME NEW c \in Clients, ResumeHandler(c)
      PROVE  LoopIsPending'
  <2>1. CASE handler[c].looping
    BY <1>2, <1>6, <2>1 DEF ResumeHandler, FromTheStart
  <2>2. CASE ~handler[c].looping
    <3>1. \A d \in Clients \ {c} : handler'[d] = handler[d]
      BY <1>0, <1>6, <2>2 DEF ResumeHandler
    <3>2. UNCHANGED <<playback, loop, commands>>
      BY <1>6, <2>2 DEF ResumeHandler
    <3>. QED BY <2>2, <3>1, <3>2 DEF LoopIsPending
  <2>. QED BY <2>1, <2>2
<1>7. ASSUME NEW c \in Clients, ClientConnects(c) \/ Send(c)
      PROVE  LoopIsPending'
  <2>1. /\ handler[c].at \in {"idle", "sending"}
        /\ \A d \in Clients \ {c} : handler'[d] = handler[d]
    BY <1>0, <1>7 DEF ClientConnects, Send
  <2>2. UNCHANGED <<playback, loop, commands>>
    BY <1>7 DEF ClientConnects, Send, controller
  <2>. QED BY <1>3, <2>1, <2>2
<1>8. CASE UNCHANGED <<playback, loop, commands, handler>>
  BY <1>8 DEF LoopIsPending
<1>9. CASE TimePasses \/ UNCHANGED replayVars \/ \E c \in Clients : ClientLeavesReplay(c)
  BY <1>8, <1>9 DEF TimePasses, replayVars, ClientLeavesReplay, controller
<1>. QED
  BY <1>1, <1>4, <1>5, <1>6, <1>7, <1>9
     DEF ReplayNext, HandlerStep, Pause, Resume, Restart, Seek, SetSpeed

\* Every event that was handed out is due, through every command, and while no
\* command has come, a loop at its end is waited for by a handler that starts it
\* over (controller.py next_event).
THEOREM TimeCorrect == ReplaySpec => []ReplayKeepsTime
<1>1. ReplayInit => EventsAreDue /\ LoopIsPending
  BY DEF ReplayInit, EventsAreDue, LoopIsPending
<1>2. EventsAreDue /\ LoopIsPending => ReplayKeepsTime
  BY DEF ReplayKeepsTime
<1>. QED
  BY <1>1, <1>2, ReplayTypesInit, ReplayTypesStep, DueStep, LoopStep, PTL DEF ReplaySpec

=============================================================================
