--------------------------- MODULE ReplayController ---------------------------
(***************************************************************************)
(* The recorded replay (services/replay): one playback clock and one index *)
(* into the recording, commanded over HTTP and shared by every client that *)
(* is being served.                                                        *)
(*                                                                         *)
(* Everything runs in one event loop and no critical section suspends, so  *)
(* a command is one action, and so is what a handler does between two      *)
(* waits.  Positions and times are in the same unit; a speed is a factor.  *)
(***************************************************************************)
EXTENDS Integers, Sequences

CONSTANTS
    Clients,       \* those who may connect to the replay port
    Offsets,       \* offset_ms of the events of the recording
    Speeds,        \* SUPPORTED_SPEEDS
    LoopDelay,     \* loop_delay_seconds
    MaxTime,       \* bound: the clock
    MaxCommands    \* bound: commands that arrive

Duration == Offsets[Len(Offsets)]

\* _parse_event and Recording.from_dict refuse every other document.
ValidEvent(offset) == offset \in Nat
ValidRecording ==
    /\ Offsets # <<>>
    /\ \A i \in 1..Len(Offsets) : ValidEvent(Offsets[i])
    /\ \A i \in 2..Len(Offsets) : Offsets[i - 1] <= Offsets[i]

ASSUME RecordingAssumption ==
    /\ Offsets \in Seq(Int) /\ ValidRecording
    /\ Speeds \subseteq Nat \ {0} /\ 1 \in Speeds
    /\ LoopDelay \in Nat

VARIABLES
    playback,      \* state: PLAYING, PAUSED or COMPLETED
    speed, loop,
    position,      \* _position_ms: the playhead when it was last fixed
    anchor,        \* _anchor_time: when it was
    index,         \* _event_index: events handed out
    handler,       \* what each client's stream_recording is doing
    left,          \* clients that closed their end
    time,          \* the monotonic clock
    commands       \* commands that arrived

controller == <<playback, speed, loop, position, anchor, index>>
replayVars == <<controller, handler, left, time, commands>>

Idle == [at |-> "idle", until |-> 0, looping |-> FALSE]
Never == -1

-----------------------------------------------------------------------------
(* The controller                                                          *)

\* _current_position.
Playhead ==
    IF playback # "PLAYING" THEN position
    ELSE LET p == position + (time - anchor) * speed
         IN  IF p > Duration THEN Duration ELSE p

\* _changed.set(): everyone who waits looks again, but whose timer has fired.
Wake(h) == [c \in Clients |-> IF h[c].at = "waiting" THEN [h[c] EXCEPT !.at = "ready"] ELSE h[c]]

\* What the control API and its proxy let through: one command at a time.
Command ==
    /\ commands < MaxCommands
    /\ commands' = commands + 1
    /\ handler' = Wake(handler)
    /\ UNCHANGED <<loop, left, time>>

Pause ==
    /\ Command
    /\ \/ /\ playback = "PLAYING"
          /\ position' = Playhead /\ anchor' = time
          /\ playback' = "PAUSED"
       \/ playback # "PLAYING" /\ UNCHANGED <<playback, position, anchor>>
    /\ UNCHANGED <<speed, index>>

Resume ==
    /\ Command
    /\ \/ playback = "PAUSED" /\ anchor' = time /\ playback' = "PLAYING"
       \/ playback # "PAUSED" /\ UNCHANGED <<anchor, playback>>
    /\ UNCHANGED <<position, speed, index>>

\* restart(), by a command or by the handler whose loop delay has passed.
FromTheStart ==
    /\ position' = 0 /\ index' = 0
    /\ anchor' = time
    /\ playback' = "PLAYING"
    /\ UNCHANGED speed

Restart == Command /\ FromTheStart

\* bisect_left(_offsets, p).
Before(p) == {i \in 1..Len(Offsets) : Offsets[i] < p}
IndexAt(p) == CHOOSE n \in 0..Len(Offsets) : 1..n = Before(p)

Seek(p) ==
    /\ Command
    /\ position' = IF p > Duration THEN Duration ELSE p
    /\ index' = IndexAt(position')
    /\ anchor' = time
    /\ playback' = IF playback = "COMPLETED" THEN "PAUSED" ELSE playback
    /\ UNCHANGED speed

SetSpeed(s) ==
    /\ Command
    /\ position' = Playhead /\ anchor' = time
    /\ speed' = s
    /\ UNCHANGED <<playback, index>>

-----------------------------------------------------------------------------
(* The clients: stream_recording and next_event                            *)

ClientConnects(c) ==
    /\ handler[c].at = "idle"
    /\ handler' = [handler EXCEPT ![c] = [Idle EXCEPT !.at = "ready"]]
    /\ UNCHANGED <<controller, left, time, commands>>

ClientLeavesReplay(c) ==
    /\ handler[c].at # "idle" /\ c \notin left
    /\ left' = left \cup {c}
    /\ UNCHANGED <<controller, handler, time, commands>>

\* Rounded up: the wait ends when the event is due.
DueIn(i) == (Offsets[i] - Playhead + speed - 1) \div speed

Waits(c, until, looping) ==
    handler' = [handler EXCEPT ![c] = [at |-> "waiting", until |-> until, looping |-> looping]]

\* Mutant: the index is advanced when the wait for the event begins.
LookEarly(c) ==
    /\ handler[c].at = "ready"
    /\ playback = "PLAYING" /\ index < Len(Offsets)
    /\ index' = index + 1
    /\ Waits(c, time + DueIn(index + 1), FALSE)
    /\ UNCHANGED <<playback, speed, loop, position, anchor, left, time, commands>>

TakesEvent(c) ==
    /\ playback = "PLAYING" /\ index < Len(Offsets)
    /\ Offsets[index + 1] <= Playhead
    /\ index' = index + 1
    /\ handler' = [handler EXCEPT ![c].at = "sending"]
    /\ UNCHANGED <<playback, position>>

AwaitsEvent(c) ==
    /\ playback = "PLAYING" /\ index < Len(Offsets)
    /\ Offsets[index + 1] > Playhead
    /\ Waits(c, time + DueIn(index + 1), FALSE)
    /\ UNCHANGED <<playback, position, index>>

CompletesPlayback(c) ==
    /\ playback = "PLAYING" /\ index = Len(Offsets)
    /\ position' = Duration
    /\ playback' = "COMPLETED"
    /\ Waits(c, IF loop THEN time + LoopDelay ELSE Never, loop)
    /\ UNCHANGED index

AwaitsCommand(c) ==
    /\ playback # "PLAYING"
    /\ Waits(c, Never, FALSE)
    /\ UNCHANGED <<playback, position, index>>

\* The turn of the loop of next_event up to its wait, or to its return.
Look(c) ==
    /\ handler[c].at = "ready"
    /\ TakesEvent(c) \/ AwaitsEvent(c) \/ CompletesPlayback(c) \/ AwaitsCommand(c)
    /\ UNCHANGED <<speed, loop, anchor, left, time, commands>>

\* The timer of wait_for fires; what arrives from here on does not stop it.
TimerFires(c) ==
    /\ handler[c].at = "waiting" /\ handler[c].until # Never
    /\ handler[c].until <= time
    /\ handler' = [handler EXCEPT ![c].at = "expired"]
    /\ UNCHANGED <<controller, left, time, commands>>

\* Mutant: the timeout of the loop delay is taken like any other.
ResumeWithoutLoop(c) ==
    /\ handler[c].at = "expired"
    /\ handler' = [handler EXCEPT ![c].at = "ready"]
    /\ UNCHANGED <<controller, left, time, commands>>

\* The handler runs again: after the loop delay the recording starts over.
ResumeHandler(c) ==
    /\ handler[c].at = "expired"
    /\ \/ ~handler[c].looping /\ UNCHANGED <<playback, speed, position, anchor, index>>
          /\ handler' = [handler EXCEPT ![c].at = "ready"]
       \/ handler[c].looping /\ FromTheStart
          /\ handler' = Wake([handler EXCEPT ![c].at = "ready"])
    /\ UNCHANGED <<loop, left, time, commands>>

\* write and drain; then the loop ends if the client has closed its end.  The
\* event of a client that left is seen by nobody.
Send(c) ==
    /\ handler[c].at = "sending"
    /\ handler' = [handler EXCEPT ![c] = IF c \in left THEN Idle ELSE [@ EXCEPT !.at = "ready"]]
    /\ left' = left \ {c}
    /\ UNCHANGED <<controller, time, commands>>

\* A timer that has expired is served before time passes.
TimePasses ==
    /\ time < MaxTime
    /\ time' = time + 1
    /\ \A c \in Clients : handler[c].at \in {"idle", "waiting"} /\
                          (handler[c].at = "waiting" /\ handler[c].until # Never
                               => handler[c].until > time)
    /\ UNCHANGED <<controller, handler, left, commands>>

-----------------------------------------------------------------------------
ReplayInit ==
    /\ playback = "PLAYING" /\ speed \in Speeds /\ loop \in BOOLEAN
    /\ position = 0 /\ anchor = 0 /\ index = 0
    /\ handler = [c \in Clients |-> Idle]
    /\ left = {}
    /\ time = 0 /\ commands = 0

HandlerStep(c) == Look(c) \/ TimerFires(c) \/ ResumeHandler(c) \/ Send(c)

ReplayNext ==
    \/ Pause \/ Resume \/ Restart
    \/ \E p \in 0..(Duration + 1) : Seek(p)
    \/ \E s \in Speeds : SetSpeed(s)
    \/ \E c \in Clients : ClientConnects(c) \/ ClientLeavesReplay(c) \/ HandlerStep(c)
    \/ TimePasses

ReplaySpec == ReplayInit /\ [][ReplayNext]_replayVars

-----------------------------------------------------------------------------
(* Properties                                                              *)

\* No event is handed out before its time, and none that was handed out is
\* ahead of the playhead, through every command (controller.py next_event).
EventsAreDue == \A i \in 1..index : Offsets[i] <= Playhead

\* A looping recording that has come to its end is waited for by a handler that
\* will start it over (controller.py next_event).  Only until a command comes: a
\* command during the delay ends that wait, and nobody begins another.
LoopIsPending ==
    playback = "COMPLETED" /\ loop /\ commands = 0 =>
        \E c \in Clients : handler[c].at \in {"waiting", "expired"} /\ handler[c].looping

\* The recording is played at its pace and, in a loop, goes on (controller.py).
ReplayKeepsTime == EventsAreDue /\ LoopIsPending
=============================================================================
