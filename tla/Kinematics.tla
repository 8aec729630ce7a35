------------------------------- MODULE Kinematics -------------------------------
(***************************************************************************)
(* The two kinematic evaluators (backend/app/services/kinematics.py,       *)
(* windowed_kinematics.py) on a line: a place is a distance along it, a    *)
(* track of 0 or 180 degrees is one of its directions, and -1 stands for a *)
(* field that was not received.  Rates are compared after multiplying by   *)
(* the interval, so that everything stays an integer.                      *)
(***************************************************************************)
EXTENDS Integers, Sequences, FiniteSetsExt

CONSTANT Policy     \* KinematicPolicy and WindowPolicy, a record

ASSUME PolicyAssumption == Policy.maxObservations \in Nat

Known(x) == x # -1
Apart(a, b) == IF a < b THEN b - a ELSE a - b
Larger(a, b) == IF a < b THEN b ELSE a

-----------------------------------------------------------------------------
(* evaluate_pair, for two reports of one aircraft and one source           *)

Interval(p, c) == c.at - p.at

PairInsufficient(p, c) ==
    \/ Interval(p, c) <= 0
    \/ Interval(p, c) < Policy.minInterval \/ Interval(p, c) > Policy.maxInterval
    \/ ~Known(p.place) \/ ~Known(c.place)

TooFast(p, c) == Apart(p.place, c.place) > Policy.maxSpeed * Interval(p, c)

AcceleratesTooMuch(p, c) ==
    /\ Known(p.speed) /\ Known(c.speed)
    /\ Apart(p.speed, c.speed) > Policy.maxAcceleration * Interval(p, c)

SpeedDisagrees(p, c) ==
    /\ Known(p.speed) /\ Known(c.speed)
    /\ 100 * Apart(Apart(p.place, c.place), c.speed * Interval(p, c))
         > Larger(100 * Policy.minDisagreement, Policy.disagreementPercent * c.speed) * Interval(p, c)

TurnsTooFast(p, c) ==
    /\ Known(p.track) /\ Known(c.track)
    /\ Larger(p.speed, c.speed) >= Policy.minTurnSpeed
    /\ Apart((c.track - p.track + 180) % 360, 180) > Policy.maxTurnRate * Interval(p, c)

ClimbsTooFast(p, c) ==
    /\ Known(p.altitude) /\ Known(c.altitude)
    /\ Apart(p.altitude, c.altitude) > Policy.maxVerticalRate * Interval(p, c)

FailedRules(p, c) ==
    LET fails == [speed |-> TooFast(p, c), acceleration |-> AcceleratesTooMuch(p, c),
                  disagreement |-> SpeedDisagrees(p, c), turn |-> TurnsTooFast(p, c),
                  climb |-> ClimbsTooFast(p, c)]
    IN  {rule \in DOMAIN fails : fails[rule]}

PairStatus(p, c) ==
    IF PairInsufficient(p, c) THEN "INSUFFICIENT_DATA"
    ELSE IF FailedRules(p, c) # {} THEN "FLAGGED" ELSE "PASS"

-----------------------------------------------------------------------------
(* evaluate_window, for the reports of one aircraft and source in order    *)

Span(w) == w[Len(w)].at - w[1].at

WindowInsufficient(w) ==
    \/ Len(w) < Policy.minObservations \/ Len(w) > Policy.maxObservations
    \/ Span(w) < Policy.minDuration \/ Span(w) > Policy.maxDuration
    \/ \E i \in 2..Len(w) : w[i].at <= w[i - 1].at
    \/ \E i \in 1..Len(w) : ~Known(w[i].place) \/ ~Known(w[i].speed) \/ ~Known(w[i].track)

\* Where the velocities reported on the way lead to.
Leg(w, i) == (w[i + 1].at - w[i].at) * w[i].speed * (IF w[i].track = 0 THEN 1 ELSE -1)
DeadReckoned(w) == w[1].place + MapThenSumSet(LAMBDA i : Leg(w, i), 1..(Len(w) - 1))

WindowStatus(w) ==
    IF WindowInsufficient(w) THEN "INSUFFICIENT_DATA"
    ELSE IF Apart(DeadReckoned(w), w[Len(w)].place) > Policy.maxResidual
         THEN "FLAGGED" ELSE "PASS"
=============================================================================
