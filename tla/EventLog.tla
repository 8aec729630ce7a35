------------------------------ MODULE EventLog ------------------------------
(***************************************************************************)
(* What the event store promises its readers: a log that grows at its end, *)
(* one event at a time, no event twice among the newest Window of it, and  *)
(* that loses events only at its old end.  A damaged file is the           *)
(* exception: its events, a block of the log, are lost, and with them the  *)
(* promise not to repeat one.                                              *)
(***************************************************************************)
EXTENDS Naturals, Sequences

CONSTANTS Events, Window
VARIABLES log, damaged

NewestOf(s) == {s[i] : i \in {j \in 1..Len(s) : j > Len(s) - Window}}

Add(e) ==
    /\ damaged \/ e \notin NewestOf(log)
    /\ log' = Append(log, e)
    /\ UNCHANGED damaged

Forget ==
    /\ \E k \in 1..Len(log) : log' = SubSeq(log, k + 1, Len(log))
    /\ UNCHANGED damaged

Damage ==
    /\ \E i \in 1..Len(log) + 1, j \in 0..Len(log) :
         /\ i <= j + 1
         /\ log' = SubSeq(log, 1, i - 1) \o SubSeq(log, j + 1, Len(log))
    /\ damaged' = TRUE

Init == log = <<>> /\ damaged = FALSE
Next == (\E e \in Events : Add(e)) \/ Forget \/ Damage
Spec == Init /\ [][Next]_<<log, damaged>>
=============================================================================
