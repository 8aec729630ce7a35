------------------------- MODULE MCIntegrityEngine --------------------------
(* The instances of IntegrityEngine that TLC checks.                       *)
EXTENDS IntegrityEngine, TLC

CONSTANT LastTimeOfDay   \* the source times are 0..LastTimeOfDay

MCMessages == [track : Tracks, at : 0..LastTimeOfDay]
=============================================================================
