-------------------------- MODULE MCDetectorRepeats --------------------------
(* One aircraft whose row shows an emergency code while the detector turns. *)
EXTENDS AnomalyDetector

MCRows == {[squawk |-> "7700", rate |-> 0, altitude |-> 30, speed |-> 200, restricted |-> FALSE]}
MCSpeedRanges == {[from |-> 0, to |-> 40, min |-> 60, max |-> 600]}
MCQuiet ==
    [kind \in EmergencyCodes \cup {"RAPID_DESCENT", "RAPID_CLIMB", "SPEED", "RESTRICTED", "TRACK_LOSS"} |->
        IF kind = "TRACK_LOSS" THEN 9 ELSE 2]

RepeatsSpec == DetectorInit /\ [][DetectorNext]_detectorVars
=============================================================================
