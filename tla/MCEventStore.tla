---------------------------- MODULE MCEventStore ----------------------------
(* The instance of EventStore that TLC checks, and its refinement mapping  *)
(* to EventLog: the log is what a restart would recover from the disk.     *)
EXTENDS EventStore

Abstract == INSTANCE EventLog WITH log <- Log, damaged <- corruptions > 0

\* The store implements the log: acknowledged events are lost only at the
\* old end, through every crash and restart (store.py as a whole).
ImplementsEventLog == Abstract!Spec
=============================================================================
