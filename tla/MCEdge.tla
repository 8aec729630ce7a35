------------------------------- MODULE MCEdge -------------------------------
(* The instance of EdgeTelemetry that TLC checks: several small settings,  *)
(* each with room for another combination of losses, in one run.           *)
EXTENDS EdgeTelemetry

Setting(skew, contract, t, s, b, f, c, r) ==
    [skew |-> skew, contract |-> contract, time |-> t, samples |-> s, boots |-> b,
     faults |-> f, failures |-> c, reports |-> r]

MCInstances ==
    { Setting(0, TRUE,  0, 2, 1, 1, 1, 0),    \* a queue that is full, and every single loss
      Setting(0, TRUE,  1, 2, 2, 1, 0, 0),    \* a sample before and one after a reset
      Setting(0, TRUE,  2, 1, 1, 0, 1, 1),    \* the bridge, and heartbeats that grow old
      Setting(0, TRUE,  0, 1, 2, 2, 1, 0),    \* two losses and a failing consumer
      Setting(1, TRUE,  3, 1, 1, 1, 0, 0),    \* a clock that is ahead
      Setting(0, FALSE, 0, 1, 1, 1, 1, 1) }   \* a firmware the schema rejects

MCReports ==
    { [available |-> FALSE],
      [available |-> TRUE, connection |-> "CONNECTED", full |-> FALSE, silent |-> TRUE] }
=============================================================================
