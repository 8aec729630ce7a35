-------------------------- MODULE MCSidecarRuntime --------------------------
(* The instance of SidecarRuntime that TLC checks; the configurations give *)
(* the constants.  SidecarSafety leaves the subscribers out, for the other *)
(* properties do not depend on them, and SidecarLiveness has one.          *)
EXTENDS SidecarRuntime
=============================================================================
