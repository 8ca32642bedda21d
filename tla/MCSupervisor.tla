---------------------------- MODULE MCSupervisor ----------------------------
(***************************************************************************)
(* The instance of Supervisor for TLC: three processes at a time.          *)
(***************************************************************************)
EXTENDS Supervisor

CONSTANTS c1, c2, c3

MCPid == {c1, c2, c3}

SpawnFails == {"spawn"}

=============================================================================
