----------------------------- MODULE MCRegistry -----------------------------
(***************************************************************************)
(* TLC instance of ClientRegistry : two VMs, of which the second may want  *)
(* a static port.                                                          *)
(***************************************************************************)
EXTENDS ClientRegistry

MCPids == {1, 2}

(* The second application's port is one that the list hands out as well.   *)
SecondStatic == [pid \in Pids |-> IF pid = 2 THEN DebugPortBase + 1 ELSE NO_STATIC_PORT]

(* Enough ports for all clients of a behaviour.                            *)
MCPorts == DebugPortBase..DebugPortBase + 4
=============================================================================
