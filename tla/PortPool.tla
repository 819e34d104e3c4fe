------------------------------ MODULE PortPool ------------------------------
(***************************************************************************)
(* What the debugger-port allocator of DeviceMonitor promises, without its *)
(* data structure.                                                         *)
(*                                                                         *)
(* Ports are numbered from DebugPortBase upwards.  A port is free when it  *)
(* can be handed out, and out when it has been handed out and not been     *)
(* given back since.  A request is answered with the smallest free port;   *)
(* the pool never runs dry, because taking the last free port p frees      *)
(* p + 1, which nobody has ever had.  A port may be given back by anybody, *)
(* any number of times: giving back a port that is free changes nothing.   *)
(*                                                                         *)
(* DebuggerPorts implements this with a sorted vector.                     *)
(***************************************************************************)
EXTENDS Integers

CONSTANTS
  DebugPortBase,   \* DdmPreferences::getDebugPortBase()
  ClientPorts      \* the ports that may be given back

VARIABLES
  free,   \* the ports that can be handed out
  out     \* the ports handed out and not given back since

poolVars == <<free, out>>

IsLeast(p, S) == p \in S /\ \A q \in S : p <= q
IsGreatest(p, S) == p \in S /\ \A q \in S : q <= p

PoolInit ==
  /\ free = {DebugPortBase}
  /\ out = {}

(* A request takes the smallest free port.                                 *)
Take ==
  \E p \in free :
    /\ IsLeast(p, free)
    /\ free' = IF free = {p} THEN {p + 1} ELSE free \ {p}
    /\ out' = out \cup {p}

(* A port below the greatest free one is given back.                       *)
GiveBack(p) ==
  /\ p > 0
  /\ \E q \in free : IsGreatest(q, free) /\ p < q
  /\ free' = free \cup {p}
  /\ out' = out \ {p}

PoolNext == Take \/ \E p \in ClientPorts : GiveBack(p)

PoolSpec == PoolInit /\ [][PoolNext]_poolVars
=============================================================================
