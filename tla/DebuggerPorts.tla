---------------------------- MODULE DebuggerPorts ---------------------------
(***************************************************************************)
(* The list of available debugger ports of DeviceMonitor, mDebuggerPorts   *)
(* (DeviceMonitor.cpp:708-724 and 850-870).  Every operation runs under    *)
(* mDebuggerPortsLock from its first to its last line, so each is one      *)
(* action.  The two operators on the list are also what ClientRegistry is  *)
(* built from.                                                             *)
(*                                                                         *)
(* Here the callers are unconstrained: any port may be given back at any   *)
(* time, as closing a client twice, or closing one that never got a port,  *)
(* really does.  What holds here therefore holds for every caller.         *)
(***************************************************************************)
EXTENDS Integers, Sequences, SequencesExt

CONSTANTS
  DebugPortBase,   \* DdmPreferences::getDebugPortBase()
  ClientPorts      \* the ports Device::removeClient may pass, -1 included

ASSUME PortsAssumption ==
  /\ DebugPortBase \in Nat \ {0}
  /\ ClientPorts \subseteq Int

VARIABLES
  mDebuggerPorts,  \* the vector of available ports
  handedOut        \* history: handed out by getNextDebuggerPort, not back yet

listVars == <<mDebuggerPorts, handedOut>>

(***************************************************************************)
(* The list operations.                                                    *)
(***************************************************************************)

(* The port getNextDebuggerPort returns: the front of the list.            *)
NextPort(ports) == IF ports = <<>> THEN -1 ELSE ports[1]

(* Bug: the port added to a list left empty is the one just handed out.    *)
AfterTakeSamePort(ports) == IF Len(ports) > 1 THEN Tail(ports) ELSE ports

(* The list after getNextDebuggerPort: the front is erased, and a list     *)
(* left empty gets the next higher port.                                   *)
AfterTake(ports) ==
  IF Len(ports) > 1 THEN Tail(ports)
  ELSE IF Len(ports) = 1 THEN <<ports[1] + 1>>
  ELSE ports

(* Bug: a port that is in the list already is inserted again.              *)
AfterReturnTwice(ports, port) ==
  LET larger == {i \in DOMAIN ports : port < ports[i]}
  IN  IF port > 0 /\ larger # {} THEN InsertAt(ports, Min(larger), port) ELSE ports

(* The list after addPortToAvailableList(port): inserted before the first  *)
(* larger element; a port that is not positive, is listed already, or is   *)
(* larger than every element leaves the list alone.                        *)
AfterReturn(ports, port) ==
  LET larger == {i \in DOMAIN ports : port < ports[i]}
  IN  IF port > 0 /\ ~Contains(ports, port) /\ larger # {}
      THEN InsertAt(ports, Min(larger), port)
      ELSE ports

-----------------------------------------------------------------------------

PortsInit ==
  /\ mDebuggerPorts = <<DebugPortBase>>
  /\ handedOut = {}

GetNextDebuggerPort ==
  /\ mDebuggerPorts' = AfterTake(mDebuggerPorts)
  /\ handedOut' = IF mDebuggerPorts = <<>> THEN handedOut
                  ELSE handedOut \cup {NextPort(mDebuggerPorts)}

AddPortToAvailableList(port) ==
  /\ mDebuggerPorts' = AfterReturn(mDebuggerPorts, port)
  /\ handedOut' = handedOut \ {port}

PortsNext ==
  \/ GetNextDebuggerPort
  \/ \E port \in ClientPorts : AddPortToAvailableList(port)

PortsSpec == PortsInit /\ [][PortsNext]_listVars

(***************************************************************************)
(* Properties.                                                             *)
(***************************************************************************)

PortsTypeOK ==
  /\ mDebuggerPorts \in Seq(Nat \ {0})
  /\ handedOut \subseteq Nat \ {0}

(* The list is never empty, so getNextDebuggerPort never answers -1.       *)
NeverEmpty == mDebuggerPorts # <<>>

(* The list is strictly ascending: sorted, and no port is in it twice,     *)
(* however often and in whatever order ports are given back.               *)
Ascending ==
  \A i, j \in DOMAIN mDebuggerPorts : i < j => mDebuggerPorts[i] < mDebuggerPorts[j]

(* Every port out on loan is below the end of the list, so that the fresh  *)
(* port pushed when the list runs out is one that nobody holds.            *)
Frontier == \A p \in handedOut : p < mDebuggerPorts[Len(mDebuggerPorts)]

(* A port out on loan is not in the list: between two hand-outs of a port  *)
(* somebody gave it back.                                                  *)
NotHandedOutTwice == handedOut \cap ToSet(mDebuggerPorts) = {}

(* The strengthening that is inductive.                                    *)
PortInv == PortsTypeOK /\ NeverEmpty /\ Ascending /\ Frontier /\ NotHandedOutTwice

(* The vector implements the abstract pool: free is the set of its         *)
(* elements.                                                               *)
Pool == INSTANCE PortPool WITH free <- ToSet(mDebuggerPorts), out <- handedOut

ImplementsPool == Pool!PoolSpec
=============================================================================
