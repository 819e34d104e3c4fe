------------------------- MODULE AndroidDebugBridge --------------------------
(***************************************************************************)
(* The life cycle of the bridge and the locks of the library: the static   *)
(* functions of AndroidDebugBridge that application threads call, what     *)
(* they call in turn (start, stop, startAdb, DeviceMonitor::stop), and the *)
(* threads of the library, which take the same locks: the Device List      *)
(* Monitor ("list") and the Device Client Monitor ("client") of each       *)
(* monitor, and the socket reactor.                                        *)
(*                                                                         *)
(* Every thread has a stack of the functions it is in.  A function first   *)
(* takes its locks, one by one (LocksOf); a lock is a recursive mutex.     *)
(* Returning gives them back.  What these functions do to the device list  *)
(* and to the clients is in DeviceMonitor and ClientRegistry; here they    *)
(* are leaves that hold their locks for a while.                           *)
(***************************************************************************)
EXTENDS Integers, Sequences

CONSTANTS
  Apps,          \* the application's threads
  Reactor,       \* the socket reactor's thread
  Locations,     \* paths of adb executables
  NoLocation,    \* the empty path
  ClientSupport, \* whether this is a build with CLIENT_SUPPORT
  MaxBridges,    \* bound: how many bridges are made
  MaxCalls       \* bound: how many calls the application makes

ASSUME BridgeAssumption ==
  /\ NoLocation \notin Locations
  /\ Reactor \notin Apps
  /\ ClientSupport \in BOOLEAN
  /\ MaxBridges \in Nat /\ MaxCalls \in Nat

VARIABLES
  stack,           \* the functions each thread is in, the innermost last
  ret,             \* what the last function returned to the thread
  sThis,           \* the bridge, a number; 0 is nullptr
  mStarted,        \* of that bridge
  mDeviceMonitor,  \* of that bridge: 0 is nullptr, else the bridge's number
  sAdbOsLocation,
  sInitialized,
  quit,            \* the monitors whose mQuit is set
  reactorStopped,  \* the reactor was told to stop
  running,         \* the library's threads
  crashed,         \* "no", or where a null pointer was dereferenced
  made, calls      \* the counters that MaxBridges and MaxCalls bound

bridgeVars == <<sThis, mStarted, mDeviceMonitor, sAdbOsLocation>>
libVars == <<sInitialized, reactorStopped>>
boundVars == <<made, calls>>
threadVars == <<quit, running, crashed>>
vars == <<stack, ret, bridgeVars, libVars, threadVars, boundVars>>

ListThread(b) == <<"list", b>>
ClientThread(b) == <<"client", b>>
ThreadsOf(b) == {ListThread(b), ClientThread(b)}
Watchers == UNION {ThreadsOf(b) : b \in 1..MaxBridges}
Threads == Apps \cup {Reactor} \cup Watchers

\* The names of threads are all different.
ASSUME ThreadsAssumption == (Apps \cup {Reactor}) \cap Watchers = {}

----------------------------------------------------------------------------
(* Locks.  "bridge" is AndroidDebugBridge::sLock, "devices" and "clients"  *)
(* are mDevicesLock and mClientsLock of the monitor, "device" is Device's  *)
(* sLock, and the others are the static localLock of the function.         *)
\* Mutant: updateDevices takes mDevicesLock first.
M_MergeLocks == <<"devices", "bridge">>

MergeLocks == <<"bridge", "devices">>

LocksOf ==
  [createBridge     |-> <<"create", "bridge">>,
   createBridgeAt   |-> <<"createAt", "bridge">>,
   disconnectBridge |-> <<"disconnect", "bridge">>,
   terminate        |-> <<"terminate", "bridge">>,
   init             |-> <<"bridge">>,
   start            |-> <<"start", "bridge">>,
   stop             |-> <<"stop", "bridge">>,
   startAdb         |-> <<"startAdb", "bridge">>,
   stopAdb          |-> <<"stopAdb", "bridge">>,
   getDevices       |-> <<"bridge", "devices">>,
   monitorStop      |-> <<"bridge", "devices">>,
   updateDevices    |-> MergeLocks,
   deviceChanged    |-> <<"bridge">>,
   clientList       |-> <<"device">>,
   removeClient     |-> <<"device">>,
   selectGate       |-> <<"devices">>,
   reopen           |-> <<"clients">>,
   processJdwpData  |-> <<"clients">>]

Functions == DOMAIN LocksOf
Locks == UNION {{LocksOf[fn][k] : k \in 1..Len(LocksOf[fn])} : fn \in Functions}

\* No lock is taken, and nothing called, by these beyond what LocksOf says.
Leaves == {"stopAdb", "getDevices", "deviceChanged", "clientList", "selectGate"}

Top(t) == stack[t][Len(stack[t])]

Holds(t, l) ==
  \E i \in 1..Len(stack[t]) : \E k \in 1..stack[t][i].taken : LocksOf[stack[t][i].fn][k] = l

Held(t) == {l \in Locks : Holds(t, l)}

\* t is still taking the locks of its innermost function, and comes to l.
Locking(t) ==
  /\ stack[t] # <<>>
  /\ Top(t).at = "lock"
  /\ Top(t).taken < Len(LocksOf[Top(t).fn])

Wanted(t) == LocksOf[Top(t).fn][Top(t).taken + 1]

At(t, fn, at) ==
  /\ stack[t] # <<>>
  /\ Top(t).fn = fn
  /\ Top(t).at = at
  /\ crashed = "no"

\* t has the locks of function fn and has not done anything else in it.
Entered(t, fn) == At(t, fn, "lock") /\ Top(t).taken = Len(LocksOf[fn])

Idle(t) == crashed = "no" /\ stack[t] = <<>>

----------------------------------------------------------------------------
(* Calling and returning.                                                  *)
\* arg is what createBridge(osLocation, forceNewBridge) is given.
Frame(fn, arg) == [fn |-> fn, arg |-> arg, at |-> "lock", taken |-> 0]

NoArg == [location |-> NoLocation, force |-> FALSE]

Goto(s, at) == [s EXCEPT ![Len(s)].at = at]

Pop(s) == SubSeq(s, 1, Len(s) - 1)

Begin(t, fn, arg) == stack' = [stack EXCEPT ![t] = <<Frame(fn, arg)>>]

\* t calls fn and goes on at "at" when it returns.
Call(t, at, fn) == stack' = [stack EXCEPT ![t] = Append(Goto(@, at), Frame(fn, NoArg))]

Continue(t, at) == stack' = [stack EXCEPT ![t] = Goto(@, at)]

\* What the outermost function returns is not kept.
Return(t, value) ==
  /\ stack' = [stack EXCEPT ![t] = Pop(@)]
  /\ ret' = [ret EXCEPT ![t] = value /\ Len(stack[t]) > 1]

Crash(where) ==
  /\ crashed' = where
  /\ UNCHANGED <<stack, ret, bridgeVars, libVars, quit, running, boundVars>>

Free(t, l) == \A u \in Threads \ {t} : ~Holds(u, l)

\* The next lock t wants is free, or its own already.
Takes(t) ==
  /\ crashed = "no"
  /\ Locking(t)
  /\ Free(t, Wanted(t))

Last(t) == Top(t).taken + 1 = Len(LocksOf[Top(t).fn])

Lock(t) ==
  /\ Takes(t)
  /\ ~(Last(t) /\ Top(t).fn \in Leaves)
  /\ stack' = [stack EXCEPT ![t][Len(stack[t])].taken = @ + 1]
  /\ UNCHANGED <<ret, bridgeVars, libVars, threadVars, boundVars>>

\* A leaf that gets its last lock waits for nothing any more, and returns.
Leaf(t) ==
  /\ Takes(t)
  /\ Last(t) /\ Top(t).fn \in Leaves
  /\ Return(t, TRUE)
  /\ UNCHANGED <<bridgeVars, libVars, threadVars, boundVars>>

----------------------------------------------------------------------------
(* What an application thread calls.  Only a bridge that exists has its    *)
(* member functions called.                                                *)
A_Call(t) ==
  /\ Idle(t)
  /\ calls < MaxCalls
  /\ \/ \E fn \in {"init", "terminate", "createBridge", "disconnectBridge"} :
          Begin(t, fn, NoArg)
     \/ \E location \in Locations \cup {NoLocation}, force \in BOOLEAN :
          Begin(t, "createBridgeAt", [location |-> location, force |-> force])
     \/ /\ sThis # 0
        /\ \E fn \in {"startAdb", "stopAdb", "getDevices"} : Begin(t, fn, NoArg)
  /\ calls' = calls + 1
  /\ UNCHANGED <<ret, bridgeVars, libVars, threadVars, made>>

\* init.  Nothing resets the reactor's stop flag, so a second init after
\* terminate starts a reactor that ends at once.
A_Init(t) ==
  /\ Entered(t, "init")
  /\ Return(t, ~sInitialized)
  /\ sInitialized' = TRUE
  /\ running' = IF sInitialized THEN running ELSE running \cup {Reactor}
  /\ UNCHANGED <<bridgeVars, reactorStopped, quit, crashed, boundVars>>

(* createBridge(), and createBridge(osLocation, forceNewBridge), which     *)
(* keeps a bridge only when it has the same location.                      *)
Creating(t) == Entered(t, "createBridge") \/ Entered(t, "createBridgeAt")

Keeps(f) == f.fn = "createBridge" \/ (sAdbOsLocation = f.arg.location /\ ~f.arg.force)

C_Existing(t) ==
  /\ Creating(t)
  /\ sThis # 0
  /\ Keeps(Top(t))
  /\ Return(t, TRUE)
  /\ UNCHANGED <<bridgeVars, libVars, threadVars, boundVars>>

C_Replace(t) ==
  /\ Creating(t)
  /\ sThis # 0
  /\ ~Keeps(Top(t))
  /\ Call(t, "replace", "stop")
  /\ UNCHANGED <<ret, bridgeVars, libVars, threadVars, boundVars>>

\* Unlocks the bridge lock, with the own lock still held, to tell the listeners.
Announce(t) == stack' = [stack EXCEPT ![t][Len(stack[t])] = [@ EXCEPT !.at = "notify", !.taken = 1]]

\* The constructor leaves mStarted uninitialised.
NewBridge(t) ==
  /\ made < MaxBridges
  /\ made' = made + 1
  /\ sThis' = made + 1
  /\ mStarted' \in BOOLEAN
  /\ mDeviceMonitor' = 0
  /\ sAdbOsLocation' = IF Top(t).fn = "createBridge" THEN sAdbOsLocation ELSE Top(t).arg.location
  /\ Call(t, "started", "start")

\* The constructor throws when the location is empty.
NoBridge(t) ==
  /\ sThis' = 0 /\ mDeviceMonitor' = 0 /\ mStarted' = FALSE
  /\ Announce(t)
  /\ UNCHANGED <<sAdbOsLocation, made>>

C_Construct(t) ==
  /\ \/ Creating(t) /\ sThis = 0
     \/ At(t, "createBridgeAt", "replace")
  /\ IF Top(t).fn = "createBridgeAt" /\ Top(t).arg.location = NoLocation
     THEN NoBridge(t)
     ELSE NewBridge(t)
  /\ UNCHANGED <<ret, libVars, threadVars, calls>>

C_Started(t) ==
  /\ \E fn \in {"createBridge", "createBridgeAt"} : At(t, fn, "started")
  /\ IF ret[t] THEN Announce(t) ELSE Call(t, "undo", "stop")
  /\ UNCHANGED <<ret, bridgeVars, libVars, threadVars, boundVars>>

C_Undo(t) ==
  /\ \E fn \in {"createBridge", "createBridgeAt"} : At(t, fn, "undo")
  /\ NoBridge(t)
  /\ UNCHANGED <<ret, libVars, threadVars, calls>>

D_Disconnect(t) ==
  /\ Entered(t, "disconnectBridge")
  /\ IF sThis = 0
     THEN Return(t, TRUE)
     ELSE Call(t, "stopped", "stop") /\ UNCHANGED ret
  /\ UNCHANGED <<bridgeVars, libVars, threadVars, boundVars>>

D_Stopped(t) ==
  /\ At(t, "disconnectBridge", "stopped")
  /\ NoBridge(t)
  /\ UNCHANGED <<ret, libVars, threadVars, calls>>

\* A listener is told of the bridge; it may ask it for its devices.
Notify(t) ==
  /\ \E fn \in {"createBridge", "createBridgeAt", "disconnectBridge"} : At(t, fn, "notify")
  /\ \/ Return(t, TRUE)
     \/ sThis # 0 /\ Call(t, "notify", "getDevices") /\ UNCHANGED ret
  /\ UNCHANGED <<bridgeVars, libVars, threadVars, boundVars>>

----------------------------------------------------------------------------
(* start, startAdb, stop and DeviceMonitor::stop.                          *)
Launch(t) ==
  /\ mStarted' = TRUE
  /\ mDeviceMonitor' = sThis
  /\ running' = running \cup {ListThread(sThis)}
  /\ Return(t, TRUE)
  /\ UNCHANGED <<sThis, sAdbOsLocation, libVars, quit, crashed, boundVars>>

S_Start(t) ==
  /\ Entered(t, "start")
  /\ IF sAdbOsLocation = NoLocation
     THEN Launch(t)
     ELSE Call(t, "adb", "startAdb") /\ UNCHANGED <<ret, bridgeVars, libVars, threadVars, boundVars>>

S_Adb(t) ==
  /\ At(t, "start", "adb")
  /\ IF ret[t]
     THEN Launch(t)
     ELSE Return(t, FALSE) /\ UNCHANGED <<bridgeVars, libVars, threadVars, boundVars>>

StartAdb(t) ==
  /\ Entered(t, "startAdb")
  /\ \E started \in BOOLEAN :
       /\ started => sAdbOsLocation # NoLocation
       /\ Return(t, started)
  /\ UNCHANGED <<bridgeVars, libVars, threadVars, boundVars>>

S_Stop(t) ==
  /\ Entered(t, "stop")
  /\ IF mStarted
     THEN IF mDeviceMonitor = 0
          THEN Crash("stop")
          ELSE Call(t, "stopped", "monitorStop") /\ UNCHANGED <<ret, bridgeVars, libVars, threadVars, boundVars>>
     ELSE Return(t, FALSE) /\ UNCHANGED <<bridgeVars, libVars, threadVars, boundVars>>

S_Stopped(t) ==
  /\ At(t, "stop", "stopped")
  /\ mDeviceMonitor' = 0
  /\ mStarted' = FALSE
  /\ Return(t, TRUE)
  /\ UNCHANGED <<sThis, sAdbOsLocation, libVars, threadVars, boundVars>>

MonitorStop(t) ==
  /\ Entered(t, "monitorStop")
  /\ IF mDeviceMonitor \in quit
     THEN Return(t, TRUE) /\ UNCHANGED quit
     ELSE quit' = quit \cup {mDeviceMonitor} /\ Continue(t, "join") /\ UNCHANGED ret
  /\ UNCHANGED <<bridgeVars, libVars, running, crashed, boundVars>>

\* Mutant: DeviceMonitor::stop does not wait for the monitor's threads.
M_Joins(t) == {}

Joins(t) == ThreadsOf(mDeviceMonitor) \cap running

MonitorJoined(t) ==
  /\ At(t, "monitorStop", "join")
  /\ Joins(t) = {}
  /\ Return(t, TRUE)
  /\ UNCHANGED <<bridgeVars, libVars, threadVars, boundVars>>

----------------------------------------------------------------------------
(* terminate: drops the clients, stops the monitor and joins the reactor,  *)
(* all under the bridge lock.                                              *)
T_Clients(t) ==
  /\ Entered(t, "terminate")
  /\ IF ~ClientSupport
     THEN Continue(t, "monitor") /\ UNCHANGED <<ret, bridgeVars, libVars, threadVars, boundVars>>
     ELSE IF sThis = 0
     THEN Crash("terminate")
     ELSE Call(t, "clients", "getDevices") /\ UNCHANGED <<ret, bridgeVars, libVars, threadVars, boundVars>>

T_DropClients(t) ==
  /\ At(t, "terminate", "clients")
  /\ \/ Call(t, "clients", "clientList")
     \/ Continue(t, "monitor")
  /\ UNCHANGED <<ret, bridgeVars, libVars, threadVars, boundVars>>

T_Monitor(t) ==
  /\ At(t, "terminate", "monitor")
  /\ IF sThis # 0 /\ mDeviceMonitor # 0
     THEN Call(t, "monitorStopped", "monitorStop")
     ELSE Continue(t, "monitorStopped")
  /\ UNCHANGED <<ret, bridgeVars, libVars, threadVars, boundVars>>

T_StopReactor(t) ==
  /\ At(t, "terminate", "monitorStopped")
  /\ mDeviceMonitor' = 0
  /\ sInitialized' = FALSE
  /\ reactorStopped' = TRUE
  /\ Continue(t, "joinReactor")
  /\ UNCHANGED <<ret, sThis, mStarted, sAdbOsLocation, threadVars, boundVars>>

T_Joined(t) ==
  /\ At(t, "terminate", "joinReactor")
  /\ Reactor \notin running
  /\ sThis' = 0 /\ mStarted' = FALSE
  /\ Return(t, TRUE)
  /\ UNCHANGED <<mDeviceMonitor, sAdbOsLocation, libVars, threadVars, boundVars>>

----------------------------------------------------------------------------
(* The library's threads.  Between two of these calls a thread holds no    *)
(* lock.                                                                   *)
Runs(t) == t \in running /\ Idle(t)

\* deviceMonitorLoop: starts adb after failed attempts to connect, merges the
\* device list, tells the listeners.
L_Loop(b) ==
  LET t == ListThread(b) IN
  /\ Runs(t)
  /\ \/ \E fn \in {"startAdb", "deviceChanged"} : Begin(t, fn, NoArg)
     \/ b \notin quit /\ Begin(t, "updateDevices", NoArg)
  /\ UNCHANGED <<ret, bridgeVars, libVars, threadVars, boundVars>>

\* updateDevices clears the clients of devices that are gone, and has the
\* clients of new ones monitored.
L_Update(b) ==
  LET t == ListThread(b) IN
  /\ Entered(t, "updateDevices")
  /\ IF b \in quit
     THEN Return(t, TRUE) /\ UNCHANGED running
     ELSE IF ClientSupport
     THEN Call(t, "merged", "clientList") /\ running' = running \cup {ClientThread(b)} /\ UNCHANGED ret
     ELSE Return(t, TRUE) /\ UNCHANGED running
  /\ UNCHANGED <<bridgeVars, libVars, quit, crashed, boundVars>>

L_Updated(b) ==
  /\ At(ListThread(b), "updateDevices", "merged")
  /\ Return(ListThread(b), TRUE)
  /\ UNCHANGED <<bridgeVars, libVars, threadVars, boundVars>>

\* Both loops of a monitor end when mQuit is set.
Ends(b) ==
  /\ b \in quit
  /\ \E t \in ThreadsOf(b) : Runs(t) /\ running' = running \ {t}
  /\ UNCHANGED <<stack, ret, bridgeVars, libVars, quit, crashed, boundVars>>

\* deviceClientMonitorLoop: waits for an updateDevices in progress, then
\* reopens clients under mClientsLock.
K_Loop(b) ==
  LET t == ClientThread(b) IN
  /\ Runs(t)
  /\ \/ Begin(t, "selectGate", NoArg)
     \/ b \notin quit /\ Begin(t, "reopen", NoArg)
  /\ UNCHANGED <<ret, bridgeVars, libVars, threadVars, boundVars>>

\* Under mClientsLock clients leave and enter the device's list; reopen
\* tells the listeners before it gives the lock back, processJdwpData after.
ChangeClients(t) ==
  /\ \E fn \in {"reopen", "processJdwpData"} :
       /\ Entered(t, fn)
       /\ Call(t, "changed", "clientList")
  /\ UNCHANGED <<ret, bridgeVars, libVars, threadVars, boundVars>>

K_Reopened(t) ==
  /\ At(t, "reopen", "changed")
  /\ Call(t, "done", "deviceChanged")
  /\ UNCHANGED <<ret, bridgeVars, libVars, threadVars, boundVars>>

\* Nothing, or nothing more, to reopen.
Done(t) ==
  /\ \/ Entered(t, "reopen")
     \/ At(t, "reopen", "done")
     \/ Entered(t, "processJdwpData")
     \/ At(t, "processJdwpData", "changed")
     \/ At(t, "removeClient", "done")
  /\ Return(t, TRUE)
  /\ UNCHANGED <<bridgeVars, libVars, threadVars, boundVars>>

\* The reactor's handlers.
R_Loop ==
  /\ Runs(Reactor)
  /\ \E fn \in {"processJdwpData", "deviceChanged", "removeClient"} : Begin(Reactor, fn, NoArg)
  /\ ClientSupport
  /\ UNCHANGED <<ret, bridgeVars, libVars, threadVars, boundVars>>

\* removeClient tells the listeners while it holds Device's lock.
R_Removed(t) ==
  /\ Entered(t, "removeClient")
  /\ Call(t, "done", "deviceChanged")
  /\ UNCHANGED <<ret, bridgeVars, libVars, threadVars, boundVars>>

R_Ends ==
  /\ reactorStopped
  /\ Runs(Reactor)
  /\ running' = running \ {Reactor}
  /\ UNCHANGED <<stack, ret, bridgeVars, libVars, quit, crashed, boundVars>>

----------------------------------------------------------------------------
(* After the first init, which must come before anything else.             *)
Init ==
  /\ stack = [t \in Threads |-> <<>>]
  /\ ret = [t \in Threads |-> FALSE]
  /\ sThis = 0 /\ mStarted = FALSE /\ mDeviceMonitor = 0
  /\ sAdbOsLocation = NoLocation
  /\ sInitialized = TRUE /\ reactorStopped = FALSE
  /\ quit = {} /\ running = {Reactor} /\ crashed = "no"
  /\ made = 0 /\ calls = 0

AppNext(t) ==
  \/ A_Call(t) \/ A_Init(t)
  \/ C_Existing(t) \/ C_Replace(t) \/ C_Construct(t) \/ C_Started(t) \/ C_Undo(t)
  \/ D_Disconnect(t) \/ D_Stopped(t) \/ Notify(t)
  \/ S_Start(t) \/ S_Adb(t) \/ S_Stop(t) \/ S_Stopped(t)
  \/ MonitorStop(t) \/ MonitorJoined(t)
  \/ T_Clients(t) \/ T_DropClients(t) \/ T_Monitor(t) \/ T_StopReactor(t) \/ T_Joined(t)

AnyNext(t) ==
  \/ Lock(t) \/ Leaf(t) \/ StartAdb(t) \/ ChangeClients(t) \/ Done(t)
  \/ K_Reopened(t) \/ R_Removed(t)

WatcherNext(b) == L_Loop(b) \/ L_Update(b) \/ L_Updated(b) \/ K_Loop(b) \/ Ends(b)

Next ==
  \/ \E t \in Apps : AppNext(t)
  \/ \E t \in Threads : AnyNext(t)
  \/ \E b \in 1..MaxBridges : WatcherNext(b)
  \/ R_Loop \/ R_Ends

Spec == Init /\ [][Next]_vars

----------------------------------------------------------------------------
(* The ranks order the locks: own locks of the entry points, mClientsLock, *)
(* the bridge lock, own locks of start, stop and startAdb, mDevicesLock,   *)
(* Device's lock.                                                          *)
Rank ==
  [create |-> 0, createAt |-> 0, disconnect |-> 0, terminate |-> 0, stopAdb |-> 0,
   clients |-> 1, bridge |-> 2, start |-> 3, stop |-> 3, startAdb |-> 4,
   devices |-> 5, device |-> 6]

\* Where the code goes against that order: startAdb takes the bridge lock
\* after its own, but start() calls it under the bridge lock; removeClient
\* tells the listeners under Device's lock.
Inversions == {<<"startAdb", "bridge">>, <<"device", "bridge">>}

\* A thread that waits for a lock holds only locks that rank lower, so that
\* threads cannot wait for each other in a circle, except through the two
\* known inversions (and through a join).
LockOrder ==
  \A t \in Threads :
    (Locking(t) /\ ~Holds(t, Wanted(t))) =>
      \A l \in Held(t) : Rank[l] < Rank[Wanted(t)] \/ <<l, Wanted(t)>> \in Inversions

\* At most one monitor's threads run, those of the current bridge: replacing,
\* disconnecting or terminating a bridge never leaves a thread behind that
\* works with a bridge, or a monitor, that no longer exists.
OneMonitor ==
  /\ mDeviceMonitor \in {0, sThis}
  /\ running \ {Reactor} \subseteq ThreadsOf(mDeviceMonitor)

=============================================================================
