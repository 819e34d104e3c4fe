--------------------------- MODULE DeviceMonitor ----------------------------
(***************************************************************************)
(* The list of devices: how the Device List Monitor thread of              *)
(* DeviceMonitor (deviceMonitorLoop and what it calls) stays connected to  *)
(* adb, merges the lists that adb's track-devices service sends into       *)
(* mDevices, and tells the listeners; and how an application thread stops  *)
(* it.  What builds with CLIENT_SUPPORT do here besides is left out: that  *)
(* M_AddDevices and M_UpdateDevice start to follow a device's clients      *)
(* (startMonitoringDevice, 250 and 294), and that S_Joined joins the       *)
(* device client thread as well (806) and clears the devices' clients.     *)
(* The clients are module ClientRegistry.                                  *)
(*                                                                         *)
(* The actors are the monitor thread (M_...), the tasks that tell the      *)
(* listeners about lost devices from a pool thread (T_...), the thread     *)
(* that calls DeviceMonitor::stop (S_...) and the adb server, external.    *)
(* A step of the monitor thread is what it does between two points where   *)
(* another actor matters: a blocking call, a lock, a callback.  The        *)
(* AndroidDebugBridge lock and mDevicesLock, always taken together here,   *)
(* are one lock.                                                           *)
(***************************************************************************)
EXTENDS Integers, Sequences, FiniteSets, SequencesExt

CONSTANTS
  Serials,     \* the serial numbers of the devices
  States,      \* the states adb reports
  ONLINE,      \* Device::ONLINE
  AdbLists,    \* the lists of [serial, state] adb may report
  PoolSize,    \* threads of the default pool, which run the notifier's tasks
  Stops,       \* whether the application may call stop()
  Faults,      \* "die", "slow", "refuse", "garbage", "adb" and "query"
  MaxChanges,  \* bound: how often the devices adb sees change
  MaxFaults    \* bound: how many times something goes wrong

ASSUME MonitorAssumption ==
  /\ ONLINE \in States
  /\ AdbLists \subseteq Seq([serial : Serials, state : States])
  /\ PoolSize \in Nat /\ Stops \in BOOLEAN
  /\ MaxChanges \in Nat /\ MaxFaults \in Nat

VARIABLES
  devices,                \* every Device object made so far; an id is an index
  mDevices,               \* the ids of the devices in the list
  m,                      \* the monitor thread
  mMainAdbConnection,     \* "none" (null), "open", "eof" (adb closed it), "closed"
  mMonitoring,
  mConnectionAttempt,
  mRestartAttemptCount,
  mInitialDeviceListDone,
  lock,                   \* "free", or who holds it: "monitor" or "stop"
  tasks,                  \* Notifier tasks: devices the listeners will be told are gone
  stopper,                \* the thread that stops the monitor: "idle", "joining", "done"
  adb,                    \* the adb server: [up, list, tracking, requests]
  inbox,                  \* messages of adb on the connection, not read yet
  changes, faults         \* the counters that MaxChanges and MaxFaults bound

deviceVars == <<devices, mDevices>>
connVars == <<mMainAdbConnection, mMonitoring, adb, inbox>>
counterVars == <<mConnectionAttempt, mRestartAttemptCount, mInitialDeviceListDone>>
otherVars == <<tasks, stopper>>
vars == <<deviceVars, connVars, counterVars, otherVars, m, lock, changes, faults>>

Ids == DOMAIN devices

Serial(d) == devices[d].serial

mQuit == stopper # "idle"

(* Something of this kind goes wrong.                                      *)
Fault(kind) ==
  /\ kind \in Faults /\ faults < MaxFaults
  /\ faults' = faults + 1

(***************************************************************************)
(* A Device object: what it stores, and what its listeners know of it.     *)
(* props says how many of its properties are stored; told is the last of   *)
(* the connect and disconnect events, toldState the state at the last      *)
(* event; history: failed, whether the last query for properties failed.   *)
(***************************************************************************)
NewDevice(entry) ==
  [serial |-> entry.serial, state |-> entry.state, props |-> "none",
   told |-> "unseen", toldState |-> entry.state, failed |-> FALSE]

(***************************************************************************)
(* The monitor thread is at the "top" of its loop, from where it connects, *)
(* requests or reads; in a call to "startAdb"; awaiting the "reply" to its *)
(* request, or the "diag" string that it expects after anything but OKAY;  *)
(* in updateDevices before the locks ("update"), under them ("merge") or   *)
(* after them ("notify"); in handleExceptionInMonitorLoop before the locks *)
(* ("lost") or under them ("drain"); or it has "exited", or "crashed" the  *)
(* process.  list is the list received, used the entries in toSkipList,    *)
(* old the devices in toSkipListOld; gone, changed, connected and queries  *)
(* are the vectors of updateDevices; n is the index of                     *)
(* handleExceptionInMonitorLoop.                                           *)
(***************************************************************************)
MonitorAt(pc) ==
  [pc |-> pc, list |-> <<>>, used |-> {}, old |-> {}, gone |-> <<>>,
   changed |-> <<>>, connected |-> <<>>, queries |-> <<>>, n |-> 0]

(* The end of an iteration: while (!mQuit)                                 *)
EndIteration == m' = MonitorAt(IF mQuit THEN "exited" ELSE "top")

-----------------------------------------------------------------------------
(***************************************************************************)
(* The connection.                                                         *)
(***************************************************************************)

NoRequest == [adb EXCEPT !.tracking = FALSE, !.requests = 0]

M_Connect ==
  /\ m.pc = "top" /\ mMainAdbConnection = "none"
  /\ adb.up
  /\ mMainAdbConnection' = "open"
  /\ mConnectionAttempt' = 0
  /\ UNCHANGED <<deviceVars, otherVars, m, lock, mMonitoring, adb, inbox, mRestartAttemptCount,
                 mInitialDeviceListDone, changes, faults>>

(* No connection: from the fourth attempt on, adb is started.              *)
M_ConnectFails ==
  /\ m.pc = "top" /\ mMainAdbConnection = "none"
  /\ ~adb.up
  /\ mConnectionAttempt' = mConnectionAttempt + 1
  /\ IF mConnectionAttempt' > 3 THEN m' = MonitorAt("startAdb") ELSE EndIteration
  /\ UNCHANGED <<deviceVars, connVars, otherVars, lock, mRestartAttemptCount,
                 mInitialDeviceListDone, changes, faults>>

M_StartAdb ==
  /\ m.pc = "startAdb" /\ lock = "free"
  /\ \/ /\ adb' = [adb EXCEPT !.up = TRUE]
        /\ mRestartAttemptCount' = 0
        /\ UNCHANGED faults
     \/ /\ Fault("adb")
        /\ mRestartAttemptCount' = mRestartAttemptCount + 1
        /\ UNCHANGED adb
  /\ EndIteration
  /\ UNCHANGED <<deviceVars, otherVars, lock, mMainAdbConnection, mMonitoring, inbox,
                 mConnectionAttempt, mInitialDeviceListDone, changes>>

(* Bugs: the devices are not removed; mMonitoring stays set; mQuit is not  *)
(* looked at.                                                              *)
HandleExceptionKeepDevices ==
  /\ mMonitoring' = FALSE /\ mMainAdbConnection' = "none"
  /\ adb' = NoRequest /\ inbox' = <<>>
  /\ EndIteration
HandleExceptionKeepMonitoring ==
  IF mQuit
  THEN EndIteration /\ UNCHANGED <<mMainAdbConnection, mMonitoring, adb, inbox>>
  ELSE /\ UNCHANGED mMonitoring
       /\ mMainAdbConnection' = "none"
       /\ adb' = NoRequest /\ inbox' = <<>>
       /\ m' = MonitorAt("lost")
HandleExceptionAlways ==
  /\ mMonitoring' = FALSE /\ mMainAdbConnection' = "none"
  /\ adb' = NoRequest /\ inbox' = <<>>
  /\ m' = MonitorAt("lost")

(* handleExceptionInMonitorLoop up to the locks, and the end of the        *)
(* iteration when there is nothing to handle.                              *)
HandleException ==
  IF mQuit
  THEN EndIteration /\ UNCHANGED <<mMainAdbConnection, mMonitoring, adb, inbox>>
  ELSE /\ mMonitoring' = FALSE
       /\ mMainAdbConnection' = "none"
       /\ adb' = NoRequest /\ inbox' = <<>>
       /\ m' = MonitorAt("lost")

(* sendDeviceListMonitoringRequest writes the request.  A connection that  *)
(* adb closed may take it all the same.                                    *)
M_Request ==
  /\ m.pc = "top" /\ mMainAdbConnection # "none" /\ ~mMonitoring
  /\ \/ /\ mMainAdbConnection = "open"
        /\ m' = MonitorAt("reply")
        /\ adb' = [adb EXCEPT !.requests = @ + 1]
        /\ UNCHANGED <<mMainAdbConnection, mMonitoring, inbox>>
     \/ /\ mMainAdbConnection = "eof"
        /\ m' = MonitorAt("reply")
        /\ UNCHANGED connVars
     \/ mMainAdbConnection \in {"eof", "closed"} /\ HandleException
  /\ UNCHANGED <<deviceVars, otherVars, lock, counterVars, changes, faults>>

(* readAdbResponse reads the answer; what follows a FAIL is read with it.  *)
(* Anything that is not OKAY counts as a refusal.                          *)
M_Reply ==
  /\ m.pc = "reply" /\ inbox # <<>> /\ mMainAdbConnection # "closed"
  /\ inbox' = Tail(inbox)
  /\ IF Head(inbox).kind = "okay"
     THEN mMonitoring' = TRUE /\ m' = MonitorAt("top")
     ELSE UNCHANGED mMonitoring /\ EndIteration
  /\ UNCHANGED <<deviceVars, otherVars, lock, mMainAdbConnection, adb, counterVars,
                 changes, faults>>

(* No answer within the time out, because adb is slow or will not answer.  *)
TimedOut ==
  /\ inbox = <<>> /\ mMainAdbConnection = "open"
  /\ IF adb.requests > 0 THEN Fault("slow") ELSE UNCHANGED faults

(* AdbHelper::read swallows the TimeoutException, the zeroes read are no   *)
(* OKAY, and the diagnostic string is read.                                *)
M_ReplyTimeout ==
  /\ m.pc = "reply" /\ TimedOut
  /\ m' = MonitorAt("diag")
  /\ UNCHANGED <<deviceVars, connVars, otherVars, lock, counterVars, changes>>

(* Whatever comes now is consumed as the diagnostic string, unless that    *)
(* times out, too.  The request counts as refused.                         *)
M_Diag ==
  /\ m.pc = "diag" /\ mMainAdbConnection # "closed"
  /\ \/ inbox # <<>> /\ inbox' = Tail(inbox) /\ UNCHANGED faults
     \/ TimedOut /\ UNCHANGED inbox
  /\ EndIteration
  /\ UNCHANGED <<deviceVars, otherVars, lock, mMainAdbConnection, mMonitoring, adb,
                 counterVars, changes>>

(* At the end of the stream AdbHelper::read receives 0 bytes, again and    *)
(* again.                                                                  *)
Spinning ==
  m.pc \in {"reply", "diag"} /\ inbox = <<>> /\ mMainAdbConnection = "eof"

M_Spin == Spinning /\ UNCHANGED vars

(* The connection was closed by stop(): the IOException of the reply is    *)
(* handled, that of the diagnostic string ignored; either way the loop     *)
(* ends.                                                                   *)
M_ReplyClosed ==
  /\ m.pc \in {"reply", "diag"} /\ mMainAdbConnection = "closed"
  /\ EndIteration
  /\ UNCHANGED <<deviceVars, connVars, otherVars, lock, counterVars, changes, faults>>

-----------------------------------------------------------------------------
(***************************************************************************)
(* The list of devices.                                                    *)
(***************************************************************************)

Reading == m.pc = "top" /\ mMainAdbConnection # "none" /\ mMonitoring

(* A list is received.  updateDevices returns at once if mQuit is set.     *)
M_ReadList ==
  /\ Reading /\ mMainAdbConnection # "closed"
  /\ inbox # <<>> /\ Head(inbox).kind = "list"
  /\ inbox' = Tail(inbox)
  /\ IF mQuit
     THEN EndIteration /\ mInitialDeviceListDone' = TRUE
     ELSE /\ m' = [MonitorAt("update") EXCEPT !.list = Head(inbox).list]
          /\ UNCHANGED mInitialDeviceListDone
  /\ UNCHANGED <<deviceVars, otherVars, lock, mMainAdbConnection, mMonitoring, adb,
                 mConnectionAttempt, mRestartAttemptCount, changes, faults>>

(* Nothing is received before the receive time out that the last read of   *)
(* AdbHelper left on the socket: the loop swallows the exception.          *)
M_ReadTimeout ==
  /\ Reading /\ mMainAdbConnection = "open" /\ inbox = <<>>
  /\ EndIteration
  /\ UNCHANGED <<deviceVars, connVars, otherVars, lock, counterVars, changes, faults>>

(* The end of the stream, a closed socket, or what is no list.             *)
M_ReadError ==
  /\ Reading
  /\ \/ mMainAdbConnection = "closed" /\ UNCHANGED faults
     \/ mMainAdbConnection = "eof" /\ inbox = <<>> /\ UNCHANGED faults
     \/ inbox # <<>> /\ mMainAdbConnection # "closed" /\ Fault("garbage")
  /\ HandleException
  /\ UNCHANGED <<deviceVars, otherVars, lock, counterVars, changes>>

M_LockDevices ==
  /\ m.pc = "update" /\ lock = "free"
  /\ IF mQuit
     THEN EndIteration /\ mInitialDeviceListDone' = TRUE /\ UNCHANGED lock
     ELSE /\ m' = [m EXCEPT !.pc = "merge"]
          /\ lock' = "monitor"
          /\ UNCHANGED mInitialDeviceListDone
  /\ UNCHANGED <<deviceVars, connVars, otherVars, mConnectionAttempt, mRestartAttemptCount,
                 changes, faults>>

(* What a loop over s copies to another vector, if it copies the elements  *)
(* in S: a function, which gives for each n what is copied of the first n. *)
(* (SelectSeq, which says the same, is out of the prover's reach.)         *)
Chosen(s, S) ==
  LET Copied[n \in 0..Len(s)] ==
        IF n = 0 THEN <<>>
        ELSE IF s[n] \in S THEN Append(Copied[n - 1], s[n]) ELSE Copied[n - 1]
  IN  Copied[Len(s)]

(* removeDevice drops every device with the serial number of d.            *)
Without(ids, d) == Chosen(ids, {e \in Ids : Serial(e) # Serial(d)})

(* The devices that the merge has not looked at, and the entries of the    *)
(* list that are still free and have d's serial number.                    *)
Unprocessed == {i \in DOMAIN mDevices : mDevices[i] \notin m.old}

NextDevice == mDevices[Min(Unprocessed)]

Matches(d) == {i \in DOMAIN m.list \ m.used : m.list[i].serial = Serial(d)}

(* Bug: only a device that gets online counts as changed.                  *)
ChangesOnline(d, state) == state # devices[d].state /\ state = ONLINE

Changes(d, state) == state # devices[d].state

(* Bug: a device that gets online later is not queried.                    *)
NeverQueried(d, state) == FALSE

(* A device that gets online is queried if it has no properties yet.       *)
GetsQueried(d, state) ==
  Changes(d, state) /\ state = ONLINE /\ devices[d].props = "none"

(* The next device is in the list: its state is updated.                   *)
M_UpdateDevice ==
  /\ m.pc = "merge" /\ Unprocessed # {}
  /\ Matches(NextDevice) # {}
  /\ LET d == NextDevice
         i == Min(Matches(d))
         state == m.list[i].state
     IN  /\ devices' = [devices EXCEPT ![d].state = state]
         /\ m' = [m EXCEPT !.old = @ \cup {d}, !.used = @ \cup {i},
                           !.changed = IF Changes(d, state) THEN Append(@, d) ELSE @,
                           !.queries = IF GetsQueried(d, state) THEN Append(@, d) ELSE @]
  /\ UNCHANGED <<mDevices, connVars, otherVars, lock, counterVars, changes, faults>>

(* The next device is gone; the search starts over.                        *)
M_RemoveDevice ==
  /\ m.pc = "merge" /\ Unprocessed # {}
  /\ Matches(NextDevice) = {}
  /\ mDevices' = Without(mDevices, NextDevice)
  /\ m' = [m EXCEPT !.old = @ \cup {NextDevice}, !.gone = Append(@, NextDevice)]
  /\ UNCHANGED <<devices, connVars, otherVars, lock, counterVars, changes, faults>>

(* Bug: the entries in toSkipList are taken for new devices, too.          *)
LeftoverAll == [i \in DOMAIN m.list |-> i]

(* The entries that are left are new devices.                              *)
Leftover == Chosen([i \in DOMAIN m.list |-> i], DOMAIN m.list \ m.used)

NewIds == [k \in DOMAIN Leftover |-> Len(devices) + k]

(* Bug: the new devices are not announced.                                 *)
M_AddDevicesSilently ==
  /\ m.pc = "merge" /\ Unprocessed = {}
  /\ devices' = devices \o [k \in DOMAIN Leftover |-> NewDevice(m.list[Leftover[k]])]
  /\ mDevices' = mDevices \o NewIds
  /\ m' = [m EXCEPT !.pc = "notify"]
  /\ lock' = "free"
  /\ UNCHANGED <<connVars, otherVars, counterVars, changes, faults>>

(* The new devices join the list; those online are to be queried.          *)
M_AddDevices ==
  /\ m.pc = "merge" /\ Unprocessed = {}
  /\ devices' = devices \o [k \in DOMAIN Leftover |-> NewDevice(m.list[Leftover[k]])]
  /\ mDevices' = mDevices \o NewIds
  /\ LET queries == Chosen(NewIds, {d \in DOMAIN devices' : devices'[d].state = ONLINE})
     IN  m' = [m EXCEPT !.pc = "notify", !.connected = NewIds, !.queries = @ \o queries]
  /\ lock' = "free"
  /\ UNCHANGED <<connVars, otherVars, counterVars, changes, faults>>

-----------------------------------------------------------------------------
(***************************************************************************)
(* The listeners are told: first of the devices that are gone, then of     *)
(* those that changed, then of the new ones.  To copy the set of listeners *)
(* the AndroidDebugBridge lock is taken.                                   *)
(***************************************************************************)

Tell(d, event) ==
  devices' = [devices EXCEPT ![d].told = event, ![d].toldState = devices[d].state]

M_NotifyDisconnected ==
  /\ m.pc = "notify" /\ m.gone # <<>>
  /\ lock = "free"
  /\ Tell(Head(m.gone), "gone")
  /\ m' = [m EXCEPT !.gone = Tail(@)]
  /\ UNCHANGED <<mDevices, connVars, otherVars, lock, counterVars, changes, faults>>

(* Device::update(CHANGE_STATE)                                            *)
M_NotifyChanged ==
  /\ m.pc = "notify" /\ m.gone = <<>> /\ m.changed # <<>>
  /\ lock = "free"
  /\ devices' = [devices EXCEPT ![Head(m.changed)].toldState = devices[Head(m.changed)].state]
  /\ m' = [m EXCEPT !.changed = Tail(@)]
  /\ UNCHANGED <<mDevices, connVars, otherVars, lock, counterVars, changes, faults>>

M_NotifyConnected ==
  /\ m.pc = "notify" /\ m.gone = <<>> /\ m.changed = <<>> /\ m.connected # <<>>
  /\ lock = "free"
  /\ Tell(Head(m.connected), "connected")
  /\ m' = [m EXCEPT !.connected = Tail(@)]
  /\ UNCHANGED <<mDevices, connVars, otherVars, lock, counterVars, changes, faults>>

Notified == m.gone = <<>> /\ m.changed = <<>> /\ m.connected = <<>>

(* queryNewDeviceForInfo: the properties arrive, and the listeners are     *)
(* told CHANGE_BUILD_INFO, or the query fails after some or none of them.  *)
(* A failed query is not repeated.                                         *)
M_Query ==
  /\ m.pc = "notify" /\ Notified /\ m.queries # <<>>
  /\ LET d == Head(m.queries)
     IN  \/ /\ adb.up /\ lock = "free"
            /\ devices' = [devices EXCEPT ![d].props = "all", ![d].failed = FALSE]
            /\ UNCHANGED faults
         \/ /\ IF adb.up THEN Fault("query") ELSE UNCHANGED faults
            /\ \E props \in {"none", "some"} :
                 devices' = [devices EXCEPT ![d].props = props, ![d].failed = TRUE]
  /\ m' = [m EXCEPT !.queries = Tail(@)]
  /\ UNCHANGED <<mDevices, connVars, otherVars, lock, counterVars, changes>>

M_ListDone ==
  /\ m.pc = "notify" /\ Notified /\ m.queries = <<>>
  /\ mInitialDeviceListDone' = TRUE
  /\ EndIteration
  /\ UNCHANGED <<deviceVars, connVars, otherVars, lock, mConnectionAttempt,
                 mRestartAttemptCount, changes, faults>>

-----------------------------------------------------------------------------
(***************************************************************************)
(* handleExceptionInMonitorLoop, under the locks: the devices are removed  *)
(* from the last to the first, and for each a task is started that will    *)
(* tell the listeners.                                                     *)
(***************************************************************************)

M_LockToDrain ==
  /\ m.pc = "lost" /\ lock = "free"
  /\ lock' = "monitor"
  /\ m' = [m EXCEPT !.pc = "drain", !.n = Len(mDevices)]
  /\ UNCHANGED <<deviceVars, connVars, otherVars, counterVars, changes, faults>>

M_Drain ==
  /\ m.pc = "drain" /\ m.n \in DOMAIN mDevices
  /\ Cardinality(tasks) < PoolSize
  /\ mDevices' = Without(mDevices, mDevices[m.n])
  /\ tasks' = tasks \cup {mDevices[m.n]}
  /\ m' = [m EXCEPT !.n = @ - 1]
  /\ UNCHANGED <<devices, connVars, stopper, lock, counterVars, changes, faults>>

(* The index is out of range: the process is taken to crash, which leaves  *)
(* nothing for the other threads to do.                                    *)
M_DrainOutOfRange ==
  /\ m.pc = "drain" /\ mDevices # <<>> /\ m.n \notin DOMAIN mDevices
  /\ m' = MonitorAt("crashed")
  /\ UNCHANGED <<deviceVars, connVars, otherVars, lock, counterVars, changes, faults>>

M_Crashed == m.pc = "crashed" /\ UNCHANGED vars

(* The pool has no thread left: the exception leaves the loop, and the     *)
(* monitor thread ends.                                                    *)
M_NoThreadAvailable ==
  /\ m.pc = "drain" /\ m.n \in DOMAIN mDevices
  /\ Cardinality(tasks) >= PoolSize
  /\ mDevices' = Without(mDevices, mDevices[m.n])
  /\ m' = MonitorAt("exited")
  /\ lock' = "free"
  /\ UNCHANGED <<devices, connVars, otherVars, counterVars, changes, faults>>

M_Drained ==
  /\ m.pc = "drain" /\ mDevices = <<>>
  /\ lock' = "free"
  /\ EndIteration
  /\ UNCHANGED <<deviceVars, connVars, otherVars, counterVars, changes, faults>>

(* A Notifier task runs.                                                   *)
T_Notify(d) ==
  /\ d \in tasks /\ lock = "free"
  /\ Tell(d, "gone")
  /\ tasks' = tasks \ {d}
  /\ UNCHANGED <<mDevices, connVars, m, lock, stopper, counterVars, changes, faults>>

-----------------------------------------------------------------------------
(***************************************************************************)
(* DeviceMonitor::stop, which holds the locks from its first line to its   *)
(* last, the wait for the monitor thread included.                         *)
(***************************************************************************)

S_Stop ==
  /\ Stops /\ stopper = "idle" /\ lock = "free"
  /\ stopper' = "joining"
  /\ lock' = "stop"
  /\ mMainAdbConnection' = IF mMainAdbConnection = "none" THEN "none" ELSE "closed"
  /\ adb' = NoRequest /\ inbox' = <<>>
  /\ UNCHANGED <<deviceVars, m, mMonitoring, tasks, counterVars, changes, faults>>

(* Bug: stop() does not wait for the monitor thread.                       *)
S_NotJoined ==
  /\ stopper = "joining"
  /\ stopper' = "done"
  /\ lock' = "free"
  /\ mDevices' = <<>>
  /\ mMainAdbConnection' = "none"
  /\ adb' = NoRequest /\ inbox' = <<>>
  /\ UNCHANGED <<devices, m, mMonitoring, tasks, counterVars, changes, faults>>

S_Joined ==
  /\ stopper = "joining" /\ m.pc = "exited"
  /\ stopper' = "done"
  /\ lock' = "free"
  /\ mDevices' = <<>>
  /\ mMainAdbConnection' = "none"
  /\ adb' = NoRequest /\ inbox' = <<>>
  /\ UNCHANGED <<devices, m, mMonitoring, tasks, counterVars, changes, faults>>

-----------------------------------------------------------------------------
(***************************************************************************)
(* The adb server, external: it answers a request to track devices with    *)
(* OKAY or, closing the connection, with FAIL, and sends its list then and *)
(* at every change.  To a client that it tracks devices for already it     *)
(* answers nothing, or it closes the connection.                           *)
(***************************************************************************)

Okay == [kind |-> "okay"]
Fail == [kind |-> "fail"]
ListOf(l) == [kind |-> "list", list |-> l]

AdbAccept ==
  /\ adb.requests > 0 /\ ~adb.tracking
  /\ adb' = [adb EXCEPT !.tracking = TRUE, !.requests = @ - 1]
  /\ inbox' = inbox \o <<Okay, ListOf(adb.list)>>
  /\ UNCHANGED <<deviceVars, counterVars, otherVars, m, lock, mMainAdbConnection, mMonitoring,
                 changes, faults>>

AdbRefuse ==
  /\ adb.requests > 0 /\ ~adb.tracking
  /\ Fault("refuse")
  /\ adb' = NoRequest
  /\ inbox' = Append(inbox, Fail)
  /\ mMainAdbConnection' = "eof"
  /\ UNCHANGED <<deviceVars, counterVars, otherVars, m, lock, mMonitoring, changes>>

AdbSecondRequest ==
  /\ adb.requests > 0 /\ adb.tracking
  /\ \/ adb' = [adb EXCEPT !.requests = @ - 1] /\ UNCHANGED mMainAdbConnection
     \/ adb' = NoRequest /\ mMainAdbConnection' = "eof"
  /\ UNCHANGED <<deviceVars, counterVars, otherVars, m, lock, mMonitoring, inbox, changes, faults>>

AdbChange(l) ==
  /\ changes < MaxChanges /\ l # adb.list
  /\ changes' = changes + 1
  /\ adb' = [adb EXCEPT !.list = l]
  /\ inbox' = IF adb.tracking THEN Append(inbox, ListOf(l)) ELSE inbox
  /\ UNCHANGED <<deviceVars, counterVars, otherVars, m, lock, mMainAdbConnection, mMonitoring,
                 faults>>

AdbDie ==
  /\ adb.up /\ Fault("die")
  /\ adb' = [NoRequest EXCEPT !.up = FALSE]
  /\ mMainAdbConnection' = IF mMainAdbConnection = "open" THEN "eof" ELSE mMainAdbConnection
  /\ UNCHANGED <<deviceVars, counterVars, otherVars, m, lock, mMonitoring, inbox, changes>>

(* Somebody else starts it again.                                          *)
AdbStart ==
  /\ ~adb.up
  /\ adb' = [adb EXCEPT !.up = TRUE]
  /\ UNCHANGED <<deviceVars, counterVars, otherVars, m, lock, mMainAdbConnection, mMonitoring,
                 inbox, changes, faults>>

-----------------------------------------------------------------------------

Init ==
  /\ devices = <<>> /\ mDevices = <<>>
  /\ m = MonitorAt("top")
  /\ mMainAdbConnection = "none" /\ mMonitoring = FALSE
  /\ mConnectionAttempt = 0 /\ mRestartAttemptCount = 0 /\ mInitialDeviceListDone = FALSE
  /\ lock = "free" /\ tasks = {} /\ stopper = "idle"
  /\ adb \in [up : BOOLEAN, list : {<<>>}, tracking : {FALSE}, requests : {0}]
  /\ inbox = <<>>
  /\ changes = 0 /\ faults = 0

Monitor ==
  \/ M_Connect \/ M_ConnectFails \/ M_StartAdb
  \/ M_Request \/ M_Reply \/ M_ReplyTimeout \/ M_Diag \/ M_Spin \/ M_ReplyClosed
  \/ M_ReadList \/ M_ReadTimeout \/ M_ReadError
  \/ M_LockDevices \/ M_UpdateDevice \/ M_RemoveDevice \/ M_AddDevices
  \/ M_NotifyDisconnected \/ M_NotifyChanged \/ M_NotifyConnected \/ M_Query \/ M_ListDone
  \/ M_LockToDrain \/ M_Drain \/ M_DrainOutOfRange \/ M_Crashed
  \/ M_NoThreadAvailable \/ M_Drained

Stopper == S_Stop \/ S_Joined

AdbAnswers == AdbAccept \/ AdbRefuse \/ AdbSecondRequest

Adb == AdbAnswers \/ (\E l \in AdbLists : AdbChange(l)) \/ AdbDie \/ AdbStart

Next ==
  \/ Monitor
  \/ \E d \in tasks : T_Notify(d)
  \/ Stopper
  \/ Adb

Spec == Init /\ [][Next]_vars

(* The threads keep running, and a lock that is free again and again goes  *)
(* to a thread that waits for it; adb, while it is up, answers.  Nothing   *)
(* makes a fault, a change of the devices or a stop happen.                *)
Fairness ==
  /\ WF_vars(Monitor)
  /\ SF_vars(\E d \in tasks : T_Notify(d))
  /\ WF_vars(S_Joined)
  /\ WF_vars(AdbAnswers)

FairSpec == Spec /\ Fairness

-----------------------------------------------------------------------------
(***************************************************************************)
(* Properties.                                                             *)
(***************************************************************************)

Listed == ToSet(mDevices)

(* Nothing that the listeners must be told is under way.                   *)
Quiet == m.pc = "top" /\ tasks = {} /\ ~mQuit

(* Once all notifications are delivered, those of the pool's tasks         *)
(* included, the listeners' view is the list: a device is in it iff its    *)
(* last event is deviceConnected, and the state they saw last is its       *)
(* state.                                                                  *)
ListenersInSync ==
  Quiet => \A d \in Ids :
             /\ d \in Listed <=> devices[d].told = "connected"
             /\ d \in Listed => devices[d].toldState = devices[d].state

(* Once the monitor has read all that adb sent, its list is adb's, device  *)
(* for device and with the same states, whatever was merged before.  (The  *)
(* comment at DeviceMonitor.cpp:204-211 says how the merge does that.)     *)
MirrorsAdb ==
  m.pc = "top" /\ mMonitoring /\ mMainAdbConnection = "open" /\ adb.tracking /\ inbox = <<>>
    => /\ {[serial |-> Serial(d), state |-> devices[d].state] : d \in Listed} = ToSet(adb.list)
       /\ Len(mDevices) = Len(adb.list)

(* A device that got online is queried for its properties: it has some, or *)
(* its last query failed, although it may connect, go offline and come     *)
(* back while other devices come and go.                                   *)
OnlineQueried ==
  m.pc = "top" => \A d \in Listed :
    devices[d].state = ONLINE => devices[d].props # "none" \/ devices[d].failed

(* A monitor without a connection has no device: no path that gives up the *)
(* connection and goes on leaves devices of it behind.                     *)
(* (DeviceMonitor.cpp:147: "remove all devices from list".)                *)
NoConnectionNoDevices ==
  mMainAdbConnection = "none" /\ m.pc \in {"top", "startAdb"} /\ ~mQuit
    => mDevices = <<>>

(* The listeners hear of each device connected, changed, disconnected, in  *)
(* that order, from whichever thread.                                      *)
Events ==
  INSTANCE DeviceEvents
    WITH told <- [d \in Ids |-> [event |-> devices[d].told, state |-> devices[d].toldState]]

EventProtocol == Events!EventsSpec

(* After stop() returned, no device appears in the list, and no device's   *)
(* state, properties or events change but by tasks started before.         *)
StopIsFinal ==
  [][stopper = "done" =>
       /\ mDevices' = mDevices
       /\ \A d \in DOMAIN devices' : d \in Ids \ tasks => devices'[d] = devices[d]
       /\ Len(devices') = Len(devices)]_vars

(* A monitor thread that reads from adb, in whatever phase of the          *)
(* protocol, is woken up by stop() closing the connection, and the stop    *)
(* returns.                                                                *)
ReaderWokenUp ==
  stopper = "joining" /\ m.pc \in {"top", "reply", "diag"} /\ mMainAdbConnection = "closed"
    ~> stopper = "done"

(* Everything that adb will ever say has been read and told.               *)
InSync ==
  /\ m.pc = "top" /\ tasks = {} /\ inbox = <<>>
  /\ mMonitoring /\ mMainAdbConnection = "open" /\ adb.tracking

(* After the last fault the monitor gets in sync with adb again, and stays *)
(* so, however often the connection was lost or adb had to be started;     *)
(* unless it is stopped, its thread has ended (M_NoThreadAvailable,        *)
(* M_DrainOutOfRange), or it hangs at the end of a stream (M_Spin).         *)
Ended == stopper # "idle" \/ m.pc \in {"exited", "crashed"}

Converges == <>[](InSync \/ Spinning \/ Ended)

(***************************************************************************)
(* What a comment of the code says and the code does not do.               *)
(***************************************************************************)

(* DeviceMonitor.cpp:798: stop() makes the monitor thread end by closing   *)
(* its connection, and returns when it has.                                *)
StopReturns == stopper = "joining" ~> stopper = "done"
=============================================================================
