--------------------------- MODULE ClientRegistry ---------------------------
(***************************************************************************)
(* The clients of one device (CLIENT_SUPPORT builds): how DeviceMonitor    *)
(* follows the list of debuggable VMs that adb's track-jdwp service sends, *)
(* opens and drops Client objects, and leases them debugger ports.         *)
(*                                                                         *)
(* Two threads work on the same list:                                      *)
(*   - the reactor thread runs Device::processDeviceReadActivity (a new    *)
(*     list of pids) and Client::processClientReadActivity;                *)
(*   - the device client thread runs deviceClientMonitorLoop, which drops  *)
(*     and reopens the clients in mClientsToReopen while it holds          *)
(*     mClientsLock, a second of sleep per client included.  It holds the  *)
(*     lock as well while it sleeps because nothing is to be reopened.     *)
(* A step of a thread is what it does between two points where the other   *)
(* thread can get in: a lock, a blocking call, a select.                   *)
(*                                                                         *)
(* The device stays plugged in and the bridge is not terminated; both are  *)
(* other modules.  History variables are marked; no guard reads them.      *)
(*                                                                         *)
(* The list of ports and its operations are those of DebuggerPorts; the    *)
(* clients are its callers, and ClientPorts is only what ImplementsPool    *)
(* lets them give back.                                                    *)
(***************************************************************************)
EXTENDS DebuggerPorts, FiniteSets

CONSTANTS
  Pids,           \* the pids of the VMs that may run on the device
  StaticPort,     \* IDebugPortProvider::getPort, per VM: a port or NO_STATIC_PORT
  Faults,         \* what may go wrong: "connect", "handshake", "bind", "read", "list", "badshake"
  MaxChanges,     \* bound: how many times a VM starts or exits
  MaxFaults       \* bound: how many times something goes wrong

NO_STATIC_PORT == -1

ASSUME RegistryAssumption ==
  /\ StaticPort \in [Pids -> (Nat \ {0}) \cup {NO_STATIC_PORT}]
  /\ MaxChanges \in Nat /\ MaxFaults \in Nat

VARIABLES
  clients,           \* every Client object made so far; an id is an index
  mClients,          \* the device's list: the ids in order of addition
  mClientsToReopen,  \* id -> port to reopen it on
  mClientsLock,      \* "free", "reactor" or "monitor"
  r,                 \* the reactor thread
  m,                 \* the device client thread
  vms,               \* the pids of the VMs running on the device
  jdwpLists,         \* lists sent by adb and not read yet, oldest first
  listening,         \* whether the track-jdwp socket is still open
  view,              \* the list as of the last CHANGE_CLIENT_LIST notification
  crashed,           \* a null pointer has been dereferenced
  changes, faults,   \* the counters that MaxChanges and MaxFaults bound
  misreturned,       \* history: ports given back by a client not leasing them
  lost               \* history: ports whose opening failed, never given back

portVars == <<mDebuggerPorts, handedOut, misreturned>>
clientVars == <<clients, mClients, view>>
reopenVars == <<mClientsToReopen, mClientsLock>>
envVars == <<vms, jdwpLists, listening, changes>>
vars == <<portVars, clientVars, reopenVars, envVars, r, m, crashed, lost, faults>>

Ids == DOMAIN clients

(***************************************************************************)
(* Where a thread is.  The reactor: in select(), in the handler of a       *)
(* client's notification ("read", "error") or in addClientToDropAndReopen  *)
(* ("reopen"), or in processIncomingJdwpData: with a "snapshot" of the     *)
(* clients and no lock yet, in the "merge", or after it with pids left to  *)
(* "open": it is "opening" a connection to one, then "joining" it to the   *)
(* list.  History: seen is the last Client object made when the snapshot   *)
(* was taken.  The device client thread: between two rounds ("idle"), the  *)
(* one place where it does not have mClientsLock; asleep with nothing to   *)
(* reopen ("sleep"); or in a "sweep" of mClientsToReopen: having dropped a *)
(* client it must "wait", then it is "opening" and "joining", then it must *)
(* "notify".                                                               *)
(***************************************************************************)

ReactorIdle ==
  [pc |-> "select", client |-> 0, pid |-> 0, port |-> 0,
   snapshot |-> <<>>, seen |-> 0, pids |-> {}, changed |-> FALSE]

MonitorIdle == [pc |-> "idle", todo |-> {}, pid |-> 0, port |-> 0, leased |-> FALSE]

(* Something of this kind goes wrong.                                      *)
Fault(kind) ==
  /\ kind \in Faults /\ faults < MaxFaults
  /\ faults' = faults + 1

-----------------------------------------------------------------------------
(***************************************************************************)
(* Ports.                                                                  *)
(***************************************************************************)

(* getNextDebuggerPort                                                     *)
TakePort ==
  /\ GetNextDebuggerPort
  /\ UNCHANGED misreturned

(* addPortToAvailableList(port), called for a client that leases it or not *)
ReturnPort(port, leased) ==
  /\ AddPortToAvailableList(port)
  /\ misreturned' = IF leased THEN misreturned ELSE misreturned \cup {port}

(***************************************************************************)
(* Client objects.  port is mDebuggerListenPort; chan and debugger say     *)
(* whether mChan and mDebugger are set; shaken whether the handshake has   *)
(* been answered (ST_AWAIT_SHAKE is over).  History: leases says whether   *)
(* the port came from the list and has not been given back.                *)
(***************************************************************************)

NewClient(pid, port, bound, leased) ==
  [pid |-> pid, port |-> port, chan |-> TRUE, debugger |-> bound,
   shaken |-> FALSE, leases |-> leased]

(* Bug: the port of a client that is closed is not given back.             *)
DropClientKeepPort(c, notify) ==
  /\ clients' = [clients EXCEPT ![c].chan = FALSE, ![c].debugger = FALSE, ![c].leases = FALSE]
  /\ mClients' = RemoveFirst(mClients, c)
  /\ UNCHANGED portVars
  /\ view' = IF notify THEN mClients' ELSE view

(* Client::dropClient: close, then Device::removeClient, which gives the   *)
(* port back whether or not the client was in the list.                    *)
DropClient(c, notify) ==
  /\ clients' = [clients EXCEPT ![c].chan = FALSE, ![c].debugger = FALSE, ![c].leases = FALSE]
  /\ mClients' = RemoveFirst(mClients, c)
  /\ ReturnPort(clients[c].port, clients[c].leases)
  /\ view' = IF notify THEN mClients' ELSE view

(* A listening socket of this process is bound to port.                    *)
Listening(port) == \E c \in Ids : clients[c].debugger /\ clients[c].port = port

(***************************************************************************)
(* openClient and createClient for pid on port; leased says whether port   *)
(* came from getNextDebuggerPort.                                          *)
(***************************************************************************)

(* createPassThroughConnection fails: openClient just returns.             *)
ConnectFails(pid, port, leased) ==
  /\ IF pid \in vms THEN Fault("connect") ELSE UNCHANGED faults
  /\ lost' = IF leased THEN lost \cup {port} ELSE lost

(* sendHandshake fails: the new client is closed with notification, which  *)
(* gives back the port base it was constructed with, and forgotten.        *)
HandshakeFails(pid, port, leased) ==
  /\ IF pid \in vms THEN Fault("handshake") ELSE UNCHANGED faults
  /\ lost' = IF leased THEN lost \cup {port} ELSE lost
  /\ ReturnPort(DebugPortBase, FALSE)
  /\ view' = mClients
  /\ UNCHANGED <<clients, mClients, crashed>>

(* The client listens on port and joins the list.  When the port cannot be *)
(* bound the exception is caught, but registerInReactor is called on the   *)
(* null debugger all the same.                                             *)
ClientJoins(pid, port, leased) ==
  /\ \E bound \in BOOLEAN :
       /\ \/ bound = ~Listening(port) /\ UNCHANGED faults
          \/ ~bound /\ ~Listening(port) /\ Fault("bind")
       /\ clients' = Append(clients, NewClient(pid, port, bound, leased))
       /\ crashed' = ~bound
  /\ mClients' = Append(mClients, Len(clients) + 1)
  /\ UNCHANGED <<view, portVars, lost>>

-----------------------------------------------------------------------------
(***************************************************************************)
(* The reactor thread: the lists of pids.                                  *)
(***************************************************************************)

(* processIncomingJdwpData reads a list and copies the list of clients,    *)
(* before it has mClientsLock.                                             *)
R_ReadList ==
  /\ ~crashed /\ listening
  /\ r.pc = "select" /\ jdwpLists # <<>>
  /\ r' = [r EXCEPT !.pc = "snapshot", !.pids = Head(jdwpLists),
                    !.snapshot = mClients, !.seen = Len(clients)]
  /\ jdwpLists' = Tail(jdwpLists)
  /\ UNCHANGED <<m, clientVars, reopenVars, portVars, crashed, lost,
                 vms, listening, changes, faults>>

(* The list cannot be read: the socket is closed, and the monitoring of    *)
(* the device is not restarted.                                            *)
R_ListError ==
  /\ ~crashed /\ listening /\ Fault("list")
  /\ r.pc = "select"
  /\ listening' = FALSE
  /\ UNCHANGED <<r, m, clientVars, reopenVars, portVars, crashed, lost,
                 vms, jdwpLists, changes>>

R_LockClients ==
  /\ ~crashed
  /\ r.pc = "snapshot" /\ mClientsLock = "free"
  /\ r' = [r EXCEPT !.pc = "merge"]
  /\ mClientsLock' = "reactor"
  /\ UNCHANGED <<m, clientVars, mClientsToReopen, portVars, crashed, lost, envVars, faults>>

(* Bugs: a pid found is not marked as processed; a client dropped does not *)
(* count as a change.                                                      *)
R_MergeKeepsPid ==
  /\ ~crashed
  /\ r.pc = "merge" /\ r.snapshot # <<>>
  /\ LET c == Head(r.snapshot)
     IN  IF clients[c].pid \in r.pids
         THEN /\ r' = [r EXCEPT !.snapshot = Tail(r.snapshot)]
              /\ UNCHANGED <<clientVars, portVars>>
         ELSE /\ r' = [r EXCEPT !.snapshot = Tail(r.snapshot), !.changed = TRUE]
              /\ DropClient(c, FALSE)
  /\ UNCHANGED <<m, reopenVars, crashed, lost, envVars, faults>>
R_MergeSilently ==
  /\ ~crashed
  /\ r.pc = "merge" /\ r.snapshot # <<>>
  /\ LET c == Head(r.snapshot)
     IN  /\ r' = [r EXCEPT !.snapshot = Tail(r.snapshot), !.pids = @ \ {clients[c].pid}]
         /\ IF clients[c].pid \in r.pids
            THEN UNCHANGED <<clientVars, portVars>>
            ELSE DropClient(c, FALSE)
  /\ UNCHANGED <<m, reopenVars, crashed, lost, envVars, faults>>

(* One round of the merge: the next client's pid is marked as processed,   *)
(* or the client is dropped because its pid is not in the list (any more). *)
R_Merge ==
  /\ ~crashed
  /\ r.pc = "merge" /\ r.snapshot # <<>>
  /\ LET c == Head(r.snapshot)
     IN  IF clients[c].pid \in r.pids
         THEN /\ r' = [r EXCEPT !.snapshot = Tail(r.snapshot), !.pids = @ \ {clients[c].pid}]
              /\ UNCHANGED <<clientVars, portVars>>
         ELSE /\ r' = [r EXCEPT !.snapshot = Tail(r.snapshot), !.changed = TRUE]
              /\ DropClient(c, FALSE)
  /\ UNCHANGED <<m, reopenVars, crashed, lost, envVars, faults>>

R_UnlockClients ==
  /\ ~crashed
  /\ r.pc = "merge" /\ r.snapshot = <<>>
  /\ r' = [r EXCEPT !.pc = "open"]
  /\ mClientsLock' = "free"
  /\ UNCHANGED <<m, clientVars, mClientsToReopen, portVars, crashed, lost, envVars, faults>>

(* A pid is left: a port is taken for it, for openClient(device, pid, port)*)
R_TakePort(pid) ==
  /\ ~crashed
  /\ r.pc = "open" /\ pid \in r.pids
  /\ r' = [r EXCEPT !.pc = "opening", !.pids = @ \ {pid}, !.changed = TRUE,
                    !.pid = pid, !.port = NextPort(mDebuggerPorts)]
  /\ TakePort
  /\ UNCHANGED <<m, clientVars, reopenVars, crashed, lost, envVars, faults>>

R_Connect ==
  /\ ~crashed
  /\ r.pc = "opening"
  /\ \/ /\ r.pid \in vms
        /\ r' = [r EXCEPT !.pc = "joining"]
        /\ UNCHANGED <<lost, faults>>
     \/ /\ ConnectFails(r.pid, r.port, TRUE)
        /\ r' = [r EXCEPT !.pc = "open", !.pid = 0, !.port = 0]
  /\ UNCHANGED <<m, clientVars, reopenVars, portVars, crashed, envVars>>

R_CreateClient ==
  /\ ~crashed
  /\ r.pc = "joining"
  /\ r' = [r EXCEPT !.pc = "open", !.pid = 0, !.port = 0]
  /\ \/ HandshakeFails(r.pid, r.port, TRUE)
     \/ ClientJoins(r.pid, r.port, TRUE)
  /\ UNCHANGED <<m, reopenVars, envVars>>

(* No pid is left: the listeners are notified if anything changed.         *)
R_Notify ==
  /\ ~crashed
  /\ r.pc = "open" /\ r.pids = {}
  /\ r' = ReactorIdle
  /\ view' = IF r.changed THEN mClients ELSE view
  /\ UNCHANGED <<m, clients, mClients, reopenVars, portVars, crashed, lost, envVars, faults>>

(***************************************************************************)
(* The reactor thread: the clients' sockets.                               *)
(***************************************************************************)

(* select() returns a client's socket; its handler runs a moment later.    *)
R_Select(c, notification) ==
  /\ ~crashed
  /\ r.pc = "select" /\ c \in ToSet(mClients) /\ clients[c].chan
  /\ IF notification = "error" THEN Fault("read") ELSE UNCHANGED faults
  /\ r' = [r EXCEPT !.pc = notification, !.client = c]
  /\ UNCHANGED <<m, clientVars, reopenVars, portVars, crashed, lost, envVars>>

(* processClientReadActivity of a client that was closed meanwhile drops   *)
(* it again, then reads from its null channel.                             *)
R_ReadClosed ==
  /\ ~crashed
  /\ r.pc = "read" /\ ~clients[r.client].chan
  /\ DropClient(r.client, TRUE)
  /\ crashed' = TRUE
  /\ UNCHANGED <<r, m, reopenVars, lost, envVars, faults>>

(* Reading fails, or the error handler runs: the client is dropped.        *)
R_DropClient ==
  /\ ~crashed
  /\ \/ r.pc = "read" /\ clients[r.client].chan /\ Fault("read")
     \/ r.pc = "error" /\ UNCHANGED faults
  /\ r' = ReactorIdle
  /\ DropClient(r.client, TRUE)
  /\ UNCHANGED <<m, reopenVars, crashed, lost, envVars>>

(* The VM answers the handshake; from now on it sends packets.             *)
R_GoodHandshake ==
  /\ ~crashed
  /\ r.pc = "read" /\ clients[r.client].chan /\ ~clients[r.client].shaken
  /\ r' = ReactorIdle
  /\ clients' = [clients EXCEPT ![r.client].shaken = TRUE]
  /\ UNCHANGED <<m, mClients, view, reopenVars, portVars, crashed, lost, envVars, faults>>

(* HANDSHAKE_BAD: the client goes on to addClientToDropAndReopen, and      *)
(* still awaits its handshake.                                             *)
R_BadHandshake ==
  /\ ~crashed
  /\ r.pc = "read" /\ clients[r.client].chan /\ ~clients[r.client].shaken
  /\ Fault("badshake")
  /\ r' = [r EXCEPT !.pc = "reopen", !.port = NO_STATIC_PORT]
  /\ UNCHANGED <<m, clientVars, reopenVars, portVars, crashed, lost, envVars>>

(* The VM tells its application's name, and checkDebuggerPortForAppName    *)
(* finds that a static port other than the client's is wanted.             *)
R_AppName ==
  /\ ~crashed
  /\ r.pc = "read" /\ clients[r.client].chan /\ clients[r.client].shaken
  /\ LET newPort == StaticPort[clients[r.client].pid]
     IN  r' = IF newPort \in {NO_STATIC_PORT, clients[r.client].port}
              THEN ReactorIdle
              ELSE [r EXCEPT !.pc = "reopen", !.port = newPort]
  /\ UNCHANGED <<m, clientVars, reopenVars, portVars, crashed, lost, envVars, faults>>

(* HANDSHAKE_NOTYET, or packets that are not about the name.               *)
R_OtherData ==
  /\ ~crashed
  /\ r.pc = "read" /\ clients[r.client].chan
  /\ r' = ReactorIdle
  /\ UNCHANGED <<m, clientVars, reopenVars, portVars, crashed, lost, envVars, faults>>

(* The map with a request added: the first one for a client counts.        *)
WithRequest(map, c, port) ==
  IF c \in DOMAIN map THEN map
  ELSE [d \in DOMAIN map \cup {c} |-> IF d = c THEN port ELSE map[d]]

(* Bug: the map is changed without mClientsLock.                           *)
R_AddClientNoLock ==
  /\ ~crashed
  /\ r.pc = "reopen"
  /\ r' = ReactorIdle
  /\ mClientsToReopen' = WithRequest(mClientsToReopen, r.client, r.port)
  /\ UNCHANGED <<m, clientVars, mClientsLock, portVars, crashed, lost, envVars, faults>>

R_AddClientToDropAndReopen ==
  /\ ~crashed
  /\ r.pc = "reopen" /\ mClientsLock = "free"
  /\ r' = ReactorIdle
  /\ mClientsToReopen' = WithRequest(mClientsToReopen, r.client, r.port)
  /\ UNCHANGED <<m, clientVars, mClientsLock, portVars, crashed, lost, envVars, faults>>

-----------------------------------------------------------------------------
(***************************************************************************)
(* The device client thread, deviceClientMonitorLoop.  It takes            *)
(* mClientsLock for every round, and releases it only to take it again.    *)
(***************************************************************************)

(* Nothing to reopen: the thread sleeps, with the lock, and looks again.   *)
M_Sleep ==
  /\ ~crashed
  /\ m.pc = "idle" /\ mClientsLock = "free" /\ DOMAIN mClientsToReopen = {}
  /\ m' = [m EXCEPT !.pc = "sleep"]
  /\ mClientsLock' = "monitor"
  /\ UNCHANGED <<r, clientVars, mClientsToReopen, portVars, crashed, lost, envVars, faults>>

M_Wake ==
  /\ ~crashed
  /\ m.pc = "sleep"
  /\ m' = MonitorIdle
  /\ mClientsLock' = "free"
  /\ UNCHANGED <<r, clientVars, mClientsToReopen, portVars, crashed, lost, envVars, faults>>

(* Bug: a single request is taken for none.                                *)
M_LockClientsTwo ==
  /\ ~crashed
  /\ m.pc = "idle" /\ mClientsLock = "free" /\ Cardinality(DOMAIN mClientsToReopen) > 1
  /\ m' = [m EXCEPT !.pc = "sweep", !.todo = DOMAIN mClientsToReopen]
  /\ mClientsLock' = "monitor"
  /\ UNCHANGED <<r, clientVars, mClientsToReopen, portVars, crashed, lost, envVars, faults>>

M_LockClients ==
  /\ ~crashed
  /\ m.pc = "idle" /\ mClientsLock = "free" /\ DOMAIN mClientsToReopen # {}
  /\ m' = [m EXCEPT !.pc = "sweep", !.todo = DOMAIN mClientsToReopen]
  /\ mClientsLock' = "monitor"
  /\ UNCHANGED <<r, clientVars, mClientsToReopen, portVars, crashed, lost, envVars, faults>>

(* The next client of the map is dropped; the thread then waits a bit.     *)
M_DropClient(c) ==
  /\ ~crashed
  /\ m.pc = "sweep" /\ c \in m.todo
  /\ m' = [m EXCEPT !.pc = "wait", !.todo = @ \ {c},
                    !.pid = clients[c].pid, !.port = mClientsToReopen[c]]
  /\ DropClient(c, FALSE)
  /\ UNCHANGED <<r, reopenVars, crashed, lost, envVars, faults>>

(* Bugs: NO_STATIC_PORT is used as a port; the port is not taken off the   *)
(* list.                                                                   *)
M_TakeAnyPort ==
  /\ ~crashed
  /\ m.pc = "wait"
  /\ m' = [m EXCEPT !.pc = "opening"]
  /\ UNCHANGED <<r, clientVars, reopenVars, portVars, crashed, lost, envVars, faults>>
M_PeekPort ==
  /\ ~crashed
  /\ m.pc = "wait"
  /\ m' = IF m.port = NO_STATIC_PORT
          THEN [m EXCEPT !.pc = "opening", !.leased = TRUE, !.port = NextPort(mDebuggerPorts)]
          ELSE [m EXCEPT !.pc = "opening"]
  /\ UNCHANGED <<r, clientVars, reopenVars, portVars, crashed, lost, envVars, faults>>

(* Without a static port, the next one available is taken.                 *)
M_TakePort ==
  /\ ~crashed
  /\ m.pc = "wait"
  /\ IF m.port = NO_STATIC_PORT
     THEN /\ m' = [m EXCEPT !.pc = "opening", !.leased = TRUE,
                            !.port = NextPort(mDebuggerPorts)]
          /\ TakePort
     ELSE /\ m' = [m EXCEPT !.pc = "opening"]
          /\ UNCHANGED portVars
  /\ UNCHANGED <<r, clientVars, reopenVars, crashed, lost, envVars, faults>>

M_Connect ==
  /\ ~crashed
  /\ m.pc = "opening"
  /\ \/ /\ m.pid \in vms
        /\ m' = [m EXCEPT !.pc = "joining"]
        /\ UNCHANGED <<lost, faults>>
     \/ /\ ConnectFails(m.pid, m.port, m.leased)
        /\ m' = [m EXCEPT !.pc = "notify", !.pid = 0, !.port = 0, !.leased = FALSE]
  /\ UNCHANGED <<r, clientVars, reopenVars, portVars, crashed, envVars>>

M_CreateClient ==
  /\ ~crashed
  /\ m.pc = "joining"
  /\ m' = [m EXCEPT !.pc = "notify", !.pid = 0, !.port = 0, !.leased = FALSE]
  /\ \/ HandshakeFails(m.pid, m.port, m.leased)
     \/ ClientJoins(m.pid, m.port, m.leased)
  /\ UNCHANGED <<r, reopenVars, envVars>>

(* device->update(CHANGE_CLIENT_LIST)                                      *)
M_Notify ==
  /\ ~crashed
  /\ m.pc = "notify"
  /\ m' = [m EXCEPT !.pc = "sweep"]
  /\ view' = mClients
  /\ UNCHANGED <<r, clients, mClients, reopenVars, portVars, crashed, lost, envVars, faults>>

(* Bug: the lock is not released.                                          *)
M_ClearOnly ==
  /\ ~crashed
  /\ m.pc = "sweep" /\ m.todo = {}
  /\ m' = MonitorIdle
  /\ mClientsToReopen' = <<>>
  /\ UNCHANGED <<r, clientVars, mClientsLock, portVars, crashed, lost, envVars, faults>>

(* mClientsToReopen.clear(), and the end of the block.                     *)
M_UnlockClients ==
  /\ ~crashed
  /\ m.pc = "sweep" /\ m.todo = {}
  /\ m' = MonitorIdle
  /\ mClientsToReopen' = <<>>
  /\ mClientsLock' = "free"
  /\ UNCHANGED <<r, clientVars, portVars, crashed, lost, envVars, faults>>

-----------------------------------------------------------------------------
(***************************************************************************)
(* The device: a VM starts or exits, and adb sends the new list of pids.   *)
(***************************************************************************)

VmChange(newVms) ==
  /\ ~crashed
  /\ changes < MaxChanges
  /\ changes' = changes + 1
  /\ vms' = newVms
  /\ jdwpLists' = Append(jdwpLists, newVms)
  /\ UNCHANGED <<r, m, clientVars, reopenVars, portVars, crashed, lost, faults, listening>>

VmStart(pid) == pid \notin vms /\ VmChange(vms \cup {pid})

VmExit(pid) == pid \in vms /\ VmChange(vms \ {pid})

(* The process is gone.                                                    *)
Crashed == crashed /\ UNCHANGED vars

-----------------------------------------------------------------------------

Init ==
  /\ PortsInit
  /\ misreturned = {} /\ lost = {}
  /\ clients = <<>> /\ mClients = <<>> /\ view = <<>>
  /\ mClientsToReopen = <<>> /\ mClientsLock = "free"
  /\ r = ReactorIdle /\ m = MonitorIdle
  /\ vms = {} /\ jdwpLists = <<>> /\ listening = TRUE
  /\ changes = 0 /\ faults = 0
  /\ crashed = FALSE

Reactor ==
  \/ R_ReadList \/ R_ListError \/ R_LockClients \/ R_Merge \/ R_UnlockClients
  \/ \E pid \in Pids : R_TakePort(pid)
  \/ R_Connect \/ R_CreateClient \/ R_Notify
  \/ \E c \in Ids, notification \in {"read", "error"} : R_Select(c, notification)
  \/ R_ReadClosed \/ R_DropClient \/ R_GoodHandshake \/ R_BadHandshake
  \/ R_AppName \/ R_OtherData \/ R_AddClientToDropAndReopen

ClientMonitor ==
  \/ M_Sleep \/ M_Wake \/ M_LockClients
  \/ \E c \in Ids : M_DropClient(c)
  \/ M_TakePort \/ M_Connect \/ M_CreateClient \/ M_Notify \/ M_UnlockClients

Vms == \E pid \in Pids : VmStart(pid) \/ VmExit(pid)

Next == Reactor \/ ClientMonitor \/ Vms \/ Crashed

Spec == Init /\ [][Next]_vars

(* Both threads keep running; nothing more.  Taking mClientsLock is only   *)
(* weakly fair: the device client thread sleeps with the lock and takes it *)
(* again at once, so that the reactor may find it taken whenever it looks. *)
(* The device client thread needs no more to get the lock itself, since    *)
(* the reactor takes it once per list of pids, and the VMs change only so  *)
(* often.  SocketReactor serves every socket that a select() returned, so  *)
(* a list that waits to be read is read although the clients keep sending. *)
(* What a VM or a fault causes is not fair: the notifications of the       *)
(* clients' sockets, a VM's start or exit.                                 *)
Fairness ==
  /\ WF_vars(R_LockClients) /\ WF_vars(R_AddClientToDropAndReopen)
  /\ WF_vars(M_Sleep) /\ WF_vars(M_Wake) /\ WF_vars(M_LockClients)
  /\ SF_vars(R_ReadList) /\ WF_vars(R_Merge) /\ WF_vars(R_UnlockClients)
  /\ WF_vars(\E pid \in Pids : R_TakePort(pid)) /\ WF_vars(R_Connect) /\ WF_vars(R_CreateClient)
  /\ WF_vars(R_Notify)
  /\ WF_vars(R_ReadClosed \/ R_DropClient \/ R_GoodHandshake \/ R_BadHandshake
                \/ R_AppName \/ R_OtherData)
  /\ WF_vars(\E c \in Ids : M_DropClient(c)) /\ WF_vars(M_TakePort)
  /\ WF_vars(M_Connect) /\ WF_vars(M_CreateClient) /\ WF_vars(M_Notify) /\ WF_vars(M_UnlockClients)

FairSpec == Spec /\ Fairness

-----------------------------------------------------------------------------
(***************************************************************************)
(* Properties.                                                             *)
(***************************************************************************)

Port == Nat \ {0}

PortsOK ==
  /\ mDebuggerPorts \in Seq(Port)
  /\ handedOut \subseteq Port /\ misreturned \subseteq Port /\ lost \subseteq Port

ClientType ==
  [pid : Pids, port : Port, chan : BOOLEAN, debugger : BOOLEAN, shaken : BOOLEAN,
   leases : BOOLEAN]

ClientsOK == clients \in Seq(ClientType) /\ mClients \in Seq(Ids) /\ view \in Seq(Ids)

ReopenOK ==
  /\ DOMAIN mClientsToReopen \subseteq Ids
  /\ \A c \in DOMAIN mClientsToReopen : mClientsToReopen[c] \in Port \cup {NO_STATIC_PORT}
  /\ mClientsLock \in {"free", "reactor", "monitor"}

ReactorOK ==
  /\ r \in [pc : {"select", "read", "error", "reopen", "snapshot", "merge",
                  "open", "opening", "joining"},
            client : Ids \cup {0}, pid : Pids \cup {0}, port : Port \cup {0, NO_STATIC_PORT},
            snapshot : Seq(Ids), seen : Ids \cup {0}, pids : SUBSET Pids, changed : BOOLEAN]
  /\ r.pc \in {"read", "error", "reopen"} => r.client \in Ids
  /\ r.pc = "reopen" => r.port # 0
  /\ r.pc \in {"opening", "joining"} => r.pid \in Pids /\ r.port \in Port

MonitorOK ==
  /\ m \in [pc : {"idle", "sleep", "sweep", "wait", "opening", "joining", "notify"},
            todo : SUBSET DOMAIN mClientsToReopen, pid : Pids \cup {0},
            port : Port \cup {0, NO_STATIC_PORT}, leased : BOOLEAN]
  /\ m.pc = "wait" => m.port # 0
  /\ m.pc \in {"wait", "opening", "joining"} => m.pid \in Pids
  /\ m.pc \in {"opening", "joining"} => m.port \in Port

EnvOK ==
  /\ vms \subseteq Pids /\ jdwpLists \in Seq(SUBSET Pids)
  /\ changes \in 0..MaxChanges /\ faults \in 0..MaxFaults
  /\ listening \in BOOLEAN /\ crashed \in BOOLEAN

(* The types of the variables.                                             *)
TypeOK == PortsOK /\ ClientsOK /\ ReopenOK /\ ReactorOK /\ MonitorOK /\ EnvOK

(* The part of the invariant that says which code runs under mClientsLock. *)
LockOK ==
  /\ mClientsLock = "reactor" <=> r.pc = "merge"
  /\ mClientsLock = "monitor" <=> m.pc # "idle"

(* The leases of ports from the list: one of each client that leases its   *)
(* port, by the client's id, and one of a thread that is about to open a   *)
(* client on a port it took.                                               *)
ReactorLease == 0
MonitorLease == -1

Leases ==
  {c \in Ids : clients[c].leases}
  \cup {l \in {ReactorLease} : r.pc \in {"opening", "joining"}}
  \cup {l \in {MonitorLease} : m.pc \in {"opening", "joining"} /\ m.leased}

LeasedPort(l) ==
  IF l = ReactorLease THEN r.port
  ELSE IF l = MonitorLease THEN m.port
  ELSE clients[l].port

(* A port on lease is leased once and is not available meanwhile, although *)
(* clients are opened, dropped and reopened by two threads.  The only      *)
(* exceptions are ports that somebody without a lease gave back: a client  *)
(* closed twice or never listening, or one on a static port.               *)
PortsExclusive ==
  \A l \in Leases : LeasedPort(l) \notin misreturned =>
    /\ LeasedPort(l) \notin ToSet(mDebuggerPorts)
    /\ \A k \in Leases : LeasedPort(k) = LeasedPort(l) => k = l

(* No port disappears: a port that was handed out and not given back is on *)
(* lease, unless opening the client it was taken for failed.               *)
NoPortLeaks == handedOut \subseteq {LeasedPort(l) : l \in Leases} \cup lost

(* The pids of the list being merged that the reactor still may open, or   *)
(* is opening.                                                             *)
PidsToOpen == r.pids \cup {pid \in {r.pid} : r.pc \in {"opening", "joining"}}

(* A VM that has a client when the reactor copies the list of clients is   *)
(* not opened again by that merge: a client that is listed when the merge  *)
(* is over, for a VM that still is to be opened, was reopened by the       *)
(* device client thread after the copy was taken.                          *)
MergeOpensOnce ==
  r.pc \in {"open", "opening", "joining"} =>
    \A c \in ToSet(mClients) : clients[c].pid \in PidsToOpen => c > r.seen

(* What the comment at DeviceMonitor.cpp:585 says of the merge: once it is *)
(* done, "the new list contains pids for which we don't have clients yet". *)
PidsLeftAreNew ==
  r.pc = "merge" /\ r.snapshot = <<>> => \A c \in ToSet(mClients) : clients[c].pid \notin r.pids

(* When both threads are between two jobs, the listeners have been told of *)
(* every change of the list: a client dropped silently in a merge or in a  *)
(* sweep, and a client whose handshake failed, included.                   *)
ViewFresh ==
  /\ r.pc \notin {"snapshot", "merge", "open", "opening", "joining"}
  /\ m.pc \in {"idle", "sleep"}
  => view = mClients

(* A request to reopen a client leaves the map only when that client has   *)
(* been dropped: clear() forgets no request made during the sweep.         *)
NoRequestLost ==
  [][\A c \in DOMAIN mClientsToReopen :
       c \notin DOMAIN mClientsToReopen' => ~clients[c].chan]_vars

(* Requests to reopen a client are eventually served, although the device  *)
(* client thread may have to wait for a merge to be over.                  *)
ReopenServed == DOMAIN mClientsToReopen # {} ~> (DOMAIN mClientsToReopen = {} \/ crashed)

(* The reactor waits for mClientsLock forever, although it is released     *)
(* again and again.                                                        *)
ReactorStarves == <>[](r.pc \in {"snapshot", "reopen"}) /\ []<>(mClientsLock = "free")

(* A list of pids that has come is eventually read, unless the device      *)
(* client thread always is the first to take mClientsLock again: nothing   *)
(* else keeps the reactor from it, neither a lock kept for good nor the    *)
(* clients' own traffic.                                                   *)
ListsRead ==
  (jdwpLists # <<>> ~> (jdwpLists = <<>> \/ ~listening \/ crashed)) \/ ReactorStarves
=============================================================================
