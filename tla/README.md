# ddmlib: formal models

This directory holds TLA+ models of the C++ port of Android's ddmlib whose source is in
`src/`, the TLC instances that check them, and TLAPS proofs about the parts for which a
finite instance is not enough.

ddmlib is a library with which an application (an IDE, a monitor) talks to the adb server:
it keeps the list of devices adb sees, the list of debuggable VMs on each device, a
debugger port for each VM, and it runs commands, transfers files and reads logs on devices.

Line numbers below are those of the files in `src/`. The project file of the library
(`ddmlib.vcproj`) does not define `CLIENT_SUPPORT`. Without it the library tracks devices
and talks to them, and opens no clients. The code of the clients is there, complete but for
declarations of `Device.hpp` that the macro repeats, so both configurations are modelled: what concerns the list of devices is in
both, the clients of a device, their JDWP streams and their debugger ports are in the
`CLIENT_SUPPORT` one.

## 1. Inventory

### Threads

| thread | started at | runs |
|---|---|---|
| application | – | every public method; calls back into nothing |
| Device List Monitor | `DeviceMonitor.cpp:787` | `deviceMonitorLoop`: connects to adb, starts adb, reads lists of devices, tells the listeners |
| Device Client Monitor | `DeviceMonitor.cpp:463` | `deviceClientMonitorLoop`: every second, drops and reopens the clients in `mClientsToReopen` |
| socket reactor | `AndroidDebugBridge.cpp:157` | handlers of readable sockets: lists of pids (`Device::processDeviceReadActivity`), clients (`Client::processClientReadActivity`), debuggers (`Debugger::processDebuggerActivity`) |
| pool threads | `DeviceMonitor.cpp:159` | `Notifier::runTask`: tell the listeners that a device is gone |
| HandleThread's | `HandleThread.cpp:95` | one request for a thread list or a stack at a time |
| FileListing's | `FileListingService.cpp:330` | one `ls` each |

### Components

| component | state | operations | correct when |
|---|---|---|---|
| **Device list monitor** `DeviceMonitor.cpp` 34-407, 727-810 | `mDevices`, `mMainAdbConnection`, `mMonitoring`, `mConnectionAttempt`, `mRestartAttemptCount`, `mInitialDeviceListDone`, `mQuit` | connect, request, read a list, merge it, query properties, drain on error, stop | the list is adb's; the listeners follow it; every failure leads back to a connection; `stop` returns and is final |
| **Clients of a device** `DeviceMonitor.cpp` 463-706, 837-844; `Device.cpp` 297-321, 642-663; `Client.cpp` 504-608 | `mClients`, `mClientsToReopen` | read a list of pids, merge, open, drop, reopen | one client per VM, none for a dead one; requests to reopen are served |
| **Debugger port list** `DeviceMonitor.cpp` 708-724, 850-870 | `mDebuggerPorts` | lease a port, give it back | a port is leased to one client at a time and comes back; the list never runs out |
| **AndroidDebugBridge** `AndroidDebugBridge.cpp` | `sThis`, `mStarted`, `mDeviceMonitor`, `sAdbOsLocation`, `sInitialized`, listeners, `sLock` | init, terminate, create, disconnect, start, stop, start and stop adb, notify | locks in one order; no thread of a bridge outlives it |
| **Device** `Device.cpp` | properties, client list, installation | push, pull, install, sync, battery, properties | what fails is reported; temporary files are removed |
| **AdbHelper** `AdbHelper.cpp` | – (a protocol over one socket) | requests, replies, remote commands, log service, forwards | a reply is taken for the request it answers; a read ends |
| **Client's JDWP stream** `Client.cpp` 294-503, `JdwpPacket.cpp`, `ByteBuffer.cpp` | connection state, read buffer, outstanding requests | handshake, cut the stream into packets, answer, forward | packets come out as they went in, whatever the chunks; replies meet their requests |
| **Debugger** `Debugger.cpp` | listening socket, data socket, saved packets | accept, close, handshake, forward | what is forwarded goes whole and in order; what arrives early is saved whole |
| **Chunk handlers** `ChunkHandler.cpp`, `Handle*.cpp` | tables of handlers, running flags, pending profile files | dispatch, broadcast, thread requests, profiling | a reply is handled once, by its handler |
| **Sync service** `SyncService.cpp` | one connection | open, pull, push, stat | a transfer succeeds with the whole file or says why not |
| **File listing** `FileListingService.cpp` | a tree of entries, threads | list a directory, update the cache | entries are kept, children are those of the last listing |
| **Output receivers** `MultiLineReceiver.cpp`, `CollectingOutputReceiver.cpp` | unfinished line | add output, flush | lines do not depend on how the output is cut |
| **Log service** `AdbHelper.cpp` 350-420, `LogReceiver.cpp` | current entry, offsets, header buffer, cancelled | read, parse new data, cancel | entries do not depend on how the stream is cut; a cancelled service returns |
| **Instrumentation tests** `InstrumentationResultParser.cpp` | current test, counts | parse lines | each test is reported started and ended once |
| **Emulator console** `EmulatorConsole.cpp` | map port → console | get, send a command | one console per port; a reply is its command's |
| **Event log parser**, **screenshots**, **preferences and logging** | tables; none; values | decode; convert; set and get | sequential decoding without interaction |

### How they interact

adb's lists reach the monitor thread over `mMainAdbConnection`. The monitor thread takes the
bridge lock and `mDevicesLock`, merges, releases them, and calls the bridge's listeners, each
under the bridge lock. A device that is online gets a track-jdwp socket, registered with the
reactor: lists of pids arrive there, and the reactor thread opens clients, takes ports from
`mDebuggerPorts` and registers the clients' sockets with itself. A client that must be
reopened (its application's static port is known only once it said its name, or its
handshake was bad) is put in `mClientsToReopen`, under `mClientsLock`, for the device client
thread. `stop()`, on an application thread, sets `mQuit`, closes the connection and joins
the monitor thread.

A bridge is made, replaced, disconnected and terminated by static functions, which any
application thread calls. Each takes a lock of its own (`localLock`) and then the bridge lock
(`sLock`), calls `start` or `stop`, which do the same, and so on: one call nests up to six
locks. The monitor's threads and the reactor take the bridge lock to tell the listeners, and
`mDevicesLock`, `mClientsLock` and `Device`'s lock in between.

A shell command runs in the thread of the application that asks for it. It reads chunks until
the device closes the connection, the receiver is cancelled, or nothing has come for too
long, and hands each chunk to a receiver, which cuts it into lines and parses them. The log
service reads in the same way, until it is cancelled, and its receiver cuts entries. Toggling
method profiling sends requests on the client's connection; the answers are handled in the
reactor's thread and call the application's handler.

### What is hard

Two threads edit a device's clients, with a lock that covers part of each operation. adb can
die, restart, answer late, or refuse, at every point of an exchange of several messages. The
list is merged under the locks and announced outside them, from two kinds of threads. Ports
come back in any order, more than once, and from clients that never leased them. `stop()`
waits for a thread while it holds locks that thread needs. A VM's packets arrive cut anywhere,
in a buffer that grows, while application threads add requests to the list that the answers
are matched with. A file transfer can be refused, cancelled, answered late or cut off at each
message, and the connection is used again afterwards. A function of the bridge calls others
with locks held, on threads that are about to be joined. Output and logs are cut anywhere, even
between CR and LF or inside a header, and end in five different ways. A profiling request's
file is recorded after the request was sent, while its failure may already be handled.
`PROJECT.json` lists these
hazards at their lines, with the properties that cover them.

## 2. Modules

| module | models | extends or instantiates |
|---|---|---|
| `PortPool` | abstract: a set of ports that never runs out | – |
| `DebuggerPorts` | the sorted vector of available ports | `PortPool` (refinement) |
| `ClientRegistry` | two threads on one device's clients | `DebuggerPorts` (extends it: its variables and operations) |
| `ClientRegistry_proofs` | theorems about it and about `DebuggerPorts` | `ClientRegistry` |
| `DeviceEvents` | abstract: what a listener may hear of one device | – |
| `DeviceMonitor` | the monitor thread, adb, the pool's tasks, `stop` | `DeviceEvents` (refinement) |
| `DeviceMonitor_proofs` | theorems about its connection, events, queries and lists | `DeviceMonitor` |
| `ByteBuffers` | operators: `ByteBuffer`'s position, limit, flip, compact, put | – |
| `JdwpStream` | one client's stream of packets, its requests and its debugger | `ByteBuffers` |
| `JdwpStream_proofs` | theorems about the buffers, the stream and the requests | `JdwpStream` |
| `SyncService` | file transfers over one connection | – |
| `SyncService_proofs` | theorems: client and device stay in step, transfers are whole, the progress adds up | `SyncService` |
| `AndroidDebugBridge` | the bridge's life cycle, every thread's calls and locks | – |
| `AndroidDebugBridge_proofs` | theorems about its stacks, locks, circles of waiting threads, monitors and their threads | `AndroidDebugBridge` |
| `MultiLineReceiver` | operators: cutting output into lines | – |
| `InstrumentationResultParser` | operators: what the parser makes of a line | – |
| `ShellCommand` | a test run or an installation: the command, its receiver, its caller | the two before |
| `ShellCommand_proofs` | theorems: the lines of the output, and what is made of them | `ShellCommand` |
| `LogService` | the log service and the cutting of entries | – |
| `LogService_proofs` | theorems: the entries arrive whole | `LogService` |
| `MethodProfiling` | application, reactor and VM around one client's profiling | – |
| `MethodProfiling_proofs` | theorems about its status and its files | `MethodProfiling` |
| `MCRegistry`, `MCMonitor`, `MCJdwp`, `MCSync`, `MCBridge`, `MCShell`, `MCLog`, `MCProfiling` | TLC instances | the above |

A name that the code has is the model's name for it: `mDevices`, `mClientsToReopen`,
`GetNextDebuggerPort`. In the models of several threads an action's prefix is its thread
(`R_` reactor, `M_` monitor, `T_` pool task, `S_` the thread in `stop`, `A_` and `U_` the
application, `C_` the thread of a transfer, `D_` the device). One action is what a
thread does between two points at which another actor can matter: a lock, a blocking call,
a callback, a `select`. Everything the code does in between, cleanups included, is in the
action.

Definitions whose name begins with `M_` and whose comment begins with "Bug:" or "Mutant:" are
forms that the code could have had. No action uses them: each is put in the place of the real one to see that the property it would
break really notices.

### DebuggerPorts and PortPool

`mDebuggerPorts` is the sequence the vector holds. `GetNextDebuggerPort` removes the first
port and, when the vector is then empty, appends the next higher one.
`AddPortToAvailableList` ignores `NO_STATIC_PORT` and a port that is listed, and inserts any
other before the first larger one; one that is larger than all is dropped, as the code's loop
ends without inserting. The last element is therefore the *frontier*: no port above it has
been handed out. `handedOut` is history: the ports taken and not given back. `PortPool` has
the same operations on a set and says what clients may rely on.

### ClientRegistry

One device, its VMs (`vms`), the lists of pids adb sends (`jdwpLists`), the `Client` objects
made so far (`clients`, an id is an index), the device's list (`mClients`),
`mClientsToReopen`, `mClientsLock`, and where each thread is (`r`, `m`). The reactor's actions
follow `processIncomingJdwpData`: `R_ReadList` reads a list and copies `mClients` *before*
the lock (line 588), `R_LockClients` takes `mClientsLock`, `R_Merge` drops the clients without
a pid, `R_UnlockClients`, then for each pid left `R_TakePort`, `R_Connect` and
`R_CreateClient` (which sends the handshake, binds the debugger port and adds the client),
and `R_Notify`. Or they handle a client's socket: `R_Select`, and one of the outcomes of
`processClientReadActivity`. The device client thread holds `mClientsLock` from
`M_LockClients` to `M_UnlockClients`, a second of sleep per client included, and drops and
reopens a client at a time. When there is nothing to reopen it holds the lock while it sleeps
50 ms (`M_Sleep` to `M_Wake`, line 515), and takes it again at once. `view` is the list at the
last notification of the listeners; `r.seen` is how many clients there were when the list was
copied (both are history).

Data is abstracted to what these threads tell apart. Faults, each at its place in the code:
the connection to the VM fails, the handshake cannot be sent, the debugger port cannot be
bound, a client's or the device's socket fails, a handshake is bad.

### DeviceMonitor and DeviceEvents

The monitor thread's `pc` names the point where it can be held up. `M_Connect` to
`M_StartAdb` are the connection phase (from the fourth failed attempt on, adb is started),
`M_Request` to `M_ReplyClosed` the exchange of the track-devices request, with
`AdbHelper::read`'s behaviour at a time out (`M_ReplyTimeout`: swallowed) and at the end of
the stream (`M_Spin`: 0 bytes, again and again), `M_ReadList` to `M_ReadError` the reading of
a list, `M_LockDevices` to `M_Query` `updateDevices`, `M_LockToDrain` to `M_Drained`
`handleExceptionInMonitorLoop`. `T_Notify` is a task of the pool; `S_Stop` and `S_Joined` are
`stop()`. The bridge lock and `mDevicesLock` are taken together here and are one variable.
`adb` is external: it accepts, refuses, answers, dies and starts; a message arrives whole,
and an adb that refused a request closes the connection.

`told` is what the listeners heard last of a device, and `DeviceEvents` is the protocol
promised to them: connected, changed any number of times, disconnected.

### JdwpStream and ByteBuffers

A byte is `<<k, i>>`, the `i`-th byte of the `k`-th message the VM sent, so that a byte lost,
repeated or moved is visible wherever it ends up. `ByteBuffers` has the buffer as its memory,
position and limit, with the operations of `ByteBuffer.cpp`; bytes behind the position, which
nothing reads, are abstracted. `R_Read` is `Client::read` of all that is available, with the
doubling of a full buffer; the actions after it are the loop of
`processClientReadActivity`: `getJdwpPacket` in its three connection states, `findPacket`, and what
becomes of a packet (`R_Ddm`, `R_Reply`, `R_Forward`, `R_Save`). A handler may throw, after
the broadcast that the VM is ready, and so does `callHandler` for a packet without a payload
(`R_HandlerThrows`); a debugger that is gone may have got the first bytes of a packet
(`R_ForwardFails`, which sends byte by byte). Both drop the client. `HELO` stands for the
three requests that follow a good handshake: their kind makes no difference to the stream.
`A_AddRequestId` and `A_Send` are the two halves of `sendAndConsume`, between which the
other thread may close the client (`A_SendClosed`). The reactor accepts debuggers
(`R_Accept`); what a debugger says is read by nobody, since `processDebuggerData` is never
registered. A client whose handshake is bad ends in `toReopen`, from where `ClientRegistry`
takes over. Reading beyond the bytes that are there, and sending on a channel that has been
reset, are undefined behaviour and end the model in `undefined`. A VM that closes its end is
not an action: `receiveBytes` returns 0, and no state changes.

### SyncService

One application thread with one `SyncService`, on which it runs one operation after another,
also after one that failed, or which it gives up (`U_Drop`) as `Device::pullFile` does. The
stream from the device is made of words of four bytes, so that a reader that is out of step,
by words, takes content for an identifier or a length (`Numbers`). `Read` is
`AdbHelper::read` with its three ends: enough words; a time out, of which the caller is not
told and after which the caller's array is as before or partly unwritten memory; and the end
of the stream, which spins. `op.pc` names the next blocking step, and each round of the loops
of `doPullFile` and `doPushFile` is cut at the reads, the writes and the looks at
`isCanceled`. The recursion of `doPull` and `doPush` is `op.todo`, the entries still to
visit, with a mark at each directory's end. Host and device have trees of the same names;
the listing of the device is taken to be up to date, and sizes are in words. A send that
times out is modelled as nothing sent; one that was sent in part is not. Reading an error
message into `mBuffer` before a push has allocated it ends in `undefined`.

### AndroidDebugBridge

Each thread has a stack of the functions it is in, as the code's calls nest: a frame is the
function, where in it the thread goes on when a call returns (`at`), and how many of the
function's locks it has. `LocksOf` lists the locks of each function in the order in which the
code takes them; `Lock` takes the next, and returning gives a function's locks back. Locks are
recursive, so `Free` looks at the other threads only. `A_Call` is the application: any thread
calls any static function at any time, and member functions on a bridge that exists. `C_`, `D_`,
`S_`, `T_` and `Monitor...` are the pieces of `createBridge`, `disconnectBridge`, `start` and
`stop`, `terminate` and `DeviceMonitor::stop` between two calls; `L_`, `K_` and `R_` are what the
monitor's two threads and the reactor call. What those functions do to devices and clients is
in `DeviceMonitor` and `ClientRegistry`, so that here most are leaves that hold locks for a while.
A null pointer that is dereferenced ends the model in `crashed`.

### ShellCommand, MultiLineReceiver and InstrumentationResultParser

Output is a sequence of tokens (CR, LF, a blank, "=", a prefix the parser knows, a piece of
text); chunks are cut between any two of them. `Joined`, `CutLine` and `Flushed` are
`MultiLineReceiver`, whose record also keeps all lines and where in the output each ended, to state
properties. The loop of `addOutput` is `Cut`, a line per step, and the lines are then processed one per step
(`ProcessLine`, `Processed`); after `Flushed` the one line left is, too, and `FlushEnd` is `done`. `Parse` and the operators under it are the parser, whose state is a record
with the calls its listeners got (`told`). `ShellCommand` is the loop of `executeRemoteCommand`:
`Connect` is all that comes before: it may fail, and, if adb hangs up while `setDevice` or
`readAdbResponse` reads, never ends (`spinning`). `Check` is the loop's head, with the waiting time added before the first byte is looked for, and then
one of data, the end, a time out, an error. `outcome` says how it returned: only `"thrown"` is
an exception to the caller; `"cut"` (too long a wait), `"cancelled"` and `"error"` look like
success. Time passes in units of `WAIT_TIME`.

### LogService

The model begins when adb has accepted the request; what comes before is `ShellCommand`'s `Connect`
over again. `Check` to `ReceiveEnd` are the loop of `runLogService`; `ParseEnds`, `ParsePartOfHeader`,
`ParseHeader` and `ParseData` one round each of `parseNewData`'s loop. The log is the sequence of the places where its
entries end, and a byte is its place in the log, so that it is known of each which entry it is of. The code makes a new, uninitialised entry when a chunk ends inside a header
(`LogReceiver.cpp:41-48`): its length is any number of `Garbage`, and writing where there is no
room ends the model in `undefined`.

### MethodProfiling

`status`, `pending` and `canStream` are the client's `ClientData`. `A_ToggleOn` sends the request;
the file is recorded only then (`A_Record`), and then the query of the status is sent
(`A_Query`). `R_Chunk` takes an answer and, where the handler reads it, the pending file; the handler
sets the rest in a second step, so that the application can come in between. The VM is external:
it answers in order, a start with nothing, and may fail.

## 3. Runs

| run | question | instance |
|---|---|---|
| `MCRegistry` | is the vector of ports sorted, never empty, and a pool? exclusive ports, no leaks, no client by the merge for a VM that had one, a fresh view, no lost request; are requests served and lists read? | 2 VMs, one with a static port that the list hands out as well; 3 starts or exits, 1 fault of any kind |
| `MCMonitor` | does the list follow adb, and do the listeners follow the list? | 2 symmetric devices, online or offline, 5 lists; 2 changes, 2 faults |
| `MCMonitorLive` | does the monitor recover for good? is `stop` final, and does it wake up a reading thread? | serial numbers that occur twice, a pool of 1 thread, faults of every kind but a late answer |
| `MCJdwp` | do packets, requests and what is forwarded come through unharmed? | headers of 2 bytes, packets of 2 or 3, buffers of 4 growing to 8; 2 unasked messages, 1 request besides `HELO`, 1 fault |
| `MCSync` | is what was transferred whole, was the monitor told of all of it, does the connection stay in step, do transfers end? | a directory with a file in two chunks and an empty file; chunks of up to 4 words; 2 operations, 2 faults |
| `MCBridge` | are locks taken in one order, and does a bridge's thread never outlive it? | 2 symmetric application threads, 2 bridges, 2 calls, a location and none, with clients |
| `MCShell` | are lines and verdicts independent of chunks, is a run reported once, does a command return? | outputs of up to 2 lines, with either terminator, whole or cut off; limits 0 and 2 |
| `MCLog` | are entries independent of chunks, does a cancelled service return? | up to 3 entries with 0, 1 or 3 bytes of data behind headers of 3 |
| `MCProfiling` | does the status end up right, and does a success name its file? | 4 calls, each request answered or failed |
| `MCMonitorStopHangs` | a promise of `stop` that is not kept | 1 device, no fault |
| `MCRegistryTwoClients` | a promise of the merge of pids that is not kept | as `MCRegistry` with 2 starts or exits, and bad handshakes as the only fault |
| `MCShellZero` | a promise of `executeRemoteCommand` that is not kept | as `MCShell` |

Why the bounds are enough. The interactions are between two threads over one client, and
between a client and another that takes its port, so two VMs show them; a third would only
repeat the loop over the pids. Three starts or exits let a VM come, go, and be replaced by the
other while a list is being merged. In `MCMonitor` a list has at most two devices: one that
is matched and one that is not, in either order of adb's list, is every branch of the
merge; two changes bring a device back after it was gone. Two faults let one strike during
the recovery from the other. The port list is checked with the ports that the clients take
and give back, some of them twice, and the static port that is not theirs; that it is what it should be for callers that give
back anything in any order is proved.

In `MCJdwp` the lengths are the smallest that keep apart what the code compares: a packet
fits, a packet and part of the next fit, the buffer fills exactly, overflows, and has grown
as far as it may. Every message is cut at every byte. In `MCSync` the device's file has two
words, sent as one chunk or two; the host's has three, which is a full chunk and a short
one; with the two words pulled over the three, and the empty file, the last chunk is full,
short, and missing. Two operations are what it takes to meet what an interrupted one left.
`MaxContent` caps a file, the progress and its total, which a transfer that never ends would let grow; it
is more than any transfer that ends reaches.

In `MCBridge` two calls are one thread's call in the middle of the other's, or a bridge made and
then replaced, disconnected or terminated; two bridges are an old and a new one. The order of
the locks, and that no thread is left behind, are proved for all bounds. In `MCShell` the second line is there to be mixed up with
the first, and the lines are one of each kind that the parser treats differently; in `MCLog` an
entry can have no data, less than a header and as much as one, so that a chunk ends anywhere in
two entries and begins a third. In `MCProfiling` four calls are a start, an end, a start and an end
with any of them early; `StatusAgrees` is proved for any number.

The bounded counters (`changes`, `faults`, `calls`, `made`) only limit what the environment does. No
bound is on the code's own counters: `mConnectionAttempt` is reset by a connection, and the run
that would let it grow has an adb that is started at the latest with the fourth attempt;
`waitCount` ends the command that it counts for.

Fairness. In `ClientRegistry` each thread keeps running (`WF` of its actions), and that is all that
is assumed of `mClientsLock`: Poco's mutex is not fair, the device client thread sleeps with the
lock held, and between releasing it and taking it again it does next to nothing, so a reactor
that waits may never get it. `ListsRead` therefore admits a reactor that waits for ever for a lock
that is free again and again (`ReactorStarves`), and says that this is the only thing that can
keep a list from being read. `ReopenServed` needs no more: the
reactor takes the lock once per list of pids and once per request to reopen, and the VMs of a
behaviour change only so often (`changes` is bounded), so the lock stays free in the end and weak
fairness gives it to the device client thread. The reactor serves
every socket of a `select`, so a list that waits is read although the clients keep sending
(`SF(R_ReadList)`). In `DeviceMonitor` the monitor thread, the pool and the joining thread
keep running and adb answers while it is up. In `JdwpStream` the reactor keeps serving what is
readable. In `SyncService` the client's thread keeps running (a blocked `receive` returns
after the time out at the latest) and a device that neither hung up nor stalled answers.
In `ShellCommand` and `LogService` only the reading thread is fair, and its `receive` may time out
for ever: that a command returns rests on its own count, that a service returns on its look at
`isCancelled`. Nothing makes a fault, a change, a request, a cancellation or a stop happen.

Deadlock is checked except where the system really may stop: a command, a service, a transfer or a
series of calls that is over, a client that was dropped, a monitor that was stopped, and, in
`MCBridge`, threads that wait for each other through the two inversions of the lock order or for a
join, which the code does.

## 4. What the checks show

* The list of ports does what its users need although its `add` drops ports above the last
  (`Frontier` is why that is harmless).
* The merge of pids never opens two clients for one VM, nor one for a VM whose client was listed
  when it copied the list (`MergeOpensOnce`: what is listed for a pid to open came after the copy).
  That a client comes after the copy does happen, and gives the VM a second one: next table.
* The port of a client that leases it is neither available nor leased twice, *except* ports that
  a client gave back without leasing them: closed twice, or on a static port
  (`misreturned`). A port comes back or stays leased over drops and reopenings, *except* that one
  whose client could not be opened is never given back (`lost`; `openClient` returns, and for a
  handshake that cannot be sent the base port is given back in its place).
* A request to reopen a client survives the `clear()` at the end of the sweep, since it is
  added under the lock that the sweep holds, and is served. A list of pids is read unless the
  device client thread keeps the reactor from `mClientsLock` for ever, which nothing in the code
  excludes: it sleeps in the lock and takes it again at once (`DeviceMonitor.cpp:491-515`).
* With adb failing in every way modelled, short of an end of stream inside `AdbHelper::read`,
  the monitor is in sync again in the end; and whenever it has read everything, the list is
  adb's, and when everything is delivered, the listeners know exactly the list.
* `stop` is final, and wakes up a monitor thread that is reading.
* The client takes every message off the buffer once, whole and in order (`Framing`), and
  treats it as what it is (`Dispatched`): in particular an answer never overtakes its
  request's registration, and no id stays registered for a request that was not sent. What is
  forwarded stays whole (`ForwardedWhole`), which is not to say that it is ever sent.
* A transfer that is reported as done is whole, and an operation that the device refused
  leaves the connection in step; that transfers end holds even on a connection with the rest
  of a cancelled one, but not when one answer is late.
* All locks are taken in one order, with two exceptions (`Inversions`): `start` calls `startAdb`
  under the bridge lock although `startAdb` takes its own lock first, and `removeClient` tells the
  listeners under `Device`'s lock, which the rule in `AndroidDebugBridge.hpp` (from line 449)
  forbids. Wherever threads wait for each other in a circle, one of the two is in it, or a thread that
  joins others with locks held (theorem `CirclesAreKnown`); TLC finds circles of each of the three kinds.
* However bridges are made, replaced, disconnected and terminated, by several threads at once,
  the threads of an old monitor have ended before the next one starts (`OneMonitor`).
* No text of a command's output is lost or put twice, and if its lines end alike they do not depend
  on the chunks; a test run's listeners hear of its start and end at most once, in order, and
  of the end if the device closed the connection; an installation's failure is seen then. A
  command returns unless adb hangs up while it is being asked for: then `AdbHelper::read` spins
  for ever (`AdbHelper.cpp:489-500`), and no time out of the command's applies.
* Entries of a log arrive whole and in order as long as a header that is cut by a chunk has not
  destroyed memory.
* When nothing is under way, the profiling status that a client shows is its VM's; and an application
  that waits for its calls to be over gets the file's name with each success.

Where the code does not do what its comments say, a run with `expect: violation` shows it:

| run | comment | what happens |
|---|---|---|
| `MCMonitorStopHangs` | `DeviceMonitor.cpp:798` | `stop` waits for a thread that waits for the locks `stop` holds |
| `MCRegistryTwoClients` | `DeviceMonitor.cpp:585` | the pids left after the merge are to be those "for which we don't have clients yet"; the list was copied (588) while the device client thread was between dropping a client and adding its new one, so the VM gets a second one |
| `MCShellZero` | `AdbHelper.hpp:119-122` | a limit of 0 is to mean "wait forever"; the command ends before a byte is read (`AdbHelper.cpp:302`) |

Smaller disagreements that the models contain and no run is spent on.

*Clients and devices.* A client closed by both threads gives its port back twice (`Device.cpp:316`, comment at
`DeviceMonitor.cpp:854`), also when another client listens on it by then; a client whose
handshake could not be sent is not kept (`DeviceMonitor.cpp:690-698`); a debugger port that
cannot be bound makes `createClient` dereference a null pointer (`DeviceMonitor.cpp:702`,
`crashed`); a read error ends the monitoring of a device for good (`Device.cpp:654-656`,
`listening`); a handler runs on a socket the other thread has closed (`Client.cpp:535`,
`crashed`). `AdbHelper::read` does not notice the end of a stream and
never returns (`AdbHelper.cpp:491`, `AdbHelper.hpp:205`); a track-devices reply that is late is
taken for a diagnostic string and the monitor never monitors on that connection
(`AdbHelper.hpp:96`); when a serial number occurs twice, removing one device removes both and the
loop that removes all of them indexes out of range (`DeviceMonitor.cpp:157`, `333`,
`M_DrainOutOfRange`); when more devices are lost at once than the pool has threads, the exception ends
the monitor thread and the rest stay listed for ever (`DeviceMonitor.cpp:159`, comment at 147,
`M_NoThreadAvailable`).

*Debuggers.* A packet that comes before a debugger is kept "so we can send it to the debugger when it
finally does connect" (`Debugger.cpp:232-233`). It is never sent: the registration of the handler that
would lead to `sendHandshake` is commented out (`Debugger.cpp:250`). `ForwardedWhole` says of what is
kept only that it stays whole, and comes before what is sent.

*Transfers.* A header that is late leaves the one before in place, and the pull repeats it for ever
and appends stale data to the file (`SyncService.cpp:379`, `SyncService.hpp:177`); an error message
is read into a buffer that only a push allocates (`SyncService.cpp:506`, `undefined`); `stop` of
the progress monitor is not called when a transfer is interrupted, though `SyncService.hpp:32`
says so; the total of a push ends at the first directory (`SyncService.cpp:260`); a pull after a
cancelled one on the same service gets the rest of the other file; a pulled file keeps the tail of
a longer one that was there (`SyncService.cpp:342` does not ask for truncation); a chunk whose send
times out is missing from a push that is reported as done.

*Bridge.* After a start that failed, `stop` reads `mStarted` before anything has set it and may use
a monitor that was never made (`AndroidDebugBridge.cpp:422`, `crashed = "stop"`); `terminate` after
`disconnectBridge` dereferences a null bridge in a `CLIENT_SUPPORT` build (`crashed = "terminate"`);
an `init` after `terminate` starts a reactor that ends at once; `createBridge()` uses the location that an earlier
bridge left in `sAdbOsLocation`; `AndroidDebugBridge.hpp:190` says that `stop` kills the adb
server, which no code does; the listeners are told of `sThis` after the lock was released
(`AndroidDebugBridge.cpp:263-265`), and not told at all by `terminate`. `restart` is private and
never called.

*Commands.* Lines depend on the chunks when the terminators are mixed; `flush` hands on the
unfinished line untrimmed, and keeps it; a time out, a cancellation or a network error ends without
`flush`, so that the listeners of a test run never hear of its end, and an installation that was cut
off returns success. `parseKey` keeps the "=" in the key (`InstrumentationResultParser.cpp`), so that
no key is ever recognised and no single test is reported; a number that is none throws another
exception than the one that is caught, and the run ends as if complete; a status code of 0
never makes a result complete; `KNOWN_KEYS` is empty; `InstallReceiver` compares a line with the
literal `SUCCESS_OUTPUT`. The members of `RemoteAndroidTestRunner` include a time out that
its `Init` does not set (`RemoteAndroidTestRunner.cpp:35` sets a local variable of that name).

*Logs and profiling.* See `LogService` above for the cut header; the comment at
`LogReceiver.cpp:43-44` says that what there is gets saved and no more. A profiling whose start fails
before the file is recorded is reported as a failed end; a failed streaming start always is;
two toggles in a row can give a success without a file; `handleMPRE` sets the status to off
also when the end failed (the model takes it that the VM has stopped then).

## 5. What is proved

**Ports** (the first part of `ClientRegistry_proofs`), for every base port, and for callers that may give back any integer at
any time. The list is a part of `ClientRegistry`, which extends `DebuggerPorts`; all that is assumed (`PortsAssumption`) is that the
base is a positive number and that ports are integers. `PortInv` is the conjunction of `PortsTypeOK`,
`NeverEmpty`, `Ascending`, `Frontier` and `NotHandedOutTwice`, and it is inductive as it
stands, though none of its parts is: that the list stays ascending when it runs out needs
nothing else, but that the appended port is not on loan needs `Frontier`, and `Frontier`
survives a port given back only because the list is ascending, so that the last element is
the greatest.

* `TakeLemma` and `ReturnLemma` say what `AfterTake` and `AfterReturn` do to an ascending
  sequence, and what set the result is. `MinLemma` finds the place where the code inserts.
* `InitPortInv`, `TakeKeepsInv`, `ReturnKeepsInv`, `NextPortInv`: the inductive argument for
  `PortInvariant`.
* `PortTypes`, `ListNeverEmpty`, `ListAscending`, `NoDoubleHandOut`: its consequences.
* `PortsRefinePool`: the vector implements the abstract pool, the list being the pool's set.

**Clients of a device** (`ClientRegistry_proofs`), for any number of VMs, lists, clients and faults. Assumed is
`PortsAssumption` and `RegistryAssumption`: the base port is positive, and a static port is a positive number or
`NO_STATIC_PORT` (a provider that answers 0 is not covered). The invariant has five parts; each of the later ones rests on the first.

* `Typed`: the types, the invariant of the port list, and that no client is listed twice. The port
  list is the one proved before (`TakePortLemma`, `ReturnPortLemma`). `RemoveLemma` says what `find` and
  `erase` leave, and needs the list to have no repetitions for "the client is gone". Theorem `RegistryTypes`.
* `LockInv`: who holds `mClientsLock` where, and that a sweep has closed every client of the map that is
  no longer to do. The map is changed under the lock only, so `clear()` finds closed clients: `RequestsKept`.
* `ViewInv`: where the listeners may lag behind, a thread is on its way to notify them. `ViewsFresh`.
* `MergeInv`: a client for a pid that may still be opened was made after the copy that the merge walks
  through, unless the copy still has it. The copy is older than the lock; what was in it is closed or has had its
  pid struck out by the end of the merge, closed clients do not come back (`ClientsStay`), and who joins after the copy
  has a greater number than all that were there (`JoinedLate`). `MergesOnce`.
* `LeaseInv`: `Sound` relates the map of leases (of clients, and of a thread between taking a port and
  making the client) to `handedOut`, `misreturned` and `lost`. A lease begins, moves to the client or
  ends (`LeaseBegins`, `LeaseMoves`, `LeaseEnds`), and each action does one of these or none
  (`CalmLeases`). `LeasesInvariant`, `PortsAreExclusive`, `PortsDoNotLeak`.

**Locks** (`AndroidDebugBridge_proofs`), for any number of application threads, bridges and calls, with
and without `CLIENT_SUPPORT`; assumed is `BridgeAssumption` (the constants have their types and the
threads are different). `LockOrder` is not inductive: it says nothing of a thread that is not
waiting. What is inductive is the shape of the stacks, `StackInv`: every frame is one that a caller
beneath it may have called (`Beneath`), a frame that has called has all its locks (or, when it
tells the listeners, its own), and only the innermost is still locking.

* `BeginOK`, `GotoOK`, `CallOK`, `PopOK`, `TopOK` do this for one stack, and `BeginStep`,
  `CallStep`, `ContinueStep`, `ReturnStep`, `AnnounceStep`, `LockStep` for the operations of the
  module; the lemmas named after groups of actions apply them. `Shape` is the invariant.
* `LocksTable`, `RankTable`, `OwnOrder`, `NestedOrder` read off the tables: a function's own locks
  ascend, and each is above those of every function that may be beneath it, or one of the inversions.
* `ShapeOrder` puts the two together, and `LocksOrdered` is `Spec => []LockOrder`.

**Profiling status** (`MethodProfiling_proofs`), for any number of calls. `StatusAgrees` speaks of quiet
states only. The invariant is `StatusInv`: either a query of the status is still to come (`Asked`), or
the answers under way end with one that shows the VM's status (`Agrees`). A VM that starts to
profile says nothing, so the invariant also needs that behind every request to start there is a
query, or one about to be sent (`StartsAsked`). There is a lemma for each way in which a queue changes and
one for each actor; `StatusInvariant` and `StatusShown` are the theorems.

`SuccessNamesFile` is about applications that wait for their calls (until `disturbed`). `NameInv` says that the client
knows, or will be told, whether the machine streams (`FeatureInv`); that with one that streams nothing is written to
files (`NoFiles`); and with one that does not (`OneFile`), that a request to start or to end, and then its answer, is the first of what is
under way, and that while the machine profiles the name is recorded or about to be. That the name is recorded only *after* the
request was sent is harmless for these applications: what ends the profiling is asked for by the same thread.
`SuccessesNameTheirFile` is the theorem.

**One monitor** (also `AndroidDebugBridge_proofs`), with the same assumptions and `ThreadsAssumption` (the library's threads are
not the application's). `OneMonitor` needs to know why the join of a monitor's threads is always over
before the next monitor is made, although `stop`, `terminate` and `createBridge` can be interrupted at
every lock, call and return. The invariant `IInv` has two parts. `Mutex`: each lock is held by one thread at a time, and who
called whom from where (`Sites`). `MonitorsInv`: at each point of a thread's stack that
relies on something, it holds (`Claims`: a thread in `start` finds no monitor and a bridge that
has not quit; one whose call of `stop` returned finds no monitor; one whose `DeviceMonitor::stop`
returned finds no threads); a monitor that was told to quit is being joined by some thread, which is why the early
return of `DeviceMonitor::stop` never happens while threads run.

* `SetTop`, `Pushed` and `Popped` follow `Sites` and the bridge lock through a change of a stack, and
  `BeginMoves`, `CallMoves`, `ContinueMoves`, `ReturnMoves`, `AnnounceMoves` through the operations.
* `ClaimingBridge`: who claims something has the bridge lock. So a step either leaves the monitor alone
  (`CalmStep`) or is that of the one thread that has the lock, and nobody else claims anything
  (`AloneStep`). All actions are one or the other, or an end of a thread (`Endings`).
* `MonitorInvariant` is `Spec => []IInv`, by `Shape`; `NoThreadLeftBehind` is `Spec => []OneMonitor`.

**Circles of waiting threads** (also there). A thread waits for another that has the lock it wants, or that it joins
(`WaitsFor`). By `LockOrder` a thread wants a lock of a higher rank than any it has, unless it is in one of the
inversions; so along a circle without these and without a join the ranks would rise for ever. As there are seven ranks,
`CirclesLemma` climbs them one by one until a thread would have to want a lock above the last, which needs no induction. What makes it sharp is
`InversionsAre`: that `LockOrder` allows `start` and its like to be called with the bridge lock is no risk, as the caller has
that lock already and the thread it waits for has not (`Mutex`, `CalledUnderBridge`); only a thread that was given `startAdb`
itself (`Calls`), or the reactor in `removeClient`, can be in the way of another. `CirclesAreKnown` says so of every set of
threads that wait for each other; `HoldersRun`, that where none of the three is under way some thread that is waited for runs.

**Client JDWP stream** (`JdwpStream_proofs`), for any lengths of buffers and packets, any number of requests, messages and
faults, and however the stream is cut into reads. Assumed is `JdwpAssumption`: the sizes are positive, a
handshake fits into the initial buffer and that into the greatest, a packet is as long as its
header at least, and 0 is no request's id. All its invariants are proved; `StreamInv` is their conjunction with four
more.

* The buffers come first: a lemma for each operation of `ByteBuffers` says what it does to the data and what is left of the
  position and the limit (`DataLemma` and those behind it). They replace the reasoning about indices everywhere else.
* A stream is the bytes of whole messages (`AreMessages`). What may be put behind it, and what is left when its first
  message is taken off, needs no induction over the messages: the bytes are in order and none is there twice (`Sorted`),
  and where one would count, a set of positions has a least element (`Least`).
* `Framing` alone is not inductive: that the first byte of the buffer begins a message needs `BuffersOK` (a read may fill a
  buffer to its end, and what follows puts it right), `LogInOrder` (the messages taken off are the first that
  were sent) and `SentOK`. `OutstandingExact` rests on `OncePerRequest`, and `Dispatched` on `ReadyInv`.
* Steps are grouped by what they do: drop the client, turn the reactor, send, read, take a message, ask; one lemma for
  each group. `StreamInvariant` is `Spec => []StreamInv`; `TypeCorrect`, `FramingHolds`, `DispatchedRight`, `OutstandingIsExact`
  and `ForwardedStaysWhole` follow. What is said of the stream, the requests and the forwarded bytes is said of a client that
  was not dropped: a drop may leave a part of a packet sent (`FailingForward`) or a VM seen whose packet was not taken.

**Sync service** (`SyncService_proofs`), for any trees, selections and paths, any size of the buffer, any number of transfers
and faults, and whatever sizes the device cuts a file into. Assumed are `TreeAssumption`, that no directory is within itself (a cycle
of links would have the code recurse without end), and `SyncAssumption`: the types of the constants, a
buffer of more than two words, that a name is of one kind of entry, and that no word of a file is one of the numbers (the model lets
a word of content that is read as a number stand for any, `Numbers`). `SyncInv` has two parts.

* `TypeInv` has, beyond `TypeOK`, what holds at each step of an operation: above all that the file a pull writes to exists and that
  `pos` is within it, so that nothing is written behind a gap, and that a chunk of a push begins in the file or at
  its end. There is a lemma for each form in which a step makes an operation (`OpMade` to `OpChunk`) and one for each action.
* `TalkInv` is about a connection on which nothing was interrupted or late. `InStep` and `AnswerComes` speak of the client's waiting
  points only; `Talk` says for every step of the client what is under way between it and the device. Between operations the device may still have to
  skip the rest of a push that it refused (`Behind`); in front of everything that is sent afterwards that rest
  remains, which is why `Queued` and `Pushed` contain it. While a file is pulled, `FramesFrom` says that what is to be read is whole chunks
  and their end: there is a set of positions such that at each of them an end, a chunk up to another of them, or the end of what a
  device that is still sending has sent. `FramesGrow`, `FramesEnd` (the device sends), `FramesHead` and `FramesDrop` (the client reads) keep
  it without a recursion over the chunks. `Announced` is the same for a header that the client has read and not yet looked at.
* The lemmas named after the actions (`...Talk`) show that every step of the client, the application and the device keeps it. `SyncInvariant`
  is `Spec => []SyncInv`; `SyncTypes`, `TransfersStayInStep` and `AnswersCome` follow.

`WholeInv` rests on both and is about the files. While a pull is under way each local file is as it was (`Kept`), or has the device's
content written over it (`Whole`), but for the one being written, of which as much is as `pos` says (`UpTo`); `LaidOver` is what
writing a chunk does, also to a file pulled twice. With `Walked`, that each file of the selection has been transferred or is still ahead,
it is inductive: that a file ends only when it is whole is what `Announced` says of the end, that a confirmed push is on the device is
what `Talk` says of the answer (`ReadResultTalk`), and that the walk loses nothing is `FilesUnder` and `FilesBehind`. The files
under a selection are those in each set of entries that contains it and is closed under the contents of directories (`FilesOf`), which
needs no induction over the tree. `TransfersAreWhole` follows.

`ProgressInv` is about the totals. `ProgressAdds` speaks of the end of an operation only; while one is under way, what was announced
is what has been reported, and what is left to report of the file (`FileLeft`), and what the entries still to be visited weigh, the end
of a directory among them (`AddsUp`). That the parts of a pull add up is what `Talk` says of the chunks: each is within the file, and the end
comes where the file ends. Since a file and the progress are capped, it also takes that the place in the file is never beyond what has been
reported; past the cap both sides are the cap. A push is announced with the right total only when there are no directories in the
selection (`Counted`): `getTotalLocalFileSize` returns at the first directory of a list, with the total of what is in that one alone.

* The total of a selection is a recursion over the tree and over lists, so this does need induction. `Induction` (a set that has 0 and with each number
  the next) gives the partial sums of a list (`IsSum`), and with them what a sum makes of a concatenation (`SumConcat`). For the tree the least
  element is, by `TreeAssumption`, a directory with none of the offending ones in it: `PartsAgree` and `WeightExists` show that there is exactly one
  way to weigh the entries, each from what is in it, and `RemoteTotalIs` and `LocalTotalIs` that the code's two functions find it.
* `WalkSums` is the step of the walk: a directory weighs what is in it and its end. `...Progress` are the steps; `ProgressInvariant`,
  `ProgressIsTotal`.

**Device list** (`DeviceMonitor_proofs`), for any number of
devices, lists, tasks, pool threads and faults; assumed is `MonitorAssumption`, the types of the constants.
All properties of the runs `MCMonitor` and `MCMonitorLive` are proved but the two liveness ones.

* The loops of `updateDevices` are a function, `Chosen`. `CopiedExists` and `ChosenLemma` prove what it
  copies, by an induction that needs no operator as a parameter (`Induction`: a set of naturals that holds 0
  and with each number the next, by the least number missing). A lemma for each action, `UpdateEffect` to `DrainEffect`, then
  says what it does to the devices, the list and the queues, and the invariants use nothing else.
* `BaseInvariant`: the types; `PlaceInv`, what is known from where the monitor thread is; `WireInv`; and
  `EventInv`, which is why the monitor thread and a pool task never tell of the same device, and why
  no device changes between its disconnection and the event. `EventsInOrder` is the refinement of `DeviceEvents`;
  `DevicesGone` and `StopFinal` follow, too. `AllOnlineQueried` adds that who is online and has no properties
  is queued, in the list or not.
* `ListenersTold` and `AdbMirrored` have a further hypothesis, `SerialsUnique`: adb lists no serial number
  twice. They are false without it, as `removeDevice` removes by serial number (§4). `MergeInv` says how far the merge
  is: the devices looked at and kept are the entries used. `ToldInv` and `StateInv`: what the
  listeners do not know is in a vector or with a task; that fails for a thread that `M_NoThreadAvailable` ended,
  and nothing is quiet then. `FlowInv`: adb's list is the last message on the wire, or in the merge, or
  mirrored; it needs that a connection on which the answer OKAY was taken for a diagnostic string never
  monitors. `SameLen` compares lengths by a surjection each way.

**Commands** (`ShellCommand_proofs`), for any outputs, chunks and limits, and wherever the command is cut off. Assumed is
`ShellAssumption`: the types of the constants. All properties of the run `MCShell` are proved but `CommandReturns`.

* Lines. `Inv` says where the loop is (`PlaceInv`) and what the receiver has made of the output (`LineInv`): the text not cut yet is
  the output from the end of the last line on, up to what has arrived; each line is the trimmed piece between two ends (`Pieces`); with
  lines that end alike, the ends are exactly the places of the LFs (`Marked`). That is kept by `CutLine` because the first CR LF and the first LF of the text then
  agree on where the line ends (`Uniform`); an output that mixes terminators is why the property has that condition, since the code
  looks for a CR LF beyond the next LF. `LineInvariant`, `LinesAreWhole`.
* Installations. `ErrorInv`: the message is set when one of the lines processed had "Failure" in it. `SeenInLines` turns the lines back
  into the output: each token that is no white space is in exactly one piece, and trimming keeps it. `FailuresAreSeen`.
* Test runs. `ReportInv`: until the run is concluded the listeners have been told nothing. As `parseKey` keeps the "=" in the key, no key is
  recognised and no line makes a call (§4), whatever the output; so the theorem is that the calls come from `HandleOutputDone` and
  `HandleTestRunFailed` alone, in order, and once, since the first sets a flag that the second looks at. `ReportInvariant`,
  `RunsAreReported`. A parser that recognised its keys would need an invariant with more in it.

**Log entries** (`LogService_proofs`), for any log and header size, any chunks, and any value that memory never written may
hold. Assumed is `LogAssumption`: each entry of a log ends at least a header behind the one before. `LogInv`: as long as no memory
was destroyed (`undefined`) what was delivered is whole, once and in order (`Told`), and, unless the receiver is cancelled, for some n
exactly the first n entries were delivered and what was read behind them is in the header buffer (`Waiting`) or in the current entry (`Filling`).

* `BytesConcat` and `BytesSplit`: pieces of the log, joined and cut. `EndsDiffer`, `CreateLemma`: a header tells which entry it is of.
* `TakeNext` and `DeliverNext`: what the rest of a chunk does to a genuine entry. `TakeNothing` and `DeliverNothing`: to the entry that a
  cut header leaves behind. It survives only if its length happens to be 0, and is then delivered without a header, after which the header buffer is
  used as intended. So the theorem says of the code's fault what it is: memory is destroyed, or an empty entry is reported; the log itself is not garbled.
* `LogInvariant`, `EntriesAreWhole`.

Left to TLC: liveness (`ReopenServed`, `ListsRead`,
`Converges`, `ReaderWokenUp`, `AllTaken`, `TransferEnds`, `CommandReturns`, `CancelReturns`), which the
prover's temporal backend does not reach, and the three runs that expect a violation. Every invariant and every action property of the passing runs
is the subject of a theorem.

## 6. Plan

Done: ports, clients of a device, device list monitor, JDWP stream, file transfers, bridge and
locks, commands, test runs, logs, profiling; the theorems above.

What would add most next: the emulator console's exchange, if its `readLines` learns to end; and refinements, of
`SyncService` to a transfer that copies a file in one step, now that `WholeInv` says what each step has done.

## 7. Not modelled, and why

Vendored headers (`src/Poco`, four fifths of the lines of `src/`): used, and modelled where a property
depends on them (a reactor that serves all ready sockets, a pool that throws when it is full, a
receive that times out). Screenshots, preferences, logging, exceptions and value types have no state
that a property could be about. Real time is not modelled: a time out is an event that may
happen when an answer is pending.

* *Emulator console.* `readLines` never returns when the peer closes; a late answer is taken for the next
  command's; `sendCommand` may return before the console is removed; the static map `sEmulators` is
  used without a lock by the monitor thread (`DeviceMonitor.cpp:366`) and the application. A model
  would have no promise that holds to state.
* *File listing.* An asynchronous listing takes itself off the list of threads through a second
  `shared_ptr` to its own thread, which destroys the running thread (`FileListingService.cpp:454`):
  from there on the behaviour is undefined. A listing that times out is cached as complete.
* *Thread requests.* The flags of `HandleThread` are static, shared by all clients, looked at by the
  caller and set by the thread it starts (`HandleThread.cpp:249`, `255`); `setClient` changes the client
  under a running thread; a second call in between makes `Thread::start` throw.
* *Handlers.* The broadcast of `ChunkHandler` (a handler that throws in it ends it early) and the decoding of values into `ClientData`.
* *Device.* Battery, mount points, addresses, and what `installPackage` does around the transfer
  and the command that are modelled: the temporary file stays on the device when the command throws.
* *Details.* Failures to make a local directory, to list a remote one or to open a local file for a push
  (`SyncService.cpp:288`, `436`); a profiling request that cannot be sent, and a second thread that toggles
  (`MethodProfiling`); that `stop` also joins the device client thread (`DeviceMonitor.cpp:806`). The headers of the modules
  name these where they would be.
* *Messages of adb* arrive whole in `DeviceMonitor`; a receive that times out in the middle of one
  (`DeviceMonitor.cpp:748`) is not modelled.
* `Device.hpp` declares `addClient` and others twice under `CLIENT_SUPPORT` (98-103), so that this
  configuration needs a small repair before it compiles.
