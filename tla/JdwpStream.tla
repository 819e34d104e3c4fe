----------------------------- MODULE JdwpStream -----------------------------
(***************************************************************************)
(* One client's JDWP connection (CLIENT_SUPPORT builds): the handshake,    *)
(* the stream of packets that the VM sends, the read buffer out of which   *)
(* Client cuts them, the requests it awaits replies for, and the debugger  *)
(* to which everything else goes.                                          *)
(*                                                                         *)
(* The actors are the reactor thread (R_...), which runs                   *)
(* Client::processClientReadActivity and Debugger::processDebuggerActivity,*)
(* threads of the application that send requests (A_...), and, external,   *)
(* the VM and debuggers that connect to the client's port.  Who else may   *)
(* close the client is module ClientRegistry.                              *)
(*                                                                         *)
(* A byte is <<k, i>>, the i-th byte of the k-th message the VM sent.      *)
(***************************************************************************)
EXTENDS Integers, Sequences, FiniteSets, SequencesExt, ByteBuffers

CONSTANTS
  HANDSHAKE_LEN, JDWP_HEADER_LEN,      \* lengths in bytes, as are the others
  INITIAL_BUF_SIZE, MAX_BUF_SIZE,      \* of the client's read buffer
  PRE_DATA_BUF_SIZE,                   \* of the buffer for a debugger to come
  Lengths,                             \* of the packets the VM may send
  Requests,                            \* the requests of the application, each sent once
  HELO,                                \* the request that the good handshake triggers
  Faults,                              \* "handshake", "send", "header", "handler", "debugger"
  MaxMessages,                         \* bound: how many messages the VM sends unasked
  MaxFaults                            \* bound: how many times something goes wrong

ASSUME JdwpAssumption ==
  /\ {HANDSHAKE_LEN, JDWP_HEADER_LEN, INITIAL_BUF_SIZE, MAX_BUF_SIZE, PRE_DATA_BUF_SIZE} \subseteq Nat \ {0}
  /\ HANDSHAKE_LEN < INITIAL_BUF_SIZE /\ INITIAL_BUF_SIZE <= MAX_BUF_SIZE
  /\ \A n \in Lengths : n \in Nat /\ n >= JDWP_HEADER_LEN
  /\ HELO \notin Requests
  /\ 0 \notin Requests \cup {HELO}       \* the id of what answers no request
  /\ {MaxMessages, MaxFaults} \subseteq Nat

VARIABLES
  sent,             \* every message the VM sent
  wire,             \* the bytes of them that the client has not read
  vmRequests,       \* the requests the VM has received and not answered
  mConnState,
  mChan,            \* whether the channel is open
  mReadBuffer,
  mOutstandingReqs, \* the ids of the requests whose replies are awaited
  pc,               \* the reactor: in "select" or in the "loop" over the packets
  log,              \* <<k, what became of it>> for each message taken off the buffer
  requests,         \* request -> "new", "added", "sent", "failed" or "dropped"
  debugger,         \* [attached, preData, got]: mChannel, mPreDataBuffer, and what it was sent
  readyCount,       \* how often CLIENT_READY was broadcast
  toReopen,         \* the client is in DeviceMonitor's mClientsToReopen
  undefined,        \* the program has done something the language leaves undefined
  messages, faults  \* the counters that MaxMessages and MaxFaults bound

vmVars == <<sent, vmRequests, messages>>
streamVars == <<wire, mReadBuffer>>
clientVars == <<mConnState, mChan, mOutstandingReqs, readyCount>>
stopVars == <<toReopen, undefined>>
vars == <<vmVars, streamVars, clientVars, pc, log, requests, debugger, stopVars, faults>>

AllRequests == Requests \cup {HELO}

Fault(kind) ==
  /\ kind \in Faults /\ faults < MaxFaults
  /\ faults' = faults + 1

-----------------------------------------------------------------------------
(***************************************************************************)
(* The VM (external).  It sends its handshake first, and then packets:     *)
(* DDM requests, events, and replies to the requests it has received, each *)
(* an error, empty, or with data.                                          *)
(***************************************************************************)

Bytes(k, n) == [i \in 1..n |-> <<k, i>>]

VmSends(message) ==
  /\ sent' = Append(sent, message)
  /\ wire' = wire \o Bytes(Len(sent) + 1, message.len)

Message(kind, id, len) == [kind |-> kind, id |-> id, len |-> len]

VmHandshake ==
  /\ sent = <<>> /\ mChan
  /\ \/ VmSends(Message("handshake", 0, HANDSHAKE_LEN)) /\ UNCHANGED faults
     \/ VmSends(Message("bad", 0, HANDSHAKE_LEN)) /\ Fault("handshake")
  /\ UNCHANGED <<vmRequests, messages, mReadBuffer, clientVars, pc, log, requests, debugger, stopVars>>

VmShaken == sent # <<>> /\ sent[1].kind = "handshake" /\ mChan

(* An unsolicited packet.  A length less than that of the header is a      *)
(* malformed packet.                                                       *)
VmPacket ==
  /\ VmShaken /\ messages < MaxMessages
  /\ messages' = messages + 1
  /\ \/ \E kind \in {"ddm", "event"}, len \in Lengths :
          VmSends(Message(kind, 0, len)) /\ UNCHANGED faults
     \/ VmSends(Message("malformed", 0, JDWP_HEADER_LEN)) /\ Fault("header")
  /\ UNCHANGED <<vmRequests, mReadBuffer, clientVars, pc, log, requests, debugger, stopVars>>

VmReply(id) ==
  /\ VmShaken /\ id \in vmRequests
  /\ vmRequests' = vmRequests \ {id}
  /\ \/ \E len \in Lengths \ {JDWP_HEADER_LEN} : VmSends(Message("reply", id, len))
     \/ \E kind \in {"empty", "error"} : VmSends(Message(kind, id, JDWP_HEADER_LEN))
  /\ UNCHANGED <<messages, mReadBuffer, clientVars, pc, log, requests, debugger, stopVars, faults>>

Vm == VmHandshake \/ VmPacket \/ \E id \in AllRequests : VmReply(id)

-----------------------------------------------------------------------------
(***************************************************************************)
(* Closing.                                                                *)
(***************************************************************************)

(* dropClient: close() forgets the requests and closes the channel and the *)
(* debugger; nothing is read any more.                                     *)
CloseClient == mChan' = FALSE /\ mOutstandingReqs' = {} /\ pc' = "select"

DropClient == CloseClient /\ debugger' = [debugger EXCEPT !.attached = FALSE]

-----------------------------------------------------------------------------
(***************************************************************************)
(* Client::read.  n bytes are available, and all are read.  If they fill   *)
(* the buffer it is doubled, once; a buffer that may not grow is an        *)
(* exception.                                                              *)
(***************************************************************************)

MustGrow(n) == mReadBuffer.pos + n >= mReadBuffer.limit

(* Bug: the size that is compared is the old one.                          *)
MayGrowOnce == mReadBuffer.limit <= MAX_BUF_SIZE

MayGrow == mReadBuffer.limit * 2 <= MAX_BUF_SIZE

(* Bug: the old bytes are not copied.                                      *)
GrownEmpty(b) == SetPosition(NewBuffer(2 * b.limit), b.pos)

(* A buffer of twice the size, with the bytes of b and b's position        *)
Grown(b) == SetPosition(PutBuffer(NewBuffer(2 * b.limit), SetPosition(b, 0)), b.pos)

ReadInto(n) == IF MustGrow(n) THEN Grown(mReadBuffer) ELSE mReadBuffer

R_Read(n) ==
  /\ pc = "select" /\ mChan /\ n \in 1..Len(wire)
  /\ MustGrow(n) => MayGrow
  /\ n <= Space(ReadInto(n))
  /\ mReadBuffer' = PutBytes(ReadInto(n), SubSeq(wire, 1, n))
  /\ wire' = SubSeq(wire, n + 1, Len(wire))
  /\ pc' = "loop"
  /\ UNCHANGED <<vmVars, clientVars, log, requests, debugger, stopVars, faults>>

R_ReadExceedsMax ==
  /\ pc = "select" /\ mChan
  /\ \E n \in 1..Len(wire) : MustGrow(n) /\ ~MayGrow
  /\ DropClient
  /\ UNCHANGED <<vmVars, streamVars, mConnState, log, requests, readyCount, stopVars, faults>>

(* The bytes do not fit a buffer of twice the size either: they are stored *)
(* behind its end.  What then happens is undefined; nothing more is        *)
(* modelled.                                                               *)
R_ReadBeyondEnd ==
  /\ pc = "select" /\ mChan
  /\ \E n \in 1..Len(wire) : MustGrow(n) /\ MayGrow /\ n > Space(ReadInto(n))
  /\ undefined' = TRUE /\ mChan' = FALSE
  /\ UNCHANGED <<vmVars, streamVars, mConnState, mOutstandingReqs, readyCount, pc, log,
                 requests, debugger, toReopen, faults>>

-----------------------------------------------------------------------------
(***************************************************************************)
(* getJdwpPacket, and the loop around it.                                  *)
(***************************************************************************)

(* The message whose first byte is at the front of the buffer, and what is *)
(* done with it: n bytes leave the buffer.                                 *)
Foremost == mReadBuffer.array[1][1]

TakenAs(what) == log' = Append(log, <<Foremost, what>>)

(* findHandshake                                                           *)
HandshakeThere == mReadBuffer.pos >= HANDSHAKE_LEN

HandshakeGood ==
  /\ SubSeq(mReadBuffer.array, 1, HANDSHAKE_LEN) = Bytes(Foremost, HANDSHAKE_LEN)
  /\ sent[Foremost].kind = "handshake"

R_HandshakeNotYet ==
  /\ pc = "loop" /\ mConnState = "AWAIT_SHAKE" /\ ~HandshakeThere
  /\ pc' = "select"
  /\ UNCHANGED <<vmVars, streamVars, clientVars, log, requests, debugger, stopVars, faults>>

(* HELO stands for the three requests of sendHelloCommands.                *)
R_GoodHandshake ==
  /\ pc = "loop" /\ mConnState = "AWAIT_SHAKE" /\ HandshakeThere /\ HandshakeGood
  /\ mReadBuffer' = Consume(mReadBuffer, HANDSHAKE_LEN)
  /\ TakenAs("handshake")
  /\ mConnState' = "NEED_DDM_PKT"
  /\ \/ /\ mOutstandingReqs' = mOutstandingReqs \cup {HELO}
        /\ vmRequests' = vmRequests \cup {HELO}
        /\ UNCHANGED <<mChan, debugger, pc, faults>>
     \/ Fault("send") /\ DropClient /\ UNCHANGED vmRequests
  /\ UNCHANGED <<sent, messages, wire, readyCount, requests, stopVars>>

(* addClientToDropAndReopen.  The bytes stay where they are.               *)
R_BadHandshake ==
  /\ pc = "loop" /\ mConnState = "AWAIT_SHAKE" /\ HandshakeThere /\ ~HandshakeGood
  /\ toReopen' = TRUE
  /\ pc' = "select"
  /\ UNCHANGED <<vmVars, streamVars, clientVars, log, requests, debugger, undefined, faults>>

(* The device client thread drops the client, in its turn.                 *)
M_DropClient ==
  /\ toReopen /\ mChan /\ pc = "select"
  /\ DropClient
  /\ UNCHANGED <<vmVars, streamVars, mConnState, readyCount, log, requests, stopVars, faults>>

(* findPacket                                                              *)
InTraffic == pc = "loop" /\ mConnState \in {"NEED_DDM_PKT", "NOT_DDM", "READY"}

HeaderThere == mReadBuffer.pos >= JDWP_HEADER_LEN

Malformed == sent[Foremost].kind = "malformed"

PacketThere ==
  InTraffic /\ HeaderThere /\ ~Malformed /\ mReadBuffer.pos >= sent[Foremost].len

R_NoPacket ==
  /\ InTraffic
  /\ HeaderThere => ~Malformed /\ mReadBuffer.pos < sent[Foremost].len
  /\ pc' = "select"
  /\ UNCHANGED <<vmVars, streamVars, clientVars, log, requests, debugger, stopVars, faults>>

(* BadPacketException                                                      *)
R_BadPacket ==
  /\ InTraffic /\ HeaderThere /\ Malformed
  /\ DropClient
  /\ UNCHANGED <<vmVars, streamVars, mConnState, readyCount, log, requests, stopVars, faults>>

(* ddmSeen, and the broadcast that callHandler makes of it                 *)
DdmSeen ==
  IF mConnState = "NEED_DDM_PKT"
  THEN mConnState' = "READY" /\ readyCount' = readyCount + 1
  ELSE UNCHANGED <<mConnState, readyCount>>

(* Bug: only one packet is looked for in a read.                           *)
R_DdmThenSelect ==
  /\ PacketThere /\ sent[Foremost].kind = "ddm"
  /\ DdmSeen
  /\ mReadBuffer' = Consume(mReadBuffer, sent[Foremost].len)
  /\ TakenAs("handled")
  /\ pc' = "select"
  /\ UNCHANGED <<vmVars, wire, mChan, mOutstandingReqs, requests, debugger, stopVars, faults>>

R_Ddm ==
  /\ PacketThere /\ sent[Foremost].kind = "ddm"
  /\ DdmSeen
  /\ mReadBuffer' = Consume(mReadBuffer, sent[Foremost].len)
  /\ TakenAs("handled")
  /\ UNCHANGED <<vmVars, wire, mChan, mOutstandingReqs, pc, requests, debugger, stopVars, faults>>

(* isResponseToUs                                                          *)
IsResponseToUs ==
  sent[Foremost].kind \in {"reply", "empty", "error"} /\ sent[Foremost].id \in mOutstandingReqs

(* packetFailed                                                            *)
PacketFailed ==
  /\ mConnState' = IF mConnState = "NEED_DDM_PKT" THEN "NOT_DDM" ELSE mConnState
  /\ UNCHANGED readyCount

(* Bug: a request that failed stays outstanding.                           *)
R_ReplyKeepsFailed ==
  /\ PacketThere /\ IsResponseToUs
  /\ \/ sent[Foremost].kind = "error" /\ PacketFailed
     \/ sent[Foremost].kind = "empty" /\ UNCHANGED <<mConnState, readyCount>>
     \/ sent[Foremost].kind = "reply" /\ DdmSeen
  /\ mReadBuffer' = Consume(mReadBuffer, sent[Foremost].len)
  /\ mOutstandingReqs' = IF sent[Foremost].kind = "error" THEN mOutstandingReqs
                         ELSE mOutstandingReqs \ {sent[Foremost].id}
  /\ TakenAs("answered")
  /\ UNCHANGED <<vmVars, wire, mChan, pc, requests, debugger, stopVars, faults>>

R_Reply ==
  /\ PacketThere /\ IsResponseToUs
  /\ \/ sent[Foremost].kind = "error" /\ PacketFailed
     \/ sent[Foremost].kind = "empty" /\ UNCHANGED <<mConnState, readyCount>>
     \/ sent[Foremost].kind = "reply" /\ DdmSeen
  /\ mReadBuffer' = Consume(mReadBuffer, sent[Foremost].len)
  /\ mOutstandingReqs' = mOutstandingReqs \ {sent[Foremost].id}
  /\ TakenAs("answered")
  /\ UNCHANGED <<vmVars, wire, mChan, pc, requests, debugger, stopVars, faults>>

(* callHandler throws: its getInt does for a packet that is nothing but a  *)
(* header, and so may the handler.  The VM was seen, and that broadcast,   *)
(* before; the client is dropped.                                          *)
R_HandlerThrows ==
  /\ PacketThere
  /\ sent[Foremost].kind = "ddm" \/ (sent[Foremost].kind = "reply" /\ IsResponseToUs)
  /\ Fault("handler")
  /\ DdmSeen
  /\ DropClient
  /\ UNCHANGED <<vmVars, streamVars, log, requests, stopVars>>

-----------------------------------------------------------------------------
(***************************************************************************)
(* Debugger.  What is not for us is forwarded: sent if a debugger is       *)
(* attached, else saved.                                                   *)
(***************************************************************************)

ForDebugger == PacketThere /\ sent[Foremost].kind # "ddm" /\ ~IsResponseToUs

(* Bug: what is saved replaces what was saved.                             *)
R_SaveOver ==
  /\ ForDebugger /\ ~debugger.attached
  /\ sent[Foremost].len <= Space(debugger.preData)
  /\ debugger' = [debugger EXCEPT !.preData = PutBuffer(Clear(@), Moved(mReadBuffer, sent[Foremost].len))]
  /\ mReadBuffer' = AfterMove(mReadBuffer, sent[Foremost].len)
  /\ TakenAs("forwarded")
  /\ UNCHANGED <<vmVars, wire, clientVars, pc, requests, stopVars, faults>>

R_Save ==
  /\ ForDebugger /\ ~debugger.attached
  /\ sent[Foremost].len <= Space(debugger.preData)
  /\ debugger' = [debugger EXCEPT !.preData = PutBuffer(@, Moved(mReadBuffer, sent[Foremost].len))]
  /\ mReadBuffer' = AfterMove(mReadBuffer, sent[Foremost].len)
  /\ TakenAs("forwarded")
  /\ UNCHANGED <<vmVars, wire, clientVars, pc, requests, stopVars, faults>>

(* The packet does not fit the buffer of saved packets: put throws, and    *)
(* the client is dropped.                                                  *)
R_SaveOverflows ==
  /\ ForDebugger /\ ~debugger.attached
  /\ sent[Foremost].len > Space(debugger.preData)
  /\ DropClient
  /\ UNCHANGED <<vmVars, streamVars, mConnState, readyCount, log, requests, stopVars, faults>>

R_Forward ==
  /\ ForDebugger /\ debugger.attached
  /\ debugger' = [debugger EXCEPT !.got = @ \o Written(mReadBuffer, sent[Foremost].len)]
  /\ mReadBuffer' = AfterWrite(mReadBuffer, sent[Foremost].len)
  /\ TakenAs("forwarded")
  /\ UNCHANGED <<vmVars, wire, clientVars, pc, requests, stopVars, faults>>

(* The debugger has gone away, which nobody noticed: sending its bytes one *)
(* by one fails after the first n, and the exception drops the client.     *)
R_ForwardFails ==
  /\ ForDebugger /\ debugger.attached
  /\ Fault("debugger")
  /\ CloseClient
  /\ \E n \in 0..sent[Foremost].len - 1 :
       debugger' = [debugger EXCEPT !.attached = FALSE, !.got = @ \o Written(mReadBuffer, n)]
  /\ UNCHANGED <<vmVars, streamVars, mConnState, readyCount, log, requests, stopVars>>

(* processDebuggerActivity: a debugger connects.  (Another that does is    *)
(* turned away.)  No handler reads what it sends, the handshake included.  *)
R_Accept ==
  /\ pc = "select" /\ mChan /\ ~debugger.attached
  /\ debugger' = [debugger EXCEPT !.attached = TRUE]
  /\ UNCHANGED <<vmVars, streamVars, clientVars, pc, log, requests, stopVars, faults>>

-----------------------------------------------------------------------------
(***************************************************************************)
(* Client::sendAndConsume, in a thread of the application.                 *)
(***************************************************************************)

A_AddRequestId(id) ==
  /\ requests[id] = "new"
  /\ IF mChan
     THEN /\ mOutstandingReqs' = mOutstandingReqs \cup {id}
          /\ requests' = [requests EXCEPT ![id] = "added"]
     ELSE /\ requests' = [requests EXCEPT ![id] = "dropped"]
          /\ UNCHANGED mOutstandingReqs
  /\ UNCHANGED <<vmVars, streamVars, mConnState, mChan, readyCount, pc, log, debugger, stopVars, faults>>

(* Bug: the id is removed on every way out.                                *)
A_SendFinally(id) ==
  /\ requests[id] = "added" /\ mChan
  /\ requests' = [requests EXCEPT ![id] = "sent"]
  /\ vmRequests' = vmRequests \cup {id}
  /\ mOutstandingReqs' = mOutstandingReqs \ {id}
  /\ UNCHANGED <<sent, messages, streamVars, mConnState, mChan, readyCount, pc, log, debugger,
                 stopVars, faults>>

A_Send(id) ==
  /\ requests[id] = "added" /\ mChan
  /\ \/ /\ requests' = [requests EXCEPT ![id] = "sent"]
        /\ vmRequests' = vmRequests \cup {id}
        /\ UNCHANGED <<mOutstandingReqs, faults>>
     \/ /\ Fault("send")
        /\ requests' = [requests EXCEPT ![id] = "failed"]
        /\ mOutstandingReqs' = mOutstandingReqs \ {id}
        /\ UNCHANGED vmRequests
  /\ UNCHANGED <<sent, messages, streamVars, mConnState, mChan, readyCount, pc, log, debugger, stopVars>>

(* The channel was closed after it was looked at.                          *)
A_SendClosed(id) ==
  /\ requests[id] = "added" /\ ~mChan
  /\ requests' = [requests EXCEPT ![id] = "failed"]
  /\ undefined' = TRUE
  /\ UNCHANGED <<vmVars, streamVars, clientVars, pc, log, debugger, toReopen, faults>>

-----------------------------------------------------------------------------

Init ==
  /\ sent = <<>> /\ wire = <<>> /\ vmRequests = {} /\ messages = 0
  /\ mConnState = "AWAIT_SHAKE" /\ mChan = TRUE
  /\ mReadBuffer = NewBuffer(INITIAL_BUF_SIZE)
  /\ mOutstandingReqs = {}
  /\ pc = "select" /\ log = <<>>
  /\ requests = [id \in Requests |-> "new"]
  /\ debugger = [attached |-> FALSE, preData |-> NewBuffer(PRE_DATA_BUF_SIZE), got |-> <<>>]
  /\ readyCount = 0 /\ toReopen = FALSE /\ undefined = FALSE /\ faults = 0

R_Loop ==
  \/ R_HandshakeNotYet \/ R_GoodHandshake \/ R_BadHandshake
  \/ R_NoPacket \/ R_BadPacket \/ R_Ddm \/ R_Reply \/ R_HandlerThrows
  \/ R_Save \/ R_SaveOverflows \/ R_Forward \/ R_ForwardFails

R_Input == (\E n \in 1..Len(wire) : R_Read(n)) \/ R_ReadExceedsMax \/ R_ReadBeyondEnd

A_Thread(id) == A_AddRequestId(id) \/ A_Send(id) \/ A_SendClosed(id)

Next ==
  \/ Vm
  \/ R_Input \/ R_Loop \/ R_Accept \/ M_DropClient
  \/ \E id \in Requests : A_Thread(id)

Spec == Init /\ [][Next]_vars

(* The reactor and the application's threads keep running, and the VM      *)
(* answers the requests it has read.  Debuggers, unasked messages and      *)
(* faults come when they come.                                             *)
Fairness ==
  /\ WF_vars(R_Input) /\ WF_vars(R_Loop) /\ WF_vars(M_DropClient)
  /\ \A id \in Requests : WF_vars(A_Thread(id))
  /\ WF_vars(VmHandshake) /\ \A id \in AllRequests : WF_vars(VmReply(id))

FairSpec == Spec /\ Fairness

-----------------------------------------------------------------------------
(***************************************************************************)
(* Properties.                                                             *)
(***************************************************************************)

Byte == Nat \X Nat

BufferType == [array : Seq(Byte), pos : Nat, limit : Nat]

Kinds == {"handshake", "bad", "ddm", "event", "malformed", "reply", "empty", "error"}

TypeOK ==
  /\ sent \in Seq([kind : Kinds, id : AllRequests \cup {0}, len : Nat])
  /\ wire \in Seq(Byte)
  /\ vmRequests \subseteq AllRequests /\ mOutstandingReqs \subseteq AllRequests
  /\ mConnState \in {"AWAIT_SHAKE", "NEED_DDM_PKT", "NOT_DDM", "READY"}
  /\ {mChan, toReopen, undefined} \subseteq BOOLEAN
  /\ mReadBuffer \in BufferType /\ debugger.preData \in BufferType
  /\ mReadBuffer.limit = Capacity(mReadBuffer) /\ mReadBuffer.pos <= mReadBuffer.limit
  /\ Capacity(mReadBuffer) <= MAX_BUF_SIZE
  /\ debugger.attached \in BOOLEAN /\ debugger.got \in Seq(Byte)
  /\ pc \in {"select", "loop"}
  /\ log \in Seq(Nat \X {"handshake", "handled", "answered", "forwarded"})
  /\ requests \in [Requests -> {"new", "added", "sent", "failed", "dropped"}]
  /\ readyCount \in Nat
  /\ messages \in 0..MaxMessages /\ faults \in 0..MaxFaults

Before(b, c) == b[1] < c[1] \/ (b[1] = c[1] /\ b[2] < c[2])

(* bytes are those of the messages ks of stream: all of each, in the order *)
(* in which they were sent, and none twice.                                *)
AreMessages(bytes, ks, stream) ==
  /\ ToSet(bytes) = UNION {ToSet(Bytes(k, stream[k].len)) : k \in ks}
  /\ \A i, j \in DOMAIN bytes : i < j => Before(bytes[i], bytes[j])

(* However the stream is cut into reads, and whatever was consumed, sent   *)
(* on or moved before, and however often the buffer grew: the buffer       *)
(* starts with the first message that has not been taken off, and holds,   *)
(* with what is still to be read, exactly the bytes from there on.  (On    *)
(* entry, says getJdwpPacket, "the data starts at offset 0 and ends at     *)
(* position".)                                                             *)
Framing == mChan => AreMessages(Data(mReadBuffer) \o wire, Len(log) + 1..Len(sent), sent)

(* The handlers hear CLIENT_READY once, at the first DDM packet or answer  *)
(* with data, unless an error came first and marked the VM as one without  *)
(* DDM.                                                                    *)
FirstData ==
  {k \in DOMAIN log : sent[k].kind \in {"ddm", "reply", "error"}}

ReadyOnce ==
  /\ readyCount = 1 <=> mConnState = "READY"
  /\ mConnState \in {"NEED_DDM_PKT", "AWAIT_SHAKE"} => readyCount = 0
  /\ FirstData # {} =>
       (readyCount = 1 <=> \E k \in FirstData : sent[k].kind # "error" /\ \A j \in FirstData : k <= j)

(* Messages are taken off once each and in order; an answer to a request   *)
(* of ours goes to its handler, even one that arrives before the sending   *)
(* thread is back, and nothing else does; and the handlers hear when the   *)
(* client is ready.                                                        *)
Dispatched ==
  /\ ReadyOnce
  /\ \A k \in DOMAIN log :
    /\ log[k][1] = k
    /\ log[k][2] = CASE sent[k].kind = "handshake" -> "handshake"
                    [] sent[k].kind = "ddm" -> "handled"
                    [] sent[k].kind = "event" -> "forwarded"
                    [] sent[k].kind \in {"reply", "empty", "error"} -> "answered"

(* A request is outstanding from before it is sent until its answer has    *)
(* been handled, whatever the answer, or until sending failed.             *)
Answered(id) == \E k \in DOMAIN log : sent[k].id = id

OutstandingExact ==
  mChan =>
    /\ \A id \in Requests :
         id \in mOutstandingReqs <=> requests[id] \in {"added", "sent"} /\ ~Answered(id)
    /\ HELO \in mOutstandingReqs <=> mConnState # "AWAIT_SHAKE" /\ ~Answered(HELO)

(* What was forwarded stays whole, byte for byte, each packet once and in  *)
(* order: first what movePacket saved while no debugger was attached, then *)
(* what writeAndConsume sent to the one that attached.  What is saved is   *)
(* never sent, although Debugger::sendAndConsume says that it will be      *)
(* (Debugger.cpp:232): sendHandshake, which would send it, is reached only *)
(* from processDebuggerData, and nobody registers that handler.            *)
Forwarded == {k \in DOMAIN log : log[k][2] = "forwarded"}

ForwardedWhole ==
  mChan => AreMessages(Data(debugger.preData) \o debugger.got, Forwarded, sent)

(* Every message is taken off in the end, unless the client is dropped:    *)
(* the loop does not stop before the last packet in the buffer, and a      *)
(* partial packet is completed by later reads.                             *)
AllTaken == []<>(Len(log) = Len(sent) \/ ~mChan)
=============================================================================
