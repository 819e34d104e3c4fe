---------------------------- MODULE SyncService ----------------------------
(***************************************************************************)
(* The file transfers: one application thread that opens a SyncService and *)
(* pushes and pulls files over it (U_..., C_...), a user interface that    *)
(* cancels (U_Cancel), and, external, the sync service of the device       *)
(* (D_...), with which it talks over a stream of bytes.                    *)
(*                                                                         *)
(* The stream from the device is a sequence of words of four bytes: an     *)
(* identifier, a number, or a word of a file's content.  Identifiers,      *)
(* lengths and contents being multiples of a word, a reader that is out of *)
(* step with the device is out by whole words.  The stream to the device   *)
(* is a sequence of requests.                                              *)
(*                                                                         *)
(* Left out are failures of the local file system other than of a write:   *)
(* the exceptions of createDirectory (288) and of listing the device's     *)
(* directories (getChildren), which would leave C_NextEntry, and of opening*)
(* the file to push (436), which would leave C_Request.  Each would end    *)
(* the operation between two files, with no request under way.             *)
(***************************************************************************)
EXTENDS Integers, Sequences, FiniteSets, SequencesExt, TLC

CONSTANTS
  File, Dir, Other,      \* the entries of the two trees, which have the same names
  Kids,                  \* directory -> the sequence of its entries
  OnDevice, OnHost,      \* initial contents: file that exists -> sequence of words
  LongPaths,             \* the entries with paths longer than REMOTE_PATH_MAX_LENGTH
  Selections,            \* the sequences of entries that are pushed and pulled
  SYNC_DATA_MAX,         \* in words
  Faults,                \* "slow", "gone", "stall", "refuse", "oversize", "write"
  MaxOps,                \* bound: how many transfers are asked for
  MaxFaults,             \* bound: how many things go wrong
  MaxContent             \* bound: files and the progress grow no further than this

Entry == File \cup Dir \cup Other

(* The words of the files                                                  *)
Content == UNION {ToSet(OnDevice[f]) : f \in DOMAIN OnDevice}
             \cup UNION {ToSet(OnHost[f]) : f \in DOMAIN OnHost}

ASSUME SyncAssumption ==
  /\ SYNC_DATA_MAX \in Nat /\ SYNC_DATA_MAX > 2
  /\ MaxOps \in Nat /\ MaxFaults \in Nat /\ MaxContent \in Nat
  /\ Kids \in [Dir -> Seq(Entry)] /\ Selections \subseteq Seq(Entry)
  /\ DOMAIN OnDevice \subseteq File /\ DOMAIN OnHost \subseteq File
  /\ \A f \in DOMAIN OnDevice : OnDevice[f] \in Seq(Content)
  /\ \A f \in DOMAIN OnHost : OnHost[f] \in Seq(Content)
  /\ \A word \in Content : word[1] # "number"     \* see Numbers
  /\ File \cap Dir = {} /\ File \cap Other = {} /\ Dir \cap Other = {}
  /\ "directory" \notin Entry                         \* see Directory

(* No directory is within itself, which the recursions of the code need to *)
(* end.                                                                    *)
ASSUME TreeAssumption ==
  \A ds \in SUBSET Dir : ds # {} => \E d \in ds : ToSet(Kids[d]) \cap ds = {}

VARIABLES
  channel,   \* "closed" or "open"
  buffered,  \* whether mBuffer has been allocated
  op,        \* the operation under way, or the last one; see NewOp
  monitor,   \* what the progress monitor was told
  host,      \* the local files: file that exists -> content
  up, down,  \* the requests and the words under way
  device,    \* what the device's sync service is doing, see Idle
  files,     \* the device's files
  stream,    \* "inStep"; "interrupted" once an operation on this connection has ended in
             \* the middle of a file; "late" once a receive or a send has timed out
  ops, faults

hostVars == <<channel, buffered, op, monitor, host>>
deviceVars == <<device, files>>
vars == <<hostVars, up, down, deviceVars, stream, ops, faults>>

Fault(kind) ==
  /\ kind \in Faults /\ faults < MaxFaults
  /\ faults' = faults + 1

-----------------------------------------------------------------------------
(***************************************************************************)
(* Words                                                                   *)
(***************************************************************************)

Id(name) == <<name, 0>>
Num(n) == <<"number", n>>
Junk == <<"junk", 0>>      \* memory that was never written

(* Bug: an array one element short.                                        *)
M_Zeros(n) == [i \in 1..n - 1 |-> Num(0)]

Zeros(n) == [i \in 1..n |-> Num(0)]

(* checkResult *)
Is(header, name) == header[1] = Id(name)

(* The numbers that a word read as one may stand for: content and junk may *)
(* stand for any, of which one is longer than the buffer.                  *)
Numbers(word) == IF word[1] = "number" THEN {word[2]} ELSE 0..SYNC_DATA_MAX + 1

Capped(n) == IF n > MaxContent THEN MaxContent ELSE n

(* content with words written at pos                                       *)
Overwritten(content, pos, words) ==
  LET end == Capped(pos + Len(words))
  IN  [i \in 1..(IF end > Len(content) THEN end ELSE Len(content)) |->
         IF i \in pos + 1..end THEN words[i - pos] ELSE content[i]]

-----------------------------------------------------------------------------
(***************************************************************************)
(* The two trees, and how much there is to do in them.                     *)
(***************************************************************************)

(* The entries es hold everything that is in their directories.            *)
Closed(es) == \A d \in es \cap Dir : ToSet(Kids[d]) \subseteq es

(* The files under the entries es: those of the smallest such set          *)
FilesOf(es) ==
  {f \in File : \A all \in SUBSET Entry : es \subseteq all /\ Closed(all) => f \in all}

Size(tree, f) == IF f \in DOMAIN tree THEN Len(tree[f]) ELSE 0

(* The sum of what the entries es weigh.                                   *)
SumOf(weight, es) == FoldLeft(LAMBDA n, e : n + weight[e], 0, es)

(* Bug: only what is in a directory is counted, not the directory itself.  *)
M_RemoteTotal(es) ==
  LET Weight[e \in Entry] ==
        IF e \in Dir THEN SumOf(Weight, Kids[e])
        ELSE IF e \in File THEN Size(files, e) ELSE 0
  IN  SumOf(Weight, es)

RemoteTotal(es) ==
  LET Weight[e \in Entry] ==
        IF e \in Dir THEN 1 + SumOf(Weight, Kids[e])
        ELSE IF e \in File THEN Size(files, e) ELSE 0
  IN  SumOf(Weight, es)

(* The total of a list is that of its first directory, if it has one.      *)
LocalTotal(es) ==
  LET NoDir(s) == ToSet(s) \cap Dir = {}
      Sizes(s) == SumOf([e \in Entry |-> IF e \in File THEN Size(host, e) ELSE 0], s)
      FirstDir(s) == s[SelectInSeq(s, LAMBDA e : e \in Dir)]
      Within[d \in Dir] ==
        IF NoDir(Kids[d]) THEN Sizes(Kids[d]) ELSE 1 + Within[FirstDir(Kids[d])]
  IN  IF NoDir(es) THEN Sizes(es) ELSE 1 + Within[FirstDir(es)]

-----------------------------------------------------------------------------
(***************************************************************************)
(* Operations.  kind is "pull", "pullPath" or "push"; args are the entries;      *)
(* of pc are those of the steps below.                                     *)
(***************************************************************************)

NewOp(kind, args, pc) ==
  [kind |-> kind, args |-> args, pc |-> pc, result |-> "none",
   todo |-> args,               \* what doPull or doPush has still to visit
   file |-> "none",             \* the file being transferred
   header |-> Zeros(2),         \* pullResult
   data |-> <<>>, len |-> 0,
   pos |-> 0,                   \* how much of the file has been read or written
   eof |-> FALSE,
   before |-> host]

Directory == "directory"        \* in todo: the end of a directory

Started(total) == [started |-> TRUE, total |-> Capped(total), advanced |-> 0,
                   stopped |-> FALSE, canceled |-> FALSE]

Init ==
  /\ channel = "closed" /\ buffered = FALSE
  /\ host = OnHost /\ files = OnDevice
  /\ op = [NewOp("pull", <<>>, "idle") EXCEPT !.before = OnHost]
  /\ monitor = [Started(0) EXCEPT !.started = FALSE]
  /\ up = <<>> /\ down = <<>>
  /\ device = [link |-> "up", state |-> "idle", file |-> "none", pos |-> 0, failed |-> FALSE]
  /\ stream = "inStep"
  /\ ops = 0 /\ faults = 0

Ended(result) ==
  [NewOp(op.kind, op.args, "idle") EXCEPT !.result = result, !.todo = <<>>, !.before = op.before]

(* The operation ends normally, its last act being monitor->stop().        *)
Finish ==
  /\ op' = Ended("ok")
  /\ monitor' = [monitor EXCEPT !.stopped = TRUE]

(* It ends with an exception, which nothing on the way to the caller       *)
(* catches.                                                                *)
Throw(error) == op' = Ended(error)

Goto(pc) == op' = [op EXCEPT !.pc = pc]

(* The device has nothing to say, or says nothing.                         *)
Silent ==
  \/ device.link = "stalled"
  \/ device.link = "up" /\ up = <<>> /\ device.state # "sending"

(* AdbHelper::read of n words.  A receive that times out ends it without   *)
(* an exception.                                                           *)
Read(n) ==
  IF Len(down) >= n
  THEN down' = SubSeq(down, n + 1, Len(down)) /\ UNCHANGED <<stream, faults>>
  ELSE /\ device.link # "gone" /\ down' = <<>>
       /\ IF Silent
          THEN stream' = (IF stream = "late" THEN "late" ELSE "interrupted") /\ UNCHANGED faults
          ELSE stream' = "late" /\ Fault("slow")

(* What that makes of the array old.  After a time out it is as it was if  *)
(* nothing was received, and else it begins with n words of which the last *)
(* were never written.                                                     *)
Received(n, old) ==
  IF Len(down) >= n THEN SubSeq(down, 1, n) \o SubSeq(old, n + 1, Len(old))
  ELSE IF down = <<>> THEN old
  ELSE [i \in 1..n |-> IF i <= Len(down) THEN down[i] ELSE Junk] \o SubSeq(old, n + 1, Len(old))

(* AdbHelper::write.  A send that times out is no error either.            *)
Write(request, Then) ==
  \/ up' = Append(up, request) /\ Then /\ UNCHANGED <<stream, faults>>
  \/ UNCHANGED up /\ stream' = "late" /\ Then /\ Fault("slow")
  \/ device.link = "gone" /\ Throw("IO") /\ UNCHANGED <<up, monitor, buffered, stream, faults>>

Request(name, f) == [name |-> name, file |-> f, data |-> <<>>]

-----------------------------------------------------------------------------
(***************************************************************************)
(* The application.                                                        *)
(***************************************************************************)

Asked ==
  /\ channel = "open" /\ op.pc = "idle" /\ ops < MaxOps
  /\ ops' = ops + 1
  /\ UNCHANGED <<channel, buffered, host, up, down, deviceVars, stream, faults>>

(* getSyncService and openSync: a new service, on a connection of its own. *)
(* When adb refuses it, or the connection fails, it is closed again.       *)
U_Open ==
  /\ channel = "closed"
  /\ \/ /\ channel' = "open" /\ UNCHANGED faults
     \/ /\ Fault("refuse") /\ UNCHANGED channel
  /\ buffered' = FALSE /\ up' = <<>> /\ down' = <<>> /\ stream' = "inStep"
  /\ device' = [device EXCEPT !.link = "up", !.state = "idle"]
  /\ op' = NewOp("pull", <<>>, "idle")
  /\ UNCHANGED <<monitor, host, files, ops>>

(* The service is given up, and with it the socket.                        *)
U_Drop ==
  /\ channel = "open" /\ op.pc = "idle"
  /\ channel' = "closed"
  /\ UNCHANGED <<buffered, op, monitor, host, up, down, deviceVars, stream, ops, faults>>

(* pull of entries into a directory; pullFile of an entry, whose size is   *)
(* known; pullFile of a path, which first asks for the file's mode.        *)
U_Pull(es) ==
  /\ Asked
  /\ \/ /\ op' = NewOp("pull", es, "entries") /\ monitor' = Started(RemoteTotal(es))
     \/ /\ \E error \in {"NO_DIR_TARGET", "TARGET_IS_FILE"} :
             op' = [NewOp("pull", es, "idle") EXCEPT !.result = error]
        /\ UNCHANGED monitor

U_PullEntry(f) ==
  /\ Asked
  /\ op' = [NewOp("pull", <<f>>, "request") EXCEPT !.todo = <<>>, !.file = f]
  /\ monitor' = Started(Size(files, f))

U_PullPath(f) ==
  /\ channel = "open" /\ op.pc = "idle" /\ ops < MaxOps
  /\ ops' = ops + 1
  /\ Write(Request("STAT", f),
           /\ op' = [NewOp("pullPath", <<f>>, "mode") EXCEPT !.todo = <<>>, !.file = f]
           /\ monitor' = [monitor EXCEPT !.started = FALSE, !.canceled = FALSE])
  /\ UNCHANGED <<channel, buffered, host, down, deviceVars>>

(* push of entries into a remote entry; pushFile                           *)
U_Push(es) ==
  /\ Asked
  /\ \/ /\ op' = NewOp("push", es, "entries") /\ monitor' = Started(LocalTotal(es))
     \/ /\ op' = [NewOp("push", es, "idle") EXCEPT !.result = "REMOTE_IS_FILE"]
        /\ UNCHANGED monitor

U_PushFile(e) ==
  /\ Asked
  /\ IF e \in DOMAIN host
     THEN /\ op' = [NewOp("push", <<e>>, "request") EXCEPT !.todo = <<>>, !.file = e]
          /\ monitor' = Started(Size(host, e))
     ELSE /\ op' = [NewOp("push", <<e>>, "idle") EXCEPT
                      !.result = IF e \in Dir THEN "LOCAL_IS_DIRECTORY" ELSE "NO_LOCAL_FILE"]
          /\ UNCHANGED monitor

U_Cancel ==
  /\ op.pc \notin {"idle", "undefined", "spinning"} /\ ~monitor.canceled
  /\ monitor' = [monitor EXCEPT !.canceled = TRUE]
  /\ UNCHANGED <<channel, buffered, op, host, up, down, deviceVars, stream, ops, faults>>

User ==
  \/ U_Open \/ U_Drop \/ U_Cancel
  \/ \E es \in Selections : U_Pull(es) \/ U_Push(es)
  \/ \E f \in File : U_PullEntry(f) \/ U_PullPath(f)
  \/ \E e \in Entry : U_PushFile(e)

-----------------------------------------------------------------------------
(***************************************************************************)
(* The walk over the entries, of doPull and of doPush.                     *)
(***************************************************************************)

Advance(n) == monitor' = [monitor EXCEPT !.advanced = Capped(@ + n)]

(* Bug: the loop does not get past a socket or a link.                     *)
M_Skipped(e) == e \in File /\ op.kind = "push" /\ e \notin DOMAIN host

Skipped(e) ==
  \/ e \in Other
  \/ e \in File /\ op.kind = "push" /\ e \notin DOMAIN host

C_NextEntry ==
  /\ op.pc = "entries"
  /\ IF op.todo = <<>> THEN Finish
     ELSE LET e == Head(op.todo) IN
       \/ /\ e = Directory /\ Advance(1)
          /\ op' = [op EXCEPT !.todo = Tail(@)]
       \/ /\ e # Directory /\ monitor.canceled
          /\ Throw("CANCELED") /\ UNCHANGED monitor
       \/ /\ e # Directory /\ ~monitor.canceled /\ UNCHANGED monitor
          /\ \/ e \in Dir /\ op' = [op EXCEPT !.todo = Kids[e] \o <<Directory>> \o Tail(@)]
             \/ Skipped(e) /\ op' = [op EXCEPT !.todo = Tail(@)]
             \/ /\ e \in File /\ ~Skipped(e)
                /\ op' = [op EXCEPT !.todo = Tail(@), !.file = e, !.pc = "request"]
  /\ UNCHANGED <<channel, buffered, host, up, down, deviceVars, stream, ops, faults>>

(* The file has been transferred.  The operations on one file end as the   *)
(* walk over no more entries does.                                         *)
FileDone == Goto("entries")

(* Bug: the message is left unread.                                        *)
M_Failed(header) == Throw("TRANSFER_PROTOCOL_ERROR")

(* readErrorMessage, and the exception with its result                     *)
Failed(header) ==
  \E n \in Numbers(header[2]) :
    IF Is(header, "FAIL") /\ n > 0
    THEN op' = [op EXCEPT !.pc = "message", !.len = n, !.header = header]
    ELSE Throw("TRANSFER_PROTOCOL_ERROR")

(* The message is read into mBuffer, whatever its size.                    *)
MessageRead ==
  IF buffered /\ op.len <= SYNC_DATA_MAX + 2
  THEN Throw("TRANSFER_PROTOCOL_ERROR")
  ELSE Goto("undefined")

C_ReadMessage ==
  /\ op.pc = "message"
  /\ Read(op.len) /\ MessageRead
  /\ UNCHANGED <<channel, buffered, monitor, host, up, deviceVars, ops>>

-----------------------------------------------------------------------------
(***************************************************************************)
(* pullFile of a path, and doPullFile                                      *)
(***************************************************************************)

(* readMode, of which 0 means that there is no such file and a failure     *)
(* that it is tried anyway                                                 *)
C_ReadMode ==
  /\ op.pc = "mode"
  /\ Read(4)
  /\ LET stat == Received(4, Zeros(4)) IN
       \E mode \in Numbers(stat[2]) :
         IF Is(stat, "STAT") /\ mode = 0
         THEN Throw("NO_REMOTE_OBJECT") /\ UNCHANGED monitor
         ELSE Goto("request") /\ monitor' = [Started(0) EXCEPT !.canceled = monitor.canceled]
  /\ UNCHANGED <<channel, buffered, host, up, deviceVars, ops>>

C_Request ==
  /\ op.pc = "request"
  /\ IF op.file \in LongPaths
     THEN Throw("REMOTE_PATH_LENGTH") /\ UNCHANGED <<up, buffered, stream, faults>>
     ELSE \/ /\ op.kind # "push"
             /\ Write(Request("RECV", op.file),
                      op' = [op EXCEPT !.pc = "answer", !.header = Zeros(2), !.pos = 0,
                                       !.data = Zeros(SYNC_DATA_MAX)])
             /\ UNCHANGED buffered
          \/ /\ op.kind = "push"
             /\ Write(Request("SEND", op.file),
                      /\ op' = [op EXCEPT !.pc = "chunk", !.pos = 0, !.eof = FALSE]
                      /\ buffered' = TRUE)
  /\ UNCHANGED <<channel, monitor, host, down, deviceVars, ops>>

C_ReadAnswer ==
  /\ op.pc = "answer"
  /\ Read(2)
  /\ LET header == Received(2, op.header) IN
       IF Is(header, "DATA") \/ Is(header, "DONE")
       THEN op' = [op EXCEPT !.header = header, !.pc = "create"]
       ELSE Failed(header)
  /\ UNCHANGED <<channel, buffered, monitor, host, up, deviceVars, ops>>

(* An exception in the middle of a file leaves the rest of it to be read.  *)
Interrupted == stream' = IF stream = "late" \/ Is(op.header, "DONE") THEN stream ELSE "interrupted"

(* The local file is created if need be, and not truncated.                *)
C_Create ==
  /\ op.pc = "create"
  /\ \/ /\ host' = [f \in DOMAIN host \cup {op.file} |->
                      IF f \in DOMAIN host THEN host[f] ELSE <<>>]
        /\ Goto("transfer") /\ UNCHANGED <<stream, faults>>
     \/ Fault("write") /\ Throw("FILE_WRITE_ERROR") /\ Interrupted /\ UNCHANGED host
  /\ UNCHANGED <<channel, buffered, monitor, up, down, deviceVars, ops>>

C_CheckHeader ==
  /\ op.pc = "transfer"
  /\ IF monitor.canceled THEN Throw("CANCELED") /\ Interrupted
     ELSE IF Is(op.header, "DONE") THEN FileDone /\ UNCHANGED stream
     ELSE IF ~Is(op.header, "DATA") THEN Failed(op.header) /\ UNCHANGED stream
     ELSE \E n \in Numbers(op.header[2]) :
            IF n > SYNC_DATA_MAX THEN Throw("BUFFER_OVERRUN") /\ Interrupted
            ELSE op' = [op EXCEPT !.len = n, !.pc = "data"] /\ UNCHANGED stream
  /\ UNCHANGED <<channel, buffered, monitor, host, up, down, deviceVars, ops, faults>>

C_ReadData ==
  /\ op.pc = "data"
  /\ Read(op.len)
  /\ op' = [op EXCEPT !.data = Received(op.len, @), !.pc = "next"]
  /\ UNCHANGED <<channel, buffered, monitor, host, up, deviceVars, ops>>

(* Bug: the loop ends before the last data is written.                     *)
M_ReadNext ==
  /\ op.pc = "next"
  /\ Read(2)
  /\ Advance(op.len)
  /\ op' = [op EXCEPT !.header = Received(2, @), !.pc = "transfer", !.pos = Capped(@ + op.len)]
  /\ IF Is(Received(2, op.header), "DONE") THEN UNCHANGED host
     ELSE host' = [host EXCEPT ![op.file] = Overwritten(@, op.pos, SubSeq(op.data, 1, op.len))]
  /\ UNCHANGED <<channel, buffered, up, deviceVars, ops>>

(* The next header is read before the data is written to the file.         *)
C_ReadNext ==
  /\ op.pc = "next"
  /\ Read(2)
  /\ Advance(op.len)
  /\ op' = [op EXCEPT !.header = Received(2, @), !.pc = "transfer", !.pos = Capped(@ + op.len)]
  /\ host' = [host EXCEPT ![op.file] = Overwritten(@, op.pos, SubSeq(op.data, 1, op.len))]
  /\ UNCHANGED <<channel, buffered, up, deviceVars, ops>>

-----------------------------------------------------------------------------
(***************************************************************************)
(* doPushFile.  The end of the file is noticed by reading beyond it, so    *)
(* that the last chunk may be empty.                                       *)
(***************************************************************************)

CHUNK == SYNC_DATA_MAX - 2

Rest == Size(host, op.file) - op.pos

ReadCount == IF Rest < CHUNK THEN Rest ELSE CHUNK

Chunk == [Request("DATA", op.file) EXCEPT
            !.data = SubSeq(host[op.file], op.pos + 1, op.pos + ReadCount)]

C_SendChunk ==
  /\ op.pc = "chunk" /\ ~op.eof
  /\ IF monitor.canceled
     THEN Throw("CANCELED") /\ Interrupted /\ UNCHANGED <<up, monitor, buffered, faults>>
     ELSE /\ Write(Chunk, /\ op' = [op EXCEPT !.pos = @ + ReadCount, !.eof = Rest < CHUNK]
                          /\ Advance(ReadCount))
          /\ UNCHANGED buffered
  /\ UNCHANGED <<channel, host, down, deviceVars, ops>>

(* Bug: the end of the file is not sent.                                   *)
M_SendDone ==
  /\ op.pc = "chunk" /\ op.eof /\ Goto("result")
  /\ UNCHANGED <<channel, buffered, monitor, host, up, down, deviceVars, stream, ops, faults>>

C_SendDone ==
  /\ op.pc = "chunk" /\ op.eof
  /\ Write(Request("DONE", op.file), Goto("result"))
  /\ UNCHANGED <<channel, buffered, monitor, host, down, deviceVars, ops>>

C_ReadResult ==
  /\ op.pc = "result"
  /\ Read(2)
  /\ LET result == Received(2, Zeros(2)) IN
       IF Is(result, "OKAY") THEN FileDone ELSE Failed(result)
  /\ UNCHANGED <<channel, buffered, monitor, host, up, deviceVars, ops>>

-----------------------------------------------------------------------------
(* How many words the client is waiting for                                *)
Needed == CASE op.pc = "mode" -> 4
            [] op.pc \in {"answer", "next", "result"} -> 2
            [] op.pc \in {"data", "message"} -> op.len
            [] OTHER -> 0

(* At the end of the stream a read goes on for ever, receiving nothing; a  *)
(* reset of the connection is an exception.                                *)
C_ReadsOn ==
  /\ Len(down) < Needed /\ device.link = "gone"
  /\ Goto("spinning") \/ Throw("IO")
  /\ UNCHANGED <<channel, buffered, monitor, host, up, down, deviceVars, stream, ops, faults>>

Client ==
  \/ C_NextEntry \/ C_Request
  \/ C_ReadMode \/ C_ReadAnswer \/ C_Create \/ C_CheckHeader \/ C_ReadData \/ C_ReadNext
  \/ C_SendChunk \/ C_SendDone \/ C_ReadResult
  \/ C_ReadMessage \/ C_ReadsOn

-----------------------------------------------------------------------------
(***************************************************************************)
(* The device's sync service (external), one for each connection.          *)
(***************************************************************************)

Says(words) == down' = down \o words

Failure == <<Id("FAIL"), Num(1), <<"message", 1>>>>

(* It answers a request it does not know by hanging up.                    *)
HangsUp == device' = [device EXCEPT !.link = "gone"] /\ Says(Failure) /\ UNCHANGED files

D_Answer(request) ==
  LET f == request.file IN
  CASE request.name = "STAT" ->
         /\ Says(<<Id("STAT"), Num(IF f \in DOMAIN files THEN 1 ELSE 0), Num(Size(files, f)), Num(0)>>)
         /\ UNCHANGED <<deviceVars, faults>>
    [] request.name = "RECV" ->
         \/ /\ f \in DOMAIN files
            /\ device' = [device EXCEPT !.state = "sending", !.file = f, !.pos = 0]
            /\ UNCHANGED <<down, files, faults>>
         \/ /\ IF f \in DOMAIN files THEN Fault("refuse") ELSE UNCHANGED faults
            /\ Says(Failure) /\ UNCHANGED deviceVars
    [] request.name = "SEND" ->
         \/ /\ device' = [device EXCEPT !.state = "receiving", !.file = f, !.failed = FALSE]
            /\ files' = [g \in DOMAIN files \cup {f} |-> IF g = f THEN <<>> ELSE files[g]]
            /\ UNCHANGED <<down, faults>>
         \/ /\ Fault("refuse")
            /\ device' = [device EXCEPT !.state = "receiving", !.file = f, !.failed = TRUE]
            /\ Says(Failure) /\ UNCHANGED files
    [] OTHER -> HangsUp /\ UNCHANGED faults

D_Take ==
  /\ device.link = "up" /\ up # <<>> /\ device.state # "sending"
  /\ up' = Tail(up)
  /\ \/ device.state = "idle" /\ D_Answer(Head(up))
     \/ /\ device.state = "receiving" /\ UNCHANGED faults
        /\ CASE Head(up).name = "DATA" ->
                  /\ files' = IF device.failed THEN files
                              ELSE [files EXCEPT ![device.file] = @ \o Head(up).data]
                  /\ UNCHANGED <<device, down>>
             [] Head(up).name = "DONE" ->
                  /\ device' = [device EXCEPT !.state = "idle"]
                  /\ IF device.failed THEN UNCHANGED down ELSE Says(<<Id("OKAY"), Num(0)>>)
                  /\ UNCHANGED files
             [] OTHER -> HangsUp
  /\ UNCHANGED <<hostVars, stream, ops>>

(* It sends a file in chunks of any size up to SYNC_DATA_MAX, and may fail *)
(* to read it on the way.                                                  *)
D_Send ==
  /\ device.link = "up" /\ device.state = "sending"
  /\ LET content == files[device.file]
         SayData(n) == Says(<<Id("DATA"), Num(n)>> \o SubSeq(content, device.pos + 1, device.pos + n))
         done == device' = [device EXCEPT !.state = "idle"]
     IN \/ /\ \E n \in 1..SYNC_DATA_MAX :
                /\ device.pos + n <= Len(content) /\ SayData(n)
                /\ device' = [device EXCEPT !.pos = @ + n]
           /\ UNCHANGED faults
        \/ device.pos = Len(content) /\ Says(<<Id("DONE"), Num(0)>>) /\ done /\ UNCHANGED faults
        \/ Fault("refuse") /\ Says(Failure) /\ done
        \/ Fault("oversize") /\ Says(<<Id("DATA"), Num(SYNC_DATA_MAX + 1)>>) /\ done
  /\ UNCHANGED <<hostVars, up, files, stream, ops>>

D_Breaks ==
  /\ channel = "open" /\ device.link = "up"
  /\ \/ Fault("gone") /\ device' = [device EXCEPT !.link = "gone"]
     \/ Fault("stall") /\ device' = [device EXCEPT !.link = "stalled"]
  /\ UNCHANGED <<hostVars, up, down, files, stream, ops>>

Next == User \/ Client \/ D_Take \/ D_Send \/ D_Breaks

Spec == Init /\ [][Next]_vars

(* The application's thread is not blocked for ever but by a socket, whose *)
(* timeout is finite; the device answers.                                  *)
FairSpec == Spec /\ WF_vars(Client) /\ WF_vars(D_Take \/ D_Send)

-----------------------------------------------------------------------------
(***************************************************************************)
(* Properties.                                                             *)
(***************************************************************************)

Words == {Id(n) : n \in {"DATA", "DONE", "FAIL", "OKAY", "STAT"}} \cup {Junk, <<"message", 1>>}
           \cup ({"number"} \X Nat) \cup Content

Steps == {"idle", "entries", "request", "mode", "answer", "create", "transfer", "data", "next",
          "chunk", "result", "message", "undefined", "spinning"}

Errors == {"NO_DIR_TARGET", "TARGET_IS_FILE", "REMOTE_IS_FILE", "LOCAL_IS_DIRECTORY",
           "NO_LOCAL_FILE", "NO_REMOTE_OBJECT", "REMOTE_PATH_LENGTH", "FILE_WRITE_ERROR",
           "TRANSFER_PROTOCOL_ERROR", "BUFFER_OVERRUN", "CANCELED", "IO"}

(* The variables have values of their types; a header has its two words,   *)
(* and the buffer for data its size.                                       *)
TypeOK ==
  /\ channel \in {"closed", "open"} /\ buffered \in BOOLEAN
  /\ stream \in {"inStep", "interrupted", "late"}
  /\ op.kind \in {"pull", "pullPath", "push"} /\ op.pc \in Steps
  /\ op.result \in Errors \cup {"none", "ok"}
  /\ op.file \in File \cup {"none"} /\ ToSet(op.todo) \subseteq Entry \cup {Directory}
  /\ Len(op.header) = 2 /\ Len(op.data) \in {0, SYNC_DATA_MAX}
  /\ \A tree \in {host, files} :
       DOMAIN tree \subseteq File /\ \A f \in DOMAIN tree : ToSet(tree[f]) \subseteq Words
  /\ ToSet(down) \subseteq Words
  /\ device.link \in {"up", "gone", "stalled"}
  /\ device.state \in {"idle", "sending", "receiving"}
  /\ ops \in 0..MaxOps /\ faults \in 0..MaxFaults

Succeeded == op.pc = "idle" /\ op.result = "ok" /\ stream = "inStep"

(* A pull that succeeds, on a connection on which nothing was interrupted  *)
(* or timed out, has every file of the selection, whatever the chunks it   *)
(* came in; what is left of a longer file of that name is behind it        *)
(* (SyncService.cpp:351-387).                                              *)
PulledWhole ==
  Succeeded /\ op.kind # "push" =>
    \A f \in FilesOf(ToSet(op.args)) :
      LET old == IF f \in DOMAIN op.before THEN op.before[f] ELSE <<>> IN
      f \in DOMAIN host /\ host[f] = Overwritten(old, 0, files[f])

(* A push that succeeds has put every local file of the selection on the   *)
(* device, whether or not the last chunk was full                          *)
(* (SyncService.cpp:453-478).                                              *)
PushedWhole ==
  Succeeded /\ op.kind = "push" =>
    \A f \in FilesOf(ToSet(op.args)) \cap DOMAIN host : f \in DOMAIN files /\ files[f] = host[f]

(* Between two operations nothing is left to read, and the device waits    *)
(* for a request, or has yet to skip the rest of a file it refused: an     *)
(* operation that failed by the device's answer, or before it asked        *)
(* anything, leaves the connection fit for the next one                    *)
(* (SyncService.cpp:329-333, 489-516).                                     *)
InStep ==
  stream = "inStep" /\ channel = "open" /\ op.pc = "idle" /\ device.link = "up" =>
    /\ down = <<>>
    /\ IF up = <<>> THEN device.state = "idle"
       ELSE device.state = "receiving" /\ device.failed /\ Last(up).name = "DONE"

(* The client never waits for words of a device that is waiting for it.    *)
AnswerComes ==
  stream = "inStep" /\ device.link = "up" /\ Len(down) < Needed =>
    up # <<>> \/ device.state = "sending"

(* When the operation succeeds the monitor has been told of as much work   *)
(* as was announced; except where the size is not known, and for the push  *)
(* of directories (SyncService.cpp:234-270, 376-381).                      *)
ProgressAdds ==
  Succeeded /\ op.kind # "pullPath" /\ (op.kind = "push" => ToSet(op.args) \cap Dir = {}) =>
    monitor.advanced = monitor.total

(* What is reported as transferred is whole.                               *)
TransferredWhole == PulledWhole /\ PushedWhole

Busy == op.pc # "idle"

Stuck == op.pc \in {"undefined", "spinning"}

(* Every transfer ends, also one that finds on the connection what an      *)
(* interrupted one left there, if the device neither stalls nor hangs up,  *)
(* no answer is late, and the message of an error has a buffer to be read  *)
(* into (SyncService.cpp:352-387).                                         *)
TransferEnds == Busy ~> ~Busy \/ Stuck \/ stream = "late" \/ device.link = "stalled"
=============================================================================
