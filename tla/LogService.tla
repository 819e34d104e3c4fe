----------------------------- MODULE LogService -----------------------------
(***************************************************************************)
(* AdbHelper::runLogService, which reads a log of the device until it is   *)
(* cancelled, and the LogReceiver that finds the entries in the chunks.    *)
(*                                                                         *)
(* The log is external: entries, each a header of ENTRY_HEADER_SIZE bytes  *)
(* and as many bytes of data as its header says.  It is the sequence of    *)
(* the places where the entries end, and a byte is its place in the log.   *)
(* Chunks are cut anywhere.                                                *)
(*                                                                         *)
(* The model begins when adb has accepted the request.  The exchange       *)
(* before it is that of ShellCommand.Connect, spinning included, and a     *)
(* cancellation does not end it.                                           *)
(***************************************************************************)
EXTENDS Integers, Sequences

CONSTANTS
  Logs,                \* what the device may write: sequences of ends of entries
  ENTRY_HEADER_SIZE,
  Garbage              \* what memory that was never written may hold, as a number

ASSUME LogAssumption ==
  /\ ENTRY_HEADER_SIZE \in Nat /\ ENTRY_HEADER_SIZE > 0
  /\ Logs \subseteq Seq(Nat)
  /\ \A l \in Logs : \A k \in DOMAIN l : /\ l[k] >= ENTRY_HEADER_SIZE
                                        /\ \A j \in 1..k - 1 : l[k] - l[j] >= ENTRY_HEADER_SIZE
  /\ Garbage \subseteq Int /\ 0 \in Garbage

VARIABLES
  log,        \* where the entries of the log end
  received,   \* how many of its bytes have been received
  chunk,      \* what parseNewData still has to look at
  entry,      \* m_pCurrentEntry, or NoEntry
  header,     \* the first mEntryHeaderOffset bytes of mEntryHeaderBuffer
  delivered,  \* the entries the listener got
  cancelled,  \* mIsCancelled
  pc          \* "loop", "receive", "parse", "returned"; "undefined" once memory that
              \* was not allocated has been written

reading == <<received, chunk, entry, header, delivered>>
vars == <<log, reading, cancelled, pc>>

NoEntry == [len |-> 0, room |-> 0, header |-> <<>>, data |-> <<>>]

(* A header that nobody has written                                        *)
NoHeader == <<0>>

(* new LogEntry: its length is not initialised and there is no data.       *)
Uninitialised(len) == [len |-> len, room |-> 0, header |-> NoHeader, data |-> <<>>]

(* The bytes behind place a up to place b, and those of the k-th entry     *)
Bytes(a, b) == [i \in 1..b - a |-> a + i]
End(k) == IF k = 0 THEN 0 ELSE log[k]
BytesOf(k) == Bytes(End(k - 1), End(k))

(* createEntry, from the header of the k-th entry.  (parseNewData calls it *)
(* with a whole header: the exception is out of its reach.)                *)
CreateEntry(bytes) ==
  LET k == CHOOSE k \in DOMAIN log : End(k - 1) < bytes[1] /\ bytes[1] <= End(k)
      len == End(k) - End(k - 1) - ENTRY_HEADER_SIZE
  IN  [len |-> len, room |-> len, header |-> bytes, data |-> <<>>]

Init ==
  /\ log \in Logs
  /\ received = 0
  /\ chunk = <<>>
  /\ entry = NoEntry
  /\ header = <<>>
  /\ delivered = <<>>
  /\ cancelled = FALSE
  /\ pc = "loop"

-----------------------------------------------------------------------------

(* Bug: nobody asks whether the receiver is cancelled.                     *)
M_Check ==
  /\ pc = "loop"
  /\ pc' = "receive"
  /\ UNCHANGED <<log, reading, cancelled>>

Check ==
  /\ pc = "loop"
  /\ pc' = IF cancelled THEN "returned" ELSE "receive"
  /\ UNCHANGED <<log, reading, cancelled>>

ReceiveData ==
  /\ pc = "receive"
  /\ \E n \in received + 1..End(Len(log)) :
       /\ chunk' = Bytes(received, n)
       /\ received' = n
  /\ pc' = "parse"
  /\ UNCHANGED <<log, entry, header, delivered, cancelled>>

(* read() has set a receive time out on the channel.                       *)
ReceiveTimeout ==
  /\ pc = "receive"
  /\ pc' = "loop"
  /\ UNCHANGED <<log, reading, cancelled>>

(* The end of the log, or an error of the connection                       *)
ReceiveEnd ==
  /\ pc = "receive"
  /\ pc' = "returned"
  /\ UNCHANGED <<log, reading, cancelled>>

-----------------------------------------------------------------------------
(***************************************************************************)
(* parseNewData, one round of its loop per step                            *)
(***************************************************************************)

(* Bytes are added to the data of e.                                       *)
WithData(e, bytes) == [e EXCEPT !.data = @ \o bytes]

(* Bug: an entry that ends with the chunk waits for the next one.          *)
M_TakeData(e, rest) ==
  LET missing == e.len - Len(e.data)
  IN  IF Len(rest) > missing /\ missing >= 0
      THEN /\ delivered' = Append(delivered, WithData(e, SubSeq(rest, 1, missing)))
           /\ entry' = NoEntry
           /\ chunk' = SubSeq(rest, missing + 1, Len(rest))
           /\ pc' = "parse"
      ELSE /\ entry' = WithData(e, rest)
           /\ chunk' = <<>>
           /\ pc' = "loop"
           /\ UNCHANGED delivered

(* The rest of the chunk goes into entry e, which is delivered when it is  *)
(* complete.  What is stored where there is no room destroys other memory. *)
TakeData(e, rest) ==
  LET missing == e.len - Len(e.data)
      stored == IF Len(rest) >= missing THEN missing ELSE Len(rest)
  IN  IF stored < 0 \/ Len(e.data) + stored > e.room
      THEN /\ pc' = "undefined"
           /\ UNCHANGED <<chunk, entry, delivered>>
      ELSE IF Len(rest) >= missing
      THEN /\ delivered' = Append(delivered, WithData(e, SubSeq(rest, 1, missing)))
           /\ entry' = NoEntry
           /\ chunk' = SubSeq(rest, missing + 1, Len(rest))
           /\ pc' = "parse"
      ELSE /\ entry' = WithData(e, rest)
           /\ chunk' = <<>>
           /\ pc' = "loop"
           /\ UNCHANGED delivered

ParseEnds ==
  /\ pc = "parse"
  /\ chunk = <<>> \/ cancelled
  /\ chunk' = <<>>
  /\ pc' = "loop"
  /\ UNCHANGED <<log, received, entry, header, delivered, cancelled>>

(* The header is not complete: it is saved, but by now m_pCurrentEntry is  *)
(* the new, uninitialised entry.                                           *)
ParsePartOfHeader ==
  /\ pc = "parse" /\ chunk # <<>> /\ ~cancelled
  /\ entry = NoEntry
  /\ Len(header) + Len(chunk) < ENTRY_HEADER_SIZE
  /\ \E len \in Garbage : entry' = Uninitialised(len)
  /\ header' = header \o chunk
  /\ chunk' = <<>>
  /\ pc' = "loop"
  /\ UNCHANGED <<log, received, delivered, cancelled>>

(* The header is complete, with what was saved of it; the data follow.     *)
ParseHeader ==
  /\ pc = "parse" /\ chunk # <<>> /\ ~cancelled
  /\ entry = NoEntry
  /\ Len(header) + Len(chunk) >= ENTRY_HEADER_SIZE
  /\ LET size == ENTRY_HEADER_SIZE - Len(header)
     IN  TakeData(CreateEntry(header \o SubSeq(chunk, 1, size)),
                  SubSeq(chunk, size + 1, Len(chunk)))
  /\ header' = <<>>
  /\ UNCHANGED <<log, received, cancelled>>

ParseData ==
  /\ pc = "parse" /\ chunk # <<>> /\ ~cancelled
  /\ entry # NoEntry
  /\ TakeData(entry, chunk)
  /\ UNCHANGED <<log, received, header, cancelled>>

-----------------------------------------------------------------------------

(* LogReceiver::cancel, by any thread or by the listener                   *)
Cancel ==
  /\ ~cancelled
  /\ cancelled' = TRUE
  /\ UNCHANGED <<log, reading, pc>>

Run ==
  \/ Check \/ ReceiveData \/ ReceiveTimeout \/ ReceiveEnd
  \/ ParseEnds \/ ParsePartOfHeader \/ ParseHeader \/ ParseData

Next == Run \/ Cancel

(* The thread that reads the log runs.                                     *)
Spec == Init /\ [][Next]_vars /\ WF_vars(Run)

-----------------------------------------------------------------------------
(***************************************************************************)
(* Properties                                                              *)
(***************************************************************************)

(* When the listener got the k-th entry                                    *)
Times(k) == {i \in DOMAIN delivered : delivered[i].header \o delivered[i].data = BytesOf(k)}

(* As long as no memory is destroyed, the entries of the log reach the     *)
(* listener whole, each once, in order and as soon as their last byte has  *)
(* been looked at, however the chunks are cut (LogReceiver::parseNewData); *)
(* what else it gets has no header.                                        *)
EntriesWhole ==
  pc # "undefined" =>
    /\ \A i \in DOMAIN delivered :
         delivered[i].header = NoHeader \/ \E k \in DOMAIN log : i \in Times(k)
    /\ \A k \in DOMAIN log : \A i, j \in Times(k) : i = j
    /\ \A k \in DOMAIN log : \A i \in Times(k), j \in 1..k - 1 : \E h \in Times(j) : h < i
    /\ ~cancelled => \A k \in DOMAIN log : End(k) <= received - Len(chunk) => Times(k) # {}

(* A cancelled service returns, even if the device says nothing more.      *)
CancelReturns == cancelled ~> (pc \in {"returned", "undefined"})
=============================================================================
