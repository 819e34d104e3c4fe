---------------------------- MODULE ShellCommand ----------------------------
(***************************************************************************)
(* One shell command that an application runs on a device and whose output *)
(* a receiver takes in: AdbHelper::executeRemoteCommand, and the two       *)
(* callers for which it matters how a command ended.  "tests" is           *)
(* RemoteAndroidTestRunner::run, whose receiver is an                      *)
(* InstrumentationResultParser; "install" is Device::installRemotePackage  *)
(* (and uninstallPackage) with an InstallReceiver.                         *)
(*                                                                         *)
(* The device is external: it sends its output in chunks of any size.      *)
(* A chunk is cut into lines first, one per step, and then the lines are   *)
(* processed, one per step.                                                *)
(* Another thread may cancel a test run.  Time passes in units of          *)
(* WAIT_TIME, one for each receive.                                        *)
(***************************************************************************)
EXTENDS MultiLineReceiver, InstrumentationResultParser, SequencesExt

CONSTANTS
  TestOutputs, InstallOutputs,   \* what the device may write before it closes
  Limits                         \* values of maxTimeToOutputResponse

ASSUME ShellAssumption ==
  /\ Limits \subseteq Nat
  /\ TestOutputs \subseteq Seq(STRING) /\ InstallOutputs \subseteq Seq(STRING)

VARIABLES
  caller,    \* "tests" or "install"
  limit,     \* maxTimeToOutputResponse
  output,    \* all that the device will write
  sent,      \* how much of it has been received
  receiver,  \* the lines
  processed, \* how many of the lines processNewLines has been through
  parser,    \* of the caller "tests"
  error,     \* mErrorMessage of the InstallReceiver: whether there is one
  cancelled, \* mIsCancelled
  waitCount,
  pc,        \* "connect" ("spinning" if it never ends), "loop", "receive",
             \* "cut" and "process" (addOutput), "flush", "returned"
  outcome    \* how the command ended, see Returns

consumers == <<receiver, processed, parser, error>>
vars == <<caller, limit, output, sent, consumers, cancelled, waitCount, pc, outcome>>

Init ==
  /\ \/ caller = "tests" /\ output \in TestOutputs
     \/ caller = "install" /\ output \in InstallOutputs
  /\ limit \in Limits
  /\ sent = 0
  /\ receiver = NewReceiver
  /\ processed = 0
  /\ parser = NewParser
  /\ error = FALSE
  /\ cancelled = FALSE
  /\ waitCount = 0
  /\ pc = "connect"
  /\ outcome = "none"

(* Only "thrown" is an exception; after all others the caller goes on as   *)
(* after a complete command.                                               *)
Returns(how) ==
  /\ how \in {"thrown", "cancelled", "cut", "eof", "error"}
  /\ pc' = "returned"
  /\ outcome' = how

(* processNewLines of the receiver, for one line                          *)
Process(line) ==
  CASE caller = "tests" -> parser' = Parse(parser, line) /\ UNCHANGED error
    [] caller = "install" -> /\ error' = (error \/ "Failure" \in ToSet(line))
                             /\ UNCHANGED parser

-----------------------------------------------------------------------------

(* The connection is made, the device chosen and the command accepted; or  *)
(* an exception passes, which the test runner reports to its listeners; or *)
(* adb closes the connection in the middle of an answer, and               *)
(* AdbHelper::read receives 0 bytes again and again.                       *)
Connect ==
  /\ pc = "connect"
  /\ \/ pc' \in {"loop", "spinning"} /\ UNCHANGED <<parser, outcome>>
     \/ /\ Returns("thrown")
        /\ parser' = IF caller = "tests" THEN HandleTestRunFailed(parser) ELSE parser
  /\ UNCHANGED <<caller, limit, output, sent, receiver, processed, error, cancelled, waitCount>>

(* Bug: the wait counts only once the time out has come.                   *)
M_Check ==
  /\ pc = "loop"
  /\ \/ cancelled /\ Returns("cancelled") /\ UNCHANGED waitCount
     \/ ~cancelled /\ waitCount > limit /\ Returns("cut") /\ UNCHANGED waitCount
     \/ /\ ~cancelled /\ waitCount <= limit
        /\ pc' = "receive"
        /\ UNCHANGED <<waitCount, outcome>>
  /\ UNCHANGED <<caller, limit, output, sent, consumers, cancelled>>

(* The head of the loop                                                    *)
Check ==
  /\ pc = "loop"
  /\ \/ /\ cancelled
        /\ Returns("cancelled")
        /\ UNCHANGED waitCount
     \/ /\ ~cancelled
        /\ waitCount' = waitCount + 1
        /\ \/ waitCount' > limit /\ Returns("cut")
           \/ waitCount' <= limit /\ pc' = "receive" /\ UNCHANGED outcome
  /\ UNCHANGED <<caller, limit, output, sent, consumers, cancelled>>

(* A chunk arrives.  A receiver that is cancelled ignores it.              *)
ReceiveData ==
  /\ pc = "receive"
  /\ \E n \in sent + 1..Len(output) :
       /\ sent' = n
       /\ IF cancelled THEN pc' = "loop" /\ waitCount' = 0 /\ UNCHANGED receiver
          ELSE /\ receiver' = Joined(receiver, SubSeq(output, sent + 1, n))
               /\ pc' = "cut"
               /\ UNCHANGED waitCount
  /\ UNCHANGED <<caller, limit, output, processed, parser, error, cancelled, outcome>>

(* addOutput splits the text, and processes the lines when all are found.  *)
Cut ==
  /\ pc = "cut"
  /\ IF HasLine(receiver) THEN receiver' = CutLine(receiver) /\ UNCHANGED pc
     ELSE pc' = "process" /\ UNCHANGED receiver
  /\ UNCHANGED <<caller, limit, output, sent, processed, parser, error, cancelled, waitCount, outcome>>

(* A line is processed.  A parser that throws ends the command.            *)
ProcessLine ==
  /\ pc \in {"process", "flush"}
  /\ processed < Len(receiver.lines)
  /\ processed' = processed + 1
  /\ Process(receiver.lines[processed'])
  /\ IF parser'.raised THEN Returns("error") ELSE UNCHANGED <<pc, outcome>>
  /\ UNCHANGED <<caller, limit, output, sent, receiver, cancelled, waitCount>>

(* addOutput returns.                                                      *)
Processed ==
  /\ pc = "process"
  /\ processed = Len(receiver.lines)
  /\ pc' = "loop"
  /\ waitCount' = 0
  /\ UNCHANGED <<caller, limit, output, sent, consumers, cancelled, outcome>>

(* The device closes the connection: flush, and in it done.                *)
ReceiveEnd ==
  /\ pc = "receive"
  /\ sent = Len(output)
  /\ receiver' = Flushed(receiver)
  /\ pc' = "flush"
  /\ UNCHANGED <<caller, limit, output, sent, processed, parser, error, cancelled, waitCount, outcome>>

FlushEnd ==
  /\ pc = "flush"
  /\ processed = Len(receiver.lines)
  /\ parser' = IF caller = "tests" THEN Done(parser) ELSE parser
  /\ Returns("eof")
  /\ UNCHANGED <<caller, limit, output, sent, receiver, processed, error, cancelled, waitCount>>

ReceiveTimeout ==
  /\ pc = "receive"
  /\ pc' = "loop"
  /\ UNCHANGED <<caller, limit, output, sent, consumers, cancelled, waitCount, outcome>>

ReceiveError ==
  /\ pc = "receive"
  /\ Returns("error")
  /\ UNCHANGED <<caller, limit, output, sent, consumers, cancelled, waitCount>>

(* RemoteAndroidTestRunner::cancel; an InstallReceiver cannot be cancelled.*)
Cancel ==
  /\ caller = "tests"
  /\ ~cancelled
  /\ cancelled' = TRUE
  /\ UNCHANGED <<caller, limit, output, sent, consumers, waitCount, pc, outcome>>

Run ==
  \/ Connect \/ Check \/ ReceiveTimeout \/ ReceiveError
  \/ ReceiveData \/ Cut \/ ProcessLine \/ Processed
  \/ ReceiveEnd \/ FlushEnd

Next == Run \/ Cancel

(* The application's thread runs; whether output, the end or a time out    *)
(* comes from a receive is up to the device.                               *)
Spec == Init /\ [][Next]_vars /\ WF_vars(Run)

-----------------------------------------------------------------------------
(***************************************************************************)
(* Properties                                                              *)
(***************************************************************************)

(* One terminator throughout; the last one may be cut off.                 *)
Uniform(s) ==
  \/ \A i \in DOMAIN s : s[i] # CR
  \/ \A i \in DOMAIN s : /\ s[i] = LF => i > 1 /\ s[i - 1] = CR
                         /\ s[i] = CR => i = Len(s) \/ s[i + 1] = LF

(* Where the k-th line of r begins                                         *)
Begin(r, k) == IF k = 1 THEN 0 ELSE r.ends[k - 1]

(* However the output is cut into chunks, the lines are its consecutive    *)
(* pieces, trimmed: nothing is lost, put twice or moved.  If all lines end *)
(* alike, a line ends wherever the output has an LF.  When all that has    *)
(* arrived is processed, what is not a line has none, and it is handed on, *)
(* if anything, when the device closes (MultiLineReceiver).                *)
LinesWhole ==
  LET r == receiver
      rest == SubSeq(output, Behind(r) + 1, sent)
      more == SubSeq(r.lines, Len(r.ends) + 1, Len(r.lines))
  IN  /\ \A k \in DOMAIN r.ends :
           /\ Begin(r, k) < r.ends[k] /\ r.ends[k] <= sent
           /\ r.lines[k] = Trim(SubSeq(output, Begin(r, k) + 1, r.ends[k]))
      /\ Uniform(output) => \A i \in 1..Behind(r) : output[i] = LF <=> i \in ToSet(r.ends)
      /\ ~cancelled /\ pc \in {"loop", "receive", "returned"} /\ outcome # "error" =>
           /\ LF \notin ToSet(rest)
           /\ more = IF outcome = "eof" /\ rest # <<>> THEN <<rest>> ELSE <<>>

(* The listeners of a test run hear of its start once and first, and of    *)
(* its end once and last; a failure is the last thing before the end.      *)
RunReportedOnce ==
  \A i \in DOMAIN parser.told :
    /\ (parser.told[i] = "testRunStarted") <=> (i = 1)
    /\ parser.told[i] = "testRunEnded" => i = Len(parser.told)
    /\ parser.told[i] = "testRunFailed" => i + 1 = Len(parser.told)

(* When the device closed the connection, or an exception passed, the      *)
(* listeners have heard that the run ended.  (After a cancellation, a time *)
(* out or an error they never do.)                                         *)
RunConcluded ==
  caller = "tests" /\ outcome \in {"eof", "thrown"} =>
    parser.told # <<>> /\ Last(parser.told) = "testRunEnded"

(* Whatever the device writes and wherever the run is cut off, its         *)
(* listeners hear of its start and its end at most once and in order, and, *)
(* if the device closed the connection or an exception passed, of both     *)
(* (ITestRunListener, InstrumentationResultParser.cpp:335-386).            *)
RunReported == RunReportedOnce /\ RunConcluded

(* An installation that failed is reported as failed, if all of the output *)
(* came, in whatever chunks and with or without the last line's end.       *)
FailureSeen ==
  caller = "install" /\ outcome = "eof" => (error <=> "Failure" \in ToSet(output))

(* A command that prints finitely much returns, even if the device then    *)
(* says nothing any more.  Only while it is being sent can it hang, in     *)
(* AdbHelper::read at the end of the stream.                               *)
CommandReturns == <>(pc = "returned") \/ <>[](pc = "spinning")

(* AdbHelper.hpp: "A value of 0 means the method will wait forever for     *)
(* command output".  The code gives up at once.                            *)
ZeroWaitsForever == limit = 0 => outcome # "cut"
=============================================================================
