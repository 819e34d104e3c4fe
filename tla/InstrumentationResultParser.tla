-------------------- MODULE InstrumentationResultParser --------------------
(***************************************************************************)
(* What the parser of the output of a test run makes of each line, and     *)
(* what it tells its listeners.  A line is a sequence of tokens (module    *)
(* MultiLineReceiver); a prefix such as "INSTRUMENTATION_STATUS: " is one  *)
(* token, "STATUS".                                                        *)
(*                                                                         *)
(* A parser is a record; told are the calls a listener got and raised says *)
(* that an exception left the parser.  Metrics and texts are left out.     *)
(* Two details of the texts are not kept, neither of which matters to what *)
(* a listener is told: a key that parseKey cuts out (213) has, besides the *)
(* '=', the first of the value behind it; and the prefix of a failed run   *)
(* ends in a blank (31), so that a trimmed line of nothing else is not     *)
(* recognised, which FAILED is.                                            *)
(***************************************************************************)
EXTENDS Integers, Sequences, FiniteSetsExt

(* TestResult: whether it has a class and a test name, and two numbers     *)
NewResult == [code |-> 0, class |-> FALSE, test |-> FALSE, numTests |-> 0]

IsComplete(result) == result.code # 0 /\ result.class /\ result.test

START == 1
FAILURE == -2
ERRORS == -1
IN_PROGRESS == 2

NewParser ==
  [key |-> <<>>, value |-> <<>>, inResultKey |-> FALSE,
   current |-> NewResult, last |-> NewResult,
   startReported |-> FALSE, runFinished |-> FALSE, failReported |-> FALSE,
   expected |-> 0, run |-> 0, told |-> <<>>, raised |-> FALSE]

(* The keys of StatusKeys                                                  *)
CLASS == <<"class">>
TEST == <<"test">>
NUMTESTS == <<"numtests">>
ERROR == <<"Error">>
SHORTMSG == <<"shortMsg">>

KNOWN_KEYS == {}     \* declared, and never filled

(* NumberParser::parse accepts these; for anything else it throws a        *)
(* SyntaxException, which is not the DataFormatException that is caught.   *)
Numerals == {<<"0">>, <<"1">>, <<"2">>, <<"-1">>, <<"-2">>}

NumberOf(s) ==
  CASE s = <<"0">> -> 0 [] s = <<"1">> -> 1 [] s = <<"2">> -> 2
    [] s = <<"-1">> -> -1 [] s = <<"-2">> -> -2

Tell(p, calls) == [p EXCEPT !.told = @ \o calls]

-----------------------------------------------------------------------------

HandleTestRunFailed(p) ==
  LET test == IF IsComplete(p.last) /\ p.last.code = START
              THEN <<"testFailed", "testEnded">> ELSE <<>>
      start == IF p.startReported THEN <<>> ELSE <<"testRunStarted">>
  IN  [Tell(p, test \o start \o <<"testRunFailed", "testRunEnded">>)
         EXCEPT !.startReported = TRUE, !.failReported = TRUE]

(* The run gave no results, or fewer than it announced.                    *)
Incomplete(p) == ~(p.startReported \/ p.runFinished) \/ p.expected > p.run

(* Bug: after the report of a failed run the end is reported once more.    *)
M_HandleOutputDone(p) ==
  LET failed == IF Incomplete(p) THEN HandleTestRunFailed(p) ELSE p
  IN  Tell(failed, (IF failed.startReported THEN <<>> ELSE <<"testRunStarted">>) \o <<"testRunEnded">>)

HandleOutputDone(p) ==
  IF Incomplete(p) THEN HandleTestRunFailed(p)
  ELSE Tell(p, (IF p.startReported THEN <<>> ELSE <<"testRunStarted">>) \o <<"testRunEnded">>)

(* Bug: a run that never started is not reported.                          *)
M_Done(p) == IF p.startReported /\ ~p.failReported THEN HandleOutputDone(p) ELSE p

Done(p) == IF p.failReported THEN p ELSE HandleOutputDone(p)

-----------------------------------------------------------------------------

(* A key and its value are complete: they go where they belong.            *)
SubmitCurrentKeyValue(p) ==
  LET q == [p EXCEPT !.key = <<>>, !.value = <<>>]
  IN  IF p.key = <<>> \/ p.value = <<>> THEN p
      ELSE IF p.inResultKey
           THEN IF p.key \in KNOWN_KEYS /\ p.key = SHORTMSG THEN HandleTestRunFailed(q) ELSE q
      ELSE CASE p.key = CLASS    -> [q EXCEPT !.current.class = TRUE]
             [] p.key = TEST     -> [q EXCEPT !.current.test = TRUE]
             [] p.key = NUMTESTS -> IF p.value \in Numerals
                                    THEN [q EXCEPT !.current.numTests = NumberOf(p.value)]
                                    ELSE [p EXCEPT !.raised = TRUE]
             [] p.key = ERROR    -> HandleTestRunFailed(q)
             [] OTHER            -> q

(* substr(keyStartPos, endKeyPos): the key begins after the prefix and is  *)
(* as long as all that is before the "=", so that the "=" is part of it.   *)
ParseKey(p, line) ==
  LET ends == {i \in DOMAIN line : i > 1 /\ line[i] = "="}
      endKeyPos == Min(ends)
  IN  IF ends = {} THEN p
      ELSE [p EXCEPT !.key = SubSeq(line, 2, endKeyPos),
                     !.value = SubSeq(line, endKeyPos + 1, Len(line))]

ReportTestRunStarted(p, result) ==
  IF p.startReported \/ result.numTests = 0 THEN p
  ELSE [Tell(p, <<"testRunStarted">>) EXCEPT !.expected = result.numTests, !.startReported = TRUE]

ReportResult(p, result) ==
  LET q == ReportTestRunStarted(p, result)
  IN  IF ~IsComplete(result) THEN p
      ELSE IF result.code = START THEN Tell(q, <<"testStarted">>)
      ELSE [Tell(q, (IF result.code \in {FAILURE, ERRORS} THEN <<"testFailed">> ELSE <<>>)
                      \o <<"testEnded">>)
              EXCEPT !.run = @ + 1]

ParseStatusCode(p, line) ==
  LET code == SubSeq(line, 2, Len(line))
      result == [p.current EXCEPT !.code = NumberOf(code)]
  IN  IF code \notin Numerals
      THEN [p EXCEPT !.current.code = ERRORS, !.raised = TRUE]
      ELSE IF result.code = IN_PROGRESS THEN [p EXCEPT !.current = result]
      ELSE [ReportResult(p, result) EXCEPT !.last = result, !.current = NewResult]

(* parseTime: a number behind "Time: " that is not one throws.             *)
ParseTime(p, line) ==
  IF \E i \in 1..Len(line) - 1 : line[i] = "TIME" /\ line[i + 1] = "."
  THEN [p EXCEPT !.raised = TRUE] ELSE p

(* parse, of a parser that has not thrown                                  *)
Parse(p, line) ==
  LET submitted == SubmitCurrentKeyValue(p)
      q(inResult) == [submitted EXCEPT !.inResultKey = inResult]
      prefix == IF line = <<>> THEN "" ELSE line[1]
  IN  IF prefix \in {"STATUS_CODE", "STATUS", "RESULT", "FAILED", "CODE"}
      THEN IF submitted.raised THEN submitted
           ELSE CASE prefix = "STATUS_CODE" -> ParseStatusCode(q(FALSE), line)
                  [] prefix = "STATUS" -> ParseKey(q(FALSE), line)
                  [] prefix = "RESULT" -> ParseKey(q(TRUE), line)
                  [] prefix \in {"FAILED", "CODE"} -> [q(FALSE) EXCEPT !.runFinished = TRUE]
      ELSE IF \E i \in DOMAIN line : line[i] = "TIME" THEN ParseTime(p, line)
      ELSE IF p.value # <<>> THEN [p EXCEPT !.value = @ \o <<"CR", "LF">> \o line]
      ELSE p
=============================================================================
