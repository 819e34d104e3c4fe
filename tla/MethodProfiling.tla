--------------------------- MODULE MethodProfiling ---------------------------
(***************************************************************************)
(* The method profiling of one client: Client::toggleMethodProfiling, that *)
(* any thread of the application calls (A_...), HandleProfiling's handlers *)
(* and HandleHello's, that run in the reactor's thread (R_...), and,       *)
(* external, the client's virtual machine (V_...), which answers requests  *)
(* in the order in which they come.                                        *)
(*                                                                         *)
(* A started profiling is answered by an empty packet, which no handler    *)
(* gets to see; the model leaves it out.  It has one thread of the         *)
(* application in toggleMethodProfiling at a time, and its requests can be *)
(* sent: the IOException that Client.cpp:171 swallows is left out.         *)
(***************************************************************************)
EXTENDS Naturals, Sequences

CONSTANT MaxCalls     \* bound: how often the application calls

ASSUME ProfilingAssumption == MaxCalls \in Nat

VARIABLES
  status,      \* mProfilingStatus
  pending,     \* mPendingMethodProfiling: whether a file name is recorded
  canStream,   \* whether FEATURE_PROFILING_STREAMING is known of the client
  app,         \* where a call is: "idle", "record" or "query"
  reactor,     \* the chunk being handled and, once it has been read, whether pending
               \* held a name; see Idle
  requests,    \* on their way to the machine
  replies,     \* on their way to the reactor
  vmStreams, vmProfiling,
  told,        \* the last call of the IMethodProfilingHandler
  disturbed,   \* whether a call was made before all was quiet, or the machine was
               \* already profiling for somebody else
  calls

clientVars == <<status, pending, canStream>>
vmVars == <<vmStreams, vmProfiling>>
vars == <<clientVars, app, reactor, requests, replies, vmVars, told, disturbed, calls>>

Idle == [chunk |-> "none", value |-> FALSE, file |-> FALSE]

Reply(chunk, value) == [chunk |-> chunk, value |-> value]

Quiet == requests = <<>> /\ replies = <<>> /\ app = "idle" /\ reactor = Idle

(* sendHelloCommands has been called.                                      *)
Init ==
  /\ status = "UNKNOWN"
  /\ pending = FALSE
  /\ canStream = FALSE
  /\ app = "idle"
  /\ reactor = Idle
  /\ requests = <<"FEAT", "MPRQ">>
  /\ replies = <<>>
  /\ vmStreams \in BOOLEAN
  /\ vmProfiling \in BOOLEAN
  /\ told = "nothing"
  /\ disturbed = vmProfiling
  /\ calls = 0

-----------------------------------------------------------------------------
(***************************************************************************)
(* The application                                                         *)
(***************************************************************************)

Call ==
  /\ app = "idle"
  /\ calls < MaxCalls
  /\ calls' = calls + 1
  /\ disturbed' = (disturbed \/ ~Quiet)
  /\ UNCHANGED <<clientVars, reactor, replies, vmVars, told>>

(* sendMPSE, sendMPRE                                                      *)
A_ToggleOff ==
  /\ Call
  /\ status = "ON"
  /\ requests' = Append(requests, IF canStream THEN "MPSE" ELSE "MPRE")
  /\ UNCHANGED app

(* sendMPSS and sendMPRS, up to the end of the first sendAndConsume        *)
A_ToggleOn ==
  /\ Call
  /\ status # "ON"
  /\ requests' = Append(requests, IF canStream THEN "MPSS" ELSE "MPRS")
  /\ app' = IF canStream THEN "query" ELSE "record"

A_RequestStatus ==
  /\ Call
  /\ requests' = Append(requests, "MPRQ")
  /\ UNCHANGED app

(* Bug: the name of the file is not recorded.                              *)
M_A_Record ==
  /\ app = "record"
  /\ app' = "query"
  /\ UNCHANGED <<clientVars, reactor, requests, replies, vmVars, told, disturbed, calls>>

A_Record ==
  /\ app = "record"
  /\ pending' = TRUE
  /\ app' = "query"
  /\ UNCHANGED <<status, canStream, reactor, requests, replies, vmVars, told, disturbed, calls>>

(* Bug: no status query after the start.                                   *)
M_A_Query ==
  /\ app = "query"
  /\ app' = "idle"
  /\ UNCHANGED <<clientVars, reactor, requests, replies, vmVars, told, disturbed, calls>>

A_Query ==
  /\ app = "query"
  /\ requests' = Append(requests, "MPRQ")
  /\ app' = "idle"
  /\ UNCHANGED <<clientVars, reactor, replies, vmVars, told, disturbed, calls>>

-----------------------------------------------------------------------------
(***************************************************************************)
(* The reactor                                                             *)
(***************************************************************************)

(* handleChunk; handleMPRE and handleFAIL read the name of the file.       *)
R_Chunk ==
  /\ reactor = Idle
  /\ replies # <<>>
  /\ reactor' = [chunk |-> Head(replies).chunk, value |-> Head(replies).value, file |-> pending]
  /\ replies' = Tail(replies)
  /\ UNCHANGED <<clientVars, app, requests, vmVars, told, disturbed, calls>>

Handled(chunk) ==
  /\ reactor.chunk = chunk
  /\ reactor' = Idle
  /\ UNCHANGED <<app, replies, vmVars, disturbed, calls>>

R_FEAT ==
  /\ Handled("FEAT")
  /\ canStream' = reactor.value
  /\ UNCHANGED <<status, pending, requests, told>>

R_MPRQ ==
  /\ Handled("MPRQ")
  /\ status' = IF reactor.value THEN "ON" ELSE "OFF"
  /\ UNCHANGED <<pending, canStream, requests, told>>

(* value says that the machine ended the profiling well.                   *)
R_MPRE ==
  /\ Handled("MPRE")
  /\ pending' = FALSE
  /\ told' = IF ~reactor.value THEN "onEndFailure"
             ELSE IF reactor.file THEN "onSuccess" ELSE "onSuccess of no file"
  /\ status' = "OFF"
  /\ UNCHANGED <<canStream, requests>>

R_MPSE ==
  /\ Handled("MPSE")
  /\ told' = "onSuccess with data"
  /\ status' = "OFF"
  /\ UNCHANGED <<pending, canStream, requests>>

(* handleFAIL takes it for the start that failed if a file is pending.     *)
R_FAIL ==
  /\ Handled("FAIL")
  /\ pending' = IF reactor.file THEN FALSE ELSE pending
  /\ told' = IF reactor.file THEN "onStartFailure" ELSE "onEndFailure"
  /\ requests' = Append(requests, "MPRQ")
  /\ UNCHANGED <<status, canStream>>

-----------------------------------------------------------------------------
(***************************************************************************)
(* The virtual machine                                                     *)
(***************************************************************************)

(* The machine takes the next request, one of kinds, and answers.          *)
Answers(kinds, answer) ==
  /\ requests # <<>> /\ Head(requests) \in kinds
  /\ requests' = Tail(requests)
  /\ replies' = replies \o answer
  /\ UNCHANGED <<clientVars, app, reactor, vmStreams, told, disturbed, calls>>

V_Query ==
  \/ Answers({"FEAT"}, <<Reply("FEAT", vmStreams)>>) /\ UNCHANGED vmProfiling
  \/ Answers({"MPRQ"}, <<Reply("MPRQ", vmProfiling)>>) /\ UNCHANGED vmProfiling

V_Start ==
  /\ Answers({"MPRS", "MPSS"}, <<>>)
  /\ vmProfiling' = TRUE

V_Fail ==
  /\ Answers({"MPRS", "MPSS", "MPSE"}, <<Reply("FAIL", FALSE)>>)
  /\ UNCHANGED vmProfiling

V_End ==
  /\ \/ \E ok \in BOOLEAN : Answers({"MPRE"}, <<Reply("MPRE", ok /\ vmProfiling)>>)
     \/ Answers({"MPSE"}, <<Reply("MPSE", TRUE)>>)
  /\ vmProfiling' = FALSE

-----------------------------------------------------------------------------

Next ==
  \/ A_ToggleOff \/ A_ToggleOn \/ A_RequestStatus \/ A_Record \/ A_Query
  \/ R_Chunk \/ R_FEAT \/ R_MPRQ \/ R_MPRE \/ R_MPSE \/ R_FAIL
  \/ V_Query \/ V_Start \/ V_Fail \/ V_End

Spec == Init /\ [][Next]_vars

-----------------------------------------------------------------------------
(***************************************************************************)
(* Properties                                                              *)
(***************************************************************************)

(* Whenever nothing is under way any more, the status that the client      *)
(* shows is that of the machine, however the calls, the failures and the   *)
(* answers of the machine came together (HandleProfiling).                 *)
StatusAgrees == Quiet => status = (IF vmProfiling THEN "ON" ELSE "OFF")

(* An application that waits for its calls to be finished is told the name *)
(* of the file with each success of its own: a failure that was handled    *)
(* before the name was recorded does no harm to a later profiling          *)
(* (sendMPRS, handleFAIL).                                                 *)
SuccessNamesFile == ~disturbed => told # "onSuccess of no file"
=============================================================================
