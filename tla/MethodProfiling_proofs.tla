----------------------- MODULE MethodProfiling_proofs -----------------------
(***************************************************************************)
(* The status that the client shows is that of the machine whenever all is *)
(* quiet, and an application that waits for its calls is told the name of  *)
(* the file with every success, for any number of calls.                   *)
(*                                                                         *)
(* What is inductive for the status: either a query of it is still to come *)
(* (Asked), or the answers that are under way end with one that shows the  *)
(* status of the machine (Agrees).  A machine that starts to profile does  *)
(* not say so, so a query must be behind every request to start, or about  *)
(* to be sent (StartsAsked).                                               *)
(*                                                                         *)
(* For the name (NameInv): a machine that streams is never asked to write  *)
(* a file; for another, the request that starts or ends a profiling, or    *)
(* the answer to it, is the first of what is under way, so that the name   *)
(* an end finds is that of the start before it.                            *)
(***************************************************************************)
EXTENDS MethodProfiling, TLAPS

Requests == {"FEAT", "MPRQ", "MPRS", "MPSS", "MPRE", "MPSE"}
Chunks == {"FEAT", "MPRQ", "MPRE", "MPSE", "FAIL"}
Replies == [chunk : Chunks, value : BOOLEAN]
Handling == [chunk : Chunks \cup {"none"}, value : BOOLEAN, file : BOOLEAN]

Types ==
  /\ requests \in Seq(Requests)
  /\ replies \in Seq(Replies)
  /\ reactor \in Handling
  /\ app \in {"idle", "record", "query"}
  /\ pending \in BOOLEAN /\ vmStreams \in BOOLEAN /\ vmProfiling \in BOOLEAN

Queries(s) == \E i \in DOMAIN s : s[i] = "MPRQ"
Fails(s) == \E i \in DOMAIN s : s[i].chunk = "FAIL"

Asked == app # "idle" \/ Queries(requests) \/ Fails(replies) \/ reactor.chunk = "FAIL"

StartsAsked ==
  app # "idle" \/
    \A i \in DOMAIN requests :
      requests[i] \in {"MPRS", "MPSS"} => \E j \in DOMAIN requests : i < j /\ requests[j] = "MPRQ"

(* The status after an answer that sets it.                                *)
Settles(m) == m.chunk \in {"MPRQ", "MPRE", "MPSE"}
Shown(m) == IF m.chunk = "MPRQ" /\ m.value THEN "ON" ELSE "OFF"
VmStatus == IF vmProfiling THEN "ON" ELSE "OFF"

NoneSettles(s, first) == \A j \in DOMAIN s : j >= first => ~Settles(s[j])

Agrees ==
  \/ \E k \in DOMAIN replies :
       Settles(replies[k]) /\ Shown(replies[k]) = VmStatus /\ NoneSettles(replies, k + 1)
  \/ /\ NoneSettles(replies, 1)
     /\ (IF Settles(reactor) THEN Shown(reactor) ELSE status) = VmStatus

StatusInv == Types /\ StartsAsked /\ (Asked \/ Agrees)

-----------------------------------------------------------------------------
(* What appending and taking off do to the requests.                       *)
LEMMA AppendedRequest ==
  ASSUME Types, StartsAsked, NEW x \in Requests, requests' = Append(requests, x)
  PROVE  /\ requests' \in Seq(Requests)
         /\ Queries(requests) => Queries(requests')
         /\ x = "MPRQ" => Queries(requests')
         /\ x = "MPRQ" => StartsAsked'
         /\ app = "idle" /\ x \notin {"MPRS", "MPSS"} => StartsAsked'
<1> DEFINE n == Len(requests)
<1>1. /\ n \in Nat /\ Len(requests') = n + 1 /\ requests'[n + 1] = x
      /\ \A i \in 1..n : requests'[i] = requests[i]
      /\ DOMAIN requests = 1..n /\ DOMAIN requests' = 1..(n + 1)
      /\ requests' \in Seq(Requests)
  BY DEF Types
<1> HIDE DEF n
<1>2. Queries(requests) => Queries(requests')
  BY <1>1 DEF Queries
<1>3. x = "MPRQ" => Queries(requests')
  BY <1>1 DEF Queries
<1>4. ASSUME x = "MPRQ" PROVE StartsAsked'
  <2> SUFFICES ASSUME NEW i \in DOMAIN requests', requests'[i] \in {"MPRS", "MPSS"}
               PROVE  \E j \in DOMAIN requests' : i < j /\ requests'[j] = "MPRQ"
    BY DEF StartsAsked
  <2>1. i < n + 1
    BY <1>1, <1>4
  <2> QED
    BY <1>1, <1>4, <2>1
<1>5. ASSUME app = "idle", x \notin {"MPRS", "MPSS"} PROVE StartsAsked'
  <2> SUFFICES ASSUME NEW i \in DOMAIN requests', requests'[i] \in {"MPRS", "MPSS"}
               PROVE  \E j \in DOMAIN requests' : i < j /\ requests'[j] = "MPRQ"
    BY DEF StartsAsked
  <2>1. i \in 1..n /\ requests[i] \in {"MPRS", "MPSS"}
    BY <1>1, <1>5
  <2>2. PICK j \in DOMAIN requests : i < j /\ requests[j] = "MPRQ"
    BY <1>1, <1>5, <2>1 DEF StartsAsked
  <2> QED
    BY <1>1, <2>2
<1> QED
  BY <1>1, <1>2, <1>3, <1>4, <1>5

(* What taking off the next request does.                                  *)
LEMMA TakenRequest ==
  ASSUME Types, StartsAsked, requests # <<>>, requests' = Tail(requests), UNCHANGED app
  PROVE  /\ requests' \in Seq(Requests)
         /\ StartsAsked'
         /\ Head(requests) \in Requests
         /\ Head(requests) # "MPRQ" /\ Queries(requests) => Queries(requests')
         /\ Head(requests) \in {"MPRS", "MPSS"} => app # "idle" \/ Queries(requests')
<1> DEFINE n == Len(requests)
<1>1. /\ n \in Nat /\ n > 0 /\ Len(requests') = n - 1 /\ Head(requests) = requests[1]
      /\ \A i \in 1..(n - 1) : requests'[i] = requests[i + 1]
      /\ DOMAIN requests = 1..n /\ DOMAIN requests' = 1..(n - 1)
      /\ requests' \in Seq(Requests) /\ Head(requests) \in Requests
  BY DEF Types
<1> HIDE DEF n
<1>2. \A j \in DOMAIN requests : j > 1 => j - 1 \in DOMAIN requests' /\ requests'[j - 1] = requests[j]
  BY <1>1
<1>3. StartsAsked'
  <2> SUFFICES ASSUME app = "idle",
                      NEW i \in DOMAIN requests', requests'[i] \in {"MPRS", "MPSS"}
               PROVE  \E j \in DOMAIN requests' : i < j /\ requests'[j] = "MPRQ"
    BY DEF StartsAsked
  <2>1. i + 1 \in DOMAIN requests /\ requests[i + 1] \in {"MPRS", "MPSS"}
    BY <1>1
  <2>2. PICK j \in DOMAIN requests : i + 1 < j /\ requests[j] = "MPRQ"
    BY <2>1 DEF StartsAsked
  <2>3. j - 1 \in DOMAIN requests' /\ requests'[j - 1] = "MPRQ"
    BY <1>1, <1>2, <2>2
  <2>4. i < j - 1
    BY <1>1, <2>2
  <2> QED
    BY <2>3, <2>4
<1>4. ASSUME Head(requests) # "MPRQ", Queries(requests) PROVE Queries(requests')
  <2>1. PICK j \in DOMAIN requests : requests[j] = "MPRQ"
    BY <1>4 DEF Queries
  <2>2. j > 1
    BY <1>1, <1>4, <2>1
  <2> QED
    BY <1>2, <2>1, <2>2 DEF Queries
<1>5. ASSUME Head(requests) \in {"MPRS", "MPSS"}, app = "idle" PROVE Queries(requests')
  <2>1. PICK j \in DOMAIN requests : 1 < j /\ requests[j] = "MPRQ"
    BY <1>1, <1>5 DEF StartsAsked
  <2> QED
    BY <1>2, <2>1 DEF Queries
<1> QED
  BY <1>1, <1>3, <1>4, <1>5

(* What a new answer does to those under way.                              *)
LEMMA AppendedReply ==
  ASSUME Types, NEW m \in Replies, replies' = replies \o <<m>>, UNCHANGED <<reactor, status>>
  PROVE  /\ replies' \in Seq(Replies)
         /\ Fails(replies) \/ m.chunk = "FAIL" => Fails(replies')
         /\ Settles(m) /\ Shown(m) = VmStatus' => Agrees'
         /\ ~Settles(m) /\ Agrees /\ UNCHANGED vmProfiling => Agrees'
<1> DEFINE n == Len(replies)
<1>1. /\ n \in Nat /\ Len(replies') = n + 1 /\ replies'[n + 1] = m
      /\ \A i \in 1..n : replies'[i] = replies[i]
      /\ DOMAIN replies = 1..n /\ DOMAIN replies' = 1..(n + 1)
      /\ replies' \in Seq(Replies)
  BY DEF Types
<1> HIDE DEF n
<1>2. Fails(replies) \/ m.chunk = "FAIL" => Fails(replies')
  BY <1>1 DEF Fails
<1>3. ASSUME Settles(m), Shown(m) = VmStatus' PROVE Agrees'
  <2>1. NoneSettles(replies', n + 2)
    BY <1>1 DEF NoneSettles
  <2> QED
    BY <1>1, <1>3, <2>1 DEF Agrees
<1>4. ASSUME ~Settles(m), Agrees, UNCHANGED vmProfiling PROVE Agrees'
  <2>1. \A first \in Nat : NoneSettles(replies, first) => NoneSettles(replies', first)
    BY <1>1, <1>4 DEF NoneSettles
  <2>2. VmStatus' = VmStatus
    BY <1>4 DEF VmStatus
  <2>3. CASE \E k \in DOMAIN replies :
               Settles(replies[k]) /\ Shown(replies[k]) = VmStatus /\ NoneSettles(replies, k + 1)
    <3>1. PICK k \in DOMAIN replies :
            Settles(replies[k]) /\ Shown(replies[k]) = VmStatus /\ NoneSettles(replies, k + 1)
      BY <2>3
    <3>2. k \in DOMAIN replies' /\ replies'[k] = replies[k] /\ k + 1 \in Nat
      BY <1>1
    <3> QED
      BY <2>1, <2>2, <3>1, <3>2 DEF Agrees
  <2>4. CASE /\ NoneSettles(replies, 1)
             /\ (IF Settles(reactor) THEN Shown(reactor) ELSE status) = VmStatus
    BY <2>1, <2>2, <2>4 DEF Agrees
  <2> QED
    BY <1>4, <2>3, <2>4 DEF Agrees
<1> QED
  BY <1>1, <1>2, <1>3, <1>4

-----------------------------------------------------------------------------
(* sendHelloCommands asks for the status.                                  *)
LEMMA InitStatusInv == Init => StatusInv
<1> SUFFICES ASSUME Init PROVE StatusInv
  OBVIOUS
<1>1. requests = <<"FEAT", "MPRQ">>
  BY DEF Init
<1>2. Types
  <2>1. requests \in Seq(Requests)
    BY <1>1 DEF Requests
  <2>2. replies \in Seq(Replies)
    BY DEF Init
  <2>3. Idle \in Handling
    BY DEF Idle, Handling
  <2> QED
    BY <2>1, <2>2, <2>3 DEF Init, Types
<1>3. StartsAsked
  BY <1>1 DEF StartsAsked
<1>4. Queries(requests)
  <2>1. 2 \in DOMAIN requests /\ requests[2] = "MPRQ"
    BY <1>1
  <2> QED
    BY <2>1 DEF Queries
<1> QED
  BY <1>2, <1>3, <1>4 DEF StatusInv, Asked

(* The application's calls: a start is followed by a query.                *)
LEMMA AppStatusInv ==
  ASSUME StatusInv,
         A_ToggleOff \/ A_ToggleOn \/ A_RequestStatus \/ A_Record \/ A_Query
  PROVE  StatusInv'
<1> USE DEF StatusInv
<1>1. CASE A_ToggleOff \/ A_RequestStatus
  <2>1. /\ app = "idle"
        /\ UNCHANGED <<clientVars, app, reactor, replies, vmVars>>
        /\ \E x \in {"MPSE", "MPRE", "MPRQ"} : requests' = Append(requests, x)
    BY <1>1 DEF A_ToggleOff, A_RequestStatus, Call
  <2>2. PICK x \in {"MPSE", "MPRE", "MPRQ"} : requests' = Append(requests, x)
    BY <2>1
  <2>3. x \in Requests
    BY DEF Requests
  <2>4. /\ requests' \in Seq(Requests) /\ StartsAsked'
        /\ Queries(requests) => Queries(requests')
    BY <2>1, <2>2, <2>3, AppendedRequest
  <2>5. Types'
    BY <2>1, <2>4 DEF Types, clientVars, vmVars
  <2>6. Asked => Asked'
    BY <2>1, <2>4 DEF Asked
  <2>7. Agrees => Agrees'
    BY <2>1 DEF Agrees, NoneSettles, VmStatus, Shown, Settles, clientVars, vmVars
  <2> QED
    BY <2>4, <2>5, <2>6, <2>7
<1>2. CASE A_ToggleOn
  <2>1. /\ app' \in {"record", "query"}
        /\ UNCHANGED <<clientVars, reactor, replies, vmVars>>
        /\ \E x \in {"MPSS", "MPRS"} : requests' = Append(requests, x)
    BY <1>2 DEF A_ToggleOn, Call
  <2>2. requests' \in Seq(Requests)
    BY <2>1 DEF Types, Requests
  <2>3. Types'
    BY <2>1, <2>2 DEF Types, clientVars, vmVars
  <2> QED
    BY <2>1, <2>3 DEF StartsAsked, Asked
<1>3. CASE A_Record
  <2>1. app' = "query" /\ Types'
    BY <1>3 DEF A_Record, Types, vmVars
  <2> QED
    BY <2>1 DEF StartsAsked, Asked
<1>4. CASE A_Query
  <2>1. requests' = Append(requests, "MPRQ") /\ app' = "idle"
    BY <1>4 DEF A_Query
  <2>2. requests' \in Seq(Requests) /\ Queries(requests') /\ StartsAsked'
    BY <2>1, AppendedRequest DEF Requests
  <2>3. Types'
    BY <1>4, <2>1, <2>2 DEF A_Query, Types, clientVars, vmVars
  <2> QED
    BY <2>2, <2>3 DEF Asked
<1> QED
  BY <1>1, <1>2, <1>3, <1>4

(* The reactor takes an answer: it is still under way.                     *)
LEMMA ChunkStatusInv ==
  ASSUME StatusInv, R_Chunk PROVE StatusInv'
<1> USE DEF StatusInv
<1> DEFINE n == Len(replies)
<1>1. /\ replies # <<>> /\ replies' = Tail(replies) /\ reactor = Idle
      /\ reactor' = [chunk |-> Head(replies).chunk, value |-> Head(replies).value, file |-> pending]
      /\ UNCHANGED <<clientVars, app, requests, vmVars>>
  BY DEF R_Chunk
<1>2. /\ n \in Nat /\ n > 0 /\ Len(replies') = n - 1 /\ Head(replies) = replies[1]
      /\ \A i \in 1..(n - 1) : replies'[i] = replies[i + 1]
      /\ DOMAIN replies = 1..n /\ DOMAIN replies' = 1..(n - 1)
      /\ replies' \in Seq(Replies) /\ Head(replies) \in Replies
  BY <1>1 DEF Types
<1> HIDE DEF n
<1>3. reactor' \in Handling
  BY <1>1, <1>2 DEF Types, Replies, Handling
<1>4. Types'
  BY <1>1, <1>2, <1>3 DEF Types, clientVars, vmVars
<1>5. StartsAsked'
  BY <1>1 DEF StartsAsked
<1>6. \A j \in DOMAIN replies : j > 1 => j - 1 \in DOMAIN replies' /\ replies'[j - 1] = replies[j]
  BY <1>2
<1>7. Asked => Asked'
  <2>1. ASSUME Fails(replies) PROVE Fails(replies') \/ reactor'.chunk = "FAIL"
    <3>1. PICK i \in DOMAIN replies : replies[i].chunk = "FAIL"
      BY <2>1 DEF Fails
    <3>2. CASE i = 1
      BY <1>1, <1>2, <3>1, <3>2
    <3>3. CASE i > 1
      BY <1>6, <3>1, <3>3 DEF Fails
    <3> QED
      BY <1>2, <3>2, <3>3
  <2>2. reactor.chunk # "FAIL"
    BY <1>1 DEF Idle
  <2> QED
    BY <1>1, <2>1, <2>2 DEF Asked
<1>8. /\ Settles(reactor)' <=> Settles(replies[1])
      /\ Shown(reactor)' = Shown(replies[1])
      /\ ~Settles(reactor)
      /\ VmStatus' = VmStatus /\ status' = status
  BY <1>1, <1>2 DEF Settles, Shown, Idle, VmStatus, clientVars, vmVars
<1>9. \A first \in Nat : NoneSettles(replies, first + 1) => NoneSettles(replies', first)
  BY <1>2 DEF NoneSettles
<1>10. Agrees => Agrees'
  <2>1. CASE \E k \in DOMAIN replies :
               Settles(replies[k]) /\ Shown(replies[k]) = VmStatus /\ NoneSettles(replies, k + 1)
    <3>1. PICK k \in DOMAIN replies :
            Settles(replies[k]) /\ Shown(replies[k]) = VmStatus /\ NoneSettles(replies, k + 1)
      BY <2>1
    <3>2. k \in Nat /\ NoneSettles(replies', k)
      BY <1>2, <1>9, <3>1
    <3>3. CASE k = 1
      BY <1>8, <3>1, <3>2, <3>3 DEF Agrees
    <3>4. CASE k > 1
      <4>1. k - 1 \in DOMAIN replies' /\ replies'[k - 1] = replies[k] /\ (k - 1) + 1 = k
        BY <1>2, <1>6, <3>4
      <4> QED
        BY <1>8, <3>1, <3>2, <4>1 DEF Agrees
    <3> QED
      BY <1>2, <3>3, <3>4
  <2>2. CASE NoneSettles(replies, 1) /\ status = VmStatus
    <3>1. ~Settles(replies[1]) /\ NoneSettles(replies', 1)
      BY <1>2, <2>2 DEF NoneSettles
    <3> QED
      BY <1>8, <2>2, <3>1 DEF Agrees
  <2> QED
    BY <1>8, <2>1, <2>2 DEF Agrees
<1> QED
  BY <1>4, <1>5, <1>7, <1>10

(* The handlers: the status becomes what the answer shows, and a failure   *)
(* is followed by a query.                                                 *)
LEMMA HandlerStatusInv ==
  ASSUME StatusInv, R_FEAT \/ R_MPRQ \/ R_MPRE \/ R_MPSE \/ R_FAIL
  PROVE  StatusInv'
<1> USE DEF StatusInv
<1>1. reactor' = Idle /\ UNCHANGED <<app, replies, vmVars>>
  BY DEF R_FEAT, R_MPRQ, R_MPRE, R_MPSE, R_FAIL, Handled
<1>2. /\ Idle \in Handling /\ ~Settles(Idle) /\ pending' \in BOOLEAN
  BY DEF Idle, Handling, Chunks, Settles, Types, R_FEAT, R_MPRQ, R_MPRE, R_MPSE, R_FAIL
<1>3. CASE R_FAIL
  <2>1. requests' = Append(requests, "MPRQ")
    BY <1>3 DEF R_FAIL
  <2>2. requests' \in Seq(Requests) /\ Queries(requests') /\ StartsAsked'
    BY <2>1, AppendedRequest DEF Requests
  <2>3. Types'
    BY <1>1, <1>2, <2>2 DEF Types, vmVars
  <2> QED
    BY <2>2, <2>3 DEF Asked
<1>4. CASE R_FEAT \/ R_MPRQ \/ R_MPRE \/ R_MPSE
  <2>1. UNCHANGED requests /\ reactor.chunk # "FAIL"
    BY <1>4 DEF R_FEAT, R_MPRQ, R_MPRE, R_MPSE, Handled
  <2>2. Types'
    BY <1>1, <1>2, <2>1 DEF Types, vmVars
  <2>3. StartsAsked'
    BY <1>1, <2>1 DEF StartsAsked
  <2>4. Asked => Asked'
    BY <1>1, <2>1 DEF Asked, Fails
  <2>5. status' = (IF Settles(reactor) THEN Shown(reactor) ELSE status)
    BY <1>4 DEF R_FEAT, R_MPRQ, R_MPRE, R_MPSE, Handled, Settles, Shown
  <2>6. VmStatus' = VmStatus
    BY <1>1 DEF VmStatus, vmVars
  <2>7. Agrees => Agrees'
    BY <1>1, <1>2, <2>5, <2>6 DEF Agrees
  <2> QED
    BY <2>2, <2>3, <2>4, <2>7
<1> QED
  BY <1>3, <1>4

(* The machine: what it answers last shows its status, unless it starts,   *)
(* and then a query follows.                                               *)
LEMMA VmStatusInv ==
  ASSUME StatusInv, V_Query \/ V_Start \/ V_Fail \/ V_End
  PROVE  StatusInv'
<1> USE DEF StatusInv
<1>1. /\ requests # <<>> /\ requests' = Tail(requests)
      /\ UNCHANGED <<clientVars, app, reactor, vmStreams>>
  BY DEF V_Query, V_Start, V_Fail, V_End, Answers
<1>2. /\ requests' \in Seq(Requests) /\ StartsAsked'
      /\ Head(requests) # "MPRQ" /\ Queries(requests) => Queries(requests')
      /\ Head(requests) \in {"MPRS", "MPSS"} => app # "idle" \/ Queries(requests')
  BY <1>1, TakenRequest
<1>3. vmProfiling' \in BOOLEAN
  BY DEF Types, V_Query, V_Start, V_Fail, V_End
<1>4. ASSUME replies' \in Seq(Replies) PROVE Types'
  BY <1>1, <1>2, <1>3, <1>4 DEF Types, clientVars
<1>5. CASE V_Start
  <2>1. Head(requests) \in {"MPRS", "MPSS"} /\ replies' = replies \o <<>>
    BY <1>5 DEF V_Start, Answers
  <2>2. replies' = replies
    BY <2>1 DEF Types
  <2>3. Types'
    BY <1>4, <2>2 DEF Types
  <2> QED
    BY <1>1, <1>2, <2>1, <2>3 DEF Asked
<1>6. CASE V_Fail
  <2>1. replies' = replies \o <<Reply("FAIL", FALSE)>>
    BY <1>6 DEF V_Fail, Answers
  <2>2. Reply("FAIL", FALSE) \in Replies /\ Reply("FAIL", FALSE).chunk = "FAIL"
    BY DEF Reply, Replies, Chunks
  <2>3. replies' \in Seq(Replies) /\ Fails(replies')
    BY <1>1, <2>1, <2>2, AppendedReply DEF clientVars
  <2> QED
    BY <1>2, <1>4, <2>3 DEF Asked
<1>7. CASE \/ Answers({"MPRQ"}, <<Reply("MPRQ", vmProfiling)>>) /\ UNCHANGED vmProfiling
           \/ V_End
  <2>1. PICK m : /\ replies' = replies \o <<m>>
                 /\ m \in Replies /\ Settles(m) /\ Shown(m) = VmStatus'
    <3>1. CASE Answers({"MPRQ"}, <<Reply("MPRQ", vmProfiling)>>) /\ UNCHANGED vmProfiling
      <4>1. Reply("MPRQ", vmProfiling) \in Replies
        BY DEF Types, Reply, Replies, Chunks
      <4>2. Settles(Reply("MPRQ", vmProfiling)) /\ Shown(Reply("MPRQ", vmProfiling)) = VmStatus'
        BY <3>1 DEF Reply, Settles, Shown, VmStatus
      <4> QED
        BY <3>1, <4>1, <4>2 DEF Answers
    <3>2. CASE V_End
      <4>1. VmStatus' = "OFF"
        BY <3>2 DEF V_End, VmStatus
      <4>2. \E chunk \in {"MPRE", "MPSE"}, v \in BOOLEAN : replies' = replies \o <<Reply(chunk, v)>>
        BY <3>2 DEF V_End, Answers, Types
      <4>3. PICK chunk \in {"MPRE", "MPSE"}, v \in BOOLEAN : replies' = replies \o <<Reply(chunk, v)>>
        BY <4>2
      <4>4. Reply(chunk, v) \in Replies
        BY DEF Reply, Replies, Chunks
      <4>5. Settles(Reply(chunk, v)) /\ Shown(Reply(chunk, v)) = "OFF"
        BY DEF Reply, Settles, Shown
      <4> QED
        BY <4>1, <4>3, <4>4, <4>5
    <3> QED
      BY <1>7, <3>1, <3>2
  <2>2. replies' \in Seq(Replies) /\ Agrees'
    BY <1>1, <2>1, AppendedReply DEF clientVars
  <2> QED
    BY <1>2, <1>4, <2>2
<1>8. CASE Answers({"FEAT"}, <<Reply("FEAT", vmStreams)>>) /\ UNCHANGED vmProfiling
  <2>1. replies' = replies \o <<Reply("FEAT", vmStreams)>> /\ Head(requests) = "FEAT"
    BY <1>8 DEF Answers
  <2>2. Reply("FEAT", vmStreams) \in Replies /\ ~Settles(Reply("FEAT", vmStreams))
    BY DEF Types, Reply, Replies, Chunks, Settles
  <2>3. /\ replies' \in Seq(Replies)
        /\ Fails(replies) => Fails(replies')
        /\ Agrees => Agrees'
    BY <1>1, <1>8, <2>1, <2>2, AppendedReply DEF clientVars
  <2>4. Asked => Asked'
    BY <1>1, <1>2, <2>1, <2>3 DEF Asked
  <2> QED
    BY <1>2, <1>4, <2>3, <2>4
<1> QED
  BY <1>5, <1>6, <1>7, <1>8 DEF V_Query

(* The invariant, and what it is for: once all is quiet nothing can still  *)
(* change the status, so it is the machine's already.                      *)
THEOREM StatusInvariant == Spec => []StatusInv
<1>1. StatusInv /\ [Next]_vars => StatusInv'
  <2> SUFFICES ASSUME StatusInv, [Next]_vars PROVE StatusInv'
    OBVIOUS
  <2>1. CASE UNCHANGED vars
    BY <2>1 DEF vars, clientVars, vmVars, StatusInv, Types, StartsAsked, Asked, Queries, Fails,
                Agrees, NoneSettles, Settles, Shown, VmStatus
  <2>2. CASE Next
    BY <2>2, AppStatusInv, ChunkStatusInv, HandlerStatusInv, VmStatusInv DEF Next
  <2> QED
    BY <2>1, <2>2
<1> QED
  BY <1>1, InitStatusInv, PTL DEF Spec

(* Once all is quiet nothing can still change the status.                  *)
LEMMA StatusOfQuiet ==
  ASSUME StatusInv
  PROVE  StatusAgrees
<1> SUFFICES ASSUME Quiet PROVE status = VmStatus
  BY DEF StatusAgrees, VmStatus
<1>1. ~Asked
  BY DEF Quiet, Asked, Queries, Fails, Idle
<1>2. Agrees
  BY <1>1 DEF StatusInv
<1> QED
  BY <1>2 DEF Quiet, Agrees, Settles, Idle

(* HandleProfiling: whenever nothing is under way, the client shows the    *)
(* status of the machine.                                                  *)
THEOREM StatusShown == Spec => []StatusAgrees
  BY StatusInvariant, StatusOfQuiet, PTL
-----------------------------------------------------------------------------
(***************************************************************************)
(* The name of the file.                                                   *)
(***************************************************************************)

(* The client knows, or will be told, whether the machine streams.         *)
FeatureInv ==
  /\ \/ canStream = vmStreams
     \/ \E i \in DOMAIN requests : requests[i] = "FEAT"
     \/ \E i \in DOMAIN replies : replies[i].chunk = "FEAT"
     \/ reactor.chunk = "FEAT"
  /\ \A i \in DOMAIN replies : replies[i].chunk = "FEAT" => replies[i].value = vmStreams
  /\ reactor.chunk = "FEAT" => reactor.value = vmStreams

(* With a machine that streams nothing is written to files.                *)
NoFiles ==
  /\ \A i \in DOMAIN requests : requests[i] \notin {"MPRS", "MPRE"}
  /\ \A i \in DOMAIN replies : replies[i].chunk # "MPRE"
  /\ reactor.chunk # "MPRE"

(* The answers that say that a start failed, or that an end was reached.   *)
Ending(m) == m.chunk \in {"FAIL", "MPRE"}

(* A request to start or to end, and then the answer to it, is the first   *)
(* of what is under way.  While the machine profiles, or is about to, the  *)
(* name is recorded or about to be; and an end that is under way finds it. *)
OneFile ==
  /\ \A i \in DOMAIN requests :
       /\ requests[i] \notin {"MPSS", "MPSE"}
       /\ requests[i] \in {"MPRS", "MPRE"} => i = 1 /\ replies = <<>> /\ reactor = Idle
       /\ requests[i] = "MPRS" => ~vmProfiling /\ (pending \/ app = "record")
       /\ requests[i] = "MPRE" => pending
  /\ \A i \in DOMAIN replies :
       /\ Ending(replies[i]) => i = 1 /\ reactor = Idle /\ ~vmProfiling
       /\ replies[i].chunk = "MPRE" => pending
  /\ Ending(reactor) => ~vmProfiling
  /\ reactor.chunk = "MPRE" => reactor.file
  /\ vmProfiling => pending \/ app = "record"

NameInv ==
  /\ FeatureInv
  /\ ~disturbed =>
       /\ IF vmStreams THEN NoFiles ELSE OneFile
       /\ told # "onSuccess of no file"

(* What Append does to a sequence, element by element.                     *)
LEMMA AppendElements ==
  ASSUME NEW S, NEW s \in Seq(S), NEW e \in S
  PROVE  /\ \A i \in DOMAIN s : i \in DOMAIN Append(s, e) /\ Append(s, e)[i] = s[i]
         /\ \A i \in DOMAIN Append(s, e) :
              \/ i \in DOMAIN s
              \/ i \notin DOMAIN s /\ Append(s, e)[i] = e /\ (s = <<>> => i = 1)
         /\ Append(s, e) # <<>>
<1> DEFINE n == Len(s)  t == Append(s, e)
<1>1. /\ n \in Nat /\ DOMAIN s = 1..n /\ DOMAIN t = 1..(n + 1) /\ t[n + 1] = e
      /\ \A i \in 1..n : t[i] = s[i]
      /\ s = <<>> => n = 0
  OBVIOUS
<1>2. t # <<>>
  BY <1>1
<1> HIDE DEF n, t
<1>3. \A i \in 1..(n + 1) : i \in 1..n \/ (i \notin 1..n /\ i = n + 1)
  BY <1>1
<1> QED
  BY <1>1, <1>2, <1>3 DEF t

(* And Tail.                                                               *)
LEMMA TailElements ==
  ASSUME NEW S, NEW s \in Seq(S), s # <<>>
  PROVE  /\ 1 \in DOMAIN s /\ Head(s) = s[1]
         /\ \A i \in DOMAIN Tail(s) : i + 1 \in DOMAIN s /\ i + 1 # 1 /\ Tail(s)[i] = s[i + 1]
         /\ \A i \in DOMAIN s : i = 1 \/ (i - 1 \in DOMAIN Tail(s) /\ Tail(s)[i - 1] = s[i])
<1> DEFINE n == Len(s)  t == Tail(s)
<1>1. /\ n \in Nat /\ n > 0 /\ DOMAIN s = 1..n /\ DOMAIN t = 1..(n - 1)
      /\ \A i \in 1..(n - 1) : t[i] = s[i + 1]
      /\ Head(s) = s[1]
  OBVIOUS
<1> HIDE DEF n, t
<1> QED
  BY <1>1 DEF t

(* Every step keeps what is known of the features.                         *)
LEMMA FeatureStep ==
  ASSUME Types, FeatureInv, [Next]_vars
  PROVE  FeatureInv'
<1> DEFINE Asks(s) == \E i \in DOMAIN s : s[i] = "FEAT"
           Tells(s) == \E i \in DOMAIN s : s[i].chunk = "FEAT"
           Right(s) == \A i \in DOMAIN s : s[i].chunk = "FEAT" => s[i].value = vmStreams
<1>1. vmStreams' = vmStreams
  BY DEF Next, vars, vmVars, A_ToggleOff, A_ToggleOn, A_RequestStatus, Call, A_Record, A_Query, R_Chunk,
         R_FEAT, R_MPRQ, R_MPRE, R_MPSE, R_FAIL, Handled, V_Query, V_Start, V_Fail, V_End, Answers
<1>2. ASSUME NEW x \in Requests, requests' = Append(requests, x)
      PROVE  Asks(requests) => Asks(requests')
  BY <1>2, AppendElements DEF Types
<1>3. CASE A_ToggleOff \/ A_ToggleOn \/ A_RequestStatus \/ A_Record \/ A_Query
  <2>1. UNCHANGED <<canStream, replies, reactor>>
    BY <1>3 DEF A_ToggleOff, A_ToggleOn, A_RequestStatus, A_Record, A_Query, Call, clientVars
  <2>2. requests' = requests \/ \E x \in Requests : requests' = Append(requests, x)
    BY <1>3 DEF A_ToggleOff, A_ToggleOn, A_RequestStatus, A_Record, A_Query, Requests
  <2>3. Asks(requests) => Asks(requests')
    BY <1>2, <2>2
  <2> QED
    BY <1>1, <2>1, <2>3 DEF FeatureInv
<1>4. CASE R_Chunk
  <2>1. /\ UNCHANGED <<canStream, requests>> /\ reactor = Idle /\ replies # <<>> /\ replies' = Tail(replies)
        /\ reactor'.chunk = Head(replies).chunk /\ reactor'.value = Head(replies).value
    BY <1>4 DEF R_Chunk, clientVars
  <2>2. /\ 1 \in DOMAIN replies /\ Head(replies) = replies[1]
        /\ \A i \in DOMAIN replies' : i + 1 \in DOMAIN replies /\ replies'[i] = replies[i + 1]
        /\ \A i \in DOMAIN replies : i = 1 \/ (i - 1 \in DOMAIN replies' /\ replies'[i - 1] = replies[i])
    BY <2>1, TailElements DEF Types
  <2>3. Tells(replies) => Tells(replies') \/ reactor'.chunk = "FEAT"
    BY <2>1, <2>2
  <2>4. reactor.chunk # "FEAT"
    BY <2>1 DEF Idle
  <2>5. Right(replies) => Right(replies') /\ (reactor'.chunk = "FEAT" => reactor'.value = vmStreams)
    BY <2>1, <2>2
  <2> QED
    BY <1>1, <2>1, <2>3, <2>4, <2>5 DEF FeatureInv
<1>5. CASE R_FEAT \/ R_MPRQ \/ R_MPRE \/ R_MPSE \/ R_FAIL
  <2>1. replies' = replies /\ reactor' = Idle
    BY <1>5 DEF R_FEAT, R_MPRQ, R_MPRE, R_MPSE, R_FAIL, Handled
  <2>2. requests' = requests \/ \E x \in Requests : requests' = Append(requests, x)
    BY <1>5 DEF R_FEAT, R_MPRQ, R_MPRE, R_MPSE, R_FAIL, Requests
  <2>3. Asks(requests) => Asks(requests')
    BY <1>2, <2>2
  <2>4. (canStream' = canStream /\ reactor.chunk # "FEAT") \/ canStream' = vmStreams
    BY <1>5 DEF R_FEAT, R_MPRQ, R_MPRE, R_MPSE, R_FAIL, Handled, FeatureInv
  <2>5. reactor'.chunk # "FEAT"
    BY <2>1 DEF Idle
  <2> QED
    BY <1>1, <2>1, <2>3, <2>4, <2>5 DEF FeatureInv
<1>6. CASE V_Query \/ V_Start \/ V_Fail \/ V_End
  <2>1. /\ UNCHANGED <<canStream, reactor>> /\ requests # <<>> /\ requests' = Tail(requests)
    BY <1>6 DEF V_Query, V_Start, V_Fail, V_End, Answers, clientVars
  <2>2. \/ replies' = replies /\ Head(requests) # "FEAT"
        \/ \E m \in Replies : /\ replies' = Append(replies, m)
                              /\ Head(requests) = "FEAT" <=> m.chunk = "FEAT"
                              /\ m.chunk = "FEAT" => m.value = vmStreams
    <3>1. vmStreams \in BOOLEAN /\ vmProfiling \in BOOLEAN /\ replies \in Seq(Replies)
      BY DEF Types
    <3>2. \A m : replies \o <<m>> = Append(replies, m)
      BY <3>1
    <3>3. replies \o <<>> = replies
      BY <3>1
    <3>4. ASSUME NEW c \in Chunks, NEW v \in BOOLEAN
          PROVE  Reply(c, v) \in Replies /\ Reply(c, v).chunk = c /\ Reply(c, v).value = v
      BY DEF Reply, Replies
    <3>5. {"FEAT", "MPRQ", "MPRE", "MPSE", "FAIL"} \subseteq Chunks
      BY DEF Chunks
    <3>6. CASE V_Start
      BY <3>3, <3>6 DEF V_Start, Answers
    <3>7. CASE V_Query \/ V_Fail \/ V_End
      <4>1. PICK c \in Chunks, v \in BOOLEAN :
              /\ replies' = replies \o <<Reply(c, v)>>
              /\ Head(requests) = "FEAT" <=> c = "FEAT"
              /\ c = "FEAT" => v = vmStreams
        <5>1. CASE Answers({"FEAT"}, <<Reply("FEAT", vmStreams)>>)
          BY <3>1, <3>5, <5>1 DEF Answers
        <5>2. CASE Answers({"MPRQ"}, <<Reply("MPRQ", vmProfiling)>>)
          BY <3>1, <3>5, <5>2 DEF Answers
        <5>3. CASE V_Fail
          BY <3>5, <5>3 DEF V_Fail, Answers
        <5>4. CASE V_End
          <6>1. CASE Answers({"MPSE"}, <<Reply("MPSE", TRUE)>>)
            BY <3>5, <6>1 DEF Answers
          <6>2. ASSUME NEW ok \in BOOLEAN, Answers({"MPRE"}, <<Reply("MPRE", ok /\ vmProfiling)>>)
                PROVE  /\ replies' = replies \o <<Reply("MPRE", ok /\ vmProfiling)>>
                       /\ (ok /\ vmProfiling) \in BOOLEAN /\ Head(requests) # "FEAT"
            BY <3>1, <6>2 DEF Answers
          <6> QED
            BY <3>5, <5>4, <6>1, <6>2 DEF V_End
        <5> QED
          BY <3>7, <5>1, <5>2, <5>3, <5>4 DEF V_Query
      <4>2. Reply(c, v) \in Replies /\ Reply(c, v).chunk = c /\ Reply(c, v).value = v
        BY <3>4
      <4> QED
        BY <3>2, <4>1, <4>2
    <3> QED
      BY <1>6, <3>6, <3>7
  <2>3. Asks(requests) => Asks(requests') \/ Head(requests) = "FEAT"
    <3>1. /\ Head(requests) = requests[1]
          /\ \A i \in DOMAIN requests :
               i = 1 \/ (i - 1 \in DOMAIN requests' /\ requests'[i - 1] = requests[i])
      BY <2>1, TailElements DEF Types
    <3> QED
      BY <3>1
  <2>4. CASE replies' = replies /\ Head(requests) # "FEAT"
    BY <1>1, <2>1, <2>3, <2>4 DEF FeatureInv
  <2>5. ASSUME NEW m \in Replies, replies' = Append(replies, m),
               Head(requests) = "FEAT" <=> m.chunk = "FEAT", m.chunk = "FEAT" => m.value = vmStreams
        PROVE  FeatureInv'
    <3>1. /\ \A i \in DOMAIN replies : i \in DOMAIN replies' /\ replies'[i] = replies[i]
          /\ \A i \in DOMAIN replies' : i \in DOMAIN replies \/ replies'[i] = m
          /\ \E i \in DOMAIN replies' : replies'[i] = m
      <4>1. Len(replies) + 1 \in DOMAIN replies' /\ replies'[Len(replies) + 1] = m
        BY <2>5 DEF Types
      <4> QED
        BY <2>5, <4>1, AppendElements DEF Types
    <3>2. Tells(replies) \/ Head(requests) = "FEAT" => Tells(replies')
      BY <2>5, <3>1
    <3>3. Right(replies) => Right(replies')
      BY <2>5, <3>1
    <3> QED
      BY <1>1, <2>1, <2>3, <3>2, <3>3 DEF FeatureInv
  <2> QED
    BY <2>2, <2>4, <2>5
<1>7. CASE UNCHANGED vars
  BY <1>7 DEF FeatureInv, vars, clientVars, vmVars
<1> QED
  BY <1>3, <1>4, <1>5, <1>6, <1>7 DEF Next

(* A call that is made when all is quiet: a start is requested of a        *)
(* machine that does not profile, and an end only after the name was       *)
(* recorded.                                                               *)
LEMMA CallNames ==
  ASSUME StatusInv, NameInv, ~disturbed', A_ToggleOff \/ A_ToggleOn \/ A_RequestStatus
  PROVE  NameInv'
<1>1. Quiet /\ ~disturbed /\ UNCHANGED <<clientVars, reactor, replies, vmVars, told>>
  BY DEF A_ToggleOff, A_ToggleOn, A_RequestStatus, Call
<1>2. requests = <<>> /\ replies = <<>> /\ reactor = Idle /\ app = "idle"
      /\ DOMAIN requests = {} /\ DOMAIN replies = {}
  BY <1>1 DEF Quiet
<1>3. canStream = vmStreams
  BY <1>2 DEF NameInv, FeatureInv, Idle
<1>4. status = (IF vmProfiling THEN "ON" ELSE "OFF")
  BY <1>1, StatusOfQuiet DEF StatusAgrees
<1>5. FeatureInv'
  BY FeatureStep DEF StatusInv, NameInv, Next
<1>6. PICK x : /\ requests' = Append(requests, x)
               /\ \/ /\ status = "ON" /\ app' = "idle"
                     /\ x = IF canStream THEN "MPSE" ELSE "MPRE"
                  \/ /\ status # "ON" /\ app' = IF canStream THEN "query" ELSE "record"
                     /\ x = IF canStream THEN "MPSS" ELSE "MPRS"
                  \/ x = "MPRQ" /\ app' = "idle"
  BY <1>2 DEF A_ToggleOff, A_ToggleOn, A_RequestStatus
<1>7. DOMAIN requests' = {1} /\ requests'[1] = x
  BY <1>2, <1>6
<1>8. vmStreams' = vmStreams /\ vmProfiling' = vmProfiling /\ pending' = pending
  BY <1>1 DEF vmVars, clientVars
<1>9. CASE vmStreams
  <2>1. x \notin {"MPRS", "MPRE"}
    BY <1>3, <1>6, <1>9
  <2>2. NoFiles'
    BY <1>1, <1>2, <1>7, <2>1 DEF NoFiles, Idle
  <2> QED
    BY <1>1, <1>5, <1>8, <1>9, <2>2 DEF NameInv
<1>10. CASE ~vmStreams
  <2>1. vmProfiling => pending
    BY <1>1, <1>2, <1>10 DEF NameInv, OneFile
  <2>2. /\ x \in {"MPRE", "MPRS", "MPRQ"}
        /\ x = "MPRS" => ~vmProfiling /\ app' = "record"
        /\ x = "MPRE" => vmProfiling
    BY <1>3, <1>4, <1>6, <1>10
  <2>3. OneFile'
    BY <1>1, <1>2, <1>7, <1>8, <2>1, <2>2 DEF OneFile, Ending, Idle
  <2> QED
    BY <1>1, <1>5, <1>8, <1>10, <2>3 DEF NameInv
<1> QED
  BY <1>9, <1>10

(* The steps in which the thread that called goes on.                      *)
LEMMA RecordNames ==
  ASSUME StatusInv, NameInv, ~disturbed', A_Record \/ A_Query
  PROVE  NameInv'
<1>1. /\ ~disturbed /\ UNCHANGED <<status, canStream, reactor, replies, vmVars, told>>
      /\ \/ app = "record" /\ pending' = TRUE /\ requests' = requests
         \/ app = "query" /\ pending' = pending /\ requests' = Append(requests, "MPRQ")
  BY DEF A_Record, A_Query, clientVars
<1>2. FeatureInv'
  BY FeatureStep DEF StatusInv, NameInv, Next
<1>3. \A i \in DOMAIN requests' :
        \/ i \in DOMAIN requests /\ requests'[i] = requests[i]
        \/ requests'[i] = "MPRQ"
  <2>1. CASE requests' = requests
    BY <2>1
  <2>2. CASE requests' = Append(requests, "MPRQ")
    <3>1. requests \in Seq(Requests) /\ "MPRQ" \in Requests
      BY DEF StatusInv, Types, Requests
    <3> QED
      BY <2>2, <3>1, AppendElements
  <2> QED
    BY <1>1, <2>1, <2>2
<1>4. vmStreams' = vmStreams /\ vmProfiling' = vmProfiling
  BY <1>1 DEF vmVars
<1>5. pending \/ app = "record" => pending'
  BY <1>1
<1>6. ASSUME vmStreams, NoFiles PROVE NoFiles'
  BY <1>1, <1>3, <1>6 DEF NoFiles
<1>7. ASSUME ~vmStreams, OneFile PROVE OneFile'
  BY <1>1, <1>3, <1>4, <1>5, <1>7 DEF OneFile, Ending
<1> QED
  BY <1>1, <1>2, <1>4, <1>6, <1>7 DEF NameInv

(* The reactor reads an answer, and with it whether a name is recorded.    *)
LEMMA ChunkNames ==
  ASSUME StatusInv, NameInv, ~disturbed', R_Chunk
  PROVE  NameInv'
<1>1. /\ ~disturbed /\ UNCHANGED <<clientVars, app, requests, vmVars, told>>
      /\ replies # <<>> /\ replies' = Tail(replies) /\ reactor = Idle
      /\ reactor' = [chunk |-> Head(replies).chunk, value |-> Head(replies).value, file |-> pending]
  BY DEF R_Chunk
<1>2. FeatureInv'
  BY FeatureStep DEF StatusInv, NameInv, Next
<1>3. /\ 1 \in DOMAIN replies /\ Head(replies) = replies[1]
      /\ \A i \in DOMAIN replies' :
           i + 1 \in DOMAIN replies /\ i + 1 # 1 /\ replies'[i] = replies[i + 1]
  BY <1>1, TailElements DEF StatusInv, Types
<1>4. vmStreams' = vmStreams /\ vmProfiling' = vmProfiling /\ pending' = pending
  BY <1>1 DEF vmVars, clientVars
<1>5. reactor'.chunk = replies[1].chunk /\ reactor'.file = pending
  BY <1>1, <1>3
<1>6. ASSUME vmStreams, NoFiles PROVE NoFiles'
  BY <1>1, <1>3, <1>5, <1>6 DEF NoFiles
<1>7. ASSUME ~vmStreams, OneFile PROVE OneFile'
  <2>1. \A i \in DOMAIN requests : requests[i] \notin {"MPRS", "MPRE", "MPSS", "MPSE"}
    BY <1>1, <1>7 DEF OneFile
  <2>2. \A i \in DOMAIN replies' : ~Ending(replies'[i]) /\ replies'[i].chunk # "MPRE"
    BY <1>3, <1>7 DEF OneFile, Ending
  <2>3. Ending(reactor)' => ~vmProfiling
    BY <1>3, <1>5, <1>7 DEF OneFile, Ending
  <2>4. reactor'.chunk = "MPRE" => reactor'.file
    BY <1>3, <1>5, <1>7 DEF OneFile
  <2>5. vmProfiling => pending \/ app = "record"
    BY <1>7 DEF OneFile
  <2> QED
    BY <1>1, <1>4, <2>1, <2>2, <2>3, <2>4, <2>5 DEF OneFile, Ending
<1> QED
  BY <1>1, <1>2, <1>4, <1>6, <1>7 DEF NameInv

(* The handlers: a success finds the name.                                 *)
LEMMA HandlerNames ==
  ASSUME StatusInv, NameInv, ~disturbed', R_FEAT \/ R_MPRQ \/ R_MPRE \/ R_MPSE \/ R_FAIL
  PROVE  NameInv'
<1>1. /\ ~disturbed /\ reactor' = Idle /\ UNCHANGED <<app, replies, vmVars>>
      /\ \/ requests' = requests
         \/ reactor.chunk = "FAIL" /\ requests' = Append(requests, "MPRQ")
      /\ pending' = pending \/ Ending(reactor)
  <2>1. disturbed' = disturbed /\ reactor' = Idle /\ UNCHANGED <<app, replies, vmVars>>
    BY DEF R_FEAT, R_MPRQ, R_MPRE, R_MPSE, R_FAIL, Handled
  <2>2. requests' = requests \/ (reactor.chunk = "FAIL" /\ requests' = Append(requests, "MPRQ"))
    BY DEF R_FEAT, R_MPRQ, R_MPRE, R_MPSE, R_FAIL, Handled
  <2>3. pending' = pending \/ reactor.chunk \in {"MPRE", "FAIL"}
    BY DEF R_FEAT, R_MPRQ, R_MPRE, R_MPSE, R_FAIL, Handled
  <2> QED
    BY <2>1, <2>2, <2>3 DEF Ending
<1>2. FeatureInv'
  BY FeatureStep DEF StatusInv, NameInv, Next
<1>3. vmStreams' = vmStreams /\ vmProfiling' = vmProfiling
  BY <1>1 DEF vmVars
<1>4. \A i \in DOMAIN requests' :
        \/ i \in DOMAIN requests /\ requests'[i] = requests[i]
        \/ requests'[i] = "MPRQ"
  <2>1. CASE requests' = requests
    BY <2>1
  <2>2. CASE requests' = Append(requests, "MPRQ")
    <3>1. requests \in Seq(Requests) /\ "MPRQ" \in Requests
      BY DEF StatusInv, Types, Requests
    <3> QED
      BY <2>2, <3>1, AppendElements
  <2> QED
    BY <1>1, <2>1, <2>2
<1>5. told # "onSuccess of no file" /\ (reactor.chunk = "MPRE" => reactor.file)
  BY <1>1 DEF NameInv, NoFiles, OneFile
<1>6. told' # "onSuccess of no file"
  BY <1>5 DEF R_FEAT, R_MPRQ, R_MPRE, R_MPSE, R_FAIL, Handled
<1>7. ASSUME vmStreams, NoFiles PROVE NoFiles'
  BY <1>1, <1>4, <1>7 DEF NoFiles, Idle
<1>8. ASSUME ~vmStreams, OneFile PROVE OneFile'
  <2>1. CASE pending' = pending
    BY <1>1, <1>3, <1>4, <1>8, <2>1 DEF OneFile, Ending, Idle
  <2>2. CASE Ending(reactor)
    <3>1. reactor # Idle /\ ~vmProfiling
      BY <1>8, <2>2 DEF OneFile, Ending, Idle
    <3>2. \A i \in DOMAIN requests' : requests'[i] \notin {"MPRS", "MPRE", "MPSS", "MPSE"}
      BY <1>4, <1>8, <3>1 DEF OneFile
    <3>3. \A i \in DOMAIN replies : ~Ending(replies[i]) /\ replies[i].chunk # "MPRE"
      BY <1>8, <3>1 DEF OneFile, Ending
    <3> QED
      BY <1>1, <1>3, <3>1, <3>2, <3>3 DEF OneFile, Ending, Idle
  <2> QED
    BY <1>1, <2>1, <2>2
<1> QED
  BY <1>1, <1>2, <1>3, <1>6, <1>7, <1>8 DEF NameInv

(* The machine answers the first request.                                  *)
LEMMA VmNames ==
  ASSUME StatusInv, NameInv, ~disturbed', V_Query \/ V_Start \/ V_Fail \/ V_End
  PROVE  NameInv'
<1>1. /\ ~disturbed /\ UNCHANGED <<clientVars, app, reactor, vmStreams, told>>
      /\ requests # <<>> /\ requests' = Tail(requests)
  <2>1. /\ UNCHANGED <<clientVars, app, reactor, vmStreams, told, disturbed>>
        /\ requests # <<>> /\ requests' = Tail(requests)
    BY DEF V_Query, V_Start, V_Fail, V_End, Answers
  <2> QED
    BY <2>1
<1>2. FeatureInv'
  BY FeatureStep DEF StatusInv, NameInv, Next
<1>3. /\ 1 \in DOMAIN requests /\ Head(requests) = requests[1]
      /\ \A i \in DOMAIN requests' :
           i + 1 \in DOMAIN requests /\ i + 1 # 1 /\ requests'[i] = requests[i + 1]
  BY <1>1, TailElements DEF StatusInv, Types
<1>4. pending' = pending
  BY <1>1 DEF clientVars
<1>5. replies \in Seq(Replies) /\ vmProfiling \in BOOLEAN
  BY DEF StatusInv, Types
(* What the answer is.                                                     *)
<1>6. \/ /\ Head(requests) \in {"FEAT", "MPRQ"} /\ vmProfiling' = vmProfiling
         /\ \E m \in Replies : replies' = Append(replies, m) /\ m.chunk \in {"FEAT", "MPRQ"}
      \/ /\ Head(requests) \in {"MPRS", "MPSS"} /\ replies' = replies
      \/ /\ Head(requests) \in {"MPRS", "MPSS", "MPSE"} /\ vmProfiling' = vmProfiling
         /\ \E m \in Replies : replies' = Append(replies, m) /\ m.chunk = "FAIL"
      \/ /\ Head(requests) = "MPRE" /\ vmProfiling' = FALSE
         /\ \E m \in Replies : replies' = Append(replies, m) /\ m.chunk = "MPRE"
      \/ /\ Head(requests) = "MPSE" /\ vmProfiling' = FALSE
         /\ \E m \in Replies : replies' = Append(replies, m) /\ m.chunk = "MPSE"
  <2>1. \A m : replies \o <<m>> = Append(replies, m)
    BY <1>5
  <2>2. ASSUME NEW c \in Chunks, NEW v \in BOOLEAN
        PROVE  Reply(c, v) \in Replies /\ Reply(c, v).chunk = c
    BY DEF Reply, Replies
  <2>3. {"FEAT", "MPRQ", "MPRE", "MPSE", "FAIL"} \subseteq Chunks
    BY DEF Chunks
  <2>4. CASE V_Query
    <3>1. vmStreams \in BOOLEAN
      BY DEF StatusInv, Types
    <3> QED
      BY <1>5, <2>1, <2>2, <2>3, <2>4, <3>1 DEF V_Query, Answers
  <2>5. CASE V_Start
    <3>1. replies \o <<>> = replies
      BY <1>5
    <3> QED
      BY <2>5, <3>1 DEF V_Start, Answers
  <2>6. CASE V_Fail
    BY <2>1, <2>2, <2>3, <2>6 DEF V_Fail, Answers
  <2>7. CASE V_End
    <3>1. CASE Answers({"MPSE"}, <<Reply("MPSE", TRUE)>>)
      BY <2>1, <2>2, <2>3, <2>7, <3>1 DEF V_End, Answers
    <3>2. ASSUME NEW ok \in BOOLEAN, Answers({"MPRE"}, <<Reply("MPRE", ok /\ vmProfiling)>>)
          PROVE  /\ Head(requests) = "MPRE"
                 /\ \E m \in Replies : replies' = Append(replies, m) /\ m.chunk = "MPRE"
      <4>1. (ok /\ vmProfiling) \in BOOLEAN
        BY <1>5
      <4> QED
        BY <2>1, <2>2, <2>3, <3>2, <4>1 DEF Answers
    <3> QED
      BY <2>7, <3>1, <3>2 DEF V_End
  <2> QED
    BY <2>4, <2>5, <2>6, <2>7
<1>7. ASSUME NEW m \in Replies, replies' = Append(replies, m)
      PROVE  \A i \in DOMAIN replies' :
               \/ i \in DOMAIN replies /\ replies'[i] = replies[i]
               \/ replies'[i] = m /\ (replies = <<>> => i = 1)
  BY <1>5, <1>7, AppendElements
<1>8. ASSUME vmStreams, NoFiles PROVE NoFiles'
  <2>1. Head(requests) \notin {"MPRS", "MPRE"}
    BY <1>3, <1>8 DEF NoFiles
  <2>2. \A i \in DOMAIN replies' : replies'[i].chunk # "MPRE"
    BY <1>6, <1>7, <1>8, <2>1 DEF NoFiles
  <2> QED
    BY <1>1, <1>3, <1>8, <2>2 DEF NoFiles
<1>9. ASSUME ~vmStreams, OneFile PROVE OneFile'
  <2>1. \A i \in DOMAIN requests' : requests'[i] \notin {"MPRS", "MPRE", "MPSS", "MPSE"}
    <3> SUFFICES ASSUME NEW i \in DOMAIN requests'
                 PROVE  requests'[i] \notin {"MPRS", "MPRE", "MPSS", "MPSE"}
      OBVIOUS
    <3>1. i + 1 \in DOMAIN requests /\ i + 1 # 1 /\ requests'[i] = requests[i + 1]
      BY <1>3
    <3> QED
      BY <1>9, <3>1 DEF OneFile
  <2>2. Head(requests) \notin {"MPSS", "MPSE"}
        /\ (Head(requests) \in {"MPRS", "MPRE"} => replies = <<>> /\ reactor = Idle)
        /\ (Head(requests) = "MPRS" => ~vmProfiling /\ (pending \/ app = "record"))
        /\ (Head(requests) = "MPRE" => pending)
    BY <1>3, <1>9 DEF OneFile
  <2>3. ~Ending(Idle) /\ Idle.chunk # "MPRE"
    BY DEF Idle, Ending
  <2>4. vmProfiling' => pending \/ app = "record"
    BY <1>6, <1>9, <2>2 DEF OneFile
  <2>5. Ending(reactor) => ~vmProfiling'
    BY <1>6, <1>9, <2>2, <2>3 DEF OneFile
  <2>6. \A i \in DOMAIN replies' :
          /\ Ending(replies'[i]) => i = 1 /\ reactor = Idle /\ ~vmProfiling'
          /\ replies'[i].chunk = "MPRE" => pending
    <3>1. CASE replies' = replies
      <4>1. replies = <<>>
        BY <1>6, <1>7, <2>2, <3>1 DEF Ending
      <4> QED
        BY <3>1, <4>1
    <3>2. CASE \E m \in Replies : replies' = Append(replies, m)
      <4>1. PICK m \in Replies :
              /\ replies' = Append(replies, m)
              /\ \/ m.chunk \in {"FEAT", "MPRQ"} /\ vmProfiling' = vmProfiling
                 \/ m.chunk = "FAIL" /\ Head(requests) = "MPRS" /\ vmProfiling' = vmProfiling
                 \/ m.chunk = "MPRE" /\ Head(requests) = "MPRE" /\ vmProfiling' = FALSE
        BY <1>6, <2>2, <3>2
      <4>2. TAKE i \in DOMAIN replies'
      <4>3. CASE i \in DOMAIN replies /\ replies'[i] = replies[i]
        BY <1>9, <2>2, <4>1, <4>3 DEF OneFile, Ending
      <4>4. CASE replies'[i] = m /\ (replies = <<>> => i = 1)
        BY <1>9, <2>2, <4>1, <4>4 DEF OneFile, Ending
      <4> QED
        BY <1>7, <4>1, <4>3, <4>4
    <3> QED
      BY <1>6, <3>1, <3>2
  <2>7. reactor.chunk = "MPRE" => reactor.file
    BY <1>9 DEF OneFile
  <2> QED
    BY <1>1, <1>4, <2>1, <2>4, <2>5, <2>6, <2>7 DEF OneFile, Ending
<1> QED
  BY <1>1, <1>2, <1>8, <1>9 DEF NameInv

(* Initially no name is needed.                                            *)
LEMMA InitNames == Init => NameInv
<1> SUFFICES ASSUME Init PROVE NameInv
  OBVIOUS
<1>1. requests = <<"FEAT", "MPRQ">> /\ replies = <<>> /\ reactor = Idle
      /\ disturbed = vmProfiling /\ told = "nothing"
  BY DEF Init
<1>2. DOMAIN requests = {1, 2} /\ requests[1] = "FEAT" /\ requests[2] = "MPRQ" /\ DOMAIN replies = {}
  BY <1>1
<1>3. FeatureInv
  BY <1>1, <1>2 DEF FeatureInv, Idle
<1>4. NoFiles /\ (~vmProfiling => OneFile)
  BY <1>1, <1>2 DEF NoFiles, OneFile, Ending, Idle
<1> QED
  BY <1>1, <1>3, <1>4 DEF NameInv

(* sendMPRS, handleMPRE, handleFAIL: an application that waits for its     *)
(* calls is told the name of the file with every success, although the     *)
(* name is recorded only after the request was sent and the machine may    *)
(* have failed by then.                                                    *)
THEOREM SuccessesNameTheirFile == Spec => []SuccessNamesFile
<1>1. StatusInv /\ NameInv /\ [Next]_vars => NameInv'
  <2> SUFFICES ASSUME StatusInv, NameInv, [Next]_vars PROVE NameInv'
    OBVIOUS
  <2>1. CASE disturbed'
    BY <2>1, FeatureStep DEF StatusInv, NameInv
  <2>2. CASE ~disturbed'
    <3>1. CASE UNCHANGED vars
      BY <3>1 DEF vars, clientVars, vmVars, NameInv, FeatureInv, NoFiles, OneFile, Ending
    <3>2. CASE Next
      BY <2>2, <3>2, CallNames, RecordNames, ChunkNames, HandlerNames, VmNames DEF Next
    <3> QED
      BY <3>1, <3>2
  <2> QED
    BY <2>1, <2>2
<1>2. NameInv => SuccessNamesFile
  BY DEF NameInv, SuccessNamesFile
<1> QED
  BY <1>1, <1>2, InitNames, StatusInvariant, PTL DEF Spec
=============================================================================
