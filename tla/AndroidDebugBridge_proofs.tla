---------------------- MODULE AndroidDebugBridge_proofs ----------------------
(***************************************************************************)
(* The lock order of the library, that at most one monitor's threads run,  *)
(* and which threads can wait for each other in a circle, proved for any   *)
(* number of threads, bridges and calls.  In the order of the module:      *)
(*                                                                         *)
(*   StackInv  what is inductive for the lock order is the shape of the    *)
(*             stacks: which functions may be beneath a function, and that *)
(*             a function calls another only when it has all its locks     *)
(*             (except getDevices, which the listeners call after the      *)
(*             bridge lock was given back);                                *)
(*   Mutex, Sites, MonitorsInv   that a lock is one thread's, and which    *)
(*             thread makes, starts, stops and forgets monitors;           *)
(*   OnlyKnownCircles   what follows from the two for waiting threads.     *)
(***************************************************************************)
EXTENDS AndroidDebugBridge, SequenceTheorems, TLAPS

Args == [location : Locations \cup {NoLocation}, force : BOOLEAN]
Points ==
  {"lock", "replace", "started", "undo", "notify", "stopped", "adb", "join", "clients",
   "monitor", "monitorStopped", "joinReactor", "merged", "changed", "done"}
Frames == [fn : Functions, arg : Args, at : Points, taken : Nat]

Creates == {"createBridge", "createBridgeAt"}

\* The functions that can be anywhere beneath a call of fn.
Beneath ==
  [createBridge     |-> {},
   createBridgeAt   |-> {},
   disconnectBridge |-> {},
   terminate        |-> {},
   init             |-> {},
   start            |-> Creates,
   stop             |-> Creates \cup {"disconnectBridge"},
   startAdb         |-> Creates \cup {"start"},
   stopAdb          |-> {},
   getDevices       |-> Creates \cup {"disconnectBridge", "terminate"},
   monitorStop      |-> Creates \cup {"disconnectBridge", "terminate", "stop"},
   updateDevices    |-> {},
   deviceChanged    |-> {"reopen", "removeClient"},
   clientList       |-> {"terminate", "updateDevices", "reopen", "processJdwpData"},
   removeClient     |-> {},
   selectGate       |-> {},
   reopen           |-> {},
   processJdwpData  |-> {}]

\* The functions that application and threads do not call directly.
Inner == {"start", "stop", "monitorStop"}

Full(f) == f.taken = Len(LocksOf[f.fn])

StackOK(s) ==
  /\ s \in Seq(Frames)
  /\ \A i \in 1..Len(s) : s[i].taken <= Len(LocksOf[s[i].fn])
  /\ \A i, j \in 1..Len(s) : i < j => s[i].fn \in Beneath[s[j].fn]
  /\ \A i \in 1..Len(s) : i < Len(s) => Full(s[i]) \/ s[i + 1].fn = "getDevices"
  /\ \A i \in 1..Len(s) : s[i].at \in {"lock", "notify"} \/ Full(s[i])
  /\ \A i \in 1..Len(s) : s[i].fn \in Inner => i > 1

StackInv ==
  /\ stack \in [Threads -> Seq(Frames)]
  /\ \A t \in Threads : StackOK(stack[t])

\* g may be called from the top of s, which goes on at "at".
MayCall(s, at, g) ==
  /\ s[Len(s)].fn \in Beneath[g]
  /\ Beneath[s[Len(s)].fn] \subseteq Beneath[g]
  /\ Full(s[Len(s)]) \/ (g = "getDevices" /\ at = "notify")

----------------------------------------------------------------------------
\* Every function takes one or two locks.
LEMMA LocksOfType ==
  \A fn \in Functions : Len(LocksOf[fn]) \in 1..2
<1>1. Functions =
        {"createBridge", "createBridgeAt", "disconnectBridge", "terminate", "init", "start",
         "stop", "startAdb", "stopAdb", "getDevices", "monitorStop", "updateDevices",
         "deviceChanged", "clientList", "removeClient", "selectGate", "reopen",
         "processJdwpData"}
  BY DEF Functions, LocksOf
<1> QED
  BY <1>1 DEF LocksOf, MergeLocks

\* A new call on an empty stack.
LEMMA BeginOK ==
  ASSUME NEW fn \in Functions \ Inner, NEW arg \in Args
  PROVE  StackOK(<<Frame(fn, arg)>>)
<1>1. Frame(fn, arg) \in Frames
  BY DEF Frame, Frames, Points
<1>2. Len(LocksOf[fn]) \in 1..2
  BY LocksOfType
<1> DEFINE s == <<Frame(fn, arg)>>
<1>3. s \in Seq(Frames) /\ Len(s) = 1 /\ s[1] = Frame(fn, arg)
  BY <1>1
<1> HIDE DEF s
<1>4. s[1].taken = 0 /\ s[1].fn = fn /\ s[1].at = "lock"
  BY <1>3 DEF Frame
<1>5. StackOK(s)
  BY <1>2, <1>3, <1>4 DEF StackOK
<1> QED
  BY <1>5 DEF s

\* Changing where a function goes on changes nothing of the shape.
LEMMA GotoOK ==
  ASSUME NEW s, StackOK(s), s # <<>>, NEW at \in Points, Full(s[Len(s)]) \/ at = "notify"
  PROVE  /\ StackOK(Goto(s, at))
         /\ Len(Goto(s, at)) = Len(s)
         /\ \A i \in 1..Len(s) : Goto(s, at)[i].fn = s[i].fn /\ Goto(s, at)[i].taken = s[i].taken
<1> DEFINE n == Len(s)
           r == Goto(s, at)
<1>1. s \in Seq(Frames) /\ n \in Nat /\ n >= 1
  BY DEF StackOK
<1>2. s[n] \in Frames
  BY <1>1
<1>3. [s[n] EXCEPT !.at = at] \in Frames /\ r = [s EXCEPT ![n] = [s[n] EXCEPT !.at = at]]
  BY <1>2 DEF Frames, Goto
<1>4. r \in Seq(Frames) /\ Len(r) = n
  BY <1>1, <1>3
<1>5. \A i \in 1..n : r[i].fn = s[i].fn /\ r[i].taken = s[i].taken
  BY <1>1, <1>2, <1>3 DEF Frames
<1>7. \A i \in 1..n : r[i].at = s[i].at \/ (i = n /\ r[i].at = at)
  BY <1>1, <1>2, <1>3 DEF Frames
<1> HIDE DEF r, n
<1>6. StackOK(r)
  <2>1. \A i, j \in 1..n : i < j => r[i].fn \in Beneath[r[j].fn]
    BY <1>5 DEF StackOK, n
  <2>2. \A i \in 1..n : i < n => Full(r[i]) \/ r[i + 1].fn = "getDevices"
    BY <1>1, <1>5 DEF StackOK, Full, n
  <2>3. \A i \in 1..n : r[i].taken <= Len(LocksOf[r[i].fn])
    BY <1>5 DEF StackOK, n
  <2>4. \A i \in 1..n : r[i].at \in {"lock", "notify"} \/ Full(r[i])
    BY <1>1, <1>5, <1>7 DEF StackOK, Full, n
  <2>5. \A i \in 1..n : r[i].fn \in Inner => i > 1
    BY <1>5 DEF StackOK, n
  <2> QED
    BY <1>4, <2>1, <2>2, <2>3, <2>4, <2>5 DEF StackOK
<1> QED
  BY <1>4, <1>5, <1>6 DEF n, r

\* A call of a function on top of one that may call it.
LEMMA CallOK ==
  ASSUME NEW s, StackOK(s), s # <<>>, NEW g \in Functions, NEW at \in Points, MayCall(s, at, g)
  PROVE  StackOK(Append(Goto(s, at), Frame(g, NoArg)))
<1> DEFINE n == Len(s)
           r == Goto(s, at)
           f == Frame(g, NoArg)
           q == Append(r, f)
<1>0. n \in Nat /\ n >= 1 /\ s \in Seq(Frames)
  BY DEF StackOK
<1>1. f \in Frames /\ f.taken = 0 /\ f.fn = g /\ f.at = "lock"
  BY DEF Frame, Frames, Points, NoArg, Args
<1>2. StackOK(r) /\ Len(r) = n /\ \A i \in 1..n : r[i].fn = s[i].fn /\ r[i].taken = s[i].taken
  BY GotoOK DEF MayCall
<1>3. Len(LocksOf[g]) \in 1..2
  BY LocksOfType
<1>4. s[n].fn \in Beneath[g] /\ Beneath[s[n].fn] \subseteq Beneath[g] /\ (Full(s[n]) \/ (g = "getDevices" /\ at = "notify"))
  BY DEF MayCall
<1>5. \A i \in 1..n : s[i].fn \in Beneath[g]
  <2>1. TAKE i \in 1..n
  <2>2. CASE i = n
    BY <2>2, <1>4
  <2>3. CASE i < n
    <3>1. s[i].fn \in Beneath[s[n].fn]
      BY <2>3, <1>0 DEF StackOK
    <3> QED
      BY <3>1, <1>4
  <2> QED
    BY <2>1, <2>2, <2>3, <1>0
<1> HIDE DEF n, r, f
<1>6. q \in Seq(Frames) /\ Len(q) = n + 1 /\ q[n + 1] = f /\ \A i \in 1..n : q[i] = r[i]
  BY <1>0, <1>1, <1>2 DEF StackOK
<1> HIDE DEF q
<1>7. \A i \in 1..Len(q) : q[i].taken <= Len(LocksOf[q[i].fn])
  <2>1. \A i \in 1..n : r[i].taken <= Len(LocksOf[r[i].fn])
    BY <1>2 DEF StackOK
  <2> QED
    BY <1>0, <1>1, <1>3, <1>6, <2>1
<1>8. \A i, j \in 1..Len(q) : i < j => q[i].fn \in Beneath[q[j].fn]
  <2>1. \A i, j \in 1..n : i < j => r[i].fn \in Beneath[r[j].fn]
    BY <1>2 DEF StackOK
  <2> QED
    BY <1>0, <1>1, <1>2, <1>5, <1>6, <2>1
<1>9. \A i \in 1..Len(q) : i < Len(q) => Full(q[i]) \/ q[i + 1].fn = "getDevices"
  <2>1. TAKE i \in 1..Len(q)
  <2>2. CASE i < n
    BY <2>2, <1>0, <1>2, <1>6 DEF StackOK, Full
  <2>3. CASE i = n
    <3>1. q[n].fn = s[n].fn /\ q[n].taken = s[n].taken /\ q[n + 1].fn = g
      BY <1>0, <1>1, <1>2, <1>6
    <3> QED
      BY <3>1, <2>3, <1>4 DEF Full
  <2> QED
    BY <2>2, <2>3, <1>0, <1>6
<1>11. \A i \in 1..Len(q) : q[i].at \in {"lock", "notify"} \/ Full(q[i])
  <2>1. \A i \in 1..n : r[i].at \in {"lock", "notify"} \/ Full(r[i])
    BY <1>2 DEF StackOK
  <2>2. \A i \in 1..n : q[i].at \in {"lock", "notify"} \/ Full(q[i])
    BY <2>1, <1>6
  <2>3. q[n + 1].at = "lock"
    BY <1>1, <1>6
  <2> QED
    BY <1>0, <1>6, <2>2, <2>3
<1>12. \A i \in 1..Len(q) : q[i].fn \in Inner => i > 1
  <2>1. \A i \in 1..n : s[i].fn \in Inner => i > 1
    BY DEF StackOK, n
  <2> QED
    BY <1>0, <1>2, <1>6, <2>1
<1>10. StackOK(q)
  BY <1>6, <1>7, <1>8, <1>9, <1>11, <1>12 DEF StackOK
<1> QED
  BY <1>10 DEF q, r, f

\* Returning.
LEMMA PopOK ==
  ASSUME NEW s, StackOK(s), s # <<>>
  PROVE  StackOK(Pop(s))
<1> DEFINE n == Len(s)
           r == Pop(s)
<1>1. s \in Seq(Frames) /\ n \in Nat /\ n >= 1
  BY DEF StackOK
<1>2. r = SubSeq(s, 1, n - 1)
  BY DEF Pop
<1>4. r \in Seq(Frames) /\ Len(r) = n - 1 /\ \A i \in 1..(n - 1) : r[i] = s[i]
  <2>1. \A i \in 1..(n - 1) : s[i] \in Frames
    BY <1>1
  <2>2. 1 \in Int /\ n - 1 \in Int
    BY <1>1
  <2> HIDE DEF n, r
  <2>3. /\ SubSeq(s, 1, n - 1) \in Seq(Frames)
        /\ Len(SubSeq(s, 1, n - 1)) = IF 1 <= n - 1 THEN n - 1 - 1 + 1 ELSE 0
        /\ \A i \in 1..(n - 1 - 1 + 1) : SubSeq(s, 1, n - 1)[i] = s[1 + i - 1]
    BY <2>1, <2>2, SubSeqProperties
  <2> QED
    BY <2>3, <1>1, <1>2
<1> HIDE DEF r, n
<1>5. \A i, j \in 1..(n - 1) : i < j => r[i].fn \in Beneath[r[j].fn]
  BY <1>1, <1>4 DEF StackOK, n
<1>6. \A i \in 1..(n - 1) : i < n - 1 => Full(r[i]) \/ r[i + 1].fn = "getDevices"
  BY <1>1, <1>4 DEF StackOK, n
<1>7. \A i \in 1..(n - 1) : r[i].taken <= Len(LocksOf[r[i].fn])
  BY <1>1, <1>4 DEF StackOK, n
<1>8. \A i \in 1..(n - 1) : r[i].at \in {"lock", "notify"} \/ Full(r[i])
  BY <1>1, <1>4 DEF StackOK, n
<1>9. \A i \in 1..(n - 1) : r[i].fn \in Inner => i > 1
  BY <1>1, <1>4 DEF StackOK, n
<1>10. Len(r) = n - 1 /\ r \in Seq(Frames)
  BY <1>4
<1>3. StackOK(r)
  BY <1>5, <1>6, <1>7, <1>8, <1>9, <1>10 DEF StackOK
<1> QED
  BY <1>3 DEF r

\* The innermost function takes a lock, or gives one back and goes on elsewhere.
LEMMA TopOK ==
  ASSUME NEW s, StackOK(s), s # <<>>, NEW f \in Frames,
         f.fn = s[Len(s)].fn, f.taken <= Len(LocksOf[f.fn]), f.at \in {"lock", "notify"}
  PROVE  StackOK([s EXCEPT ![Len(s)] = f])
<1> DEFINE n == Len(s)
           r == [s EXCEPT ![n] = f]
<1>1. s \in Seq(Frames) /\ n \in Nat /\ n >= 1
  BY DEF StackOK
<1>2. r \in Seq(Frames) /\ Len(r) = n /\ r[n] = f /\ \A i \in 1..n : i < n => r[i] = s[i]
  BY <1>1
<1>3. \A i \in 1..n : r[i].fn = s[i].fn
  BY <1>1, <1>2
<1> HIDE DEF r
<1>4. \A i \in 1..Len(r) : r[i].taken <= Len(LocksOf[r[i].fn])
  BY <1>1, <1>2 DEF StackOK
<1>5. \A i, j \in 1..Len(r) : i < j => r[i].fn \in Beneath[r[j].fn]
  BY <1>1, <1>2, <1>3 DEF StackOK
<1>6. \A i \in 1..Len(r) : i < Len(r) => Full(r[i]) \/ r[i + 1].fn = "getDevices"
  BY <1>1, <1>2, <1>3 DEF StackOK
<1>8. \A i \in 1..Len(r) : r[i].at \in {"lock", "notify"} \/ Full(r[i])
  BY <1>1, <1>2 DEF StackOK
<1>9. \A i \in 1..Len(r) : r[i].fn \in Inner => i > 1
  BY <1>1, <1>2, <1>3 DEF StackOK
<1>7. StackOK(r)
  BY <1>2, <1>4, <1>5, <1>6, <1>8, <1>9 DEF StackOK
<1> QED
  BY <1>7 DEF r

----------------------------------------------------------------------------
(* The operations on one thread's stack keep StackInv.                     *)
LEMMA OneStack ==
  ASSUME StackInv, NEW t \in Threads, NEW s, StackOK(s), stack' = [stack EXCEPT ![t] = s]
  PROVE  StackInv'
<1>1. s \in Seq(Frames)
  BY DEF StackOK
<1>2. stack' \in [Threads -> Seq(Frames)]
  BY <1>1 DEF StackInv
<1>3. \A u \in Threads : StackOK(stack'[u])
  BY DEF StackInv
<1> QED
  BY <1>2, <1>3 DEF StackInv

\* An operation that begins on an idle thread keeps the shape of the stacks.
LEMMA BeginStep ==
  ASSUME StackInv, NEW t \in Threads, NEW fn \in Functions \ Inner, NEW arg \in Args, Begin(t, fn, arg)
  PROVE  StackInv'
BY BeginOK, OneStack DEF Begin

\* A call made by the function on top of a stack keeps their shape.
LEMMA CallStep ==
  ASSUME StackInv, NEW t \in Threads, stack[t] # <<>>,
         NEW g \in Functions, NEW at \in Points, MayCall(stack[t], at, g), Call(t, at, g)
  PROVE  StackInv'
<1>1. StackOK(stack[t])
  BY DEF StackInv
<1>2. StackOK(Append(Goto(stack[t], at), Frame(g, NoArg)))
  BY <1>1, CallOK
<1>3. stack' = [stack EXCEPT ![t] = Append(Goto(stack[t], at), Frame(g, NoArg))]
  BY DEF Call, StackInv
<1> QED
  BY <1>2, <1>3, OneStack

\* A statement that moves the function on top to its next point keeps it too,
LEMMA ContinueStep ==
  ASSUME StackInv, NEW t \in Threads, stack[t] # <<>>,
         NEW at \in Points, Full(Top(t)), Continue(t, at)
  PROVE  StackInv'
<1>1. StackOK(stack[t])
  BY DEF StackInv
<1>2. StackOK(Goto(stack[t], at))
  BY <1>1, GotoOK DEF Top
<1>3. stack' = [stack EXCEPT ![t] = Goto(stack[t], at)]
  BY DEF Continue, StackInv
<1> QED
  BY <1>2, <1>3, OneStack

\* and so does a return from it.
LEMMA ReturnStep ==
  ASSUME StackInv, NEW t \in Threads, stack[t] # <<>>, NEW value, Return(t, value)
  PROVE  StackInv'
<1>1. StackOK(Pop(stack[t]))
  BY PopOK DEF StackInv
<1>2. stack' = [stack EXCEPT ![t] = Pop(stack[t])]
  BY DEF Return, StackInv
<1> QED
  BY <1>1, <1>2, OneStack

\* Only createBridge and disconnectBridge unlock the bridge lock early.
LEMMA AnnounceStep ==
  ASSUME StackInv, NEW t \in Threads, stack[t] # <<>>, Announce(t)
  PROVE  StackInv'
<1> DEFINE s == stack[t]
           n == Len(s)
           f == [s[n] EXCEPT !.at = "notify", !.taken = 1]
<1>0. StackOK(s)
  BY DEF StackInv
<1>1. StackOK(s) /\ s \in Seq(Frames) /\ n \in Nat /\ n >= 1
  BY <1>0 DEF StackOK
<1>2. s[n] \in Frames
  BY <1>1
<1>3. f \in Frames /\ f.fn = s[n].fn /\ f.taken = 1 /\ f.at = "notify"
  BY <1>2 DEF Frames, Points
<1> HIDE DEF f
<1>7. Len(LocksOf[s[n].fn]) \in 1..2
  BY <1>2, LocksOfType DEF Frames
<1>4. f.taken <= Len(LocksOf[f.fn])
  <2>1. LocksOf[f.fn] = LocksOf[s[n].fn]
    BY <1>3
  <2>2. Len(LocksOf[f.fn]) \in 1..2
    BY <2>1, <1>7
  <2> HIDE DEF s, n
  <2>3. f.taken = 1
    BY <1>3
  <2> QED
    BY <2>2, <2>3
<1>5. stack' = [stack EXCEPT ![t] = [s EXCEPT ![n] = f]]
  BY DEF Announce, StackInv, f
<1>6. StackOK([s EXCEPT ![n] = f])
  BY <1>1, <1>3, <1>4, TopOK
<1> QED
  BY <1>5, <1>6, OneStack

\* Taking a mutex keeps the shape of the stacks.
LEMMA LockStep ==
  ASSUME StackInv, NEW t \in Threads, Lock(t)
  PROVE  StackInv'
<1> DEFINE s == stack[t]
           n == Len(s)
           f == [s[n] EXCEPT !.taken = @ + 1]
<1>1. StackOK(s) /\ s \in Seq(Frames) /\ n \in Nat /\ s # <<>> /\ n >= 1
  BY DEF StackInv, StackOK, Lock, Takes, Locking
<1>2. s[n] \in Frames /\ s[n].at = "lock" /\ s[n].taken < Len(LocksOf[s[n].fn])
  BY <1>1 DEF Lock, Takes, Locking, Top
<1>3. f \in Frames /\ f.fn = s[n].fn /\ f.taken = s[n].taken + 1 /\ f.at = "lock"
  BY <1>2 DEF Frames
<1>4. Len(LocksOf[s[n].fn]) \in 1..2
  BY <1>2, LocksOfType DEF Frames
<1>5. f.taken <= Len(LocksOf[f.fn])
  BY <1>2, <1>3, <1>4 DEF Frames
<1>6. stack' = [stack EXCEPT ![t] = [s EXCEPT ![n] = f]]
  BY DEF Lock, StackInv
<1> HIDE DEF f
<1>7. StackOK([s EXCEPT ![n] = f])
  BY <1>1, <1>3, <1>5, TopOK
<1> QED
  BY <1>6, <1>7, OneStack

----------------------------------------------------------------------------
(* Every step keeps the shape of the stacks.                               *)
Pair(f, g) == f \in Beneath[g] /\ Beneath[f] \subseteq Beneath[g]

\* Who calls whom.
LEMMA Pairs ==
  /\ \A f \in Creates : Pair(f, "start") /\ Pair(f, "stop") /\ Pair(f, "getDevices")
  /\ Pair("disconnectBridge", "stop") /\ Pair("disconnectBridge", "getDevices")
  /\ Pair("start", "startAdb") /\ Pair("stop", "monitorStop")
  /\ Pair("terminate", "getDevices") /\ Pair("terminate", "clientList") /\ Pair("terminate", "monitorStop")
  /\ Pair("updateDevices", "clientList") /\ Pair("reopen", "clientList")
  /\ Pair("processJdwpData", "clientList")
  /\ Pair("reopen", "deviceChanged") /\ Pair("removeClient", "deviceChanged")
<1>1. \A f \in Creates : Pair(f, "start") /\ Pair(f, "stop") /\ Pair(f, "getDevices")
  BY DEF Pair, Beneath, Creates
<1>2. Pair("disconnectBridge", "stop") /\ Pair("disconnectBridge", "getDevices")
  BY DEF Pair, Beneath, Creates
<1>3. Pair("start", "startAdb") /\ Pair("stop", "monitorStop")
  BY DEF Pair, Beneath, Creates
<1>4. Pair("terminate", "getDevices") /\ Pair("terminate", "clientList") /\ Pair("terminate", "monitorStop")
  BY DEF Pair, Beneath, Creates
<1>5. Pair("updateDevices", "clientList") /\ Pair("reopen", "clientList") /\ Pair("processJdwpData", "clientList")
  BY DEF Pair, Beneath, Creates
<1>6. Pair("reopen", "deviceChanged") /\ Pair("removeClient", "deviceChanged")
  BY DEF Pair, Beneath, Creates
<1> QED
  BY <1>1, <1>2, <1>3, <1>4, <1>5, <1>6

\* The functions of the table of locks, by name.
LEMMA FunctionNames ==
  Functions =
    {"createBridge", "createBridgeAt", "disconnectBridge", "terminate", "init", "start",
     "stop", "startAdb", "stopAdb", "getDevices", "monitorStop", "updateDevices",
     "deviceChanged", "clientList", "removeClient", "selectGate", "reopen",
     "processJdwpData"}
BY DEF Functions, LocksOf

\* A function that is past its beginning, and not telling listeners, has its locks.
LEMMA AtFull ==
  ASSUME StackInv, NEW t \in Threads, NEW fn, NEW at, At(t, fn, at), at \notin {"lock", "notify"}
  PROVE  stack[t] # <<>> /\ Top(t).fn = fn /\ Full(Top(t))
<1>1. StackOK(stack[t]) /\ stack[t] # <<>> /\ Top(t).fn = fn /\ Top(t).at = at
  BY DEF StackInv, At
<1>2. Len(stack[t]) \in 1..Len(stack[t])
  BY <1>1 DEF StackOK
<1> QED
  BY <1>1, <1>2 DEF StackOK, Top

\* A function that has been entered has taken all its mutexes.
LEMMA EnteredFull ==
  ASSUME NEW t, NEW fn, Entered(t, fn)
  PROVE  stack[t] # <<>> /\ Top(t).fn = fn /\ Full(Top(t))
BY DEF Entered, At, Full

\* A function that has its locks calls another.
LEMMA FullCall ==
  ASSUME StackInv, NEW t \in Threads, stack[t] # <<>>, Full(Top(t)),
         NEW g \in Functions, NEW at \in Points, Pair(Top(t).fn, g), Call(t, at, g)
  PROVE  StackInv'
BY CallStep DEF MayCall, Pair, Top

\* createBridge keeps the stack invariant.
LEMMA CreateSteps ==
  ASSUME StackInv, NEW t \in Threads,
         C_Existing(t) \/ C_Replace(t) \/ C_Construct(t) \/ C_Started(t) \/ C_Undo(t)
  PROVE  StackInv'
<1>1. ASSUME Creating(t)
      PROVE  stack[t] # <<>> /\ Full(Top(t)) /\ Top(t).fn \in Creates
  BY <1>1, EnteredFull DEF Creating, Creates
<1>2. ASSUME NEW fn \in Creates, NEW at \in {"replace", "started", "undo"}, At(t, fn, at)
      PROVE  stack[t] # <<>> /\ Full(Top(t)) /\ Top(t).fn \in Creates
  BY <1>2, AtFull
<1>3. CASE C_Existing(t)
  BY <1>1, <1>3, ReturnStep DEF C_Existing
<1>4. CASE C_Replace(t)
  <2>1. Pair(Top(t).fn, "stop")
    BY <1>1, <1>4, Pairs DEF C_Replace
  <2> QED
    BY <1>1, <1>4, <2>1, FullCall, FunctionNames DEF C_Replace, Points
<1>5. CASE C_Construct(t)
  <2>1. stack[t] # <<>> /\ Full(Top(t)) /\ Top(t).fn \in Creates
    <3>1. CASE Creating(t)
      BY <3>1, <1>1
    <3>2. CASE At(t, "createBridgeAt", "replace")
      BY <3>2, AtFull DEF Creates
    <3> QED
      BY <3>1, <3>2, <1>5 DEF C_Construct
  <2>2. CASE NoBridge(t)
    BY <2>1, <2>2, AnnounceStep DEF NoBridge
  <2>3. CASE NewBridge(t)
    <3>1. Pair(Top(t).fn, "start")
      BY <2>1, Pairs
    <3>2. Call(t, "started", "start")
      BY <2>3 DEF NewBridge
    <3> QED
      BY <2>1, <3>1, <3>2, FullCall, FunctionNames DEF Points
  <2> QED
    BY <1>5, <2>2, <2>3 DEF C_Construct
<1>6. CASE C_Started(t)
  <2>1. stack[t] # <<>> /\ Full(Top(t)) /\ Top(t).fn \in Creates
    BY <1>2, <1>6 DEF C_Started, Creates
  <2>2. Pair(Top(t).fn, "stop")
    BY <2>1, Pairs
  <2>3. Announce(t) \/ Call(t, "undo", "stop")
    BY <1>6 DEF C_Started
  <2> QED
    BY <2>1, <2>2, <2>3, AnnounceStep, FullCall, FunctionNames DEF Points
<1>7. CASE C_Undo(t)
  <2>1. stack[t] # <<>>
    BY <1>7 DEF C_Undo, At
  <2> QED
    BY <1>7, <2>1, AnnounceStep DEF C_Undo, NoBridge
<1> QED
  BY <1>3, <1>4, <1>5, <1>6, <1>7

\* disconnectBridge keeps the stack invariant.
LEMMA DisconnectSteps ==
  ASSUME StackInv, NEW t \in Threads, D_Disconnect(t) \/ D_Stopped(t) \/ Notify(t)
  PROVE  StackInv'
<1>1. CASE D_Disconnect(t)
  <2>1. stack[t] # <<>> /\ Full(Top(t)) /\ Pair(Top(t).fn, "stop")
    BY <1>1, EnteredFull, Pairs DEF D_Disconnect
  <2>2. Return(t, TRUE) \/ Call(t, "stopped", "stop")
    BY <1>1 DEF D_Disconnect
  <2> QED
    BY <2>1, <2>2, ReturnStep, FullCall, FunctionNames DEF Points
<1>2. CASE D_Stopped(t)
  BY <1>2, AnnounceStep DEF D_Stopped, NoBridge, At
<1>3. CASE Notify(t)
  <2>1. stack[t] # <<>> /\ Top(t).fn \in Creates \cup {"disconnectBridge"}
    BY <1>3 DEF Notify, At, Creates
  <2>2. Pair(Top(t).fn, "getDevices")
    BY <2>1, Pairs
  <2>3. CASE Return(t, TRUE)
    BY <2>1, <2>3, ReturnStep
  <2>4. CASE Call(t, "notify", "getDevices")
    <3>1. MayCall(stack[t], "notify", "getDevices")
      BY <2>2 DEF MayCall, Pair, Top
    <3> QED
      BY <2>1, <2>4, <3>1, CallStep, FunctionNames DEF Points
  <2> QED
    BY <1>3, <2>3, <2>4 DEF Notify
<1> QED
  BY <1>1, <1>2, <1>3

\* The starts and stops of the bridge and of its monitor keep the stack invariant.
LEMMA StartStopSteps ==
  ASSUME StackInv, NEW t \in Threads,
         \/ S_Start(t) \/ S_Adb(t) \/ S_Stop(t) \/ S_Stopped(t) \/ StartAdb(t)
         \/ MonitorStop(t) \/ MonitorJoined(t)
  PROVE  StackInv'
<1>1. CASE S_Start(t)
  <2>1. stack[t] # <<>> /\ Full(Top(t)) /\ Pair(Top(t).fn, "startAdb")
    BY <1>1, EnteredFull, Pairs DEF S_Start
  <2>2. Return(t, TRUE) \/ Call(t, "adb", "startAdb")
    BY <1>1 DEF S_Start, Launch
  <2> QED
    BY <2>1, <2>2, ReturnStep, FullCall, FunctionNames DEF Points
<1>2. CASE S_Adb(t)
  <2>1. stack[t] # <<>> /\ (Return(t, TRUE) \/ Return(t, FALSE))
    BY <1>2 DEF S_Adb, Launch, At
  <2> QED
    BY <2>1, ReturnStep
<1>3. CASE S_Stop(t)
  <2>1. stack[t] # <<>> /\ Full(Top(t)) /\ Pair(Top(t).fn, "monitorStop")
    BY <1>3, EnteredFull, Pairs DEF S_Stop
  <2>2. stack' = stack \/ Return(t, FALSE) \/ Call(t, "stopped", "monitorStop")
    BY <1>3 DEF S_Stop, Crash
  <2>3. ASSUME stack' = stack PROVE StackInv'
    BY <2>3 DEF StackInv
  <2> QED
    BY <2>1, <2>2, <2>3, ReturnStep, FullCall, FunctionNames DEF Points
<1>4. CASE S_Stopped(t)
  BY <1>4, ReturnStep DEF S_Stopped, At
<1>5. CASE StartAdb(t)
  BY <1>5, ReturnStep DEF StartAdb, Entered, At
<1>6. CASE MonitorStop(t)
  <2>1. stack[t] # <<>> /\ Full(Top(t))
    BY <1>6, EnteredFull DEF MonitorStop
  <2>2. Return(t, TRUE) \/ Continue(t, "join")
    BY <1>6 DEF MonitorStop
  <2> QED
    BY <2>1, <2>2, ReturnStep, ContinueStep DEF Points
<1>7. CASE MonitorJoined(t)
  BY <1>7, ReturnStep DEF MonitorJoined, At
<1> QED
  BY <1>1, <1>2, <1>3, <1>4, <1>5, <1>6, <1>7

\* terminate keeps the stack invariant.
LEMMA TerminateSteps ==
  ASSUME StackInv, NEW t \in Threads,
         T_Clients(t) \/ T_DropClients(t) \/ T_Monitor(t) \/ T_StopReactor(t) \/ T_Joined(t)
  PROVE  StackInv'
<1>1. CASE T_Clients(t)
  <2>1. stack[t] # <<>> /\ Full(Top(t)) /\ Pair(Top(t).fn, "getDevices")
    BY <1>1, EnteredFull, Pairs DEF T_Clients
  <2>2. stack' = stack \/ Continue(t, "monitor") \/ Call(t, "clients", "getDevices")
    BY <1>1 DEF T_Clients, Crash
  <2>3. ASSUME stack' = stack PROVE StackInv'
    BY <2>3 DEF StackInv
  <2> QED
    BY <2>1, <2>2, <2>3, ContinueStep, FullCall, FunctionNames DEF Points
<1>2. CASE T_DropClients(t)
  <2>1. stack[t] # <<>> /\ Full(Top(t)) /\ Pair(Top(t).fn, "clientList")
    BY <1>2, AtFull, Pairs DEF T_DropClients
  <2>2. Continue(t, "monitor") \/ Call(t, "clients", "clientList")
    BY <1>2 DEF T_DropClients
  <2> QED
    BY <2>1, <2>2, ContinueStep, FullCall, FunctionNames DEF Points
<1>3. CASE T_Monitor(t)
  <2>1. stack[t] # <<>> /\ Full(Top(t)) /\ Pair(Top(t).fn, "monitorStop")
    BY <1>3, AtFull, Pairs DEF T_Monitor
  <2>2. Continue(t, "monitorStopped") \/ Call(t, "monitorStopped", "monitorStop")
    BY <1>3 DEF T_Monitor
  <2> QED
    BY <2>1, <2>2, ContinueStep, FullCall, FunctionNames DEF Points
<1>4. CASE T_StopReactor(t)
  <2>1. stack[t] # <<>> /\ Full(Top(t))
    BY <1>4, AtFull DEF T_StopReactor
  <2> QED
    BY <1>4, <2>1, ContinueStep DEF T_StopReactor, Points
<1>5. CASE T_Joined(t)
  BY <1>5, ReturnStep DEF T_Joined, At
<1> QED
  BY <1>1, <1>2, <1>3, <1>4, <1>5

\* The operations on the clients of a device keep the stack invariant.
LEMMA ClientSteps ==
  ASSUME StackInv, NEW t \in Threads,
         ChangeClients(t) \/ Done(t) \/ K_Reopened(t) \/ R_Removed(t)
  PROVE  StackInv'
<1>1. CASE ChangeClients(t)
  <2>1. stack[t] # <<>> /\ Full(Top(t)) /\ Pair(Top(t).fn, "clientList")
    BY <1>1, EnteredFull, Pairs DEF ChangeClients
  <2> QED
    BY <1>1, <2>1, FullCall, FunctionNames DEF ChangeClients, Points
<1>2. CASE Done(t)
  BY <1>2, ReturnStep DEF Done, Entered, At
<1>3. CASE K_Reopened(t)
  <2>1. stack[t] # <<>> /\ Full(Top(t)) /\ Pair(Top(t).fn, "deviceChanged")
    BY <1>3, AtFull, Pairs DEF K_Reopened
  <2> QED
    BY <1>3, <2>1, FullCall, FunctionNames DEF K_Reopened, Points
<1>4. CASE R_Removed(t)
  <2>1. stack[t] # <<>> /\ Full(Top(t)) /\ Pair(Top(t).fn, "deviceChanged")
    BY <1>4, EnteredFull, Pairs DEF R_Removed
  <2> QED
    BY <1>4, <2>1, FullCall, FunctionNames DEF R_Removed, Points
<1> QED
  BY <1>1, <1>2, <1>3, <1>4

\* An application that begins an operation keeps the stack invariant.
LEMMA AppStarts ==
  ASSUME StackInv, NEW t \in Threads, A_Call(t) \/ A_Init(t)
  PROVE  StackInv'
<1>1. NoArg \in Args /\ \A location \in Locations \cup {NoLocation}, force \in BOOLEAN :
        [location |-> location, force |-> force] \in Args
  BY DEF NoArg, Args
<1>2. CASE A_Call(t)
  <2>1. \E fn \in Functions \ Inner, arg \in Args : Begin(t, fn, arg)
    BY <1>1, <1>2, FunctionNames DEF A_Call, Inner
  <2> QED
    BY <2>1, BeginStep
<1>3. CASE A_Init(t)
  BY <1>3, ReturnStep DEF A_Init, Entered, At
<1> QED
  BY <1>2, <1>3

\* The threads of the device list monitor keep the stack invariant.
LEMMA WatcherSteps ==
  ASSUME StackInv, NEW b \in 1..MaxBridges, WatcherNext(b)
  PROVE  StackInv'
<1>1. NoArg \in Args
  BY DEF NoArg, Args
<1>2. ListThread(b) \in Threads /\ ClientThread(b) \in Threads
  BY DEF Threads, Watchers, ThreadsOf
<1> DEFINE t == ListThread(b)
           c == ClientThread(b)
<1> HIDE DEF t, c
<1>3. t \in Threads /\ c \in Threads
  BY <1>2 DEF t, c
<1>4. CASE L_Loop(b)
  <2>1. \E fn \in Functions \ Inner : Begin(t, fn, NoArg)
    BY <1>4, FunctionNames DEF L_Loop, t, Inner
  <2> QED
    BY <1>1, <1>3, <2>1, BeginStep
<1>5. CASE L_Update(b)
  <2>1. stack[t] # <<>> /\ Full(Top(t)) /\ Pair(Top(t).fn, "clientList")
    BY <1>5, EnteredFull, Pairs DEF L_Update, t
  <2>2. Return(t, TRUE) \/ Call(t, "merged", "clientList")
    BY <1>5 DEF L_Update, t
  <2> QED
    BY <1>3, <2>1, <2>2, ReturnStep, FullCall, FunctionNames DEF Points
<1>6. CASE L_Updated(b)
  <2>1. stack[t] # <<>> /\ Return(t, TRUE)
    BY <1>6 DEF L_Updated, At, t
  <2> QED
    BY <1>3, <2>1, ReturnStep
<1>7. CASE K_Loop(b)
  <2>1. \E fn \in Functions \ Inner : Begin(c, fn, NoArg)
    BY <1>7, FunctionNames DEF K_Loop, c, Inner
  <2> QED
    BY <1>1, <1>3, <2>1, BeginStep
<1>8. CASE Ends(b)
  BY <1>8 DEF Ends, StackInv
<1> QED
  BY <1>4, <1>5, <1>6, <1>7, <1>8 DEF WatcherNext

----------------------------------------------------------------------------
\* The stacks always have this shape.
THEOREM Shape == Spec => []StackInv
<1>1. Init => StackInv
  <2> SUFFICES ASSUME Init PROVE StackInv
    OBVIOUS
  <2>1. stack = [t \in Threads |-> <<>>]
    BY DEF Init
  <2>2. stack \in [Threads -> Seq(Frames)]
    BY <2>1
  <2>3. ASSUME NEW t \in Threads PROVE StackOK(stack[t])
    <3>1. stack[t] = <<>>
      BY <2>1
    <3>2. <<>> \in Seq(Frames) /\ Len(<<>>) = 0
      OBVIOUS
    <3> QED
      BY <3>1, <3>2 DEF StackOK
  <2> QED
    BY <2>2, <2>3 DEF StackInv
<1>2. StackInv /\ [Next]_vars => StackInv'
  <2> SUFFICES ASSUME StackInv, [Next]_vars PROVE StackInv'
    OBVIOUS
  <2>1. CASE UNCHANGED vars
    BY <2>1 DEF vars, StackInv
  <2>2. ASSUME NEW t \in Apps, AppNext(t) PROVE StackInv'
    <3>1. t \in Threads
      BY DEF Threads
    <3> QED
      BY <2>2, <3>1, AppStarts, CreateSteps, DisconnectSteps, StartStopSteps, TerminateSteps DEF AppNext
  <2>3. ASSUME NEW t \in Threads, AnyNext(t) PROVE StackInv'
    <3>1. CASE Lock(t)
      BY <3>1, LockStep
    <3>2. CASE Leaf(t)
      BY <3>2, ReturnStep DEF Leaf, Takes, Locking
    <3>3. CASE StartAdb(t)
      BY <3>3, StartStopSteps
    <3>4. CASE ChangeClients(t) \/ Done(t) \/ K_Reopened(t) \/ R_Removed(t)
      BY <3>4, ClientSteps
    <3> QED
      BY <2>3, <3>1, <3>2, <3>3, <3>4 DEF AnyNext
  <2>4. ASSUME NEW b \in 1..MaxBridges, WatcherNext(b) PROVE StackInv'
    BY <2>4, WatcherSteps
  <2>5. CASE R_Loop
    <3>1. NoArg \in Args /\ Reactor \in Threads
      BY DEF NoArg, Args, Threads
    <3>2. \E fn \in Functions \ Inner : Begin(Reactor, fn, NoArg)
      BY <2>5, FunctionNames DEF R_Loop, Inner
    <3> QED
      BY <3>1, <3>2, BeginStep
  <2>6. CASE R_Ends
    BY <2>6 DEF R_Ends, StackInv
  <2> QED
    BY <2>1, <2>2, <2>3, <2>4, <2>5, <2>6 DEF Next
<1> QED
  BY <1>1, <1>2, PTL DEF Spec

----------------------------------------------------------------------------
(* From the shape of the stacks to the order of the locks.                 *)
Ordered(k, l) == Rank[k] < Rank[l] \/ <<k, l>> \in Inversions

\* The tables, entry by entry.
Takes1(fn, l) == LocksOf[fn][1] = l /\ Len(LocksOf[fn]) = 1
Takes2(fn, k, l) == LocksOf[fn][1] = k /\ LocksOf[fn][2] = l /\ Len(LocksOf[fn]) = 2

\* The mutexes each function holds, one line per function.
LEMMA LocksTable ==
  /\ Takes2("createBridge", "create", "bridge")
  /\ Takes2("createBridgeAt", "createAt", "bridge")
  /\ Takes2("disconnectBridge", "disconnect", "bridge")
  /\ Takes2("terminate", "terminate", "bridge")
  /\ Takes2("start", "start", "bridge")
  /\ Takes2("stop", "stop", "bridge")
  /\ Takes2("startAdb", "startAdb", "bridge")
  /\ Takes2("stopAdb", "stopAdb", "bridge")
  /\ Takes2("getDevices", "bridge", "devices")
  /\ Takes2("monitorStop", "bridge", "devices")
  /\ Takes2("updateDevices", "bridge", "devices")
  /\ Takes1("init", "bridge")
  /\ Takes1("deviceChanged", "bridge")
  /\ Takes1("clientList", "device")
  /\ Takes1("removeClient", "device")
  /\ Takes1("selectGate", "devices")
  /\ Takes1("reopen", "clients")
  /\ Takes1("processJdwpData", "clients")
BY DEF Takes1, Takes2, LocksOf, MergeLocks

\* The place of each function in the order of the mutexes.
LEMMA RankTable ==
  /\ Rank["create"] = 0
  /\ Rank["createAt"] = 0
  /\ Rank["disconnect"] = 0
  /\ Rank["terminate"] = 0
  /\ Rank["stopAdb"] = 0
  /\ Rank["clients"] = 1
  /\ Rank["bridge"] = 2
  /\ Rank["start"] = 3
  /\ Rank["stop"] = 3
  /\ Rank["startAdb"] = 4
  /\ Rank["devices"] = 5
  /\ Rank["device"] = 6
BY DEF Rank

\* Each function takes its two locks in order, but for start and stop.
LEMMA OwnOrder ==
  \A fn \in Functions \ Inner :
    Len(LocksOf[fn]) = 2 => Ordered(LocksOf[fn][1], LocksOf[fn][2])
<1> SUFFICES ASSUME NEW fn \in Functions \ Inner, Len(LocksOf[fn]) = 2
             PROVE  Ordered(LocksOf[fn][1], LocksOf[fn][2])
  OBVIOUS
<1>1. CASE fn \in {"createBridge", "createBridgeAt", "disconnectBridge", "terminate", "stopAdb"}
  BY <1>1, LocksTable, RankTable DEF Ordered, Takes2
<1>3. CASE fn = "startAdb"
  BY <1>3, LocksTable DEF Ordered, Inversions, Takes2
<1>4. CASE fn \in {"getDevices", "updateDevices"}
  BY <1>4, LocksTable, RankTable DEF Ordered, Takes2
<1>5. CASE fn \in {"init", "deviceChanged", "clientList", "removeClient", "selectGate", "reopen",
                   "processJdwpData"}
  BY <1>5, LocksTable DEF Takes1
<1> QED
  BY <1>1, <1>3, <1>4, <1>5, FunctionNames DEF Inner

\* These are called under the bridge lock, which they take again.
Under == {"start", "stop", "startAdb", "monitorStop"}

\* A function that is called with the bridge lock held has a caller that holds it.
LEMMA CallersHoldBridge ==
  \A h \in Under : \A g \in Beneath[h] :
    g \in Functions /\ Len(LocksOf[g]) = 2 /\ LocksOf[g][2] = "bridge"
BY FunctionNames DEF Under, Beneath, Creates, LocksOf

\* What a function takes ranks above what those beneath it have, or is the bridge
\* lock that its caller has.
LEMMA NestedOrder ==
  ASSUME NEW h \in Functions, NEW g \in Beneath[h],
         NEW k \in 1..Len(LocksOf[g]), NEW m \in 1..Len(LocksOf[h])
  PROVE  \/ Ordered(LocksOf[g][k], LocksOf[h][m])
         \/ LocksOf[g][k] = LocksOf[h][m]
         \/ LocksOf[h][m] = "bridge" /\ h \in Under
<1>1. CASE h \in {"start", "stop", "startAdb"}
  <2>1. g \in Creates \cup {"disconnectBridge", "start"} /\ (g = "start" => h = "startAdb")
    BY <1>1 DEF Beneath, Creates
  <2>5. Len(LocksOf[g]) = 2 /\ Len(LocksOf[h]) = 2
    BY <1>1, <2>1, LocksTable DEF Creates, Takes2
  <2>6. LocksOf[h][2] = "bridge"
    BY <1>1, LocksTable DEF Takes2
  <2>2. k \in 1..2 /\ m \in 1..2 /\ LocksOf[h][2] = "bridge"
    BY <2>5, <2>6
  <2>3. CASE m = 2
    BY <1>1, <2>2, <2>3 DEF Under
  <2>4. CASE m = 1
    <3>1. Rank[LocksOf[h][1]] = IF h = "startAdb" THEN 4 ELSE 3
      BY <1>1, LocksTable, RankTable DEF Takes1, Takes2
    <3>2. Rank[LocksOf[g][k]] = IF k = 2 THEN 2 ELSE IF g = "start" THEN 3 ELSE 0
      BY <2>1, <2>2, LocksTable, RankTable DEF Creates, Takes1, Takes2
    <3> QED
      BY <2>1, <2>2, <2>4, <3>1, <3>2 DEF Ordered
  <2> QED
    BY <2>2, <2>3, <2>4
<1>2. CASE h = "monitorStop"
  <2>1. g \in Creates \cup {"disconnectBridge", "terminate", "stop"}
    BY <1>2 DEF Beneath
  <2>2. k \in 1..2 /\ m \in 1..2 /\ LocksOf[h][1] = "bridge" /\ LocksOf[h][2] = "devices"
    BY <1>2, <2>1, LocksTable DEF Creates, Takes1, Takes2
  <2>3. CASE m = 1
    BY <1>2, <2>2, <2>3 DEF Under
  <2>4. CASE m = 2
    <3>1. Rank[LocksOf[h][m]] = 5
      BY <2>2, <2>4, RankTable
    <3>2. Rank[LocksOf[g][k]] = IF k = 2 THEN 2 ELSE IF g = "stop" THEN 3 ELSE 0
      BY <2>1, <2>2, LocksTable, RankTable DEF Creates, Takes1, Takes2
    <3> QED
      BY <2>1, <2>2, <3>1, <3>2 DEF Ordered
  <2> QED
    BY <2>2, <2>3, <2>4
<1>3. CASE h = "getDevices"
  BY <1>3 DEF Beneath, Creates, LocksOf, Rank, Ordered, Inversions
<1>4. CASE h = "deviceChanged"
  BY <1>4 DEF Beneath, LocksOf, Rank, Ordered, Inversions
<1>5. CASE h = "clientList"
  <2>1. g \in {"terminate", "updateDevices", "reopen", "processJdwpData"}
    BY <1>5 DEF Beneath
  <2>2. LocksOf[h][m] = "device"
    BY <1>5, LocksTable DEF Takes1, Takes2
  <2>4. Len(LocksOf[g]) \in 1..2
    BY <2>1, LocksTable DEF Takes1, Takes2
  <2>6. ASSUME NEW len \in 1..2, k \in 1..len
        PROVE  k \in 1..2 /\ (len = 1 => k = 1)
    BY <2>6
  <2>5. k \in 1..2 /\ (Len(LocksOf[g]) = 1 => k = 1)
    BY <2>4, <2>6
  <2>3. Rank[LocksOf[g][k]] <= 5 /\ Rank[LocksOf[g][k]] \in Nat
    BY <2>1, <2>5, LocksTable, RankTable DEF Takes1, Takes2
  <2> QED
    BY <2>2, <2>3, RankTable DEF Ordered
<1>6. CASE Beneath[h] = {}
  BY <1>6
<1> QED
  BY <1>1, <1>2, <1>3, <1>4, <1>5, <1>6, FunctionNames DEF Beneath

\* In every stack of the permitted shape, mutexes are taken in the order of their ranks.
LEMMA ShapeOrder ==
  ASSUME StackInv
  PROVE  LockOrder
<1> SUFFICES ASSUME NEW t \in Threads, Locking(t), ~Holds(t, Wanted(t)), NEW l \in Held(t)
             PROVE  Ordered(l, Wanted(t))
  BY DEF LockOrder, Ordered
<1> DEFINE s == stack[t]
           n == Len(s)
           h == s[n].fn
           m == s[n].taken + 1
<1>1. StackOK(s) /\ s # <<>>
  BY DEF StackInv, Locking
<1>2. s \in Seq(Frames) /\ n \in Nat /\ n >= 1
  BY <1>1 DEF StackOK
<1>3. s[n] \in Frames
  BY <1>2
<1>4. h \in Functions /\ s[n].taken \in Nat /\ Len(LocksOf[h]) \in 1..2
  BY <1>3, LocksOfType DEF Frames
<1>5. m \in 1..Len(LocksOf[h]) /\ Wanted(t) = LocksOf[h][m]
  BY <1>4 DEF Locking, Wanted, Top
<1>6. PICK i \in 1..n : \E k \in 1..s[i].taken : LocksOf[s[i].fn][k] = l
  BY DEF Held, Holds
<1>7. PICK k \in 1..s[i].taken : LocksOf[s[i].fn][k] = l
  BY <1>6
<1>8. s[i] \in Frames /\ s[i].taken <= Len(LocksOf[s[i].fn])
  BY <1>1, <1>2 DEF StackOK
<1>9. k \in 1..Len(LocksOf[s[i].fn])
  BY <1>7, <1>8, LocksOfType DEF Frames
<1> HIDE DEF m, h
<1>12. ASSUME n > 1, h \in Under
       PROVE  Holds(t, "bridge")
  <2>1. n - 1 \in 1..n /\ n - 1 < n
    BY <1>2, <1>12
  <2>5. n \in 1..n /\ \A a, b \in 1..n : a < b => s[a].fn \in Beneath[s[b].fn]
    BY <1>1, <1>2 DEF StackOK
  <2>2. s[n - 1].fn \in Beneath[h]
    BY <2>1, <2>5 DEF h
  <2>3. Len(LocksOf[s[n - 1].fn]) = 2 /\ LocksOf[s[n - 1].fn][2] = "bridge"
    BY <1>12, <2>2, CallersHoldBridge
  <2>4. Full(s[n - 1])
    <3>1. n - 1 + 1 = n /\ h # "getDevices"
      BY <1>2, <1>12 DEF Under
    <3> QED
      BY <2>1, <3>1, <1>1 DEF StackOK, h
  <2> QED
    BY <2>1, <2>3, <2>4 DEF Holds, Full
<1>13. n \in 1..n
  BY <1>2
<1>14. h \in Inner => n > 1
  BY <1>1, <1>13 DEF StackOK, h
<1>10. CASE i = n
  <2>1. k = 1 /\ m = 2 /\ Len(LocksOf[h]) = 2
    BY <1>4, <1>5, <1>7, <1>10 DEF h, m
  <2>2. l = LocksOf[h][1]
    BY <2>1, <1>7, <1>10 DEF h
  <2>3. CASE h \in {"start", "stop"}
    <3>1. Wanted(t) = "bridge"
      BY <2>1, <2>3, <1>5, LocksTable DEF Takes2
    <3> QED
      BY <3>1, <2>3, <1>12, <1>14 DEF Under, Inner
  <2>4. CASE h = "monitorStop"
    BY <2>1, <2>2, <2>4, <1>5, LocksTable, RankTable DEF Takes2, Ordered
  <2>5. CASE h \notin Inner
    BY <2>1, <2>2, <2>5, <1>4, <1>5, OwnOrder
  <2> QED
    BY <2>3, <2>4, <2>5 DEF Inner
<1>11. CASE i < n
  <2>1. s[i].fn \in Beneath[h]
    BY <1>1, <1>2, <1>11 DEF StackOK, h
  <2>2. \/ Ordered(LocksOf[s[i].fn][k], LocksOf[h][m])
        \/ LocksOf[s[i].fn][k] = LocksOf[h][m]
        \/ LocksOf[h][m] = "bridge" /\ h \in Under
    <3> HIDE DEF s, n
    <3> QED
      BY <2>1, <1>4, <1>5, <1>9, NestedOrder
  <2>3. l # Wanted(t)
    BY DEF Held
  <2>4. n > 1
    BY <1>2, <1>11
  <2> HIDE DEF s, n
  <2>5. LocksOf[s[i].fn][k] = l /\ LocksOf[h][m] = Wanted(t)
    BY <1>5, <1>7
  <2>6. Ordered(l, Wanted(t)) \/ l = Wanted(t) \/ (Wanted(t) = "bridge" /\ h \in Under)
    BY <2>2, <2>5, Zenon
  <2> QED
    BY <2>3, <2>4, <2>6, <1>12
<1> QED
  BY <1>2, <1>10, <1>11

\* The lock order, for every number of threads and bridges: a thread that waits for a
\* lock holds only locks that rank lower, except for the two known inversions.
THEOREM LocksOrdered == Spec => []LockOrder
BY Shape, ShapeOrder, PTL

-----------------------------------------------------------------------------
(***************************************************************************)
(* At most one monitor's threads run.                                      *)
(*                                                                         *)
(* All that makes, starts, stops or forgets a monitor happens under the    *)
(* bridge lock, which like every lock is one thread's (Mutex), of those    *)
(* that can have come to it (Calls); what a function may rely              *)
(* on when one that it called returns depends on where it goes on (Sites). *)
(* MonitorsInv says what holds at the points in between.                   *)
(***************************************************************************)

(* Where a function goes on when the one it called returns                 *)
CallSites ==
  {<<<<"createBridgeAt", "replace">>, "stop">>,
   <<<<"createBridge", "started">>, "start">>, <<<<"createBridgeAt", "started">>, "start">>,
   <<<<"createBridge", "undo">>, "stop">>, <<<<"createBridgeAt", "undo">>, "stop">>,
   <<<<"createBridge", "notify">>, "getDevices">>,
   <<<<"createBridgeAt", "notify">>, "getDevices">>,
   <<<<"disconnectBridge", "notify">>, "getDevices">>,
   <<<<"disconnectBridge", "stopped">>, "stop">>,
   <<<<"start", "adb">>, "startAdb">>, <<<<"stop", "stopped">>, "monitorStop">>,
   <<<<"terminate", "clients">>, "getDevices">>, <<<<"terminate", "clients">>, "clientList">>,
   <<<<"terminate", "monitorStopped">>, "monitorStop">>,
   <<<<"updateDevices", "merged">>, "clientList">>, <<<<"reopen", "changed">>, "clientList">>,
   <<<<"processJdwpData", "changed">>, "clientList">>,
   <<<<"reopen", "done">>, "deviceChanged">>, <<<<"removeClient", "done">>, "deviceChanged">>}

Place(f) == <<f.fn, f.at>>

Sites(s) == \A i \in 1..Len(s) : i < Len(s) => <<Place(s[i]), s[i + 1].fn>> \in CallSites

HasLock(s, l) == \E i \in 1..Len(s) : \E k \in 1..s[i].taken : LocksOf[s[i].fn][k] = l

HasBridge(s) == HasLock(s, "bridge")

(* What the thread that was in s still has in r                            *)
NoMoreLocks(s, r) == \A l \in Locks : HasLock(r, l) => HasLock(s, l)

(* The functions that a thread is given to begin with                      *)
Calls(t) ==
  IF t \in Apps
  THEN {"init", "terminate", "createBridge", "createBridgeAt", "disconnectBridge", "startAdb",
        "stopAdb", "getDevices"}
  ELSE IF t = Reactor THEN {"processJdwpData", "deviceChanged", "removeClient"}
  ELSE {"startAdb", "deviceChanged", "updateDevices", "selectGate", "reopen"}

SameBottom(s, r) == r # <<>> => s # <<>> /\ r[1].fn = s[1].fn

Mutex ==
  /\ \A t \in Threads : Sites(stack[t])
  /\ \A t \in Threads : stack[t] # <<>> => stack[t][1].fn \in Calls(t)
  /\ \A t, u \in Threads : \A l \in Locks : HasLock(stack[t], l) /\ HasLock(stack[u], l) => t = u

Starting(s) == \E i \in 1..Len(s) : s[i].fn = "start"

(* Where a thread is                                                       *)
Nowhere == <<"none", "none">>
Point(s) == IF s = <<>> THEN Nowhere ELSE Place(s[Len(s)])

(* The points where the monitor, if there was one, has been forgotten      *)
NoMonitor ==
  {<<"createBridgeAt", "replace">>, <<"createBridge", "undo">>, <<"createBridgeAt", "undo">>,
   <<"disconnectBridge", "stopped">>, <<"terminate", "joinReactor">>}

(* The points where its threads have ended                                 *)
Joined == {<<"stop", "stopped">>, <<"terminate", "monitorStopped">>}

Stopping == Joined \cup {<<"monitorStop", "join">>}

Workers == running \ {Reactor}

Monitor ==
  /\ made \in 0..MaxBridges /\ sThis \in 0..made /\ mDeviceMonitor \in {0, sThis}
  /\ mDeviceMonitor # 0 => mStarted
  /\ quit \subseteq 0..made
  /\ Workers \subseteq (IF mDeviceMonitor = 0 THEN {} ELSE ThreadsOf(mDeviceMonitor))

(* What the thread with this stack relies on                               *)
Claims(s) ==
  /\ Starting(s) => sThis # 0 /\ sThis \notin quit /\ mDeviceMonitor = 0
  /\ Point(s) \in NoMonitor => mDeviceMonitor = 0
  /\ Point(s) \in Joined => Workers = {}

Quitting == mDeviceMonitor # 0 /\ mDeviceMonitor \in quit

MonitorsInv ==
  /\ Monitor
  /\ \A w \in Watchers : stack[w] # <<>> => w \in running
  /\ \A t \in Threads : Claims(stack[t])
  /\ Quitting => \E t \in Threads : Point(stack[t]) \in Stopping

-----------------------------------------------------------------------------
(* What the operations on a stack do to it.                                *)

BridgeFunctions ==
  {"createBridge", "createBridgeAt", "disconnectBridge", "terminate", "init", "start", "stop",
   "startAdb", "stopAdb", "getDevices", "monitorStop", "updateDevices", "deviceChanged"}

(* The bridge lock is one of the locks, so that at most one thread has it. *)
LEMMA BridgeIsLock == "bridge" \in Locks
<1>1. "init" \in Functions
  BY FunctionNames
<1>2. LocksOf["init"][1] = "bridge" /\ Len(LocksOf["init"]) = 1
  BY LocksTable DEF Takes1
<1> QED
  BY <1>1, <1>2 DEF Locks

(* A function that takes the bridge lock and has all its locks has it.     *)
LEMMA FullBridge ==
  ASSUME NEW s, StackOK(s), NEW i \in 1..Len(s), Full(s[i]), s[i].fn \in BridgeFunctions
  PROVE  HasBridge(s)
<1>1. \E k \in 1..Len(LocksOf[s[i].fn]) : LocksOf[s[i].fn][k] = "bridge"
  BY LocksTable DEF BridgeFunctions, Takes1, Takes2
<1> QED
  BY <1>1 DEF HasBridge, HasLock, Full

(* A thread with start on its stack holds the bridge lock: createBridge,   *)
(* which called it, has it.                                                *)
LEMMA StartingBridge ==
  ASSUME NEW s, StackOK(s), Starting(s)
  PROVE  HasBridge(s)
<1>1. PICK i \in 1..Len(s) : s[i].fn = "start"
  BY DEF Starting
<1>2. Len(s) \in Nat /\ s \in Seq(Frames)
  BY DEF StackOK
<1>3. i > 1
  BY <1>1 DEF StackOK, Inner
<1>4. i - 1 \in 1..Len(s) /\ (i - 1) + 1 = i /\ i - 1 < Len(s)
  BY <1>2, <1>3
<1>5. s[i - 1].fn \in Beneath["start"]
  BY <1>1, <1>2, <1>3, <1>4 DEF StackOK
<1>6. s[i - 1].fn \in Creates
  BY <1>5 DEF Beneath
<1>7. Full(s[i - 1])
  BY <1>1, <1>4 DEF StackOK
<1> QED
  BY <1>4, <1>6, <1>7, FullBridge DEF Creates, BridgeFunctions

(* From s to r: the same functions, the innermost with other locks or at   *)
(* another place.                                                          *)
LEMMA SetTop ==
  ASSUME NEW s, StackOK(s), s # <<>>, NEW r, r \in Seq(Frames), Len(r) = Len(s),
         \A i \in 1..Len(s) : i < Len(s) => r[i] = s[i],
         r[Len(s)].fn = s[Len(s)].fn
  PROVE  /\ Sites(s) => Sites(r)
         /\ Starting(r) => Starting(s)
         /\ r[Len(s)].taken <= s[Len(s)].taken => NoMoreLocks(s, r)
         /\ r # <<>> /\ SameBottom(s, r)
<1>1. Len(s) \in Nat /\ s \in Seq(Frames) /\ Len(s) > 0
  BY DEF StackOK
<1> DEFINE n == Len(s)
<1> HIDE DEF n
<1>2. \A i \in 1..n : r[i].fn = s[i].fn
  BY <1>1 DEF n
<1>3. Sites(s) => Sites(r)
  BY <1>1, <1>2 DEF Sites, n
<1>4. Starting(r) => Starting(s)
  BY <1>1, <1>2 DEF Starting, n
<1>5. ASSUME r[n].taken <= s[n].taken, NEW l \in Locks, HasLock(r, l) PROVE HasLock(s, l)
  <2>1. PICK i \in 1..n : \E k \in 1..r[i].taken : LocksOf[r[i].fn][k] = l
    BY <1>5 DEF HasLock, n
  <2>2. PICK k \in 1..r[i].taken : LocksOf[r[i].fn][k] = l
    BY <2>1
  <2>3. i < n \/ i = n
    BY <1>1, <2>1 DEF n
  <2>6. r[i].taken <= s[i].taken
    <3>1. CASE i = n
      BY <1>5, <3>1
    <3>2. CASE i < n
      <4>1. r[i] = s[i] /\ s[i] \in Frames
        BY <1>1, <3>2 DEF n
      <4>2. s[i].taken \in Nat
        BY <4>1 DEF Frames
      <4> QED
        BY <4>1, <4>2
    <3> QED
      BY <2>3, <3>1, <3>2
  <2>7. r[i] \in Frames /\ s[i] \in Frames
    BY <1>1 DEF n
  <2>4. r[i].taken <= s[i].taken /\ r[i].taken \in Nat /\ s[i].taken \in Nat
    BY <2>6, <2>7 DEF Frames
  <2>5. k \in 1..s[i].taken
    BY <2>4
  <2> QED
    BY <1>2, <2>2, <2>5 DEF HasLock, n
<1>6. r # <<>> /\ SameBottom(s, r)
  <2>1. 1 \in 1..n /\ r # <<>> /\ s # <<>>
    BY <1>1 DEF n
  <2> QED
    BY <1>2, <2>1 DEF SameBottom
<1> QED
  BY <1>1, <1>3, <1>4, <1>5, <1>6 DEF n, NoMoreLocks

\* What a call adds to a stack.
LEMMA Pushed ==
  ASSUME NEW s, StackOK(s), s # <<>>, NEW f \in Frames, f.taken = 0
  PROVE  /\ Sites(s) /\ <<Place(s[Len(s)]), f.fn>> \in CallSites => Sites(Append(s, f))
         /\ Starting(Append(s, f)) => Starting(s) \/ f.fn = "start"
         /\ NoMoreLocks(s, Append(s, f)) /\ SameBottom(s, Append(s, f))
         /\ Point(Append(s, f)) = Place(f)
<1> DEFINE n == Len(s)
           r == Append(s, f)
<1>1. n \in Nat /\ s \in Seq(Frames) /\ n > 0
  BY DEF StackOK
<1>2. Len(r) = n + 1 /\ r[n + 1] = f /\ \A i \in 1..n : r[i] = s[i]
  BY <1>1
<1>3. r # <<>>
  BY <1>1, <1>2
<1> HIDE DEF n, r
<1>4. \A i \in 1..(n + 1) : i \in 1..n \/ i = n + 1
  BY <1>1
<1>5. ASSUME Sites(s), <<Place(s[n]), f.fn>> \in CallSites PROVE Sites(r)
  <2> SUFFICES ASSUME NEW i \in 1..n PROVE <<Place(r[i]), r[i + 1].fn>> \in CallSites
    BY <1>1, <1>2 DEF Sites
  <2>1. CASE i < n
    <3>1. r[i] = s[i] /\ r[i + 1] = s[i + 1]
      BY <1>1, <1>2, <2>1
    <3> QED
      BY <1>5, <2>1, <3>1 DEF Sites, n
  <2>2. CASE i = n
    BY <1>2, <1>5, <2>2
  <2> QED
    BY <1>1, <2>1, <2>2
<1>6. Starting(r) => Starting(s) \/ f.fn = "start"
  BY <1>2, <1>4 DEF Starting, n
<1>7. ASSUME NEW l \in Locks, HasLock(r, l) PROVE HasLock(s, l)
  <2>1. PICK i \in 1..(n + 1) : \E k \in 1..r[i].taken : LocksOf[r[i].fn][k] = l
    BY <1>2, <1>7 DEF HasLock
  <2>2. i # n + 1
    BY <1>2, <2>1
  <2> QED
    BY <1>2, <1>4, <2>1, <2>2 DEF HasLock, n
<1>8. Point(r) = Place(f)
  BY <1>2, <1>3 DEF Point
<1>9. SameBottom(s, r)
  <2>1. 1 \in 1..n
    BY <1>1
  <2> QED
    BY <1>2, <2>1 DEF SameBottom
<1> QED
  BY <1>5, <1>6, <1>7, <1>8, <1>9 DEF n, r, NoMoreLocks

\* What a return leaves of a stack.
LEMMA Popped ==
  ASSUME NEW s, StackOK(s), s # <<>>
  PROVE  /\ Sites(s) => Sites(Pop(s))
         /\ Starting(Pop(s)) => Starting(s)
         /\ NoMoreLocks(s, Pop(s)) /\ SameBottom(s, Pop(s))
         /\ Sites(s) => \/ Point(Pop(s)) = Nowhere /\ Len(s) = 1
                        \/ <<Point(Pop(s)), s[Len(s)].fn>> \in CallSites
<1> DEFINE n == Len(s)
           r == Pop(s)
<1>1. s \in Seq(Frames) /\ n \in Nat /\ n >= 1
  BY DEF StackOK
<1>4. r \in Seq(Frames) /\ Len(r) = n - 1 /\ \A i \in 1..(n - 1) : r[i] = s[i]
  <2>1. \A i \in 1..(n - 1) : s[i] \in Frames
    BY <1>1
  <2>2. 1 \in Int /\ n - 1 \in Int
    BY <1>1
  <2>4. r = SubSeq(s, 1, n - 1)
    BY DEF Pop
  <2> HIDE DEF n, r
  <2>3. /\ SubSeq(s, 1, n - 1) \in Seq(Frames)
        /\ Len(SubSeq(s, 1, n - 1)) = IF 1 <= n - 1 THEN n - 1 - 1 + 1 ELSE 0
        /\ \A i \in 1..(n - 1 - 1 + 1) : SubSeq(s, 1, n - 1)[i] = s[1 + i - 1]
    BY <2>1, <2>2, SubSeqProperties
  <2> QED
    BY <2>3, <2>4, <1>1
<1> HIDE DEF r, n
<1>5. Sites(s) => Sites(r)
  BY <1>1, <1>4 DEF Sites, n
<1>6. Starting(r) => Starting(s)
  BY <1>1, <1>4 DEF Starting, n
<1>7. ASSUME NEW l \in Locks, HasLock(r, l) PROVE HasLock(s, l)
  BY <1>1, <1>4, <1>7 DEF HasLock, n
<1>10. ASSUME r # <<>> PROVE r[1].fn = s[1].fn
  <2>1. 1 \in 1..(n - 1)
    BY <1>1, <1>4, <1>10
  <2> QED
    BY <1>4, <2>1
<1>8. ASSUME Sites(s), r # <<>> PROVE <<Point(r), s[n].fn>> \in CallSites
  <2>1. n - 1 \in 1..n /\ n - 1 < n /\ (n - 1) + 1 = n /\ n - 1 \in 1..(n - 1)
    BY <1>1, <1>4, <1>8
  <2>2. <<Place(r[n - 1]), s[n].fn>> \in CallSites
    BY <1>4, <1>8, <2>1 DEF Sites, n
  <2>3. Point(r) = Place(r[n - 1])
    BY <1>4, <1>8 DEF Point
  <2> QED
    BY <2>2, <2>3
<1>9. r = <<>> => Point(r) = Nowhere /\ n = 1
  BY <1>1, <1>4 DEF Point
<1> QED
  BY <1>5, <1>6, <1>7, <1>8, <1>9, <1>10 DEF n, r, NoMoreLocks, SameBottom

-----------------------------------------------------------------------------
(* The same for the operations of the module on the stack of thread t.     *)
Moves(t) ==
  /\ \A u \in Threads \ {t} : stack'[u] = stack[u]
  /\ Sites(stack'[t])
  /\ NoMoreLocks(stack[t], stack'[t])
  /\ stack'[t] # <<>> => stack'[t][1].fn \in Calls(t)

IInv == Mutex /\ MonitorsInv

\* A move of one thread keeps mutual exclusion.
LEMMA MovesMutex ==
  ASSUME Mutex, NEW t \in Threads, Moves(t)
  PROVE  Mutex'
<1>1. \A u \in Threads : NoMoreLocks(stack[u], stack'[u])
  BY DEF Moves, NoMoreLocks
<1>2. \A u \in Threads : Sites(stack'[u]) /\ (stack'[u] # <<>> => stack'[u][1].fn \in Calls(u))
  BY DEF Moves, Mutex
<1> QED
  BY <1>1, <1>2 DEF Mutex, NoMoreLocks

\* An operation that begins is a move of its thread alone.
LEMMA BeginMoves ==
  ASSUME StackInv, NEW t \in Threads, NEW fn \in Calls(t), NEW arg \in Args, Begin(t, fn, arg)
  PROVE  /\ Moves(t)
         /\ Point(stack'[t]) = <<fn, "lock">>
         /\ Starting(stack'[t]) => fn = "start"
<1> DEFINE f == Frame(fn, arg)
           r == <<f>>
<1>1. f.fn = fn /\ f.at = "lock" /\ f.taken = 0
  BY DEF Frame
<1> HIDE DEF f
<1>2. Len(r) = 1 /\ r[1] = f /\ r # <<>>
  OBVIOUS
<1>3. stack' = [stack EXCEPT ![t] = r] /\ stack \in [Threads -> Seq(Frames)]
  BY DEF Begin, StackInv, f
<1> HIDE DEF r
<1>4. stack'[t] = r /\ \A u \in Threads \ {t} : stack'[u] = stack[u]
  BY <1>3
<1>5. Sites(r) /\ Point(r) = <<fn, "lock">> /\ (Starting(r) => fn = "start") /\ r[1].fn = fn
  BY <1>1, <1>2 DEF Sites, Point, Place, Starting
<1>6. \A l \in Locks : ~HasLock(r, l)
  BY <1>1, <1>2 DEF HasLock
<1> QED
  BY <1>4, <1>5, <1>6 DEF Moves, NoMoreLocks

(* Going on elsewhere in the innermost function                            *)
LEMMA GotoMoves ==
  ASSUME NEW s, StackOK(s), s # <<>>, NEW at \in Points, Full(s[Len(s)]) \/ at = "notify"
  PROVE  /\ StackOK(Goto(s, at)) /\ Goto(s, at) # <<>>
         /\ Sites(s) => Sites(Goto(s, at))
         /\ Starting(Goto(s, at)) => Starting(s)
         /\ NoMoreLocks(s, Goto(s, at)) /\ SameBottom(s, Goto(s, at))
         /\ Len(Goto(s, at)) = Len(s)
         /\ Place(Goto(s, at)[Len(s)]) = <<s[Len(s)].fn, at>>
<1> DEFINE n == Len(s)
           r == Goto(s, at)
<1>1. s \in Seq(Frames) /\ n \in Nat /\ n >= 1
  BY DEF StackOK
<1>2. StackOK(r) /\ Len(r) = n /\ \A i \in 1..n : r[i].fn = s[i].fn /\ r[i].taken = s[i].taken
  BY GotoOK
<1>3. r \in Seq(Frames)
  BY <1>2 DEF StackOK
<1>4. s[n] \in Frames
  BY <1>1
<1>5. r = [s EXCEPT ![n] = [s[n] EXCEPT !.at = at]]
  BY <1>1 DEF Goto
<1>6. (\A i \in 1..n : i < n => r[i] = s[i]) /\ r[n].at = at
  BY <1>1, <1>4, <1>5 DEF Frames
<1> HIDE DEF r, n
<1>7. n \in 1..n
  BY <1>1
<1>9. r[n].taken <= s[n].taken /\ r[n].fn = s[n].fn
  BY <1>2, <1>4, <1>7 DEF Frames
<1>10. /\ (Sites(s) => Sites(r)) /\ (Starting(r) => Starting(s)) /\ r # <<>>
       /\ NoMoreLocks(s, r) /\ SameBottom(s, r)
  BY <1>2, <1>3, <1>6, <1>9, SetTop DEF n
<1>11. Place(r[n]) = <<s[n].fn, at>>
  BY <1>6, <1>9 DEF Place
<1> QED
  BY <1>2, <1>10, <1>11 DEF n, r

\* So is a statement of the function on top,
LEMMA ContinueMoves ==
  ASSUME StackInv, Mutex, NEW t \in Threads, stack[t] # <<>>, NEW at \in Points, Full(Top(t)),
         Continue(t, at)
  PROVE  /\ Moves(t)
         /\ Point(stack'[t]) = <<Top(t).fn, at>>
         /\ Starting(stack'[t]) => Starting(stack[t])
<1> DEFINE s == stack[t]
           r == Goto(s, at)
<1>1. StackOK(s) /\ Sites(s) /\ (s # <<>> => s[1].fn \in Calls(t))
  BY DEF StackInv, Mutex
<1>2. stack' = [stack EXCEPT ![t] = r] /\ stack \in [Threads -> Seq(Frames)]
  BY DEF Continue, StackInv
<1>3. stack'[t] = r /\ \A u \in Threads \ {t} : stack'[u] = stack[u]
  BY <1>2
<1>4. /\ r # <<>> /\ Sites(r) /\ (Starting(r) => Starting(s)) /\ NoMoreLocks(s, r)
      /\ SameBottom(s, r) /\ Len(r) = Len(s) /\ Place(r[Len(s)]) = <<s[Len(s)].fn, at>>
  BY <1>1, GotoMoves DEF Top
<1> HIDE DEF r
<1>5. Point(r) = <<Top(t).fn, at>>
  BY <1>4 DEF Point, Top
<1> QED
  BY <1>1, <1>3, <1>4, <1>5 DEF Moves, SameBottom

\* a call,
LEMMA CallMoves ==
  ASSUME StackInv, Mutex, NEW t \in Threads, stack[t] # <<>>, NEW g \in Functions,
         NEW at \in Points, Full(Top(t)) \/ at = "notify",
         <<<<Top(t).fn, at>>, g>> \in CallSites, Call(t, at, g)
  PROVE  /\ Moves(t)
         /\ Point(stack'[t]) = <<g, "lock">>
         /\ Starting(stack'[t]) => Starting(stack[t]) \/ g = "start"
<1> DEFINE s == stack[t]
           q == Goto(s, at)
           f == Frame(g, NoArg)
           r == Append(q, f)
<1>1. StackOK(s) /\ Sites(s) /\ (s # <<>> => s[1].fn \in Calls(t))
  BY DEF StackInv, Mutex
<1>2. stack' = [stack EXCEPT ![t] = r] /\ stack \in [Threads -> Seq(Frames)]
  BY DEF Call, StackInv
<1>3. stack'[t] = r /\ \A u \in Threads \ {t} : stack'[u] = stack[u]
  BY <1>2
<1>4. /\ StackOK(q) /\ q # <<>>
      /\ Sites(q) /\ (Starting(q) => Starting(s)) /\ NoMoreLocks(s, q) /\ SameBottom(s, q)
      /\ Len(q) = Len(s) /\ Place(q[Len(s)]) = <<s[Len(s)].fn, at>>
  BY <1>1, GotoMoves DEF Top
<1>5. f \in Frames /\ f.taken = 0 /\ f.fn = g /\ Place(f) = <<g, "lock">>
  BY DEF Frame, Frames, Points, NoArg, Args, Place
<1>6. <<Place(q[Len(q)]), f.fn>> \in CallSites
  BY <1>4, <1>5 DEF Top
<1> HIDE DEF q, f
<1>7. /\ Sites(r) /\ (Starting(r) => Starting(q) \/ f.fn = "start")
      /\ NoMoreLocks(q, r) /\ SameBottom(q, r) /\ Point(r) = Place(f)
  BY <1>4, <1>5, <1>6, Pushed
<1> HIDE DEF r
<1> QED
  BY <1>1, <1>3, <1>4, <1>5, <1>7 DEF Moves, SameBottom, NoMoreLocks

\* a return,
LEMMA ReturnMoves ==
  ASSUME StackInv, Mutex, NEW t \in Threads, stack[t] # <<>>, NEW value, Return(t, value)
  PROVE  /\ Moves(t)
         /\ \/ Point(stack'[t]) = Nowhere /\ Len(stack[t]) = 1
            \/ <<Point(stack'[t]), Top(t).fn>> \in CallSites
         /\ Starting(stack'[t]) => Starting(stack[t])
<1> DEFINE s == stack[t]
           r == Pop(s)
<1>1. StackOK(s) /\ Sites(s) /\ (s # <<>> => s[1].fn \in Calls(t))
  BY DEF StackInv, Mutex
<1>2. stack' = [stack EXCEPT ![t] = r] /\ stack \in [Threads -> Seq(Frames)]
  BY DEF Return, StackInv
<1>3. stack'[t] = r /\ \A u \in Threads \ {t} : stack'[u] = stack[u]
  BY <1>2
<1>4. /\ Sites(r) /\ (Starting(r) => Starting(s)) /\ NoMoreLocks(s, r) /\ SameBottom(s, r)
      /\ \/ Point(r) = Nowhere /\ Len(s) = 1
         \/ <<Point(r), s[Len(s)].fn>> \in CallSites
  BY <1>1, Popped
<1> HIDE DEF r
<1> QED
  BY <1>1, <1>3, <1>4 DEF Moves, SameBottom, Top

\* and the notification of the listeners.
LEMMA AnnounceMoves ==
  ASSUME StackInv, Mutex, NEW t \in Threads, stack[t] # <<>>, Full(Top(t)), Announce(t)
  PROVE  /\ Moves(t)
         /\ Point(stack'[t]) = <<Top(t).fn, "notify">>
         /\ Starting(stack'[t]) => Starting(stack[t])
<1> DEFINE s == stack[t]
           n == Len(s)
           f == [s[n] EXCEPT !.at = "notify", !.taken = 1]
           r == [s EXCEPT ![n] = f]
<1>0. StackOK(s) /\ Sites(s) /\ (s # <<>> => s[1].fn \in Calls(t))
  BY DEF StackInv, Mutex
<1>1. s \in Seq(Frames) /\ n \in Nat /\ n >= 1
  BY <1>0 DEF StackOK
<1>2. s[n] \in Frames
  BY <1>1
<1>3. f \in Frames /\ f.fn = s[n].fn /\ f.taken = 1 /\ f.at = "notify"
  BY <1>2 DEF Frames, Points
<1>4. s[n].taken >= 1
  BY <1>2, LocksOfType DEF Full, Top, Frames
<1>5. stack' = [stack EXCEPT ![t] = r] /\ stack \in [Threads -> Seq(Frames)]
  BY DEF Announce, StackInv
<1> HIDE DEF f
<1>6. r \in Seq(Frames) /\ Len(r) = n /\ r[n] = f /\ \A i \in 1..n : i < n => r[i] = s[i]
  BY <1>1, <1>3
<1>7. stack'[t] = r /\ \A u \in Threads \ {t} : stack'[u] = stack[u]
  BY <1>5
<1> HIDE DEF r
<1>8. /\ Sites(r) /\ (Starting(r) => Starting(s)) /\ NoMoreLocks(s, r) /\ SameBottom(s, r) /\ r # <<>>
  BY <1>0, <1>3, <1>4, <1>6, SetTop
<1>9. Point(r) = <<Top(t).fn, "notify">>
  BY <1>3, <1>6, <1>8 DEF Point, Place, Top
<1> QED
  BY <1>0, <1>7, <1>8, <1>9 DEF Moves, SameBottom

-----------------------------------------------------------------------------
(* Where a thread is, and what it then has.                                *)
LEMMA AtPoint ==
  ASSUME NEW t, NEW fn, NEW at, At(t, fn, at)
  PROVE  stack[t] # <<>> /\ Top(t).fn = fn /\ Point(stack[t]) = <<fn, at>>
BY DEF At, Point, Place, Top

\* A function that has been entered is at its first point.
LEMMA EnteredPoint ==
  ASSUME NEW t, NEW fn, Entered(t, fn)
  PROVE  stack[t] # <<>> /\ Top(t).fn = fn /\ Point(stack[t]) = <<fn, "lock">> /\ Full(Top(t))
BY AtPoint, EnteredFull DEF Entered

\* The function on top of a stack that is past the bridge lock holds it.
LEMMA TopBridge ==
  ASSUME StackInv, NEW t \in Threads, stack[t] # <<>>, Full(Top(t)), Top(t).fn \in BridgeFunctions
  PROVE  HasBridge(stack[t])
<1>1. StackOK(stack[t])
  BY DEF StackInv
<1>2. Len(stack[t]) \in 1..Len(stack[t])
  BY <1>1 DEF StackOK
<1> QED
  BY <1>1, <1>2, FullBridge DEF Top

(* What is claimed, is claimed under the bridge lock.                      *)
Claiming(s) == Starting(s) \/ Point(s) \in NoMonitor \cup Stopping

\* A thread that claims the monitor holds the bridge lock.
LEMMA ClaimingBridge ==
  ASSUME StackInv, NEW t \in Threads, Claiming(stack[t])
  PROVE  HasBridge(stack[t])
<1> DEFINE s == stack[t]
<1>1. StackOK(s)
  BY DEF StackInv
<1>2. CASE Starting(s)
  BY <1>1, <1>2, StartingBridge
<1>3. CASE Point(s) \in NoMonitor \cup Stopping
  <2>1. s # <<>>
    BY <1>3 DEF Point, Nowhere, NoMonitor, Stopping, Joined
  <2>2. Len(s) \in 1..Len(s) /\ s \in Seq(Frames)
    BY <1>1, <2>1 DEF StackOK
  <2>3. Place(s[Len(s)]) \in NoMonitor \cup Stopping
    BY <1>3, <2>1 DEF Point
  <2>4. s[Len(s)].fn \in BridgeFunctions /\ s[Len(s)].at \notin {"lock", "notify"}
    BY <2>3 DEF Place, NoMonitor, Stopping, Joined, BridgeFunctions
  <2>5. Full(s[Len(s)])
    BY <1>1, <2>2, <2>4 DEF StackOK
  <2> QED
    BY <2>1, <2>4, <2>5, TopBridge DEF Top
<1> QED
  BY <1>2, <1>3 DEF Claiming

-----------------------------------------------------------------------------
(* Steps that leave the monitor alone                                      *)
Calm(t) ==
  /\ Moves(t)
  /\ sThis' = sThis /\ mStarted' = mStarted /\ mDeviceMonitor' = mDeviceMonitor
  /\ quit' = quit /\ made' = made
  /\ running \subseteq running' /\ Workers' = Workers
  /\ Starting(stack'[t]) => Starting(stack[t])
  /\ Point(stack[t]) \notin Stopping
  /\ Point(stack'[t]) \in NoMonitor => mDeviceMonitor = 0
  /\ Point(stack'[t]) \in Joined => Workers = {}
  /\ t \in Watchers => stack[t] # <<>> \/ t \in running

\* A move that changes nothing but its own stack keeps the claims.
LEMMA CalmStep ==
  ASSUME IInv, NEW t \in Threads, Calm(t)
  PROVE  IInv'
<1>1. Mutex'
  BY MovesMutex DEF IInv, Calm
<1>2. Monitor'
  BY DEF IInv, MonitorsInv, Monitor, Calm, Workers
<1>3. \A w \in Watchers : stack'[w] # <<>> => w \in running'
  <2> SUFFICES ASSUME NEW w \in Watchers, stack'[w] # <<>> PROVE w \in running'
    OBVIOUS
  <2>1. w \in Threads
    BY DEF Threads
  <2>2. CASE w = t
    BY <2>2 DEF IInv, MonitorsInv, Calm
  <2>3. CASE w # t
    BY <2>1, <2>3 DEF IInv, MonitorsInv, Calm, Moves
  <2> QED
    BY <2>2, <2>3
<1>4. ASSUME NEW u \in Threads PROVE Claims(stack[u])'
  <2>1. Claims(stack[u])
    BY DEF IInv, MonitorsInv
  <2>2. CASE u = t
    BY <2>1, <2>2 DEF Claims, Calm
  <2>3. CASE u # t
    BY <2>1, <2>3 DEF Claims, Calm, Moves
  <2> QED
    BY <2>2, <2>3
<1>5. ASSUME Quitting' PROVE \E u \in Threads : Point(stack'[u]) \in Stopping
  <2>1. Quitting
    BY <1>5 DEF Quitting, Calm
  <2>2. PICK u \in Threads : Point(stack[u]) \in Stopping
    BY <2>1 DEF IInv, MonitorsInv
  <2>3. stack'[u] = stack[u]
    BY <2>2 DEF Calm, Moves
  <2> QED
    BY <2>2, <2>3
<1> QED
  BY <1>1, <1>2, <1>3, <1>4, <1>5 DEF IInv, MonitorsInv

(* Steps of the thread that holds the bridge lock: no other thread claims  *)
(* anything.                                                               *)
Alone(t) ==
  /\ Moves(t)
  /\ HasBridge(stack[t])
  /\ Monitor'
  /\ running \subseteq running'
  /\ Claims(stack[t])'
  /\ Quitting' => Point(stack'[t]) \in Stopping
  /\ stack[t] # <<>>

\* A move of the only thread that can claim keeps the claims.
LEMMA AloneStep ==
  ASSUME StackInv, IInv, NEW t \in Threads, Alone(t)
  PROVE  IInv'
<1>1. Mutex'
  BY MovesMutex DEF IInv, Alone
<1>3. \A w \in Watchers : stack'[w] # <<>> => w \in running'
  <2> SUFFICES ASSUME NEW w \in Watchers, stack'[w] # <<>> PROVE w \in running'
    OBVIOUS
  <2>1. w \in Threads
    BY DEF Threads
  <2>2. CASE w = t
    BY <2>2 DEF IInv, MonitorsInv, Alone
  <2>3. CASE w # t
    BY <2>1, <2>3 DEF IInv, MonitorsInv, Alone, Moves
  <2> QED
    BY <2>2, <2>3
<1>4. ASSUME NEW u \in Threads PROVE Claims(stack[u])'
  <2>1. CASE u = t
    BY <2>1 DEF Alone
  <2>2. CASE u # t
    <3>1. ~HasBridge(stack[u])
      BY <2>2, BridgeIsLock DEF IInv, Mutex, Alone, HasBridge
    <3>2. ~Claiming(stack[u])
      BY <3>1, ClaimingBridge
    <3>3. stack'[u] = stack[u]
      BY <2>2 DEF Alone, Moves
    <3> QED
      BY <3>2, <3>3 DEF Claiming, Claims, Stopping
  <2> QED
    BY <2>1, <2>2
<1>5. Quitting' => \E u \in Threads : Point(stack'[u]) \in Stopping
  BY DEF Alone
<1> QED
  BY <1>1, <1>3, <1>4, <1>5 DEF IInv, MonitorsInv, Alone

(* A function at the bottom of a stack is the only one of its kind.        *)
LEMMA NotStarting ==
  ASSUME StackInv, NEW t \in Threads, stack[t] # <<>>,
         Top(t).fn \in Creates \cup {"disconnectBridge", "terminate", "monitorStop"}
  PROVE  ~Starting(stack[t])
<1> DEFINE s == stack[t]
           n == Len(s)
<1>1. StackOK(s)
  BY DEF StackInv
<1>2. s \in Seq(Frames) /\ n \in Nat /\ n >= 1
  BY <1>1 DEF StackOK
<1>3. s[n].fn \in Creates \cup {"disconnectBridge", "terminate", "monitorStop"}
  BY DEF Top
<1> SUFFICES ASSUME NEW i \in 1..n, s[i].fn = "start" PROVE FALSE
  BY DEF Starting
<1>4. i # n
  BY <1>3 DEF Creates
<1>5. s[i].fn \in Beneath[s[n].fn]
  BY <1>1, <1>2, <1>4 DEF StackOK
<1> QED
  BY <1>3, <1>5 DEF Beneath, Creates

\* The return of start ends what the bridge calls its start.
LEMMA StartReturns ==
  ASSUME StackInv, NEW t \in Threads, stack[t] # <<>>, Top(t).fn = "start", NEW value, Return(t, value)
  PROVE  ~Starting(stack'[t])
<1> DEFINE s == stack[t]
           n == Len(s)
           r == Pop(s)
<1>1. StackOK(s)
  BY DEF StackInv
<1>2. s \in Seq(Frames) /\ n \in Nat /\ n >= 1
  BY <1>1 DEF StackOK
<1>3. s[n].fn = "start"
  BY DEF Top
<1>4. stack'[t] = r
  BY DEF Return, StackInv
<1>5. \A i \in 1..(n - 1) : s[i].fn \in Creates
  <2> TAKE i \in 1..(n - 1)
  <2>1. i \in 1..n /\ n \in 1..n /\ i < n
    BY <1>2
  <2>2. s[i].fn \in Beneath[s[n].fn]
    BY <1>1, <2>1 DEF StackOK
  <2> QED
    BY <1>3, <2>2 DEF Beneath
<1>6. Len(r) = n - 1 /\ \A i \in 1..(n - 1) : r[i] = s[i]
  BY <1>2 DEF Pop
<1> HIDE DEF r, n
<1> QED
  BY <1>4, <1>5, <1>6 DEF Starting, Creates

(* Where the functions return to                                           *)
LEMMA ReturnPlaces ==
  \A p, g : <<p, g>> \in CallSites =>
    /\ p \notin Joined \/ g = "monitorStop"
    /\ p \notin NoMonitor \/ g = "stop"
    /\ g = "monitorStop" => p \in Joined
<1> SUFFICES ASSUME NEW p, NEW g, <<p, g>> \in CallSites
             PROVE  /\ p \notin Joined \/ g = "monitorStop"
                    /\ p \notin NoMonitor \/ g = "stop"
                    /\ g = "monitorStop" => p \in Joined
  OBVIOUS
<1>1. g = "monitorStop" => p \in Joined
  BY DEF CallSites, Joined
<1>2. p \notin Joined \/ g = "monitorStop"
  BY DEF CallSites, Joined
<1>3. p \notin NoMonitor \/ g = "stop"
  BY DEF CallSites, NoMonitor
<1> QED
  BY <1>1, <1>2, <1>3

-----------------------------------------------------------------------------
(* Steps that touch nothing but a stack                                    *)
Untouched ==
  /\ sThis' = sThis /\ mStarted' = mStarted /\ mDeviceMonitor' = mDeviceMonitor
  /\ quit' = quit /\ made' = made
  /\ running \subseteq running' /\ Workers' = Workers

\* A step that keeps the variables leaves the monitor untouched.
LEMMA UnchangedUntouched ==
  ASSUME UNCHANGED bridgeVars, UNCHANGED quit, UNCHANGED running, UNCHANGED made
  PROVE  Untouched
BY DEF Untouched, bridgeVars, Workers

\* A calm step keeps the invariant: an operation that begins,
LEMMA CalmBegin ==
  ASSUME StackInv, IInv, NEW t \in Threads, Untouched, stack[t] = <<>>,
         NEW fn \in Calls(t), NEW arg \in Args, Begin(t, fn, arg),
         t \in Watchers => t \in running
  PROVE  IInv'
<1>0. fn # "start"
  BY DEF Calls
<1>1. Moves(t) /\ Point(stack'[t]) = <<fn, "lock">> /\ ~Starting(stack'[t])
  BY <1>0, BeginMoves
<1>2. Point(stack[t]) \notin Stopping
  BY DEF Point, Nowhere, Stopping, Joined
<1>3. Point(stack'[t]) \notin NoMonitor \cup Joined
  BY <1>1 DEF NoMonitor, Joined
<1> QED
  BY <1>1, <1>2, <1>3, CalmStep DEF Calm, Untouched

\* a call,
LEMMA CalmCall ==
  ASSUME StackInv, IInv, NEW t \in Threads, Untouched, stack[t] # <<>>, Point(stack[t]) \notin Stopping,
         NEW g \in Functions \ {"start"}, NEW at \in Points, Full(Top(t)) \/ at = "notify",
         <<<<Top(t).fn, at>>, g>> \in CallSites, Call(t, at, g)
  PROVE  IInv'
<1>1. Moves(t) /\ Point(stack'[t]) = <<g, "lock">> /\ (Starting(stack'[t]) => Starting(stack[t]))
  BY CallMoves DEF IInv
<1>2. Point(stack'[t]) \notin NoMonitor \cup Joined
  BY <1>1 DEF NoMonitor, Joined
<1> QED
  BY <1>1, <1>2, CalmStep DEF Calm, Untouched

\* a return,
LEMMA CalmReturn ==
  ASSUME StackInv, IInv, NEW t \in Threads, Untouched, stack[t] # <<>>, Point(stack[t]) \notin Stopping,
         Top(t).fn \notin {"stop", "monitorStop"}, NEW value, Return(t, value)
  PROVE  IInv'
<1>1. /\ Moves(t) /\ (Starting(stack'[t]) => Starting(stack[t]))
      /\ Point(stack'[t]) = Nowhere \/ <<Point(stack'[t]), Top(t).fn>> \in CallSites
  BY ReturnMoves DEF IInv
<1>2. Point(stack'[t]) \notin NoMonitor \cup Joined
  <2>1. CASE Point(stack'[t]) = Nowhere
    BY <2>1 DEF Nowhere, NoMonitor, Joined
  <2>2. CASE <<Point(stack'[t]), Top(t).fn>> \in CallSites
    BY <2>2, ReturnPlaces
  <2> QED
    BY <1>1, <2>1, <2>2
<1> QED
  BY <1>1, <1>2, CalmStep DEF Calm, Untouched

\* a notification of the listeners,
LEMMA CalmAnnounce ==
  ASSUME StackInv, IInv, NEW t \in Threads, Untouched, stack[t] # <<>>, Point(stack[t]) \notin Stopping,
         Full(Top(t)), Announce(t)
  PROVE  IInv'
<1>1. /\ Moves(t) /\ (Starting(stack'[t]) => Starting(stack[t]))
      /\ Point(stack'[t]) = <<Top(t).fn, "notify">>
  BY AnnounceMoves DEF IInv
<1>2. Point(stack'[t]) \notin NoMonitor \cup Joined
  BY <1>1 DEF NoMonitor, Joined
<1> QED
  BY <1>1, <1>2, CalmStep DEF Calm, Untouched

\* and any other statement.
LEMMA CalmContinue ==
  ASSUME StackInv, IInv, NEW t \in Threads, Untouched, stack[t] # <<>>, Point(stack[t]) \notin Stopping,
         Full(Top(t)), NEW at \in Points, Continue(t, at),
         <<Top(t).fn, at>> \in Joined => Workers = {}, <<Top(t).fn, at>> \notin NoMonitor
  PROVE  IInv'
<1>1. /\ Moves(t) /\ (Starting(stack'[t]) => Starting(stack[t]))
      /\ Point(stack'[t]) = <<Top(t).fn, at>>
  BY ContinueMoves DEF IInv
<1> QED
  BY <1>1, CalmStep DEF Calm, Untouched

(* A null pointer was dereferenced: nothing else changes.                  *)
LEMMA CrashStep ==
  ASSUME IInv, NEW where, Crash(where)
  PROVE  IInv'
BY DEF Crash, IInv, Mutex, MonitorsInv, Monitor, Claims, Quitting, Workers, bridgeVars, boundVars

-----------------------------------------------------------------------------
(* Action by action                                                        *)
LEMMA Starts ==
  ASSUME StackInv, IInv, NEW t \in Apps, A_Call(t) \/ A_Init(t)
  PROVE  IInv'
<1>0. t \in Threads /\ t \notin Watchers
  BY ThreadsAssumption DEF Threads
<1>1. CASE A_Call(t)
  <2>1. NoArg \in Args /\ \A location \in Locations \cup {NoLocation}, force \in BOOLEAN :
          [location |-> location, force |-> force] \in Args
    BY DEF NoArg, Args
  <2>2. \E fn \in Calls(t), arg \in Args : Begin(t, fn, arg)
    BY <1>1, <2>1 DEF A_Call, Calls
  <2>3. stack[t] = <<>> /\ Untouched
    BY <1>1, UnchangedUntouched DEF A_Call, Idle, threadVars
  <2> QED
    BY <1>0, <2>2, <2>3, CalmBegin
<1>2. CASE A_Init(t)
  <2>1. /\ stack[t] # <<>> /\ Top(t).fn = "init" /\ Point(stack[t]) = <<"init", "lock">>
    BY <1>2, EnteredPoint DEF A_Init
  <2>2. Untouched
    BY <1>2 DEF A_Init, Untouched, Workers, bridgeVars, boundVars
  <2>3. Point(stack[t]) \notin Stopping
    BY <2>1 DEF Stopping, Joined
  <2>4. \E value : Return(t, value)
    BY <1>2 DEF A_Init
  <2> QED
    BY <1>0, <2>1, <2>2, <2>3, <2>4, CalmReturn
<1> QED
  BY <1>1, <1>2

(* Entering one of the functions that make bridges, in which nothing is    *)
(* beneath                                                                 *)
LEMMA Creator ==
  ASSUME StackInv, NEW t \in Threads,
         \/ Creating(t)
         \/ \E fn \in Creates, at \in {"replace", "started", "undo"} : At(t, fn, at)
  PROVE  /\ stack[t] # <<>> /\ Full(Top(t)) /\ Top(t).fn \in Creates
         /\ HasBridge(stack[t]) /\ Point(stack[t]) \notin Stopping /\ ~Starting(stack[t])
<1>1. stack[t] # <<>> /\ Full(Top(t)) /\ Top(t).fn \in Creates /\ Point(stack[t]) \notin Stopping
  <2>1. CASE Creating(t)
    <3>1. PICK fn \in Creates : Entered(t, fn)
      BY <2>1 DEF Creating, Creates
    <3>2. Point(stack[t]) = <<fn, "lock">>
      BY <3>1, EnteredPoint
    <3>3. Point(stack[t]) \notin Stopping
      BY <3>2 DEF Stopping, Joined
    <3> QED
      BY <3>1, <3>3, EnteredFull
  <2>2. CASE \E fn \in Creates, at \in {"replace", "started", "undo"} : At(t, fn, at)
    <3>1. PICK fn \in Creates, at \in {"replace", "started", "undo"} : At(t, fn, at)
      BY <2>2
    <3>2. Point(stack[t]) = <<fn, at>>
      BY <3>1, AtPoint
    <3>3. Point(stack[t]) \notin Stopping
      BY <3>2 DEF Stopping, Joined
    <3> QED
      BY <3>1, <3>3, AtFull
  <2> QED
    BY <2>1, <2>2
<1>2. HasBridge(stack[t])
  BY <1>1, TopBridge DEF Creates, BridgeFunctions
<1> QED
  BY <1>1, <1>2, NotStarting

(* A bridge is gone: no monitor.                                           *)
LEMMA NoBridgeStep ==
  ASSUME StackInv, IInv, NEW t \in Threads, stack[t] # <<>>, Full(Top(t)), ~Starting(stack[t]),
         HasBridge(stack[t]), mDeviceMonitor = 0, NoBridge(t), UNCHANGED threadVars
  PROVE  IInv'
<1>1. /\ Moves(t) /\ ~Starting(stack'[t])
      /\ Point(stack'[t]) = <<Top(t).fn, "notify">>
  BY AnnounceMoves DEF IInv, NoBridge
<1>2. Point(stack'[t]) \notin NoMonitor \cup Joined
  BY <1>1 DEF NoMonitor, Joined
<1>3. Monitor'
  <2>1. made \in Nat
    BY BridgeAssumption DEF IInv, MonitorsInv, Monitor
  <2> QED
    BY <2>1 DEF IInv, MonitorsInv, Monitor, NoBridge, threadVars, Workers
<1>4. Claims(stack[t])'
  BY <1>1, <1>2 DEF Claims
<1>5. ~Quitting'
  BY DEF Quitting, NoBridge
<1>6. running \subseteq running'
  BY DEF threadVars
<1> QED
  BY <1>1, <1>3, <1>4, <1>5, <1>6, AloneStep DEF Alone

\* createBridge keeps the monitor invariant.
LEMMA Creations ==
  ASSUME StackInv, IInv, NEW t \in Threads,
         C_Existing(t) \/ C_Replace(t) \/ C_Construct(t) \/ C_Started(t) \/ C_Undo(t)
  PROVE  IInv'
<1>1. /\ stack[t] # <<>> /\ Full(Top(t)) /\ Top(t).fn \in Creates
      /\ HasBridge(stack[t]) /\ Point(stack[t]) \notin Stopping /\ ~Starting(stack[t])
  BY Creator DEF C_Existing, C_Replace, C_Construct, C_Started, C_Undo, Creates
<1>2. CASE C_Existing(t)
  <2>1. Untouched
    BY <1>2, UnchangedUntouched DEF C_Existing, threadVars, boundVars
  <2>2. Return(t, TRUE) /\ Top(t).fn \notin {"stop", "monitorStop"}
    BY <1>1, <1>2 DEF C_Existing, Creates
  <2> QED
    BY <1>1, <2>1, <2>2, CalmReturn
<1>3. CASE C_Replace(t)
  <2>1. Untouched
    BY <1>3, UnchangedUntouched DEF C_Replace, threadVars, boundVars
  <2>2. Call(t, "replace", "stop") /\ Top(t).fn = "createBridgeAt"
    BY <1>1, <1>3 DEF C_Replace, Keeps, Creates
  <2>3. <<<<Top(t).fn, "replace">>, "stop">> \in CallSites
    BY <2>2 DEF CallSites
  <2> QED
    BY <1>1, <2>1, <2>2, <2>3, CalmCall, FunctionNames DEF Points
<1>4. CASE C_Construct(t)
  <2>1. mDeviceMonitor = 0
    <3>1. CASE sThis = 0
      BY <3>1 DEF IInv, MonitorsInv, Monitor
    <3>2. CASE At(t, "createBridgeAt", "replace")
      <4>1. Point(stack[t]) \in NoMonitor
        BY <3>2, AtPoint DEF NoMonitor
      <4> QED
        BY <4>1 DEF IInv, MonitorsInv, Claims
    <3> QED
      BY <1>4, <3>1, <3>2 DEF C_Construct
  <2>2. UNCHANGED threadVars
    BY <1>4 DEF C_Construct
  <2>3. CASE NoBridge(t)
    BY <1>1, <2>1, <2>2, <2>3, NoBridgeStep
  <2>4. CASE NewBridge(t)
    <3>1. Call(t, "started", "start")
      BY <2>4 DEF NewBridge
    <3>2. <<<<Top(t).fn, "started">>, "start">> \in CallSites
      BY <1>1 DEF CallSites, Creates
    <3>3. Moves(t) /\ Point(stack'[t]) = <<"start", "lock">>
      BY <1>1, <3>1, <3>2, CallMoves, FunctionNames DEF IInv, Points
    <3>4. /\ made \in Nat /\ made < MaxBridges /\ made' = made + 1 /\ sThis' = made + 1
          /\ mDeviceMonitor' = 0 /\ quit' = quit /\ quit \subseteq 0..made /\ Workers' = {}
          /\ running' = running
      BY <2>1, <2>2, <2>4, BridgeAssumption
         DEF NewBridge, IInv, MonitorsInv, Monitor, threadVars, Workers
    <3>5. Monitor'
      BY <3>4, BridgeAssumption DEF Monitor
    <3>6. Point(stack'[t]) \notin NoMonitor \cup Joined
      BY <3>3 DEF NoMonitor, Joined
    <3>7. Claims(stack[t])'
      BY <3>4, <3>6 DEF Claims
    <3>8. ~Quitting'
      BY <3>4 DEF Quitting
    <3> QED
      BY <1>1, <3>3, <3>4, <3>5, <3>7, <3>8, AloneStep DEF Alone
  <2> QED
    BY <1>4, <2>3, <2>4 DEF C_Construct
<1>5. CASE C_Started(t)
  <2>1. Untouched
    BY <1>5, UnchangedUntouched DEF C_Started, threadVars, boundVars
  <2>2. Announce(t) \/ Call(t, "undo", "stop")
    BY <1>5 DEF C_Started
  <2>3. <<<<Top(t).fn, "undo">>, "stop">> \in CallSites
    BY <1>1 DEF CallSites, Creates
  <2>4. CASE Announce(t)
    BY <1>1, <2>1, <2>4, CalmAnnounce
  <2>5. CASE Call(t, "undo", "stop")
    BY <1>1, <2>1, <2>3, <2>5, CalmCall, FunctionNames DEF Points
  <2> QED
    BY <2>2, <2>4, <2>5
<1>6. CASE C_Undo(t)
  <2>1. Point(stack[t]) \in NoMonitor
    BY <1>6, AtPoint DEF C_Undo, NoMonitor
  <2>2. mDeviceMonitor = 0
    BY <2>1 DEF IInv, MonitorsInv, Claims
  <2>3. NoBridge(t) /\ UNCHANGED threadVars
    BY <1>6 DEF C_Undo
  <2> QED
    BY <1>1, <2>2, <2>3, NoBridgeStep
<1> QED
  BY <1>2, <1>3, <1>4, <1>5, <1>6

\* disconnectBridge and the notifications keep the monitor invariant.
LEMMA Disconnections ==
  ASSUME StackInv, IInv, NEW t \in Threads, D_Disconnect(t) \/ D_Stopped(t) \/ Notify(t)
  PROVE  IInv'
<1>1. CASE D_Disconnect(t)
  <2>1. /\ stack[t] # <<>> /\ Top(t).fn = "disconnectBridge" /\ Full(Top(t))
        /\ Point(stack[t]) = <<"disconnectBridge", "lock">>
    BY <1>1, EnteredPoint DEF D_Disconnect
  <2>2. Untouched
    BY <1>1, UnchangedUntouched DEF D_Disconnect, threadVars, boundVars
  <2>3. Point(stack[t]) \notin Stopping
    BY <2>1 DEF Stopping, Joined
  <2>4. Return(t, TRUE) \/ Call(t, "stopped", "stop")
    BY <1>1 DEF D_Disconnect
  <2>5. <<<<Top(t).fn, "stopped">>, "stop">> \in CallSites
    BY <2>1 DEF CallSites
  <2>6. CASE Return(t, TRUE)
    BY <2>1, <2>2, <2>3, <2>6, CalmReturn
  <2>7. CASE Call(t, "stopped", "stop")
    BY <2>1, <2>2, <2>3, <2>5, <2>7, CalmCall, FunctionNames DEF Points
  <2> QED
    BY <2>4, <2>6, <2>7
<1>2. CASE D_Stopped(t)
  <2>1. At(t, "disconnectBridge", "stopped") /\ NoBridge(t) /\ UNCHANGED threadVars
    BY <1>2 DEF D_Stopped
  <2>2. /\ stack[t] # <<>> /\ Top(t).fn = "disconnectBridge" /\ Full(Top(t))
        /\ Point(stack[t]) = <<"disconnectBridge", "stopped">>
    BY <2>1, AtPoint, AtFull
  <2>3. mDeviceMonitor = 0
    BY <2>2 DEF IInv, MonitorsInv, Claims, NoMonitor
  <2>4. HasBridge(stack[t]) /\ ~Starting(stack[t])
    BY <2>2, TopBridge, NotStarting DEF BridgeFunctions
  <2> QED
    BY <2>1, <2>2, <2>3, <2>4, NoBridgeStep
<1>3. CASE Notify(t)
  <2>1. PICK fn \in Creates \cup {"disconnectBridge"} : At(t, fn, "notify")
    BY <1>3 DEF Notify, Creates
  <2>2. stack[t] # <<>> /\ Top(t).fn = fn /\ Point(stack[t]) = <<fn, "notify">>
    BY <2>1, AtPoint
  <2>3. Untouched
    BY <1>3, UnchangedUntouched DEF Notify, threadVars, boundVars
  <2>4. Point(stack[t]) \notin Stopping
    BY <2>2 DEF Stopping, Joined
  <2>5. <<<<Top(t).fn, "notify">>, "getDevices">> \in CallSites
    BY <2>2 DEF CallSites, Creates
  <2>6. CASE Return(t, TRUE)
    BY <2>2, <2>3, <2>4, <2>6, CalmReturn DEF Creates
  <2>7. CASE Call(t, "notify", "getDevices")
    BY <2>2, <2>3, <2>4, <2>5, <2>7, CalmCall, FunctionNames DEF Points
  <2> QED
    BY <1>3, <2>6, <2>7 DEF Notify
<1> QED
  BY <1>1, <1>2, <1>3

(* start made a monitor.                                                   *)
LEMMA LaunchStep ==
  ASSUME StackInv, IInv, NEW t \in Threads, stack[t] # <<>>, Full(Top(t)), Top(t).fn = "start",
         Launch(t)
  PROVE  IInv'
<1>1. HasBridge(stack[t])
  BY TopBridge DEF BridgeFunctions
<1>2. Starting(stack[t])
  <2>1. Len(stack[t]) \in 1..Len(stack[t])
    BY DEF StackInv, StackOK
  <2> QED
    BY <2>1 DEF Starting, Top
<1>3. sThis # 0 /\ sThis \notin quit /\ mDeviceMonitor = 0
  BY <1>2 DEF IInv, MonitorsInv, Claims
<1>4. Return(t, TRUE)
  BY DEF Launch
<1>5. /\ Moves(t) /\ ~Starting(stack'[t])
      /\ Point(stack'[t]) = Nowhere \/ <<Point(stack'[t]), "start">> \in CallSites
  BY <1>4, ReturnMoves, StartReturns DEF IInv
<1>6. Point(stack'[t]) \notin NoMonitor \cup Joined
  <2>1. CASE Point(stack'[t]) = Nowhere
    BY <2>1 DEF Nowhere, NoMonitor, Joined
  <2>2. CASE <<Point(stack'[t]), "start">> \in CallSites
    BY <2>2, ReturnPlaces
  <2> QED
    BY <1>5, <2>1, <2>2
<1>7. Claims(stack[t])'
  BY <1>5, <1>6 DEF Claims
<1>8. /\ mDeviceMonitor' = sThis /\ sThis' = sThis /\ mStarted' = TRUE /\ quit' = quit /\ made' = made
      /\ running' = running \cup {ListThread(sThis)}
  BY DEF Launch, boundVars
<1>9. Workers' \subseteq ThreadsOf(sThis)
  BY <1>3, <1>8 DEF IInv, MonitorsInv, Monitor, Workers, ThreadsOf
<1>10. Monitor'
  BY <1>3, <1>8, <1>9 DEF IInv, MonitorsInv, Monitor
<1>11. ~Quitting'
  BY <1>3, <1>8 DEF Quitting
<1> QED
  BY <1>1, <1>5, <1>7, <1>8, <1>10, <1>11, AloneStep DEF Alone

\* start and stop of the bridge keep the monitor invariant.
LEMMA StartsAndStops ==
  ASSUME StackInv, IInv, NEW t \in Threads,
         S_Start(t) \/ S_Adb(t) \/ StartAdb(t) \/ S_Stop(t) \/ S_Stopped(t)
  PROVE  IInv'
<1>1. CASE S_Start(t)
  <2>1. /\ stack[t] # <<>> /\ Top(t).fn = "start" /\ Full(Top(t)) /\ Point(stack[t]) = <<"start", "lock">>
    BY <1>1, EnteredPoint DEF S_Start
  <2>2. CASE Launch(t)
    BY <2>1, <2>2, LaunchStep
  <2>3. CASE ~Launch(t)
    <3>1. Call(t, "adb", "startAdb") /\ Untouched
      BY <1>1, <2>3, UnchangedUntouched DEF S_Start, threadVars, boundVars
    <3>2. <<<<Top(t).fn, "adb">>, "startAdb">> \in CallSites
      BY <2>1 DEF CallSites
    <3>3. Point(stack[t]) \notin Stopping
      BY <2>1 DEF Stopping, Joined
    <3> QED
      BY <2>1, <3>1, <3>2, <3>3, CalmCall, FunctionNames DEF Points
  <2> QED
    BY <2>2, <2>3
<1>2. CASE S_Adb(t)
  <2>1. /\ stack[t] # <<>> /\ Top(t).fn = "start" /\ Full(Top(t)) /\ Point(stack[t]) = <<"start", "adb">>
    BY <1>2, AtPoint, AtFull DEF S_Adb
  <2>2. CASE Launch(t)
    BY <2>1, <2>2, LaunchStep
  <2>3. CASE ~Launch(t)
    <3>1. Return(t, FALSE) /\ Untouched
      BY <1>2, <2>3, UnchangedUntouched DEF S_Adb, threadVars, boundVars
    <3>3. Point(stack[t]) \notin Stopping
      BY <2>1 DEF Stopping, Joined
    <3> QED
      BY <2>1, <3>1, <3>3, CalmReturn
  <2> QED
    BY <2>2, <2>3
<1>3. CASE StartAdb(t)
  <2>1. /\ stack[t] # <<>> /\ Top(t).fn = "startAdb" /\ Point(stack[t]) = <<"startAdb", "lock">>
    BY <1>3, EnteredPoint DEF StartAdb
  <2>2. Untouched /\ \E value : Return(t, value)
    BY <1>3, UnchangedUntouched DEF StartAdb, threadVars, boundVars
  <2>3. Point(stack[t]) \notin Stopping
    BY <2>1 DEF Stopping, Joined
  <2> QED
    BY <2>1, <2>2, <2>3, CalmReturn
<1>4. CASE S_Stop(t)
  <2>1. /\ stack[t] # <<>> /\ Top(t).fn = "stop" /\ Full(Top(t)) /\ Point(stack[t]) = <<"stop", "lock">>
    BY <1>4, EnteredPoint DEF S_Stop
  <2>2. Point(stack[t]) \notin Stopping
    BY <2>1 DEF Stopping, Joined
  <2>3. CASE mStarted /\ mDeviceMonitor = 0
    BY <1>4, <2>3, CrashStep DEF S_Stop
  <2>4. CASE mStarted /\ mDeviceMonitor # 0
    <3>1. Call(t, "stopped", "monitorStop") /\ Untouched
      BY <1>4, <2>4, UnchangedUntouched DEF S_Stop, threadVars, boundVars
    <3>2. <<<<Top(t).fn, "stopped">>, "monitorStop">> \in CallSites
      BY <2>1 DEF CallSites
    <3> QED
      BY <2>1, <2>2, <3>1, <3>2, CalmCall, FunctionNames DEF Points
  <2>5. CASE ~mStarted
    <3>1. Return(t, FALSE) /\ Untouched
      BY <1>4, <2>5, UnchangedUntouched DEF S_Stop, threadVars, boundVars
    <3>2. mDeviceMonitor = 0
      BY <2>5 DEF IInv, MonitorsInv, Monitor
    <3>3. /\ Moves(t) /\ (Starting(stack'[t]) => Starting(stack[t]))
          /\ Point(stack'[t]) = Nowhere \/ <<Point(stack'[t]), "stop">> \in CallSites
      BY <2>1, <3>1, ReturnMoves DEF IInv
    <3>4. Point(stack'[t]) \notin Joined
      <4>1. CASE Point(stack'[t]) = Nowhere
        BY <4>1 DEF Nowhere, Joined
      <4>2. CASE <<Point(stack'[t]), "stop">> \in CallSites
        BY <4>2, ReturnPlaces
      <4> QED
        BY <3>3, <4>1, <4>2
    <3> QED
      BY <2>1, <2>2, <3>1, <3>2, <3>3, <3>4, CalmStep DEF Calm, Untouched
  <2> QED
    BY <2>3, <2>4, <2>5
<1>5. CASE S_Stopped(t)
  <2>1. /\ stack[t] # <<>> /\ Top(t).fn = "stop" /\ Full(Top(t))
        /\ Point(stack[t]) = <<"stop", "stopped">>
    BY <1>5, AtPoint, AtFull DEF S_Stopped
  <2>2. HasBridge(stack[t])
    BY <2>1, TopBridge DEF BridgeFunctions
  <2>3. Workers = {}
    BY <2>1 DEF IInv, MonitorsInv, Claims, Joined
  <2>4. /\ mDeviceMonitor' = 0 /\ mStarted' = FALSE /\ sThis' = sThis /\ quit' = quit /\ made' = made
        /\ running' = running /\ Return(t, TRUE)
    BY <1>5 DEF S_Stopped, threadVars, boundVars
  <2>5. Monitor' /\ ~Quitting'
    BY <2>3, <2>4 DEF IInv, MonitorsInv, Monitor, Quitting, Workers
  <2>6. Moves(t) /\ (Starting(stack'[t]) => Starting(stack[t]))
    BY <2>1, <2>4, ReturnMoves DEF IInv
  <2>7. Claims(stack[t])'
    BY <2>3, <2>4, <2>6 DEF IInv, MonitorsInv, Claims, Workers
  <2> QED
    BY <2>1, <2>2, <2>4, <2>5, <2>6, <2>7, AloneStep DEF Alone
<1> QED
  BY <1>1, <1>2, <1>3, <1>4, <1>5

\* The stop of the monitor, which joins its threads, keeps it.
LEMMA MonitorStops ==
  ASSUME StackInv, IInv, NEW t \in Threads, MonitorStop(t) \/ MonitorJoined(t)
  PROVE  IInv'
<1>1. CASE MonitorStop(t)
  <2>1. /\ stack[t] # <<>> /\ Top(t).fn = "monitorStop" /\ Full(Top(t))
        /\ Point(stack[t]) = <<"monitorStop", "lock">>
    BY <1>1, EnteredPoint DEF MonitorStop
  <2>2. HasBridge(stack[t]) /\ ~Starting(stack[t])
    BY <2>1, TopBridge, NotStarting DEF BridgeFunctions
  <2>3. Point(stack[t]) \notin Stopping
    BY <2>1 DEF Stopping, Joined
  <2>4. CASE mDeviceMonitor \in quit
    <3>1. ~Quitting
      <4> SUFFICES ASSUME Quitting PROVE FALSE
        OBVIOUS
      <4>1. PICK u \in Threads : Point(stack[u]) \in Stopping
        BY DEF IInv, MonitorsInv
      <4>2. HasBridge(stack[u])
        BY <4>1, ClaimingBridge DEF Claiming
      <4> QED
        BY <2>2, <2>3, <4>1, <4>2, BridgeIsLock DEF IInv, Mutex, HasBridge
    <3>2. mDeviceMonitor = 0 /\ Workers = {}
      BY <2>4, <3>1 DEF Quitting, IInv, MonitorsInv, Monitor
    <3>3. Return(t, TRUE) /\ Untouched
      BY <1>1, <2>4, UnchangedUntouched DEF MonitorStop, boundVars
    <3>4. Moves(t) /\ (Starting(stack'[t]) => Starting(stack[t]))
      BY <2>1, <3>3, ReturnMoves DEF IInv
    <3> QED
      BY <2>1, <2>3, <3>2, <3>3, <3>4, CalmStep DEF Calm, Untouched
  <2>5. CASE mDeviceMonitor \notin quit
    <3>1. /\ Continue(t, "join") /\ quit' = quit \cup {mDeviceMonitor}
          /\ UNCHANGED <<bridgeVars, running, made>>
      BY <1>1, <2>5 DEF MonitorStop, boundVars
    <3>2. Moves(t) /\ Point(stack'[t]) = <<"monitorStop", "join">> /\ ~Starting(stack'[t])
      BY <2>1, <2>2, <3>1, ContinueMoves DEF IInv, Points
    <3>3. Monitor'
      <4>1. made \in Nat
        BY BridgeAssumption DEF IInv, MonitorsInv, Monitor
      <4> QED
        BY <3>1, <4>1 DEF IInv, MonitorsInv, Monitor, bridgeVars, Workers
    <3>4. Point(stack'[t]) \in Stopping /\ Point(stack'[t]) \notin NoMonitor \cup Joined
      BY <3>2 DEF Stopping, NoMonitor, Joined
    <3>5. Claims(stack[t])'
      BY <3>2, <3>4 DEF Claims
    <3> QED
      BY <2>1, <2>2, <3>1, <3>2, <3>3, <3>4, <3>5, AloneStep DEF Alone
  <2> QED
    BY <2>4, <2>5
<1>2. CASE MonitorJoined(t)
  <2>1. /\ stack[t] # <<>> /\ Top(t).fn = "monitorStop" /\ Full(Top(t))
    BY <1>2, AtFull DEF MonitorJoined
  <2>2. HasBridge(stack[t])
    BY <2>1, TopBridge DEF BridgeFunctions
  <2>3. Workers = {}
    BY <1>2 DEF MonitorJoined, Joins, IInv, MonitorsInv, Monitor, Workers
  <2>4. Return(t, TRUE) /\ Untouched /\ running' = running
    BY <1>2, UnchangedUntouched DEF MonitorJoined, threadVars, boundVars
  <2>5. Len(stack[t]) # 1
    <3>0. StackOK(stack[t])
      BY DEF StackInv
    <3>1. Len(stack[t]) \in 1..Len(stack[t])
      BY <2>1, <3>0 DEF StackOK
    <3>2. stack[t][Len(stack[t])].fn \in Inner
      BY <2>1 DEF Top, Inner
    <3> QED
      BY <3>0, <3>1, <3>2 DEF StackOK
  <2>6. /\ Moves(t) /\ (Starting(stack'[t]) => Starting(stack[t]))
        /\ <<Point(stack'[t]), "monitorStop">> \in CallSites
    BY <2>1, <2>4, <2>5, ReturnMoves DEF IInv
  <2>7. Point(stack'[t]) \in Joined /\ Point(stack'[t]) \in Stopping /\ Point(stack'[t]) \notin NoMonitor
    <3>1. Point(stack'[t]) \in Joined
      BY <2>6, ReturnPlaces
    <3>2. Point(stack'[t]) \notin NoMonitor
      BY <2>6, ReturnPlaces
    <3> QED
      BY <3>1, <3>2 DEF Stopping
  <2>8. Claims(stack[t])'
    BY <2>3, <2>4, <2>6, <2>7 DEF Untouched, Claims, IInv, MonitorsInv
  <2>9. Monitor'
    BY <2>4 DEF Untouched, IInv, MonitorsInv, Monitor
  <2> QED
    BY <2>1, <2>2, <2>4, <2>6, <2>7, <2>8, <2>9, AloneStep DEF Alone
<1> QED
  BY <1>1, <1>2

\* terminate keeps the monitor invariant.
LEMMA Terminations ==
  ASSUME StackInv, IInv, NEW t \in Threads,
         T_Clients(t) \/ T_DropClients(t) \/ T_Monitor(t) \/ T_StopReactor(t) \/ T_Joined(t)
  PROVE  IInv'
<1>0. ASSUME stack[t] # <<>>, Top(t).fn = "terminate", Full(Top(t))
      PROVE  HasBridge(stack[t]) /\ ~Starting(stack[t])
  BY <1>0, TopBridge, NotStarting DEF BridgeFunctions
<1>1. CASE T_Clients(t)
  <2>1. /\ stack[t] # <<>> /\ Top(t).fn = "terminate" /\ Full(Top(t))
        /\ Point(stack[t]) = <<"terminate", "lock">>
    BY <1>1, EnteredPoint DEF T_Clients
  <2>2. Point(stack[t]) \notin Stopping
    BY <2>1 DEF Stopping, Joined
  <2>3. CASE ClientSupport /\ sThis = 0
    BY <1>1, <2>3, CrashStep DEF T_Clients
  <2>4. CASE ~(ClientSupport /\ sThis = 0)
    <3>1. Untouched /\ (Continue(t, "monitor") \/ Call(t, "clients", "getDevices"))
      BY <1>1, <2>4, UnchangedUntouched DEF T_Clients, threadVars, boundVars
    <3>2. <<<<Top(t).fn, "clients">>, "getDevices">> \in CallSites
      BY <2>1 DEF CallSites
    <3>3. <<Top(t).fn, "monitor">> \notin NoMonitor \cup Joined
      BY <2>1 DEF NoMonitor, Joined
    <3>4. CASE Continue(t, "monitor")
      BY <2>1, <2>2, <3>1, <3>3, <3>4, CalmContinue DEF Points
    <3>5. CASE Call(t, "clients", "getDevices")
      BY <2>1, <2>2, <3>1, <3>2, <3>5, CalmCall, FunctionNames DEF Points
    <3> QED
      BY <3>1, <3>4, <3>5
  <2> QED
    BY <2>3, <2>4
<1>2. CASE T_DropClients(t)
  <2>1. /\ stack[t] # <<>> /\ Top(t).fn = "terminate" /\ Full(Top(t))
        /\ Point(stack[t]) = <<"terminate", "clients">>
    BY <1>2, AtPoint, AtFull DEF T_DropClients
  <2>2. Point(stack[t]) \notin Stopping
    BY <2>1 DEF Stopping, Joined
  <2>3. Untouched /\ (Continue(t, "monitor") \/ Call(t, "clients", "clientList"))
    BY <1>2, UnchangedUntouched DEF T_DropClients, threadVars, boundVars
  <2>4. <<<<Top(t).fn, "clients">>, "clientList">> \in CallSites
    BY <2>1 DEF CallSites
  <2>5. <<Top(t).fn, "monitor">> \notin NoMonitor \cup Joined
    BY <2>1 DEF NoMonitor, Joined
  <2>6. CASE Continue(t, "monitor")
    BY <2>1, <2>2, <2>3, <2>5, <2>6, CalmContinue DEF Points
  <2>7. CASE Call(t, "clients", "clientList")
    BY <2>1, <2>2, <2>3, <2>4, <2>7, CalmCall, FunctionNames DEF Points
  <2> QED
    BY <2>3, <2>6, <2>7
<1>3. CASE T_Monitor(t)
  <2>1. /\ stack[t] # <<>> /\ Top(t).fn = "terminate" /\ Full(Top(t))
        /\ Point(stack[t]) = <<"terminate", "monitor">>
    BY <1>3, AtPoint, AtFull DEF T_Monitor
  <2>2. Point(stack[t]) \notin Stopping
    BY <2>1 DEF Stopping, Joined
  <2>3. Untouched
    BY <1>3, UnchangedUntouched DEF T_Monitor, threadVars, boundVars
  <2>4. CASE sThis # 0 /\ mDeviceMonitor # 0
    <3>1. Call(t, "monitorStopped", "monitorStop")
      BY <1>3, <2>4 DEF T_Monitor
    <3>2. <<<<Top(t).fn, "monitorStopped">>, "monitorStop">> \in CallSites
      BY <2>1 DEF CallSites
    <3> QED
      BY <2>1, <2>2, <2>3, <3>1, <3>2, CalmCall, FunctionNames DEF Points
  <2>5. CASE ~(sThis # 0 /\ mDeviceMonitor # 0)
    <3>1. Continue(t, "monitorStopped")
      BY <1>3, <2>5 DEF T_Monitor
    <3>2. Workers = {}
      BY <2>5 DEF IInv, MonitorsInv, Monitor
    <3>3. <<Top(t).fn, "monitorStopped">> \notin NoMonitor
      BY <2>1 DEF NoMonitor
    <3> QED
      BY <2>1, <2>2, <2>3, <3>1, <3>2, <3>3, CalmContinue DEF Points
  <2> QED
    BY <2>4, <2>5
<1>4. CASE T_StopReactor(t)
  <2>1. /\ stack[t] # <<>> /\ Top(t).fn = "terminate" /\ Full(Top(t))
        /\ Point(stack[t]) = <<"terminate", "monitorStopped">>
    BY <1>4, AtPoint, AtFull DEF T_StopReactor
  <2>2. Workers = {}
    BY <2>1 DEF IInv, MonitorsInv, Claims, Joined
  <2>3. /\ Continue(t, "joinReactor") /\ mDeviceMonitor' = 0 /\ sThis' = sThis
        /\ quit' = quit /\ running' = running /\ made' = made
    BY <1>4 DEF T_StopReactor, threadVars, boundVars
  <2>4. Moves(t) /\ Point(stack'[t]) = <<"terminate", "joinReactor">> /\ ~Starting(stack'[t])
    BY <1>0, <2>1, <2>3, ContinueMoves DEF IInv, Points
  <2>5. Monitor' /\ ~Quitting'
    BY <2>2, <2>3 DEF IInv, MonitorsInv, Monitor, Quitting, Workers
  <2>6. Point(stack'[t]) \notin Joined
    BY <2>4 DEF Joined
  <2>7. Claims(stack[t])'
    BY <2>3, <2>4, <2>6 DEF Claims
  <2> QED
    BY <1>0, <2>1, <2>3, <2>4, <2>5, <2>7, AloneStep DEF Alone
<1>5. CASE T_Joined(t)
  <2>1. /\ stack[t] # <<>> /\ Top(t).fn = "terminate" /\ Full(Top(t))
        /\ Point(stack[t]) = <<"terminate", "joinReactor">>
    BY <1>5, AtPoint, AtFull DEF T_Joined
  <2>2. mDeviceMonitor = 0
    BY <2>1 DEF IInv, MonitorsInv, Claims, NoMonitor
  <2>3. /\ Return(t, TRUE) /\ mDeviceMonitor' = mDeviceMonitor /\ sThis' = 0
        /\ quit' = quit /\ running' = running /\ made' = made
    BY <1>5 DEF T_Joined, threadVars, boundVars
  <2>4. /\ Moves(t) /\ (Starting(stack'[t]) => Starting(stack[t]))
        /\ Point(stack'[t]) = Nowhere \/ <<Point(stack'[t]), "terminate">> \in CallSites
    BY <2>1, <2>3, ReturnMoves DEF IInv
  <2>5. Monitor' /\ ~Quitting'
    <3>1. made \in Nat
      BY BridgeAssumption DEF IInv, MonitorsInv, Monitor
    <3> QED
      BY <2>2, <2>3, <3>1 DEF IInv, MonitorsInv, Monitor, Quitting, Workers
  <2>6. Point(stack'[t]) \notin Joined
    <3>1. CASE Point(stack'[t]) = Nowhere
      BY <3>1 DEF Nowhere, Joined
    <3>2. CASE <<Point(stack'[t]), "terminate">> \in CallSites
      BY <3>2, ReturnPlaces
    <3> QED
      BY <2>4, <3>1, <3>2
  <2>7. Claims(stack[t])'
    BY <1>0, <2>1, <2>2, <2>3, <2>4, <2>6 DEF Claims
  <2> QED
    BY <1>0, <2>1, <2>3, <2>4, <2>5, <2>7, AloneStep DEF Alone
<1> QED
  BY <1>1, <1>2, <1>3, <1>4, <1>5

\* Taking a mutex keeps the monitor invariant.
LEMMA Lockings ==
  ASSUME StackInv, IInv, NEW t \in Threads, Lock(t)
  PROVE  IInv'
<1> DEFINE s == stack[t]
           n == Len(s)
           f == [s[n] EXCEPT !.taken = @ + 1]
           r == [s EXCEPT ![n] = f]
<1>0. StackOK(s) /\ Sites(s)
  BY DEF StackInv, IInv, Mutex
<1>1. s # <<>> /\ s \in Seq(Frames) /\ n \in Nat /\ n >= 1 /\ s[n].at = "lock"
  BY <1>0 DEF StackOK, Lock, Takes, Locking, Top
<1>2. s[n] \in Frames
  BY <1>1
<1>3. f \in Frames /\ f.fn = s[n].fn /\ f.taken = s[n].taken + 1 /\ f.at = "lock"
  BY <1>1, <1>2 DEF Frames
<1>4. stack' = [stack EXCEPT ![t] = r] /\ stack \in [Threads -> Seq(Frames)]
  BY DEF Lock, StackInv
<1>5. Wanted(t) = LocksOf[s[n].fn][s[n].taken + 1]
  BY DEF Wanted, Top
<1> HIDE DEF f
<1>6. r \in Seq(Frames) /\ Len(r) = n /\ r[n] = f /\ \A i \in 1..n : i < n => r[i] = s[i]
  BY <1>1, <1>3
<1>7. stack'[t] = r /\ \A u \in Threads \ {t} : stack'[u] = stack[u]
  BY <1>4
<1> HIDE DEF r
<1>8. Sites(r) /\ (Starting(r) => Starting(s)) /\ r # <<>> /\ SameBottom(s, r)
  BY <1>0, <1>1, <1>3, <1>6, SetTop
<1>9. Point(r) = Point(s)
  BY <1>1, <1>3, <1>6, <1>8 DEF Point, Place
<1>10. \A l \in Locks : HasLock(r, l) => HasLock(s, l) \/ Wanted(t) = l
  <2> SUFFICES ASSUME NEW l \in Locks, HasLock(r, l), Wanted(t) # l PROVE HasLock(s, l)
    OBVIOUS
  <2>1. PICK i \in 1..n : \E k \in 1..r[i].taken : LocksOf[r[i].fn][k] = l
    BY <1>6 DEF HasLock
  <2>2. PICK k \in 1..r[i].taken : LocksOf[r[i].fn][k] = l
    BY <2>1
  <2>3. CASE i < n
    BY <1>6, <2>2, <2>3 DEF HasLock
  <2>4. CASE i = n
    <3>1. k # s[n].taken + 1
      BY <1>3, <1>5, <1>6, <2>2, <2>4
    <3>2. s[n].taken \in Nat
      BY <1>2 DEF Frames
    <3>3. k \in 1..s[n].taken
      BY <1>3, <1>6, <2>4, <3>1, <3>2
    <3> QED
      BY <1>3, <1>6, <2>2, <2>4, <3>3 DEF HasLock
  <2> QED
    BY <1>1, <2>1, <2>3, <2>4
<1>11. Mutex'
  <2>1. ASSUME NEW l \in Locks, HasLock(r, l), NEW u \in Threads \ {t} PROVE ~HasLock(stack[u], l)
    <3>1. CASE HasLock(s, l)
      BY <3>1, <2>1 DEF IInv, Mutex
    <3>2. CASE Wanted(t) = l
      BY <3>2, <2>1 DEF Lock, Takes, Free, Holds, HasLock
    <3> QED
      BY <1>10, <2>1, <3>1, <3>2
  <2>2. \A u \in Threads : Sites(stack'[u]) /\ (stack'[u] # <<>> => stack'[u][1].fn \in Calls(u))
    BY <1>1, <1>7, <1>8 DEF IInv, Mutex, SameBottom
  <2>3. ASSUME NEW u \in Threads, NEW v \in Threads, NEW l \in Locks,
               HasLock(stack'[u], l), HasLock(stack'[v], l)
        PROVE  u = v
    <3>1. CASE u = t /\ v # t
      BY <1>7, <2>1, <2>3, <3>1
    <3>2. CASE u # t /\ v = t
      BY <1>7, <2>1, <2>3, <3>2
    <3>3. CASE u # t /\ v # t
      BY <1>7, <2>3, <3>3 DEF IInv, Mutex
    <3> QED
      BY <3>1, <3>2, <3>3
  <2> QED
    BY <2>2, <2>3 DEF Mutex
<1>12. MonitorsInv'
  <2>1. Untouched /\ running' = running
    BY UnchangedUntouched DEF Lock, threadVars, boundVars
  <2>2. Monitor'
    BY <2>1 DEF IInv, MonitorsInv, Monitor, Untouched
  <2>3. \A w \in Watchers : stack'[w] # <<>> => w \in running'
    <3>1. \A w \in Watchers : w \in Threads
      BY DEF Threads
    <3> QED
      BY <1>1, <1>7, <2>1, <3>1 DEF IInv, MonitorsInv
  <2>4. ASSUME NEW u \in Threads PROVE Claims(stack[u])'
    <3>1. Claims(stack[u])
      BY DEF IInv, MonitorsInv
    <3>2. (Starting(stack'[u]) => Starting(stack[u])) /\ Point(stack'[u]) = Point(stack[u])
      BY <1>7, <1>8, <1>9
    <3> QED
      BY <2>1, <3>1, <3>2 DEF Claims, Untouched
  <2>5. ASSUME Quitting' PROVE \E u \in Threads : Point(stack'[u]) \in Stopping
    <3>1. PICK u \in Threads : Point(stack[u]) \in Stopping
      BY <2>1, <2>5 DEF IInv, MonitorsInv, Quitting, Untouched
    <3> QED
      BY <1>7, <1>9, <3>1
  <2> QED
    BY <2>2, <2>3, <2>4, <2>5 DEF MonitorsInv
<1> QED
  BY <1>11, <1>12 DEF IInv

\* The functions that only return, and the ones on the clients, keep it.
LEMMA Leaving ==
  ASSUME StackInv, IInv, NEW t \in Threads,
         \/ Leaf(t) \/ ChangeClients(t) \/ Done(t) \/ K_Reopened(t) \/ R_Removed(t)
  PROVE  IInv'
<1>1. CASE Leaf(t)
  <2>1. /\ stack[t] # <<>> /\ Top(t).fn \in Leaves /\ Top(t).at = "lock"
    BY <1>1 DEF Leaf, Takes, Locking
  <2>2. Point(stack[t]) \notin Stopping
    BY <2>1 DEF Point, Place, Top, Stopping, Joined
  <2>3. Untouched /\ Return(t, TRUE)
    BY <1>1, UnchangedUntouched DEF Leaf, threadVars, boundVars
  <2> QED
    BY <2>1, <2>2, <2>3, CalmReturn DEF Leaves
<1>2. CASE ChangeClients(t)
  <2>1. PICK fn \in {"reopen", "processJdwpData"} : Entered(t, fn) /\ Call(t, "changed", "clientList")
    BY <1>2 DEF ChangeClients
  <2>2. stack[t] # <<>> /\ Top(t).fn = fn /\ Full(Top(t)) /\ Point(stack[t]) = <<fn, "lock">>
    BY <2>1, EnteredPoint
  <2>3. Untouched
    BY <1>2, UnchangedUntouched DEF ChangeClients, threadVars, boundVars
  <2>4. Point(stack[t]) \notin Stopping
    BY <2>2 DEF Stopping, Joined
  <2>5. <<<<Top(t).fn, "changed">>, "clientList">> \in CallSites
    BY <2>2 DEF CallSites
  <2> QED
    BY <2>1, <2>2, <2>3, <2>4, <2>5, CalmCall, FunctionNames DEF Points
<1>3. CASE Done(t)
  <2>1. PICK fn \in {"reopen", "processJdwpData", "removeClient"}, at \in {"lock", "done", "changed"} :
          At(t, fn, at)
    BY <1>3 DEF Done, Entered
  <2>2. stack[t] # <<>> /\ Top(t).fn = fn /\ Point(stack[t]) = <<fn, at>>
    BY <2>1, AtPoint
  <2>3. Untouched /\ Return(t, TRUE)
    BY <1>3, UnchangedUntouched DEF Done, threadVars, boundVars
  <2>4. Point(stack[t]) \notin Stopping
    BY <2>2 DEF Stopping, Joined
  <2> QED
    BY <2>1, <2>2, <2>3, <2>4, CalmReturn
<1>4. CASE K_Reopened(t)
  <2>1. /\ stack[t] # <<>> /\ Top(t).fn = "reopen" /\ Full(Top(t)) /\ Point(stack[t]) = <<"reopen", "changed">>
    BY <1>4, AtPoint, AtFull DEF K_Reopened
  <2>2. Untouched /\ Call(t, "done", "deviceChanged")
    BY <1>4, UnchangedUntouched DEF K_Reopened, threadVars, boundVars
  <2>3. Point(stack[t]) \notin Stopping
    BY <2>1 DEF Stopping, Joined
  <2>4. <<<<Top(t).fn, "done">>, "deviceChanged">> \in CallSites
    BY <2>1 DEF CallSites
  <2> QED
    BY <2>1, <2>2, <2>3, <2>4, CalmCall, FunctionNames DEF Points
<1>5. CASE R_Removed(t)
  <2>1. /\ stack[t] # <<>> /\ Top(t).fn = "removeClient" /\ Full(Top(t))
        /\ Point(stack[t]) = <<"removeClient", "lock">>
    BY <1>5, EnteredPoint DEF R_Removed
  <2>2. Untouched /\ Call(t, "done", "deviceChanged")
    BY <1>5, UnchangedUntouched DEF R_Removed, threadVars, boundVars
  <2>3. Point(stack[t]) \notin Stopping
    BY <2>1 DEF Stopping, Joined
  <2>4. <<<<Top(t).fn, "done">>, "deviceChanged">> \in CallSites
    BY <2>1 DEF CallSites
  <2> QED
    BY <2>1, <2>2, <2>3, <2>4, CalmCall, FunctionNames DEF Points
<1> QED
  BY <1>1, <1>2, <1>3, <1>4, <1>5

\* The thread of the device list keeps the monitor invariant.
LEMMA ListThreadSteps ==
  ASSUME StackInv, IInv, NEW b \in 1..MaxBridges, L_Loop(b) \/ L_Update(b) \/ L_Updated(b)
  PROVE  IInv'
<1> DEFINE t == ListThread(b)
<1>0. t \in Watchers /\ t \in Threads /\ t # Reactor
  BY ThreadsAssumption DEF Threads, Watchers, ThreadsOf
<1>1. CASE L_Loop(b)
  <2>1. \E fn \in Calls(t) : Begin(t, fn, NoArg)
    BY <1>0, <1>1, ThreadsAssumption DEF L_Loop, Calls
  <2>2. NoArg \in Args /\ stack[t] = <<>> /\ t \in running /\ Untouched
    BY <1>1, UnchangedUntouched DEF L_Loop, Runs, Idle, NoArg, Args, threadVars, boundVars
  <2> HIDE DEF t
  <2> QED
    BY <1>0, <2>1, <2>2, CalmBegin
<1>2. CASE L_Update(b)
  <2>1. /\ stack[t] # <<>> /\ Top(t).fn = "updateDevices" /\ Full(Top(t))
        /\ Point(stack[t]) = <<"updateDevices", "lock">>
    BY <1>2, EnteredPoint DEF L_Update
  <2>2. Point(stack[t]) \notin Stopping
    BY <2>1 DEF Stopping, Joined
  <2>3. CASE b \in quit \/ ~ClientSupport
    <3>1. Return(t, TRUE) /\ Untouched
      BY <1>2, <2>3, UnchangedUntouched DEF L_Update, boundVars
    <3> HIDE DEF t
    <3> QED
      BY <1>0, <2>1, <2>2, <3>1, CalmReturn
  <2>4. CASE b \notin quit /\ ClientSupport
    <3>1. /\ Call(t, "merged", "clientList") /\ running' = running \cup {ClientThread(b)}
          /\ UNCHANGED <<bridgeVars, quit, made>>
      BY <1>2, <2>4 DEF L_Update, boundVars
    <3>2. t \in Workers
      BY <1>0, <2>1 DEF IInv, MonitorsInv, Workers
    <3>3. mDeviceMonitor # 0 /\ t \in ThreadsOf(mDeviceMonitor)
      BY <3>2 DEF IInv, MonitorsInv, Monitor
    <3>4. b = mDeviceMonitor
      BY <3>3 DEF ThreadsOf, ListThread, ClientThread
    <3>5. Workers' \subseteq ThreadsOf(mDeviceMonitor)
      BY <3>1, <3>3, <3>4 DEF IInv, MonitorsInv, Monitor, Workers, ThreadsOf
    <3>6. Monitor'
      BY <3>1, <3>3, <3>5 DEF IInv, MonitorsInv, Monitor, bridgeVars
    <3>7. ~Quitting'
      BY <2>4, <3>1, <3>4 DEF Quitting, bridgeVars
    <3>8. HasBridge(stack[t])
      BY <1>0, <2>1, TopBridge DEF BridgeFunctions
    <3>9. <<<<Top(t).fn, "merged">>, "clientList">> \in CallSites
      BY <2>1 DEF CallSites
    <3> HIDE DEF t
    <3>10. /\ Moves(t) /\ Point(stack'[t]) = <<"clientList", "lock">>
           /\ (Starting(stack'[t]) => Starting(stack[t]))
      BY <1>0, <2>1, <3>1, <3>9, CallMoves, FunctionNames DEF IInv, Points
    <3>11. Point(stack'[t]) \notin NoMonitor \cup Joined
      BY <3>10 DEF NoMonitor, Joined
    <3>12. Claims(stack[t])'
      BY <1>0, <3>1, <3>10, <3>11 DEF Claims, IInv, MonitorsInv, bridgeVars
    <3> QED
      BY <1>0, <2>1, <3>1, <3>6, <3>7, <3>8, <3>10, <3>12, AloneStep DEF Alone
  <2> QED
    BY <2>3, <2>4
<1>3. CASE L_Updated(b)
  <2>1. /\ stack[t] # <<>> /\ Top(t).fn = "updateDevices"
        /\ Point(stack[t]) = <<"updateDevices", "merged">>
    BY <1>3, AtPoint DEF L_Updated
  <2>2. Point(stack[t]) \notin Stopping
    BY <2>1 DEF Stopping, Joined
  <2>3. Untouched /\ Return(t, TRUE)
    BY <1>3, UnchangedUntouched DEF L_Updated, threadVars, boundVars
  <2> HIDE DEF t
  <2> QED
    BY <1>0, <2>1, <2>2, <2>3, CalmReturn
<1> QED
  BY <1>1, <1>2, <1>3

(* A thread that ends makes the workers fewer.                             *)
LEMMA Endings ==
  ASSUME IInv, NEW u \in running, stack[u] = <<>>, running' = running \ {u},
         UNCHANGED <<stack, bridgeVars, quit, made>>
  PROVE  IInv'
<1>1. Mutex'
  BY DEF IInv, Mutex
<1>2. Workers' \subseteq Workers
  BY DEF Workers
<1>3. Monitor'
  BY <1>2 DEF IInv, MonitorsInv, Monitor, bridgeVars
<1>4. \A w \in Watchers : stack'[w] # <<>> => w \in running'
  BY DEF IInv, MonitorsInv
<1>5. \A t \in Threads : Claims(stack[t])'
  BY <1>2 DEF IInv, MonitorsInv, Claims, bridgeVars
<1>6. Quitting' => \E t \in Threads : Point(stack'[t]) \in Stopping
  BY DEF IInv, MonitorsInv, Quitting, bridgeVars
<1> QED
  BY <1>1, <1>3, <1>4, <1>5, <1>6 DEF IInv, MonitorsInv

\* The two threads of a monitor keep the monitor invariant.
LEMMA WorkerSteps ==
  ASSUME StackInv, IInv, NEW b \in 1..MaxBridges, WatcherNext(b)
  PROVE  IInv'
<1>1. CASE L_Loop(b) \/ L_Update(b) \/ L_Updated(b)
  BY <1>1, ListThreadSteps
<1>2. CASE K_Loop(b)
  <2> DEFINE t == ClientThread(b)
  <2>1. t \in Watchers /\ t \in Threads
    BY DEF Threads, Watchers, ThreadsOf
  <2>2. \E fn \in Calls(t) : Begin(t, fn, NoArg)
    BY <1>2, <2>1, ThreadsAssumption DEF K_Loop, Calls
  <2>3. NoArg \in Args /\ stack[t] = <<>> /\ t \in running /\ Untouched
    BY <1>2, UnchangedUntouched DEF K_Loop, Runs, Idle, NoArg, Args, threadVars, boundVars
  <2> HIDE DEF t
  <2> QED
    BY <2>1, <2>2, <2>3, CalmBegin
<1>3. CASE Ends(b)
  <2>1. PICK u \in ThreadsOf(b) : Runs(u) /\ running' = running \ {u}
    BY <1>3 DEF Ends
  <2> QED
    BY <1>3, <2>1, Endings DEF Ends, Runs, Idle, boundVars
<1> QED
  BY <1>1, <1>2, <1>3 DEF WatcherNext

\* The reactor thread keeps the monitor invariant.
LEMMA ReactorSteps ==
  ASSUME StackInv, IInv, R_Loop \/ R_Ends
  PROVE  IInv'
<1>1. CASE R_Loop
  <2>1. Reactor \in Threads /\ Reactor \notin Watchers
    BY ThreadsAssumption DEF Threads
  <2>2. \E fn \in Calls(Reactor) : Begin(Reactor, fn, NoArg)
    BY <1>1, BridgeAssumption DEF R_Loop, Calls
  <2>3. NoArg \in Args /\ stack[Reactor] = <<>> /\ Untouched
    BY <1>1, UnchangedUntouched DEF R_Loop, Runs, Idle, NoArg, Args, threadVars, boundVars
  <2> QED
    BY <2>1, <2>2, <2>3, CalmBegin
<1>2. CASE R_Ends
  BY <1>2, Endings DEF R_Ends, Runs, Idle, boundVars
<1> QED
  BY <1>1, <1>2

-----------------------------------------------------------------------------
(* One thread at a time has a lock, and what the threads rely on at each   *)
(* point of making and stopping a monitor holds there.                     *)
THEOREM MonitorInvariant == Spec => []IInv
<1>1. Init => IInv
  <2> SUFFICES ASSUME Init PROVE IInv
    OBVIOUS
  <2>1. \A t \in Threads : stack[t] = <<>>
    BY DEF Init
  <2>2. /\ ~Starting(<<>>) /\ Sites(<<>>) /\ Point(<<>>) = Nowhere
        /\ \A l \in Locks : ~HasLock(<<>>, l)
    BY DEF Starting, HasLock, Sites, Point
  <2>3. Nowhere \notin NoMonitor \cup Joined
    BY DEF Nowhere, NoMonitor, Joined
  <2>4. Mutex
    BY <2>1, <2>2 DEF Mutex
  <2>5. \A t \in Threads : Claims(stack[t])
    BY <2>1, <2>2, <2>3 DEF Claims
  <2>6. Monitor /\ ~Quitting
    BY BridgeAssumption DEF Init, Monitor, Quitting, Workers
  <2>7. \A w \in Watchers : stack[w] = <<>>
    BY <2>1 DEF Threads
  <2> QED
    BY <2>4, <2>5, <2>6, <2>7 DEF IInv, MonitorsInv
<1>2. StackInv /\ IInv /\ [Next]_vars => IInv'
  <2> SUFFICES ASSUME StackInv, IInv, [Next]_vars PROVE IInv'
    OBVIOUS
  <2>1. CASE UNCHANGED vars
    BY <2>1 DEF vars, bridgeVars, threadVars, boundVars, IInv, Mutex, MonitorsInv, Monitor, Claims,
       Quitting, Workers
  <2>2. ASSUME NEW t \in Apps, AppNext(t) PROVE IInv'
    <3>1. t \in Threads
      BY DEF Threads
    <3> QED
      BY <2>2, <3>1, Starts, Creations, Disconnections, StartsAndStops, MonitorStops, Terminations
         DEF AppNext
  <2>3. ASSUME NEW t \in Threads, AnyNext(t) PROVE IInv'
    BY <2>3, Lockings, Leaving, StartsAndStops DEF AnyNext
  <2>4. ASSUME NEW b \in 1..MaxBridges, WatcherNext(b) PROVE IInv'
    BY <2>4, WorkerSteps
  <2>5. CASE R_Loop \/ R_Ends
    BY <2>5, ReactorSteps
  <2> QED
    BY <2>1, <2>2, <2>3, <2>4, <2>5 DEF Next
<1> QED
  BY <1>1, <1>2, Shape, PTL DEF Spec

(* However bridges are made, replaced, disconnected and terminated, by any *)
(* number of threads, no thread of a monitor outlives its bridge           *)
(* (AndroidDebugBridge::stop, terminate, DeviceMonitor::stop).             *)
THEOREM NoThreadLeftBehind == Spec => []OneMonitor
<1>1. IInv => OneMonitor
  <2> SUFFICES ASSUME IInv PROVE OneMonitor
    OBVIOUS
  <2>1. mDeviceMonitor \in {0, sThis} /\ Workers \subseteq ThreadsOf(mDeviceMonitor)
    BY DEF IInv, MonitorsInv, Monitor
  <2> QED
    BY <2>1 DEF OneMonitor, Workers
<1> QED
  BY <1>1, MonitorInvariant, PTL

-----------------------------------------------------------------------------
(***************************************************************************)
(* Who waits for whom: for a lock, or at the join of a thread.             *)
(***************************************************************************)
JoinedBy(t) ==
  IF Point(stack[t]) = <<"monitorStop", "join">> THEN Joins(t)
  ELSE IF Point(stack[t]) = <<"terminate", "joinReactor">> THEN {Reactor} \cap running
  ELSE {}

WaitsFor(t, u) ==
  \/ Locking(t) /\ u # t /\ Holds(u, Wanted(t))
  \/ u \in JoinedBy(t)

(* Each waits for one of them.                                             *)
Circle(ts) == ts # {} /\ \A t \in ts : \E u \in ts : WaitsFor(t, u)

(* t called startAdb itself, has startAdb's lock and comes to the bridge's. *)
StartsAdb(t) ==
  stack[t] # <<>> /\ Len(stack[t]) = 1 /\ Top(t).fn = "startAdb" /\ Top(t).taken = 1

(* The reactor has Device's lock and tells the listeners.                  *)
RemovesClient(t) ==
  t = Reactor /\ stack[t] # <<>> /\ stack[t][1].fn = "removeClient" /\ Top(t).fn = "deviceChanged"

(* What makes a circle possible                                            *)
Risks(t) == StartsAdb(t) \/ RemovesClient(t) \/ JoinedBy(t) # {}

OnlyKnownCircles ==
  \A ts \in SUBSET Threads : Circle(ts) => \E t \in ts : Risks(t)

(* Who waits for someone                                                   *)
Waiting == {t \in Threads : \E u \in Threads : WaitsFor(t, u)}

SomeHolderRuns ==
  Waiting # {} /\ (\A t \in Waiting : ~Risks(t)) =>
    \E t \in Waiting, u \in Threads \ Waiting : WaitsFor(t, u)

\* What is wanted is one of the locks, and what has a rank is one, too.
LEMMA WantedLock ==
  ASSUME StackInv, NEW t \in Threads, Locking(t)
  PROVE  /\ Wanted(t) \in Locks /\ Rank[Wanted(t)] \in 0..6
         /\ Top(t).fn \in Functions /\ Top(t).taken \in Nat
<1>1. StackOK(stack[t]) /\ stack[t] # <<>>
  BY DEF StackInv, Locking
<1>2. Top(t) \in Frames
  BY <1>1 DEF StackOK, Top
<1>3. Top(t).fn \in Functions /\ Top(t).taken \in Nat
  BY <1>2 DEF Frames
<1>4. Len(LocksOf[Top(t).fn]) \in 1..2 /\ Top(t).taken < Len(LocksOf[Top(t).fn])
  BY <1>3, LocksOfType DEF Locking
<1>5. Top(t).taken + 1 \in 1..Len(LocksOf[Top(t).fn])
  BY <1>3, <1>4
<1>6. Wanted(t) \in Locks
  BY <1>3, <1>5 DEF Locks, Wanted
<1>7. \A fn \in Functions : \A k \in 1..Len(LocksOf[fn]) : Rank[LocksOf[fn][k]] \in 0..6
  BY FunctionNames, LocksTable, RankTable DEF Takes1, Takes2
<1> QED
  BY <1>3, <1>5, <1>6, <1>7 DEF Wanted

\* Who waits for a lock that another thread has does not have it itself.
LEMMA NotOwn ==
  ASSUME StackInv, Mutex, NEW t \in Threads, NEW u \in Threads, u # t, Locking(t),
         Holds(u, Wanted(t))
  PROVE  ~Holds(t, Wanted(t))
<1>1. Wanted(t) \in Locks
  BY WantedLock
<1>2. \A v \in Threads : Holds(v, Wanted(t)) => HasLock(stack[v], Wanted(t))
  BY DEF Holds, HasLock
<1> QED
  BY <1>1, <1>2 DEF Mutex

\* What start and its like call has the bridge lock from its caller.
LEMMA CalledUnderBridge ==
  ASSUME StackInv, NEW t \in Threads, stack[t] # <<>>, Len(stack[t]) > 1, Top(t).fn \in Under
  PROVE  Holds(t, "bridge")
<1> DEFINE s == stack[t]
           n == Len(s)
<1>0. StackOK(s)
  BY DEF StackInv
<1>1. StackOK(s) /\ n \in Nat /\ n > 1
  BY <1>0 DEF StackOK
<1>2. n \in 1..n /\ n - 1 \in 1..n /\ n - 1 < n /\ (n - 1) + 1 = n
  BY <1>1
<1>3. s[n].fn \in Under /\ s[n].fn # "getDevices"
  BY DEF Top, Under
<1>4. s[n - 1].fn \in Beneath[s[n].fn]
  BY <1>1, <1>2 DEF StackOK
<1>5. Len(LocksOf[s[n - 1].fn]) = 2 /\ LocksOf[s[n - 1].fn][2] = "bridge"
  BY <1>3, <1>4, CallersHoldBridge
<1>6. Full(s[n - 1])
  BY <1>1, <1>2, <1>3 DEF StackOK
<1> QED
  BY <1>2, <1>5, <1>6 DEF Holds, Full

\* Which functions take the locks that the two inversions hold.
LEMMA HoldersOfInversions ==
  ASSUME NEW fn \in Functions, NEW k \in 1..Len(LocksOf[fn])
  PROVE  /\ LocksOf[fn][k] = "startAdb" => fn = "startAdb" /\ k = 1
         /\ LocksOf[fn][k] = "device" => fn \in {"clientList", "removeClient"} /\ k = 1
BY FunctionNames, LocksTable DEF Takes1, Takes2

\* A thread that has a lock of an inversion and waits for the bridge lock is in startAdb, which it
\* called itself, or is the reactor and removes a client.
LEMMA InversionsAre ==
  ASSUME StackInv, Mutex, NEW t \in Threads, Locking(t), ~Holds(t, Wanted(t)),
         NEW l \in Held(t), <<l, Wanted(t)>> \in Inversions
  PROVE  StartsAdb(t) \/ RemovesClient(t)
<1> DEFINE s == stack[t]
           n == Len(s)
           h == s[n].fn
<1>0. StackOK(s) /\ s # <<>>
  BY DEF StackInv, Locking
<1>1. s \in Seq(Frames) /\ n \in Nat /\ n >= 1 /\ n \in 1..n
  BY <1>0 DEF StackOK
<1>2. Wanted(t) = "bridge" /\ l \in {"startAdb", "device"}
  BY DEF Inversions
<1>3. PICK i \in 1..n : \E k \in 1..s[i].taken : LocksOf[s[i].fn][k] = l
  BY DEF Held, Holds
<1>4. PICK k \in 1..s[i].taken : LocksOf[s[i].fn][k] = l
  BY <1>3
<1>5. s[i] \in Frames /\ s[i].taken <= Len(LocksOf[s[i].fn])
  BY <1>0, <1>1 DEF StackOK
<1>6. s[i].fn \in Functions /\ s[i].taken \in Nat /\ Len(LocksOf[s[i].fn]) \in 1..2
  BY <1>5, LocksOfType DEF Frames
<1>7. k \in 1..Len(LocksOf[s[i].fn])
  BY <1>4, <1>5, <1>6
<1>8. Top(t) = s[n] /\ s[n].taken < Len(LocksOf[s[n].fn])
  BY DEF Top, Locking
<1>9. i < n => s[i].fn \in Beneath[h]
  BY <1>0, <1>1 DEF StackOK
<1>10. h \in Functions
  BY <1>8, WantedLock
<1>11. CASE l = "startAdb"
  <2>1. s[i].fn = "startAdb" /\ k = 1
    BY <1>4, <1>6, <1>7, <1>11, HoldersOfInversions
  <2>2. "startAdb" \notin Beneath[h]
    BY <1>10, FunctionNames DEF Beneath, Creates
  <2>3. i = n
    BY <1>1, <1>9, <2>1, <2>2
  <2>4. s[n].taken = 1
    <3>1. Len(LocksOf[s[n].fn]) = 2
      BY <2>1, <2>3, LocksTable DEF Takes2
    <3> QED
      BY <1>4, <1>6, <1>8, <2>3, <3>1
  <2>5. n = 1
    <3>1. Top(t).fn \in Under
      BY <1>8, <2>1, <2>3 DEF Under
    <3>2. ~Holds(t, "bridge")
      BY <1>2
    <3>3. ~(n > 1)
      BY <1>0, <3>1, <3>2, CalledUnderBridge
    <3> HIDE DEF n, s
    <3> QED
      BY <1>1, <3>3
  <2> QED
    BY <1>0, <1>8, <2>1, <2>3, <2>4, <2>5 DEF StartsAdb
<1>12. CASE l = "device"
  <2>1. s[i].fn \in {"clientList", "removeClient"} /\ k = 1
    BY <1>4, <1>6, <1>7, <1>12, HoldersOfInversions
  <2>2. i # n
    <3>1. Len(LocksOf[s[i].fn]) = 1
      BY <2>1, LocksTable DEF Takes1
    <3>2. s[i].taken = 1
      BY <1>4, <1>5, <1>6, <3>1
    <3>3. ~(s[i].taken < Len(LocksOf[s[i].fn]))
      BY <3>1, <3>2
    <3> HIDE DEF s, n
    <3> QED
      BY <1>8, <3>3
  <2>3. s[i].fn \in Beneath[h]
    BY <1>1, <1>9, <2>2
  <2>4. h = "deviceChanged" /\ s[i].fn = "removeClient"
    BY <1>10, <2>1, <2>3, FunctionNames DEF Beneath, Creates
  <2>5. i = 1
    <3>1. \A j \in 1..n : j < i => s[j].fn \in Beneath[s[i].fn]
      BY <1>0 DEF StackOK
    <3>2. Beneath["removeClient"] = {}
      BY DEF Beneath
    <3>3. 1 \in 1..n
      BY <1>1
    <3> QED
      BY <1>1, <2>4, <3>1, <3>2, <3>3
  <2>6. "removeClient" \in Calls(t)
    BY <1>0, <2>4, <2>5 DEF Mutex
  <2>7. t = Reactor
    BY <2>6 DEF Calls
  <2> QED
    BY <1>0, <1>8, <2>4, <2>5, <2>7 DEF RemovesClient
<1> QED
  BY <1>2, <1>11, <1>12

\* In a circle without a join or an inversion what the threads want would rank higher and higher.
LEMMA CirclesLemma ==
  ASSUME StackInv, Mutex
  PROVE  OnlyKnownCircles
<1> SUFFICES ASSUME NEW ts \in SUBSET Threads, Circle(ts), \A t \in ts : ~Risks(t)
             PROVE  FALSE
  BY DEF OnlyKnownCircles
<1> DEFINE R(t) == Rank[Wanted(t)]
<1>1. ASSUME NEW t \in ts
      PROVE  R(t) \in 0..6 /\ \E u \in ts : R(u) \in 0..6 /\ R(t) < R(u)
  <2>1. PICK u \in ts : WaitsFor(t, u)
    BY DEF Circle
  <2>2. Locking(t) /\ u # t /\ Holds(u, Wanted(t))
    BY <2>1 DEF WaitsFor, Risks
  <2>3. PICK v \in ts : WaitsFor(u, v)
    BY DEF Circle
  <2>4. Locking(u) /\ v # u /\ Holds(v, Wanted(u))
    BY <2>3 DEF WaitsFor, Risks
  <2>5. ~Holds(u, Wanted(u))
    BY <2>4, NotOwn
  <2>6. R(t) \in 0..6 /\ R(u) \in 0..6 /\ Wanted(t) \in Held(u)
    BY <2>2, <2>4, WantedLock DEF Held
  <2>7. Rank[Wanted(t)] < Rank[Wanted(u)] \/ <<Wanted(t), Wanted(u)>> \in Inversions
    BY <2>4, <2>5, <2>6, ShapeOrder DEF LockOrder
  <2>8. <<Wanted(t), Wanted(u)>> \notin Inversions
    BY <2>4, <2>5, <2>6, InversionsAre DEF Risks
  <2> QED
    BY <2>6, <2>7, <2>8
<1> DEFINE Above(n) == \E t \in ts : R(t) \in 0..6 /\ R(t) >= n
<1>2. Above(0)
  BY <1>1 DEF Circle
<1>3. ASSUME NEW n \in Nat, Above(n) PROVE Above(n + 1)
  <2> HIDE DEF R
  <2>1. PICK t \in ts : R(t) \in 0..6 /\ R(t) >= n
    BY <1>3
  <2>2. PICK u \in ts : R(u) \in 0..6 /\ R(t) < R(u)
    BY <1>1
  <2>3. R(u) >= n + 1
    BY <2>1, <2>2
  <2> QED
    BY <2>2, <2>3
<1>4. ~Above(7)
  BY DEF Above
<1> HIDE DEF Above
<1>5. Above(0 + 1)
  BY <1>2, <1>3
<1>6. Above(1 + 1)
  BY <1>5, <1>3
<1>7. Above(2 + 1)
  BY <1>6, <1>3
<1>8. Above(3 + 1)
  BY <1>7, <1>3
<1>9. Above(4 + 1)
  BY <1>8, <1>3
<1>10. Above(5 + 1)
  BY <1>9, <1>3
<1>11. Above(6 + 1)
  BY <1>10, <1>3
<1> QED
  BY <1>4, <1>11

(* Threads wait for each other in a circle only where one of them called   *)
(* startAdb itself and comes to the bridge lock, or is the reactor and     *)
(* tells the listeners of a removed client with Device's lock, or joins    *)
(* threads with locks held (AndroidDebugBridge.cpp, Device.cpp,            *)
(* DeviceMonitor::stop): every other nesting of up to six locks is safe.   *)
THEOREM CirclesAreKnown == Spec => []OnlyKnownCircles
<1>1. StackInv /\ IInv => OnlyKnownCircles
  BY CirclesLemma DEF IInv
<1> QED
  BY <1>1, Shape, MonitorInvariant, PTL

(* Where none of the three is under way and threads wait, one of them      *)
(* waits for a thread that waits for nobody: the locks as such never stop  *)
(* the library.                                                            *)
THEOREM HoldersRun == Spec => []SomeHolderRuns
<1>1. OnlyKnownCircles => SomeHolderRuns
  <2> SUFFICES ASSUME OnlyKnownCircles, Waiting # {}, \A t \in Waiting : ~Risks(t),
                      \A t \in Waiting, u \in Threads \ Waiting : ~WaitsFor(t, u)
               PROVE  FALSE
    BY DEF SomeHolderRuns
  <2>1. \A t \in Waiting : \E u \in Waiting : WaitsFor(t, u)
    BY DEF Waiting
  <2>2. Circle(Waiting) /\ Waiting \in SUBSET Threads
    BY <2>1 DEF Circle, Waiting
  <2> QED
    BY <2>2 DEF OnlyKnownCircles
<1> QED
  BY <1>1, CirclesAreKnown, PTL
==============================================================================
