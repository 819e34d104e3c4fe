------------------------- MODULE DeviceMonitor_proofs -------------------------
(***************************************************************************)
(* The list of devices, proved for any number of devices, lists, pool      *)
(* threads and faults.  In the order of the module:                        *)
(*                                                                         *)
(*   the types, and what each action of DeviceMonitor does to the devices, *)
(*             the list and the queues, for any list that adb may send;    *)
(*             the loops of updateDevices are the function Chosen: that it *)
(*             exists and what it copies is proved by induction, with a    *)
(*             set of naturals for the property;                           *)
(*   Typed, PlaceInv, WireInv   the types, and what is known from where    *)
(*             the monitor thread is and from the state of the connection; *)
(*   EventInv  what is queued for the listeners agrees with what they      *)
(*             were told already;                                          *)
(*   QueriedInv   a device that is online was or will be queried;          *)
(*   ListsInv  the serial numbers of every list are unique;                *)
(*   MergeInv  what the merge has done so far;                             *)
(*   ToldInv, StateInv   what the listeners do not know is queued;         *)
(*   FlowInv   adb's list is on the wire, in the merge or mirrored.        *)
(*                                                                         *)
(* The hard part is EventInv: the monitor thread and the tasks of the pool *)
(* tell the listeners in parallel, and a device must never be with both.   *)
(* The last four need that adb never lists a serial number twice           *)
(* (SerialsUnique): removeDevice drops all devices with a serial number,   *)
(* and the merge has told the listeners of one.                            *)
(***************************************************************************)
EXTENDS DeviceMonitor, SequenceTheorems, FiniteSetTheorems, WellFoundedInduction, TLAPS

(***************************************************************************)
(* Types.                                                                  *)
(***************************************************************************)

(* A sequence without repetitions.                                         *)
Distinct(s) == \A i, j \in 1..Len(s) : s[i] = s[j] => i = j

(* Min of a set of naturals is its least element.                          *)
LEMMA MinLemma ==
  ASSUME NEW S \in SUBSET Nat, S # {}
  PROVE  Min(S) \in S /\ \A x \in S : Min(S) <= x
<1> DEFINE R == OpToRel(<, Nat)
<1>1. IsWellFoundedOn(R, Nat)
  BY NatLessThanWellFounded
<1>2. \A a, b \in Nat : a < b => <<a, b>> \in R
  BY DEF OpToRel
<1> HIDE DEF R
<1>3. PICK x \in S : \A y \in S : ~(<<y, x>> \in R)
  BY <1>1, WFMin
<1>4. ASSUME NEW y \in S  PROVE x <= y
  <2>1. x \in Nat /\ y \in Nat /\ ~(y < x)
    BY <1>2, <1>3
  <2> QED
    BY <2>1
<1>5. x \in S /\ \A y \in S : x <= y
  BY <1>4
<1> QED
  BY <1>5 DEF Min

(* Induction over the naturals, with a set for the property.               *)
LEMMA Induction ==
  ASSUME NEW S, 0 \in S, \A n \in Nat : n \in S => n + 1 \in S
  PROVE  Nat \subseteq S
<1> DEFINE Bad == Nat \ S
<1> SUFFICES ASSUME Bad # {}  PROVE FALSE
  OBVIOUS
<1>1. Min(Bad) \in Bad /\ \A x \in Bad : Min(Bad) <= x
  BY MinLemma
<1> DEFINE k == Min(Bad)
<1> HIDE DEF k
<1>2. k \in Nat /\ k # 0 /\ k \notin S
  BY <1>1 DEF k
<1>3. k - 1 \in Nat /\ k - 1 \in S
  BY <1>1, <1>2 DEF k
<1> QED
  BY <1>2, <1>3

(* g is the function of Chosen: what is copied of the first i elements, up *)
(* to the n-th.                                                            *)
IsCopied(s, S, g, n) ==
  g = [i \in 0..n |-> IF i = 0 THEN <<>>
                      ELSE IF s[i] \in S THEN Append(g[i - 1], s[i]) ELSE g[i - 1]]

(* The function of Chosen exists, for it is built from its values one by   *)
(* one.                                                                    *)
LEMMA CopiedExists ==
  ASSUME NEW s, NEW S, NEW n \in Nat
  PROVE  \E g : IsCopied(s, S, g, n)
<1> DEFINE D == {k \in Nat : \E g : IsCopied(s, S, g, k)}
<1>1. 0 \in D
  <2> DEFINE g == [i \in 0..0 |-> <<>>]
  <2>1. IsCopied(s, S, g, 0)
    BY DEF IsCopied
  <2> QED
    BY <2>1
<1>2. ASSUME NEW k \in Nat, k \in D
      PROVE  k + 1 \in D
  <2>1. PICK g : IsCopied(s, S, g, k)
    BY <1>2
  <2> DEFINE last == IF s[k + 1] \in S THEN Append(g[k], s[k + 1]) ELSE g[k]
             h == [i \in 0..(k + 1) |-> IF i = k + 1 THEN last ELSE g[i]]
  <2>2. IsCopied(s, S, h, k + 1)
    <3>1. \A i \in 0..k : g[i] = IF i = 0 THEN <<>> ELSE IF s[i] \in S THEN Append(g[i - 1], s[i]) ELSE g[i - 1]
      BY <2>1 DEF IsCopied
    <3>2. ASSUME NEW i \in 0..(k + 1)
          PROVE  h[i] = IF i = 0 THEN <<>> ELSE IF s[i] \in S THEN Append(h[i - 1], s[i]) ELSE h[i - 1]
      <4>1. CASE i = k + 1
        <5>1. h[i] = last /\ h[i - 1] = g[k] /\ i # 0
          BY <4>1
        <5> QED
          BY <4>1, <5>1
      <4>2. CASE i \in 0..k
        <5>1. h[i] = g[i] /\ (i # 0 => h[i - 1] = g[i - 1])
          BY <4>2
        <5> HIDE DEF h
        <5> QED
          BY <3>1, <4>2, <5>1
      <4> QED
        BY <4>1, <4>2
    <3>3. h = [i \in 0..(k + 1) |-> h[i]]
      OBVIOUS
    <3> HIDE DEF h
    <3> QED
      BY <3>2, <3>3 DEF IsCopied
  <2> QED
    BY <2>2
<1> HIDE DEF D
<1>3. Nat \subseteq D
  BY <1>1, <1>2, Induction
<1> QED
  BY <1>3 DEF D

(* Chosen copies the elements in S and no other, and repeats none that was *)
(* there once.                                                             *)
LEMMA ChosenLemma ==
  ASSUME NEW T, NEW s \in Seq(T), NEW S
  PROVE  /\ Chosen(s, S) \in Seq(T)
         /\ ToSet(Chosen(s, S)) = ToSet(s) \cap S
         /\ Distinct(s) => Distinct(Chosen(s, S))
<1> DEFINE g == CHOOSE f : IsCopied(s, S, f, Len(s))
<1>1. Chosen(s, S) = g[Len(s)]
  BY DEF Chosen, IsCopied
<1>2. IsCopied(s, S, g, Len(s)) /\ Len(s) \in Nat
  BY CopiedExists
<1> HIDE DEF g
<1>3. /\ g[0] = <<>>
      /\ \A k \in Nat : k + 1 \in 1..Len(s) =>
           g[k + 1] = IF s[k + 1] \in S THEN Append(g[k], s[k + 1]) ELSE g[k]
  <2>1. \A i \in 0..Len(s) :
          g[i] = IF i = 0 THEN <<>> ELSE IF s[i] \in S THEN Append(g[i - 1], s[i]) ELSE g[i - 1]
    BY <1>2 DEF IsCopied
  <2>2. g[0] = <<>>
    BY <1>2, <2>1
  <2>3. ASSUME NEW k \in Nat, k + 1 \in 1..Len(s)
        PROVE  g[k + 1] = IF s[k + 1] \in S THEN Append(g[k], s[k + 1]) ELSE g[k]
    <3>1. k + 1 \in 0..Len(s) /\ k + 1 # 0 /\ (k + 1) - 1 = k
      BY <1>2, <2>3
    <3> QED
      BY <2>1, <3>1
  <2> QED
    BY <2>2, <2>3
<1> DEFINE First(k) == {s[i] : i \in 1..k} \cap S
           D == {k \in Nat : k <= Len(s) =>
                   /\ g[k] \in Seq(T)
                   /\ ToSet(g[k]) = First(k)
                   /\ Distinct(s) => Distinct(g[k])}
<1>4. 0 \in D
  <2>1. <<>> \in Seq(T) /\ ToSet(<<>>) = {} /\ First(0) = {} /\ Distinct(<<>>)
    BY DEF ToSet, Distinct
  <2> QED
    BY <1>3, <2>1
<1>5. ASSUME NEW k \in Nat, k \in D
      PROVE  k + 1 \in D
  <2> SUFFICES ASSUME k + 1 <= Len(s)
               PROVE  /\ g[k + 1] \in Seq(T)
                      /\ ToSet(g[k + 1]) = First(k + 1)
                      /\ Distinct(s) => Distinct(g[k + 1])
    OBVIOUS
  <2>1. /\ g[k] \in Seq(T) /\ ToSet(g[k]) = First(k)
        /\ Distinct(s) => Distinct(g[k])
        /\ k + 1 \in 1..Len(s) /\ s[k + 1] \in T
    BY <1>2, <1>5
  <2>2. First(k + 1) = First(k) \cup ({s[k + 1]} \cap S)
    OBVIOUS
  <2>3. CASE s[k + 1] \notin S
    BY <1>3, <2>1, <2>2, <2>3
  <2>4. CASE s[k + 1] \in S
    <3> DEFINE a == g[k]
               e == s[k + 1]
    <3>1. g[k + 1] = Append(a, e)
      BY <1>3, <2>1, <2>4
    <3>2. /\ Append(a, e) \in Seq(T) /\ Len(Append(a, e)) = Len(a) + 1 /\ Len(a) \in Nat
          /\ Append(a, e)[Len(a) + 1] = e
          /\ \A i \in 1..Len(a) : Append(a, e)[i] = a[i]
      BY <2>1
    <3>3. ToSet(Append(a, e)) = ToSet(a) \cup {e}
      <4>1. DOMAIN Append(a, e) = 1..(Len(a) + 1) /\ DOMAIN a = 1..Len(a)
        BY <2>1, <3>2
      <4>2. \A i \in 1..(Len(a) + 1) : i \in 1..Len(a) \/ i = Len(a) + 1
        BY <3>2
      <4> HIDE DEF a, e
      <4> QED
        BY <3>2, <4>1, <4>2 DEF ToSet
    <3>4. Distinct(s) => e \notin ToSet(a)
      <4>1. ASSUME Distinct(s), NEW i \in 1..k  PROVE s[i] # e
        BY <1>2, <2>1, <4>1 DEF Distinct
      <4> QED
        BY <2>1, <4>1
    <3>5. Distinct(s) => Distinct(Append(a, e))
      <4> SUFFICES ASSUME Distinct(s), NEW i \in 1..(Len(a) + 1), NEW j \in 1..(Len(a) + 1),
                          Append(a, e)[i] = Append(a, e)[j]
                   PROVE  i = j
        BY <3>2 DEF Distinct
      <4>1. \A l \in 1..Len(a) : a[l] # e
        BY <3>4 DEF ToSet
      <4>2. Distinct(a)
        BY <2>1
      <4> HIDE DEF a, e
      <4> QED
        BY <3>2, <4>1, <4>2 DEF Distinct
    <3> QED
      BY <2>1, <2>2, <2>4, <3>1, <3>2, <3>3, <3>5
  <2> QED
    BY <2>3, <2>4
<1> HIDE DEF D
<1>6. Len(s) \in D
  BY <1>2, <1>4, <1>5, Induction
<1>7. First(Len(s)) = ToSet(s) \cap S
  BY <1>2 DEF ToSet
<1> QED
  BY <1>1, <1>6, <1>7 DEF D

-----------------------------------------------------------------------------

(* An entry of adb's list.                                                 *)
Entry == [serial : Serials, state : States]

(* A Device object.                                                        *)
DeviceType ==
  [serial : Serials, state : States, props : {"none", "some", "all"},
   told : {"unseen", "connected", "gone"}, toldState : States, failed : BOOLEAN]

(* Where the monitor thread can be.                                        *)
Places == {"top", "startAdb", "reply", "diag", "update", "merge", "notify", "lost", "drain",
           "exited", "crashed"}

(* The record of the monitor thread.                                       *)
MonitorType ==
  [pc : Places, list : Seq(Entry), used : SUBSET Nat, old : SUBSET Ids, gone : Seq(Ids),
   changed : Seq(Ids), connected : Seq(Ids), queries : Seq(Ids), n : Int]

(* What adb sends on the connection.                                       *)
Message == {Okay, Fail} \cup {ListOf(l) : l \in Seq(Entry)}

(* The types of the devices, of the list and of the pool's tasks.          *)
DevicesOK ==
  devices \in Seq(DeviceType) /\ mDevices \in Seq(Ids) /\ tasks \subseteq Ids

(* The record of the adb server.                                           *)
AdbType == [up : BOOLEAN, list : Seq(Entry), tracking : BOOLEAN, requests : Nat]

(* The types of the adb server, of what it sent and of the connection.     *)
AdbOK ==
  /\ adb \in AdbType
  /\ inbox \in Seq(Message)
  /\ mMainAdbConnection \in {"none", "open", "eof", "closed"} /\ mMonitoring \in BOOLEAN

(* The types of everything that the steps depend on.                       *)
Typed == DevicesOK /\ m \in MonitorType /\ AdbOK

(* The devices and the queues are left alone.                              *)
Calm ==
  /\ UNCHANGED <<deviceVars, tasks>>
  /\ UNCHANGED <<m.gone, m.changed, m.connected, m.queries>>

(* The four vectors of updateDevices are empty.                            *)
Idle(mon) == mon.gone = <<>> /\ mon.changed = <<>> /\ mon.connected = <<>> /\ mon.queries = <<>>

(* Where the monitor thread is says which vectors are empty, who holds the *)
(* locks, whether there is a connection and whether the list may have      *)
(* devices.                                                                *)
PlaceInv ==
  /\ m.pc \notin {"merge", "notify"} => Idle(m)
  /\ m.pc = "merge" => m.connected = <<>>
  /\ m.pc = "update" => m.old = {} /\ m.used = {}
  /\ m.pc \in {"merge", "drain"} => lock = "monitor"
  /\ lock = "monitor" => m.pc \in {"merge", "drain", "crashed"}
  /\ lock = "stop" <=> stopper = "joining"
  /\ stopper \in {"idle", "joining", "done"}
  /\ stopper = "done" => m.pc = "exited"
  /\ m.pc \in {"reply", "diag", "update", "merge", "notify"} => mMainAdbConnection # "none"
  /\ m.pc \in {"startAdb", "lost", "drain"} => mMainAdbConnection = "none"
  /\ stopper = "idle" => mMainAdbConnection # "closed"
  /\ mMainAdbConnection = "none" /\ stopper = "idle"
       => mDevices = <<>> \/ m.pc \in {"lost", "drain", "crashed", "exited"}

(* A monitor thread that has just arrived somewhere has its type, and      *)
(* empty vectors.                                                          *)
LEMMA AtTyped ==
  ASSUME NEW pc \in Places
  PROVE  MonitorAt(pc) \in MonitorType /\ Idle(MonitorAt(pc)) /\ MonitorAt(pc).pc = pc
         /\ MonitorAt(pc).old = {} /\ MonitorAt(pc).used = {}
BY DEF MonitorAt, MonitorType, Idle

(* Requests are with adb, and it tracks devices, only on an open           *)
(* connection.                                                             *)
WireInv == adb.tracking \/ adb.requests > 0 => mMainAdbConnection = "open"

(* The changes the actions make to the monitor's record keep its type.     *)
LEMMA ExceptLemma ==
  ASSUME NEW mon \in MonitorType
  PROVE  /\ \A l \in Seq(Entry) : [mon EXCEPT !.list = l] \in MonitorType
         /\ \A pc \in Places : [mon EXCEPT !.pc = pc] \in MonitorType
         /\ \A pc \in Places, n \in Int : [mon EXCEPT !.pc = pc, !.n = n] \in MonitorType
         /\ \A n \in Int : [mon EXCEPT !.n = n] \in MonitorType
         /\ \A o \in SUBSET Ids, g \in Seq(Ids) : [mon EXCEPT !.old = o, !.gone = g] \in MonitorType
         /\ \A o \in SUBSET Ids, u \in SUBSET Nat, c \in Seq(Ids), q \in Seq(Ids) :
              [mon EXCEPT !.old = o, !.used = u, !.changed = c, !.queries = q] \in MonitorType
         /\ mon.n \in Int /\ mon.n - 1 \in Int
         /\ mon.old \in SUBSET Ids /\ mon.used \in SUBSET Nat
<1>1. mon.n \in Int
  BY DEF MonitorType
<1>2. mon.n - 1 \in Int
  BY <1>1
<1> QED
  BY <1>1, <1>2 DEF MonitorType

(* A message received leaves messages behind, and a list received is a     *)
(* list of entries.                                                        *)
LEMMA MessageLemma ==
  ASSUME Typed, inbox # <<>>
  PROVE  /\ Tail(inbox) \in Seq(Message)
         /\ Head(inbox).kind = "list" => Head(inbox).list \in Seq(Entry)
<1>1. Head(inbox) \in Message /\ Tail(inbox) \in Seq(Message)
  BY DEF Typed, AdbOK
<1> QED
  BY <1>1 DEF Message, Okay, Fail, ListOf

(* The changes the actions make to adb's record keep its type.             *)
LEMMA AdbLemma ==
  ASSUME adb \in AdbType
  PROVE  /\ NoRequest \in AdbType
         /\ \A up \in BOOLEAN : [adb EXCEPT !.up = up] \in AdbType
                /\ [NoRequest EXCEPT !.up = up] \in AdbType
         /\ \A l \in Seq(Entry) : [adb EXCEPT !.list = l] \in AdbType
         /\ \A r \in Nat, b \in BOOLEAN :
              /\ [adb EXCEPT !.requests = r] \in AdbType
              /\ [adb EXCEPT !.tracking = b, !.requests = r] \in AdbType
         /\ adb.requests \in Nat
BY DEF AdbType, NoRequest

(* What the types say of the wire, and that messages sent on it keep them. *)
LEMMA AdbFacts ==
  ASSUME Typed
  PROVE  /\ adb \in AdbType /\ adb.list \in Seq(Entry)
         /\ adb.requests + 1 \in Nat /\ (adb.requests > 0 => adb.requests - 1 \in Nat)
         /\ inbox \in Seq(Message)
         /\ \A s \in Seq(Message) : inbox \o s \in Seq(Message)
         /\ \A e \in Message : Append(inbox, e) \in Seq(Message)
<1>1. adb \in AdbType /\ inbox \in Seq(Message)
  BY DEF Typed, AdbOK
<1>2. adb.requests \in Nat /\ adb.list \in Seq(Entry)
  BY <1>1 DEF AdbType
<1> QED
  BY <1>1, <1>2

(* What adb sends are messages.                                            *)
LEMMA InboxLemma ==
  /\ Fail \in Message
  /\ \A l \in Seq(Entry) : ListOf(l) \in Message /\ <<Okay, ListOf(l)>> \in Seq(Message)
  /\ <<>> \in Seq(Message)
BY DEF Message

(* Giving up the connection keeps the types.                               *)
LEMMA HandleTyped ==
  ASSUME Typed, PlaceInv, HandleException, UNCHANGED <<deviceVars, tasks>>, m.pc \in {"top"}
  PROVE  Typed' /\ Calm
<1>1. MonitorAt("exited") \in MonitorType /\ MonitorAt("top") \in MonitorType
      /\ MonitorAt("lost") \in MonitorType
  BY AtTyped DEF Places
<1>2. MonitorType' = MonitorType
  BY DEF MonitorType, Ids, deviceVars
<1>3. m' \in MonitorType'
  BY <1>1, <1>2 DEF HandleException, EndIteration
<1>4. AdbOK'
  <2>1. CASE mQuit
    BY <2>1 DEF HandleException, Typed, AdbOK
  <2>2. CASE ~mQuit
    BY <2>2, AdbLemma, InboxLemma DEF HandleException, Typed, AdbOK
  <2> QED
    BY <2>1, <2>2
<1> QED
  BY <1>3, <1>4 DEF HandleException, EndIteration, MonitorAt, Calm, Typed, DevicesOK, PlaceInv,
     Idle,
     deviceVars, Ids

(* The steps that leave the devices alone keep the types.                  *)
LEMMA CalmSteps ==
  ASSUME Typed, PlaceInv,
         \/ M_Connect
         \/ M_ConnectFails
         \/ M_StartAdb
         \/ M_Request
         \/ M_Reply
         \/ M_ReplyTimeout
         \/ M_Diag
         \/ M_Spin
         \/ M_ReplyClosed
         \/ M_ReadList
         \/ M_ReadTimeout
         \/ M_ReadError
         \/ M_LockDevices
         \/ M_ListDone
         \/ M_LockToDrain
         \/ M_DrainOutOfRange
         \/ M_Crashed
         \/ M_Drained
         \/ S_Stop
         \/ AdbAccept
         \/ AdbRefuse
         \/ AdbSecondRequest
         \/ AdbDie
         \/ AdbStart
         \/ \E l \in AdbLists : AdbChange(l)
  PROVE  Typed' /\ Calm
<1>1. /\ \A pc \in Places : MonitorAt(pc) \in MonitorType
      /\ "top" \in Places /\ "exited" \in Places /\ "startAdb" \in Places /\ "reply" \in Places
      /\ "merge" \in Places /\ "drain" \in Places
      /\ "diag" \in Places /\ "crashed" \in Places /\ "update" \in Places
  BY AtTyped DEF Places
<1>2. deviceVars' = deviceVars => MonitorType' = MonitorType
  BY DEF MonitorType, Ids, deviceVars
<1>3. CASE M_Connect
  <2>1. UNCHANGED <<deviceVars, tasks>> /\ MonitorType' = MonitorType
    BY <1>2, <1>3 DEF M_Connect, otherVars, vars
  <2>2. m' \in MonitorType
    BY <1>1, <1>3, MessageLemma DEF M_Connect, EndIteration, Typed, vars
  <2>3. AdbOK'
    <3>1. adb' \in AdbType
      BY <1>3, AdbFacts, AdbLemma, MonitorAssumption DEF M_Connect, connVars, Typed, AdbOK,
         vars, TimedOut, Entry
    <3>2. inbox' \in Seq(Message)
      BY <1>3, AdbFacts, MessageLemma, InboxLemma, MonitorAssumption DEF M_Connect, connVars,
         Typed, AdbOK, vars, TimedOut, Entry
    <3>3. mMainAdbConnection' \in {"none", "open", "eof", "closed"} /\ mMonitoring' \in BOOLEAN
      BY <1>3 DEF M_Connect, connVars, Typed, AdbOK, vars
    <3> QED
      BY <3>1, <3>2, <3>3 DEF AdbOK
  <2>4. UNCHANGED <<m.gone, m.changed, m.connected, m.queries>>
    BY <1>3 DEF M_Connect, EndIteration, MonitorAt, PlaceInv, Idle, vars, Notified, Reading,
       Typed, MonitorType
  <2> QED
    BY <2>1, <2>2, <2>3, <2>4 DEF Calm, Typed, DevicesOK, deviceVars, Ids
<1>4. CASE M_ConnectFails
  <2>1. UNCHANGED <<deviceVars, tasks>> /\ MonitorType' = MonitorType
    BY <1>2, <1>4 DEF M_ConnectFails, otherVars, vars
  <2>2. m' \in MonitorType
    BY <1>1, <1>4, MessageLemma DEF M_ConnectFails, EndIteration, Typed, vars
  <2>3. AdbOK'
    BY <1>4 DEF M_ConnectFails, connVars, Typed, AdbOK, vars
  <2>4. UNCHANGED <<m.gone, m.changed, m.connected, m.queries>>
    BY <1>4 DEF M_ConnectFails, EndIteration, MonitorAt, PlaceInv, Idle, vars, Notified,
       Reading, Typed, MonitorType
  <2> QED
    BY <2>1, <2>2, <2>3, <2>4 DEF Calm, Typed, DevicesOK, deviceVars, Ids
<1>5. CASE M_StartAdb
  <2>1. UNCHANGED <<deviceVars, tasks>> /\ MonitorType' = MonitorType
    BY <1>2, <1>5 DEF M_StartAdb, otherVars, vars
  <2>2. m' \in MonitorType
    BY <1>1, <1>5, MessageLemma DEF M_StartAdb, EndIteration, Typed, vars
  <2>3. AdbOK'
    <3>1. adb' \in AdbType
      BY <1>5, AdbFacts, AdbLemma, MonitorAssumption DEF M_StartAdb, connVars, Typed, AdbOK,
         vars, TimedOut, Entry
    <3>2. inbox' \in Seq(Message)
      BY <1>5, AdbFacts, MessageLemma, InboxLemma, MonitorAssumption DEF M_StartAdb, connVars,
         Typed, AdbOK, vars, TimedOut, Entry
    <3>3. mMainAdbConnection' \in {"none", "open", "eof", "closed"} /\ mMonitoring' \in BOOLEAN
      BY <1>5 DEF M_StartAdb, connVars, Typed, AdbOK, vars
    <3> QED
      BY <3>1, <3>2, <3>3 DEF AdbOK
  <2>4. UNCHANGED <<m.gone, m.changed, m.connected, m.queries>>
    BY <1>5 DEF M_StartAdb, EndIteration, MonitorAt, PlaceInv, Idle, vars, Notified, Reading,
       Typed, MonitorType
  <2> QED
    BY <2>1, <2>2, <2>3, <2>4 DEF Calm, Typed, DevicesOK, deviceVars, Ids
<1>6. CASE M_Request
  <2>1. CASE HandleException
    BY <1>6, <2>1, HandleTyped DEF M_Request, Reading, otherVars
  <2>2. CASE ~HandleException
    <3>1. adb \in AdbType /\ adb.requests + 1 \in Nat
      BY AdbFacts
    <3>2. m' = MonitorAt("reply")
              /\ UNCHANGED <<deviceVars, tasks, mMainAdbConnection, mMonitoring, inbox>>
      BY <1>6, <2>2 DEF M_Request, connVars, otherVars
    <3>3. adb' = adb \/ adb' = [adb EXCEPT !.requests = adb.requests + 1]
      BY <1>6, <2>2 DEF M_Request, connVars
    <3>4. adb' \in AdbType
      BY <3>1, <3>3, AdbLemma
    <3>5. m' \in MonitorType'
      BY <1>1, <1>2, <3>2 DEF deviceVars
    <3>6. UNCHANGED <<m.gone, m.changed, m.connected, m.queries>>
      BY <1>6, <3>2 DEF M_Request, MonitorAt, PlaceInv, Idle
    <3> QED
      BY <3>2, <3>4, <3>5, <3>6 DEF Calm, Typed, AdbOK, DevicesOK, deviceVars, Ids
  <2> QED
    BY <2>1, <2>2
<1>7. CASE M_Reply
  <2>1. UNCHANGED <<deviceVars, tasks>> /\ MonitorType' = MonitorType
    BY <1>2, <1>7 DEF M_Reply, otherVars, vars
  <2>2. m' \in MonitorType
    BY <1>1, <1>7, MessageLemma DEF M_Reply, EndIteration, Typed, vars
  <2>3. AdbOK'
    <3>1. adb' \in AdbType
      BY <1>7, AdbFacts, AdbLemma, MonitorAssumption DEF M_Reply, connVars, Typed, AdbOK, vars,
         TimedOut, Entry
    <3>2. inbox' \in Seq(Message)
      BY <1>7, AdbFacts, MessageLemma, InboxLemma, MonitorAssumption DEF M_Reply, connVars,
         Typed, AdbOK, vars, TimedOut, Entry
    <3>3. mMainAdbConnection' \in {"none", "open", "eof", "closed"} /\ mMonitoring' \in BOOLEAN
      BY <1>7 DEF M_Reply, connVars, Typed, AdbOK, vars
    <3> QED
      BY <3>1, <3>2, <3>3 DEF AdbOK
  <2>4. UNCHANGED <<m.gone, m.changed, m.connected, m.queries>>
    BY <1>7 DEF M_Reply, EndIteration, MonitorAt, PlaceInv, Idle, vars, Notified, Reading,
       Typed, MonitorType
  <2> QED
    BY <2>1, <2>2, <2>3, <2>4 DEF Calm, Typed, DevicesOK, deviceVars, Ids
<1>8. CASE M_ReplyTimeout
  <2>1. UNCHANGED <<deviceVars, tasks>> /\ MonitorType' = MonitorType
    BY <1>2, <1>8 DEF M_ReplyTimeout, otherVars, vars
  <2>2. m' \in MonitorType
    BY <1>1, <1>8, MessageLemma DEF M_ReplyTimeout, EndIteration, Typed, vars
  <2>3. AdbOK'
    BY <1>8 DEF M_ReplyTimeout, connVars, Typed, AdbOK, vars
  <2>4. UNCHANGED <<m.gone, m.changed, m.connected, m.queries>>
    BY <1>8 DEF M_ReplyTimeout, EndIteration, MonitorAt, PlaceInv, Idle, vars, Notified,
       Reading, Typed, MonitorType
  <2> QED
    BY <2>1, <2>2, <2>3, <2>4 DEF Calm, Typed, DevicesOK, deviceVars, Ids
<1>9. CASE M_Diag
  <2>1. UNCHANGED <<deviceVars, tasks>> /\ MonitorType' = MonitorType
    BY <1>2, <1>9 DEF M_Diag, otherVars, vars
  <2>2. m' \in MonitorType
    BY <1>1, <1>9, MessageLemma DEF M_Diag, EndIteration, Typed, vars
  <2>3. AdbOK'
    <3>1. adb' \in AdbType
      BY <1>9, AdbFacts, AdbLemma, MonitorAssumption DEF M_Diag, connVars, Typed, AdbOK, vars,
         TimedOut, Entry
    <3>2. inbox' \in Seq(Message)
      BY <1>9, AdbFacts, MessageLemma, InboxLemma, MonitorAssumption DEF M_Diag, connVars,
         Typed, AdbOK, vars, TimedOut, Entry
    <3>3. mMainAdbConnection' \in {"none", "open", "eof", "closed"} /\ mMonitoring' \in BOOLEAN
      BY <1>9 DEF M_Diag, connVars, Typed, AdbOK, vars
    <3> QED
      BY <3>1, <3>2, <3>3 DEF AdbOK
  <2>4. UNCHANGED <<m.gone, m.changed, m.connected, m.queries>>
    BY <1>9 DEF M_Diag, EndIteration, MonitorAt, PlaceInv, Idle, vars, Notified, Reading, Typed,
       MonitorType
  <2> QED
    BY <2>1, <2>2, <2>3, <2>4 DEF Calm, Typed, DevicesOK, deviceVars, Ids
<1>10. CASE M_Spin
  <2>1. UNCHANGED <<deviceVars, tasks>> /\ MonitorType' = MonitorType
    BY <1>2, <1>10 DEF M_Spin, otherVars, vars
  <2>2. m' \in MonitorType
    BY <1>1, <1>10, MessageLemma DEF M_Spin, EndIteration, Typed, vars
  <2>3. AdbOK'
    BY <1>10 DEF M_Spin, connVars, Typed, AdbOK, vars
  <2>4. UNCHANGED <<m.gone, m.changed, m.connected, m.queries>>
    BY <1>10 DEF M_Spin, EndIteration, MonitorAt, PlaceInv, Idle, vars, Notified, Reading,
       Typed, MonitorType
  <2> QED
    BY <2>1, <2>2, <2>3, <2>4 DEF Calm, Typed, DevicesOK, deviceVars, Ids
<1>11. CASE M_ReplyClosed
  <2>1. UNCHANGED <<deviceVars, tasks>> /\ MonitorType' = MonitorType
    BY <1>2, <1>11 DEF M_ReplyClosed, otherVars, vars
  <2>2. m' \in MonitorType
    BY <1>1, <1>11, MessageLemma DEF M_ReplyClosed, EndIteration, Typed, vars
  <2>3. AdbOK'
    BY <1>11 DEF M_ReplyClosed, connVars, Typed, AdbOK, vars
  <2>4. UNCHANGED <<m.gone, m.changed, m.connected, m.queries>>
    BY <1>11 DEF M_ReplyClosed, EndIteration, MonitorAt, PlaceInv, Idle, vars, Notified,
       Reading, Typed, MonitorType
  <2> QED
    BY <2>1, <2>2, <2>3, <2>4 DEF Calm, Typed, DevicesOK, deviceVars, Ids
<1>12. CASE M_ReadList
  <2>1. UNCHANGED <<deviceVars, tasks>> /\ MonitorType' = MonitorType
    BY <1>2, <1>12 DEF M_ReadList, otherVars, vars
  <2>2. m' \in MonitorType
    <3>1. CASE mQuit
      BY <1>1, <1>12, <3>1 DEF M_ReadList, EndIteration
    <3>2. CASE ~mQuit
      <4>1. MonitorAt("update") \in MonitorType /\ Head(inbox).list \in Seq(Entry)
        BY <1>1, <1>12, MessageLemma DEF M_ReadList
      <4>2. m' = [MonitorAt("update") EXCEPT !.list = Head(inbox).list]
        BY <1>12, <3>2 DEF M_ReadList
      <4> QED
        BY <4>1, <4>2, ExceptLemma
    <3> QED
      BY <3>1, <3>2
  <2>3. AdbOK'
    <3>1. adb' \in AdbType
      BY <1>12, AdbFacts, AdbLemma, MonitorAssumption DEF M_ReadList, connVars, Typed, AdbOK,
         vars, TimedOut, Entry
    <3>2. inbox' \in Seq(Message)
      BY <1>12, AdbFacts, MessageLemma, InboxLemma, MonitorAssumption DEF M_ReadList, connVars,
         Typed, AdbOK, vars, TimedOut, Entry
    <3>3. mMainAdbConnection' \in {"none", "open", "eof", "closed"} /\ mMonitoring' \in BOOLEAN
      BY <1>12 DEF M_ReadList, connVars, Typed, AdbOK, vars
    <3> QED
      BY <3>1, <3>2, <3>3 DEF AdbOK
  <2>4. UNCHANGED <<m.gone, m.changed, m.connected, m.queries>>
    BY <1>12 DEF M_ReadList, EndIteration, MonitorAt, PlaceInv, Idle, vars, Notified, Reading,
       Typed, MonitorType
  <2> QED
    BY <2>1, <2>2, <2>3, <2>4 DEF Calm, Typed, DevicesOK, deviceVars, Ids
<1>13. CASE M_ReadTimeout
  <2>1. UNCHANGED <<deviceVars, tasks>> /\ MonitorType' = MonitorType
    BY <1>2, <1>13 DEF M_ReadTimeout, otherVars, vars
  <2>2. m' \in MonitorType
    BY <1>1, <1>13, MessageLemma DEF M_ReadTimeout, EndIteration, Typed, vars
  <2>3. AdbOK'
    BY <1>13 DEF M_ReadTimeout, connVars, Typed, AdbOK, vars
  <2>4. UNCHANGED <<m.gone, m.changed, m.connected, m.queries>>
    BY <1>13 DEF M_ReadTimeout, EndIteration, MonitorAt, PlaceInv, Idle, vars, Notified,
       Reading, Typed, MonitorType
  <2> QED
    BY <2>1, <2>2, <2>3, <2>4 DEF Calm, Typed, DevicesOK, deviceVars, Ids
<1>14. CASE M_ReadError
  BY <1>14, HandleTyped DEF M_ReadError, Reading, otherVars
<1>15. CASE M_LockDevices
  <2>1. UNCHANGED <<deviceVars, tasks>> /\ MonitorType' = MonitorType
    BY <1>2, <1>15 DEF M_LockDevices, otherVars, vars
  <2>2. m' \in MonitorType
    <3>1. CASE mQuit
      BY <1>1, <1>15, <3>1 DEF M_LockDevices, EndIteration
    <3>2. CASE ~mQuit
      BY <1>1, <1>15, <3>2, ExceptLemma DEF M_LockDevices, Typed
    <3> QED
      BY <3>1, <3>2
  <2>3. AdbOK'
    BY <1>15 DEF M_LockDevices, connVars, Typed, AdbOK, vars
  <2>4. UNCHANGED <<m.gone, m.changed, m.connected, m.queries>>
    BY <1>15 DEF M_LockDevices, EndIteration, MonitorAt, PlaceInv, Idle, vars, Notified,
       Reading, Typed, MonitorType
  <2> QED
    BY <2>1, <2>2, <2>3, <2>4 DEF Calm, Typed, DevicesOK, deviceVars, Ids
<1>16. CASE M_ListDone
  <2>1. UNCHANGED <<deviceVars, tasks>> /\ MonitorType' = MonitorType
    BY <1>2, <1>16 DEF M_ListDone, otherVars, vars
  <2>2. m' \in MonitorType
    BY <1>1, <1>16, MessageLemma DEF M_ListDone, EndIteration, Typed, vars
  <2>3. AdbOK'
    BY <1>16 DEF M_ListDone, connVars, Typed, AdbOK, vars
  <2>4. UNCHANGED <<m.gone, m.changed, m.connected, m.queries>>
    BY <1>16 DEF M_ListDone, EndIteration, MonitorAt, PlaceInv, Idle, vars, Notified, Reading,
       Typed, MonitorType
  <2> QED
    BY <2>1, <2>2, <2>3, <2>4 DEF Calm, Typed, DevicesOK, deviceVars, Ids
<1>17. CASE M_LockToDrain
  <2>1. UNCHANGED <<deviceVars, tasks>> /\ MonitorType' = MonitorType
    BY <1>2, <1>17 DEF M_LockToDrain, otherVars, vars
  <2>2. m' \in MonitorType
    <3>1. Len(mDevices) \in Int
      BY DEF Typed, DevicesOK
    <3> QED
      BY <1>1, <1>17, <3>1, ExceptLemma DEF M_LockToDrain, Typed
  <2>3. AdbOK'
    BY <1>17 DEF M_LockToDrain, connVars, Typed, AdbOK, vars
  <2>4. UNCHANGED <<m.gone, m.changed, m.connected, m.queries>>
    BY <1>17 DEF M_LockToDrain, EndIteration, MonitorAt, PlaceInv, Idle, vars, Notified,
       Reading, Typed, MonitorType
  <2> QED
    BY <2>1, <2>2, <2>3, <2>4 DEF Calm, Typed, DevicesOK, deviceVars, Ids
<1>18. CASE M_DrainOutOfRange
  <2>1. UNCHANGED <<deviceVars, tasks>> /\ MonitorType' = MonitorType
    BY <1>2, <1>18 DEF M_DrainOutOfRange, otherVars, vars
  <2>2. m' \in MonitorType
    BY <1>1, <1>18, MessageLemma DEF M_DrainOutOfRange, EndIteration, Typed, vars
  <2>3. AdbOK'
    BY <1>18 DEF M_DrainOutOfRange, connVars, Typed, AdbOK, vars
  <2>4. UNCHANGED <<m.gone, m.changed, m.connected, m.queries>>
    BY <1>18 DEF M_DrainOutOfRange, EndIteration, MonitorAt, PlaceInv, Idle, vars, Notified,
       Reading, Typed, MonitorType
  <2> QED
    BY <2>1, <2>2, <2>3, <2>4 DEF Calm, Typed, DevicesOK, deviceVars, Ids
<1>19. CASE M_Crashed
  <2>1. UNCHANGED <<deviceVars, tasks>> /\ MonitorType' = MonitorType
    BY <1>2, <1>19 DEF M_Crashed, otherVars, vars
  <2>2. m' \in MonitorType
    BY <1>1, <1>19, MessageLemma DEF M_Crashed, EndIteration, Typed, vars
  <2>3. AdbOK'
    BY <1>19 DEF M_Crashed, connVars, Typed, AdbOK, vars
  <2>4. UNCHANGED <<m.gone, m.changed, m.connected, m.queries>>
    BY <1>19 DEF M_Crashed, EndIteration, MonitorAt, PlaceInv, Idle, vars, Notified, Reading,
       Typed, MonitorType
  <2> QED
    BY <2>1, <2>2, <2>3, <2>4 DEF Calm, Typed, DevicesOK, deviceVars, Ids
<1>20. CASE M_Drained
  <2>1. UNCHANGED <<deviceVars, tasks>> /\ MonitorType' = MonitorType
    BY <1>2, <1>20 DEF M_Drained, otherVars, vars
  <2>2. m' \in MonitorType
    BY <1>1, <1>20, MessageLemma DEF M_Drained, EndIteration, Typed, vars
  <2>3. AdbOK'
    BY <1>20 DEF M_Drained, connVars, Typed, AdbOK, vars
  <2>4. UNCHANGED <<m.gone, m.changed, m.connected, m.queries>>
    BY <1>20 DEF M_Drained, EndIteration, MonitorAt, PlaceInv, Idle, vars, Notified, Reading,
       Typed, MonitorType
  <2> QED
    BY <2>1, <2>2, <2>3, <2>4 DEF Calm, Typed, DevicesOK, deviceVars, Ids
<1>21. CASE S_Stop
  <2>1. UNCHANGED <<deviceVars, tasks>> /\ MonitorType' = MonitorType
    BY <1>2, <1>21 DEF S_Stop, otherVars, vars
  <2>2. m' \in MonitorType
    BY <1>1, <1>21, MessageLemma DEF S_Stop, EndIteration, Typed, vars
  <2>3. AdbOK'
    <3>1. adb' \in AdbType
      BY <1>21, AdbFacts, AdbLemma, MonitorAssumption DEF S_Stop, connVars, Typed, AdbOK, vars,
         TimedOut, Entry
    <3>2. inbox' \in Seq(Message)
      BY <1>21, AdbFacts, MessageLemma, InboxLemma, MonitorAssumption DEF S_Stop, connVars,
         Typed, AdbOK, vars, TimedOut, Entry
    <3>3. mMainAdbConnection' \in {"none", "open", "eof", "closed"} /\ mMonitoring' \in BOOLEAN
      BY <1>21 DEF S_Stop, connVars, Typed, AdbOK, vars
    <3> QED
      BY <3>1, <3>2, <3>3 DEF AdbOK
  <2>4. UNCHANGED <<m.gone, m.changed, m.connected, m.queries>>
    BY <1>21 DEF S_Stop, EndIteration, MonitorAt, PlaceInv, Idle, vars, Notified, Reading,
       Typed, MonitorType
  <2> QED
    BY <2>1, <2>2, <2>3, <2>4 DEF Calm, Typed, DevicesOK, deviceVars, Ids
<1>22. CASE AdbAccept
  <2>1. UNCHANGED <<deviceVars, tasks>> /\ MonitorType' = MonitorType
    BY <1>2, <1>22 DEF AdbAccept, otherVars, vars
  <2>2. m' \in MonitorType
    BY <1>1, <1>22, MessageLemma DEF AdbAccept, EndIteration, Typed, vars
  <2>3. AdbOK'
    <3>1. adb' \in AdbType
      BY <1>22, AdbFacts, AdbLemma, MonitorAssumption DEF AdbAccept, connVars, Typed, AdbOK,
         vars, TimedOut, Entry
    <3>2. inbox' \in Seq(Message)
      BY <1>22, AdbFacts, MessageLemma, InboxLemma, MonitorAssumption DEF AdbAccept, connVars,
         Typed, AdbOK, vars, TimedOut, Entry
    <3>3. mMainAdbConnection' \in {"none", "open", "eof", "closed"} /\ mMonitoring' \in BOOLEAN
      BY <1>22 DEF AdbAccept, connVars, Typed, AdbOK, vars
    <3> QED
      BY <3>1, <3>2, <3>3 DEF AdbOK
  <2>4. UNCHANGED <<m.gone, m.changed, m.connected, m.queries>>
    BY <1>22 DEF AdbAccept, EndIteration, MonitorAt, PlaceInv, Idle, vars, Notified, Reading,
       Typed, MonitorType
  <2> QED
    BY <2>1, <2>2, <2>3, <2>4 DEF Calm, Typed, DevicesOK, deviceVars, Ids
<1>23. CASE AdbRefuse
  <2>1. UNCHANGED <<deviceVars, tasks>> /\ MonitorType' = MonitorType
    BY <1>2, <1>23 DEF AdbRefuse, otherVars, vars
  <2>2. m' \in MonitorType
    BY <1>1, <1>23, MessageLemma DEF AdbRefuse, EndIteration, Typed, vars
  <2>3. AdbOK'
    <3>1. adb' \in AdbType
      BY <1>23, AdbFacts, AdbLemma, MonitorAssumption DEF AdbRefuse, connVars, Typed, AdbOK,
         vars, TimedOut, Entry
    <3>2. inbox' \in Seq(Message)
      BY <1>23, AdbFacts, MessageLemma, InboxLemma, MonitorAssumption DEF AdbRefuse, connVars,
         Typed, AdbOK, vars, TimedOut, Entry
    <3>3. mMainAdbConnection' \in {"none", "open", "eof", "closed"} /\ mMonitoring' \in BOOLEAN
      BY <1>23 DEF AdbRefuse, connVars, Typed, AdbOK, vars
    <3> QED
      BY <3>1, <3>2, <3>3 DEF AdbOK
  <2>4. UNCHANGED <<m.gone, m.changed, m.connected, m.queries>>
    BY <1>23 DEF AdbRefuse, EndIteration, MonitorAt, PlaceInv, Idle, vars, Notified, Reading,
       Typed, MonitorType
  <2> QED
    BY <2>1, <2>2, <2>3, <2>4 DEF Calm, Typed, DevicesOK, deviceVars, Ids
<1>24. CASE AdbSecondRequest
  <2>1. UNCHANGED <<deviceVars, tasks>> /\ MonitorType' = MonitorType
    BY <1>2, <1>24 DEF AdbSecondRequest, otherVars, vars
  <2>2. m' \in MonitorType
    BY <1>1, <1>24, MessageLemma DEF AdbSecondRequest, EndIteration, Typed, vars
  <2>3. AdbOK'
    <3>1. adb' \in AdbType
      BY <1>24, AdbFacts, AdbLemma, MonitorAssumption DEF AdbSecondRequest, connVars, Typed,
         AdbOK, vars, TimedOut, Entry
    <3>2. inbox' \in Seq(Message)
      BY <1>24, AdbFacts, MessageLemma, InboxLemma, MonitorAssumption DEF AdbSecondRequest,
         connVars, Typed, AdbOK, vars, TimedOut, Entry
    <3>3. mMainAdbConnection' \in {"none", "open", "eof", "closed"} /\ mMonitoring' \in BOOLEAN
      BY <1>24 DEF AdbSecondRequest, connVars, Typed, AdbOK, vars
    <3> QED
      BY <3>1, <3>2, <3>3 DEF AdbOK
  <2>4. UNCHANGED <<m.gone, m.changed, m.connected, m.queries>>
    BY <1>24 DEF AdbSecondRequest, EndIteration, MonitorAt, PlaceInv, Idle, vars, Notified,
       Reading, Typed, MonitorType
  <2> QED
    BY <2>1, <2>2, <2>3, <2>4 DEF Calm, Typed, DevicesOK, deviceVars, Ids
<1>25. CASE AdbDie
  <2>1. UNCHANGED <<deviceVars, tasks>> /\ MonitorType' = MonitorType
    BY <1>2, <1>25 DEF AdbDie, otherVars, vars
  <2>2. m' \in MonitorType
    BY <1>1, <1>25, MessageLemma DEF AdbDie, EndIteration, Typed, vars
  <2>3. AdbOK'
    <3>1. adb' \in AdbType
      BY <1>25, AdbFacts, AdbLemma, MonitorAssumption DEF AdbDie, connVars, Typed, AdbOK, vars,
         TimedOut, Entry
    <3>2. inbox' \in Seq(Message)
      BY <1>25, AdbFacts, MessageLemma, InboxLemma, MonitorAssumption DEF AdbDie, connVars,
         Typed, AdbOK, vars, TimedOut, Entry
    <3>3. mMainAdbConnection' \in {"none", "open", "eof", "closed"} /\ mMonitoring' \in BOOLEAN
      BY <1>25 DEF AdbDie, connVars, Typed, AdbOK, vars
    <3> QED
      BY <3>1, <3>2, <3>3 DEF AdbOK
  <2>4. UNCHANGED <<m.gone, m.changed, m.connected, m.queries>>
    BY <1>25 DEF AdbDie, EndIteration, MonitorAt, PlaceInv, Idle, vars, Notified, Reading,
       Typed, MonitorType
  <2> QED
    BY <2>1, <2>2, <2>3, <2>4 DEF Calm, Typed, DevicesOK, deviceVars, Ids
<1>26. CASE AdbStart
  <2>1. UNCHANGED <<deviceVars, tasks>> /\ MonitorType' = MonitorType
    BY <1>2, <1>26 DEF AdbStart, otherVars, vars
  <2>2. m' \in MonitorType
    BY <1>1, <1>26, MessageLemma DEF AdbStart, EndIteration, Typed, vars
  <2>3. AdbOK'
    <3>1. adb' \in AdbType
      BY <1>26, AdbFacts, AdbLemma, MonitorAssumption DEF AdbStart, connVars, Typed, AdbOK,
         vars, TimedOut, Entry
    <3>2. inbox' \in Seq(Message)
      BY <1>26, AdbFacts, MessageLemma, InboxLemma, MonitorAssumption DEF AdbStart, connVars,
         Typed, AdbOK, vars, TimedOut, Entry
    <3>3. mMainAdbConnection' \in {"none", "open", "eof", "closed"} /\ mMonitoring' \in BOOLEAN
      BY <1>26 DEF AdbStart, connVars, Typed, AdbOK, vars
    <3> QED
      BY <3>1, <3>2, <3>3 DEF AdbOK
  <2>4. UNCHANGED <<m.gone, m.changed, m.connected, m.queries>>
    BY <1>26 DEF AdbStart, EndIteration, MonitorAt, PlaceInv, Idle, vars, Notified, Reading,
       Typed, MonitorType
  <2> QED
    BY <2>1, <2>2, <2>3, <2>4 DEF Calm, Typed, DevicesOK, deviceVars, Ids
<1>27. CASE \E l \in AdbLists : AdbChange(l)
  <2>1. UNCHANGED <<deviceVars, tasks>> /\ MonitorType' = MonitorType
    BY <1>2, <1>27 DEF AdbChange, otherVars, vars
  <2>2. m' \in MonitorType
    BY <1>1, <1>27, MessageLemma DEF AdbChange, EndIteration, Typed, vars
  <2>3. AdbOK'
    <3>1. adb' \in AdbType
      BY <1>27, AdbFacts, AdbLemma, MonitorAssumption DEF AdbChange, connVars, Typed, AdbOK,
         vars, TimedOut, Entry
    <3>2. inbox' \in Seq(Message)
      BY <1>27, AdbFacts, MessageLemma, InboxLemma, MonitorAssumption DEF AdbChange, connVars,
         Typed, AdbOK, vars, TimedOut, Entry
    <3>3. mMainAdbConnection' \in {"none", "open", "eof", "closed"} /\ mMonitoring' \in BOOLEAN
      BY <1>27 DEF AdbChange, connVars, Typed, AdbOK, vars
    <3> QED
      BY <3>1, <3>2, <3>3 DEF AdbOK
  <2>4. UNCHANGED <<m.gone, m.changed, m.connected, m.queries>>
    BY <1>27 DEF AdbChange, EndIteration, MonitorAt, PlaceInv, Idle, vars, Notified, Reading,
       Typed, MonitorType
  <2> QED
    BY <2>1, <2>2, <2>3, <2>4 DEF Calm, Typed, DevicesOK, deviceVars, Ids
<1> QED
  BY <1>3, <1>4, <1>5, <1>6, <1>7, <1>8, <1>9, <1>10, <1>11, <1>12, <1>13, <1>14, <1>15, <1>16,
     <1>17, <1>18, <1>19, <1>20, <1>21, <1>22, <1>23, <1>24, <1>25, <1>26, <1>27

-----------------------------------------------------------------------------
(***************************************************************************)
(* What the actions do.                                                    *)
(***************************************************************************)

(* Append adds one element, and repeats none if it is new.                 *)
LEMMA AppendLemma ==
  ASSUME NEW T, NEW s \in Seq(T), NEW e \in T
  PROVE  Append(s, e) \in Seq(T) /\ ToSet(Append(s, e)) = ToSet(s) \cup {e}
         /\ (Distinct(s) /\ e \notin ToSet(s) => Distinct(Append(s, e)))
<1>1. /\ Append(s, e) \in Seq(T) /\ Len(s) \in Nat /\ Len(Append(s, e)) = Len(s) + 1
      /\ DOMAIN s = 1..Len(s) /\ DOMAIN Append(s, e) = 1..(Len(s) + 1)
      /\ Append(s, e)[Len(s) + 1] = e
      /\ \A i \in 1..Len(s) : Append(s, e)[i] = s[i]
  OBVIOUS
<1>2. \A i \in 1..(Len(s) + 1) : i \in 1..Len(s) \/ i = Len(s) + 1
  BY <1>1
<1>3. ToSet(Append(s, e)) = ToSet(s) \cup {e}
  BY <1>1, <1>2 DEF ToSet
<1>4. ASSUME Distinct(s), e \notin ToSet(s)  PROVE Distinct(Append(s, e))
  BY <1>1, <1>2, <1>4 DEF Distinct, ToSet
<1> QED
  BY <1>1, <1>3, <1>4

(* What the head and the tail of a sequence hold.                          *)
LEMMA TailLemma ==
  ASSUME NEW T, NEW s \in Seq(T), s # <<>>
  PROVE  /\ Head(s) \in T /\ Tail(s) \in Seq(T)
         /\ Head(s) \in ToSet(s)
         /\ ToSet(s) = ToSet(Tail(s)) \cup {Head(s)}
         /\ Distinct(s) => Distinct(Tail(s)) /\ Head(s) \notin ToSet(Tail(s))
<1>1. /\ Head(s) \in T /\ Tail(s) \in Seq(T) /\ Head(s) = s[1] /\ Len(s) \in Nat /\ Len(s) # 0
      /\ Len(Tail(s)) = Len(s) - 1 /\ DOMAIN s = 1..Len(s) /\ DOMAIN Tail(s) = 1..(Len(s) - 1)
      /\ \A i \in 1..(Len(s) - 1) : Tail(s)[i] = s[i + 1]
  OBVIOUS
<1>2. \A i \in 1..Len(s) : i = 1 \/ (i - 1 \in 1..(Len(s) - 1) /\ (i - 1) + 1 = i)
  BY <1>1
<1>3. \A i \in 1..(Len(s) - 1) : i + 1 \in 1..Len(s)
  BY <1>1
<1>4. ToSet(s) = ToSet(Tail(s)) \cup {Head(s)} /\ Head(s) \in ToSet(s)
  <2>1. \A x \in ToSet(s) : x \in ToSet(Tail(s)) \cup {Head(s)}
    <3> TAKE x \in ToSet(s)
    <3>1. PICK i \in 1..Len(s) : x = s[i]
      BY <1>1 DEF ToSet
    <3>2. CASE i = 1
      BY <1>1, <3>1, <3>2
    <3>3. CASE i - 1 \in 1..(Len(s) - 1) /\ (i - 1) + 1 = i
      <4>1. Tail(s)[i - 1] = x
        BY <1>1, <3>1, <3>3
      <4> QED
        BY <1>1, <3>3, <4>1 DEF ToSet
    <3> QED
      BY <1>2, <3>1, <3>2, <3>3
  <2>2. \A x \in ToSet(Tail(s)) : x \in ToSet(s)
    BY <1>1, <1>3 DEF ToSet
  <2>3. Head(s) \in ToSet(s)
    BY <1>1 DEF ToSet
  <2> QED
    BY <2>1, <2>2, <2>3
<1>5. ASSUME Distinct(s)  PROVE Distinct(Tail(s)) /\ Head(s) \notin ToSet(Tail(s))
  <2>1. \A i, j \in 1..(Len(s) - 1) : Tail(s)[i] = Tail(s)[j] => i = j
    BY <1>1, <1>3, <1>5 DEF Distinct
  <2>2. \A i \in 1..(Len(s) - 1) : Tail(s)[i] # s[1]
    <3> TAKE i \in 1..(Len(s) - 1)
    <3>1. s[i + 1] # s[1]
      BY <1>1, <1>3, <1>5 DEF Distinct
    <3> QED
      BY <1>1, <3>1
  <2> QED
    BY <1>1, <2>1, <2>2 DEF Distinct, ToSet
<1> QED
  BY <1>1, <1>4, <1>5

(* A concatenation holds what its parts hold.                              *)
LEMMA ConcatLemma ==
  ASSUME NEW T, NEW s \in Seq(T), NEW t \in Seq(T)
  PROVE  /\ s \o t \in Seq(T)
         /\ ToSet(s \o t) = ToSet(s) \cup ToSet(t)
<1>1. /\ s \o t \in Seq(T) /\ Len(s) \in Nat /\ Len(t) \in Nat /\ Len(s \o t) = Len(s) + Len(t)
      /\ DOMAIN s = 1..Len(s) /\ DOMAIN t = 1..Len(t) /\ DOMAIN (s \o t) = 1..(Len(s) + Len(t))
      /\ \A i \in 1..(Len(s) + Len(t)) :
           (s \o t)[i] = IF i <= Len(s) THEN s[i] ELSE t[i - Len(s)]
  OBVIOUS
<1>2. \A i \in 1..Len(t) : Len(s) + i \in 1..(Len(s) + Len(t)) /\ ~(Len(s) + i <= Len(s))
          /\ (Len(s) + i) - Len(s) = i
  BY <1>1
<1>3. \A i \in 1..(Len(s) + Len(t)) : i \in 1..Len(s) \/ (~(i <= Len(s)) /\ i - Len(s) \in 1..Len(t))
  BY <1>1
<1>4. ASSUME NEW x \in ToSet(s \o t)  PROVE x \in ToSet(s) \cup ToSet(t)
  <2>1. PICK i \in 1..(Len(s) + Len(t)) : x = (s \o t)[i]
    BY <1>1 DEF ToSet
  <2> QED
    BY <1>1, <1>3, <2>1 DEF ToSet
<1>5. ASSUME NEW x \in ToSet(s)  PROVE x \in ToSet(s \o t)
  <2>1. PICK i \in 1..Len(s) : x = s[i]
    BY <1>1, <1>5 DEF ToSet
  <2>2. i \in 1..(Len(s) + Len(t)) /\ (s \o t)[i] = x
    BY <1>1, <2>1
  <2> QED
    BY <1>1, <2>2 DEF ToSet
<1>6. ASSUME NEW x \in ToSet(t)  PROVE x \in ToSet(s \o t)
  <2>1. PICK i \in 1..Len(t) : x = t[i]
    BY <1>1, <1>6 DEF ToSet
  <2>2. Len(s) + i \in 1..(Len(s) + Len(t)) /\ (s \o t)[Len(s) + i] = x
    BY <1>1, <1>2, <2>1
  <2> QED
    BY <1>1, <2>2 DEF ToSet
<1> QED
  BY <1>1, <1>4, <1>5, <1>6

(* The next device of the merge is in the list and not looked at before.   *)
LEMMA NextLemma ==
  ASSUME Typed, Unprocessed # {}
  PROVE  NextDevice \in Ids /\ NextDevice \in Listed /\ NextDevice \notin m.old
<1>1. Unprocessed \in SUBSET Nat /\ mDevices \in Seq(Ids)
  BY DEF Unprocessed, Typed, DevicesOK
<1> DEFINE k == Min(Unprocessed)
<1>2. k \in Unprocessed
  BY <1>1, MinLemma
<1>3. NextDevice = mDevices[k]
  BY DEF NextDevice
<1> HIDE DEF k
<1>4. k \in DOMAIN mDevices /\ mDevices[k] \notin m.old
  BY <1>2 DEF Unprocessed
<1>5. mDevices[k] \in Ids
  BY <1>1, <1>4
<1> QED
  BY <1>3, <1>4, <1>5 DEF Listed, ToSet

(* removeDevice drops the devices with that serial number and no other.    *)
LEMMA WithoutLemma ==
  ASSUME Typed, NEW d \in Ids
  PROVE  /\ Without(mDevices, d) \in Seq(Ids)
         /\ ToSet(Without(mDevices, d)) = {e \in Listed : Serial(e) # Serial(d)}
         /\ Distinct(mDevices) => Distinct(Without(mDevices, d))
<1>1. mDevices \in Seq(Ids)
  BY DEF Typed, DevicesOK
<1>2. Listed \subseteq Ids
  BY <1>1 DEF Listed, ToSet
<1> QED
  BY <1>1, <1>2, ChosenLemma DEF Without, Listed

(* How M_UpdateDevice changes what it changes.                             *)
LEMMA UpdateEffect ==
  ASSUME Typed, M_UpdateDevice
  PROVE  \E d \in Ids, i \in DOMAIN m.list :
           /\ d = NextDevice /\ d \in Listed /\ d \notin m.old
           /\ i \notin m.used /\ m.list[i] \in Entry /\ m.list[i].serial = Serial(d)
           /\ devices' = [devices EXCEPT ![d].state = m.list[i].state]
           /\ m' = [m EXCEPT !.old = m.old \cup {d}, !.used = m.used \cup {i},
                             !.changed = m'.changed, !.queries = m'.queries]
           /\ m'.changed \in Seq(Ids) /\ m'.queries \in Seq(Ids)
           /\ ToSet(m'.changed) = ToSet(m.changed) \cup (IF Changes(d, m.list[i].state) THEN {d} ELSE {})
           /\ ToSet(m'.queries) = ToSet(m.queries) \cup (IF GetsQueried(d, m.list[i].state) THEN {d} ELSE {})
<1> DEFINE d == NextDevice
           i == Min(Matches(d))
           state == m.list[i].state
<1>1. Unprocessed # {} /\ Matches(d) # {}
  BY DEF M_UpdateDevice
<1>2. d \in Ids /\ d \in Listed /\ d \notin m.old
  BY <1>1, NextLemma
<1>3. m \in MonitorType /\ m.list \in Seq(Entry)
  BY DEF Typed, MonitorType
<1>4. Matches(d) \in SUBSET Nat
  BY <1>3 DEF Matches
<1>5. i \in Matches(d)
  BY <1>1, <1>4, MinLemma
<1> HIDE DEF d, i
<1>6. i \in DOMAIN m.list /\ i \notin m.used /\ m.list[i].serial = Serial(d) /\ m.list[i] \in Entry
  BY <1>3, <1>5 DEF Matches
<1>7. /\ devices' = [devices EXCEPT ![d].state = state]
      /\ m' = [m EXCEPT !.old = @ \cup {d}, !.used = @ \cup {i},
                        !.changed = IF Changes(d, state) THEN Append(@, d) ELSE @,
                        !.queries = IF GetsQueried(d, state) THEN Append(@, d) ELSE @]
  BY DEF M_UpdateDevice, d, i
<1>8. /\ m'.changed = IF Changes(d, state) THEN Append(m.changed, d) ELSE m.changed
      /\ m'.queries = IF GetsQueried(d, state) THEN Append(m.queries, d) ELSE m.queries
      /\ m' = [m EXCEPT !.old = m.old \cup {d}, !.used = m.used \cup {i},
                        !.changed = m'.changed, !.queries = m'.queries]
  BY <1>3, <1>7 DEF MonitorType
<1>9. m.changed \in Seq(Ids) /\ m.queries \in Seq(Ids)
  BY <1>3 DEF MonitorType
<1>10. m'.changed \in Seq(Ids)
           /\ ToSet(m'.changed) = ToSet(m.changed) \cup (IF Changes(d, state) THEN {d} ELSE {})
  BY <1>2, <1>8, <1>9, AppendLemma
<1>11. m'.queries \in Seq(Ids)
           /\ ToSet(m'.queries) = ToSet(m.queries) \cup (IF GetsQueried(d, state) THEN {d} ELSE {})
  BY <1>2, <1>8, <1>9, AppendLemma
<1>12. d = NextDevice
  BY DEF d
<1> QED
  BY <1>2, <1>6, <1>7, <1>8, <1>10, <1>11, <1>12

(* A change of one device keeps the types and the others.                  *)
LEMMA DeviceLemma ==
  ASSUME Typed, NEW d \in Ids, NEW e \in DeviceType, devices' = [devices EXCEPT ![d] = e]
  PROVE  /\ devices' \in Seq(DeviceType) /\ Ids' = Ids
         /\ devices'[d] = e /\ \A x \in Ids : x # d => devices'[x] = devices[x]
<1>1. devices \in Seq(DeviceType) /\ d \in 1..Len(devices) /\ Ids = 1..Len(devices)
  BY DEF Typed, DevicesOK, Ids
<1>2. devices' \in Seq(DeviceType) /\ Len(devices') = Len(devices)
  BY <1>1
<1> QED
  BY <1>1, <1>2 DEF Ids

(* Every device has its type.                                              *)
LEMMA DeviceFacts ==
  ASSUME Typed, NEW d \in Ids
  PROVE  devices[d] \in DeviceType
BY DEF Typed, DevicesOK, Ids

(* How M_RemoveDevice changes what it changes.                             *)
LEMMA RemoveEffect ==
  ASSUME Typed, M_RemoveDevice
  PROVE  \E d \in Ids :
           /\ d = NextDevice /\ d \in Listed /\ d \notin m.old
           /\ mDevices' \in Seq(Ids) /\ Listed' = {e \in Listed : Serial(e) # Serial(d)}
           /\ Distinct(mDevices) => Distinct(mDevices')
           /\ m' = [m EXCEPT !.old = m.old \cup {d}, !.gone = m'.gone]
           /\ m'.gone \in Seq(Ids) /\ ToSet(m'.gone) = ToSet(m.gone) \cup {d}
           /\ Distinct(m.gone) /\ d \notin ToSet(m.gone) => Distinct(m'.gone)
<1> DEFINE d == NextDevice
<1>1. d \in Ids /\ d \in Listed /\ d \notin m.old
  BY NextLemma DEF M_RemoveDevice
<1>2. m \in MonitorType /\ m.gone \in Seq(Ids)
  BY DEF Typed, MonitorType
<1>3. /\ m' = [m EXCEPT !.old = @ \cup {d}, !.gone = Append(@, d)]
      /\ mDevices' = Without(mDevices, d)
  BY DEF M_RemoveDevice
<1> HIDE DEF d
<1>4. /\ m'.gone = Append(m.gone, d)
      /\ m' = [m EXCEPT !.old = m.old \cup {d}, !.gone = m'.gone]
  BY <1>2, <1>3 DEF MonitorType
<1>5. /\ m'.gone \in Seq(Ids) /\ ToSet(m'.gone) = ToSet(m.gone) \cup {d}
      /\ Distinct(m.gone) /\ d \notin ToSet(m.gone) => Distinct(m'.gone)
  BY <1>1, <1>2, <1>4, AppendLemma
<1>6. /\ mDevices' \in Seq(Ids) /\ Listed' = {e \in Listed : Serial(e) # Serial(d)}
      /\ Distinct(mDevices) => Distinct(mDevices')
  BY <1>1, <1>3, WithoutLemma DEF Listed
<1>7. d = NextDevice
  BY DEF d
<1> QED
  BY <1>1, <1>4, <1>5, <1>6, <1>7

(* The leftover entries are those no device was matched with, each once.   *)
LEMMA LeftoverLemma ==
  ASSUME Typed
  PROVE  /\ Leftover \in Seq(DOMAIN m.list) /\ Distinct(Leftover)
         /\ ToSet(Leftover) = DOMAIN m.list \ m.used
<1> DEFINE D == DOMAIN m.list
           s == [i \in D |-> i]
<1>1. m.list \in Seq(Entry)
  BY DEF Typed, MonitorType
<1>2. D = 1..Len(m.list) /\ Len(m.list) \in Nat
  BY <1>1
<1>3. s \in Seq(D) /\ Len(s) = Len(m.list) /\ DOMAIN s = D /\ \A i \in D : s[i] = i
  BY <1>2
<1>4. ToSet(s) = D /\ Distinct(s)
  BY <1>2, <1>3 DEF ToSet, Distinct
<1>5. Leftover = Chosen(s, D \ m.used)
  BY DEF Leftover
<1> HIDE DEF s, D
<1>6. /\ Leftover \in Seq(D) /\ Distinct(Leftover)
      /\ ToSet(Leftover) = D \cap (D \ m.used)
  BY <1>3, <1>4, <1>5, ChosenLemma
<1> QED
  BY <1>6 DEF D

(* How M_AddDevices changes what it changes: one new device for each       *)
(* leftover entry, at the end of the list.                                 *)
LEMMA AddEffect ==
  ASSUME Typed, M_AddDevices
  PROVE  /\ devices' \in Seq(DeviceType) /\ Ids \subseteq Ids'
         /\ \A x \in Ids : devices'[x] = devices[x]
         /\ \A x \in Ids' \ Ids : \E i \in DOMAIN m.list \ m.used : devices'[x] = NewDevice(m.list[i])
         /\ Len(devices') = Len(devices) + Len(Leftover) /\ Len(NewIds) = Len(Leftover)
         /\ \A k \in 1..Len(Leftover) :
              /\ Len(devices) + k \in Ids' \ Ids
              /\ devices'[Len(devices) + k] = NewDevice(m.list[Leftover[k]])
         /\ \A x \in Ids' \ Ids : \E k \in 1..Len(Leftover) : x = Len(devices) + k
         /\ NewIds \in Seq(Ids') /\ Distinct(NewIds) /\ ToSet(NewIds) = Ids' \ Ids
         /\ mDevices' = mDevices \o NewIds /\ mDevices' \in Seq(Ids')
         /\ Listed' = Listed \cup (Ids' \ Ids)
         /\ m' = [m EXCEPT !.pc = "notify", !.connected = NewIds, !.queries = m'.queries]
         /\ m'.queries \in Seq(Ids')
         /\ ToSet(m'.queries) = ToSet(m.queries) \cup {x \in Ids' \ Ids : devices'[x].state = ONLINE}
<1> DEFINE news == [k \in DOMAIN Leftover |-> NewDevice(m.list[Leftover[k]])]
<1>1. Leftover \in Seq(DOMAIN m.list) /\ ToSet(Leftover) = DOMAIN m.list \ m.used
  BY LeftoverLemma
<1>2. m \in MonitorType /\ m.list \in Seq(Entry) /\ m.queries \in Seq(Ids)
  BY DEF Typed, MonitorType
<1>3. devices \in Seq(DeviceType) /\ mDevices \in Seq(Ids)
  BY DEF Typed, DevicesOK
<1>4. /\ DOMAIN Leftover = 1..Len(Leftover) /\ Len(Leftover) \in Nat
      /\ \A k \in 1..Len(Leftover) : /\ Leftover[k] \in DOMAIN m.list
                                     /\ Leftover[k] \in DOMAIN m.list \ m.used
                                     /\ m.list[Leftover[k]] \in Entry
  BY <1>1, <1>2 DEF ToSet
<1>5. \A e \in Entry : NewDevice(e) \in DeviceType
  BY DEF NewDevice, Entry, DeviceType
<1>6. news \in Seq(DeviceType) /\ Len(news) = Len(Leftover)
  BY <1>4, <1>5
<1>7. \A k \in 1..Len(Leftover) : news[k] = NewDevice(m.list[Leftover[k]])
  BY <1>4
<1>8. devices' = devices \o news
  BY DEF M_AddDevices
<1> HIDE DEF news
<1>9. /\ devices' \in Seq(DeviceType) /\ Len(devices') = Len(devices) + Len(Leftover)
      /\ Len(devices) \in Nat
      /\ Ids = 1..Len(devices) /\ Ids' = 1..(Len(devices) + Len(Leftover))
      /\ \A x \in Ids : devices'[x] = devices[x]
      /\ \A k \in 1..Len(Leftover) : devices'[Len(devices) + k] = news[k]
  <2>1. /\ devices \o news \in Seq(DeviceType) /\ Len(devices \o news) = Len(devices) + Len(news)
        /\ Len(devices) \in Nat /\ Len(news) \in Nat
        /\ DOMAIN devices = 1..Len(devices) /\ DOMAIN (devices \o news) = 1..(Len(devices) + Len(news))
        /\ \A i \in 1..(Len(devices) + Len(news)) :
             (devices \o news)[i] = IF i <= Len(devices) THEN devices[i] ELSE news[i - Len(devices)]
    BY <1>3, <1>6
  <2>2. \A x \in 1..Len(devices) : x \in 1..(Len(devices) + Len(news)) /\ x <= Len(devices)
    BY <2>1
  <2>3. \A k \in 1..Len(news) : /\ Len(devices) + k \in 1..(Len(devices) + Len(news))
                                /\ ~(Len(devices) + k <= Len(devices))
                                /\ (Len(devices) + k) - Len(devices) = k
    BY <2>1
  <2> QED
    BY <1>6, <1>8, <2>1, <2>2, <2>3 DEF Ids
<1>10. /\ Ids \subseteq Ids'
       /\ \A k \in 1..Len(Leftover) : Len(devices) + k \in Ids' \ Ids
       /\ \A x \in Ids' \ Ids : x - Len(devices) \in 1..Len(Leftover)
              /\ Len(devices) + (x - Len(devices)) = x
  BY <1>4, <1>9
<1>11. \A x \in Ids' \ Ids : \E i \in DOMAIN m.list \ m.used : devices'[x] = NewDevice(m.list[i])
  <2> TAKE x \in Ids' \ Ids
  <2>1. PICK k \in 1..Len(Leftover) : x = Len(devices) + k
    BY <1>10
  <2>2. Leftover[k] \in DOMAIN m.list \ m.used
    BY <1>4
  <2>3. devices'[x] = NewDevice(m.list[Leftover[k]])
    BY <1>7, <1>9, <2>1
  <2> QED
    BY <2>2, <2>3
<1>12. /\ NewIds \in Seq(Ids') /\ Len(NewIds) = Len(Leftover)
       /\ DOMAIN NewIds = 1..Len(Leftover)
       /\ \A k \in 1..Len(Leftover) : NewIds[k] = Len(devices) + k
  <2>1. NewIds = [k \in 1..Len(Leftover) |-> Len(devices) + k]
    BY <1>4 DEF NewIds
  <2> QED
    BY <1>4, <1>10, <2>1
<1>13. Distinct(NewIds)
  BY <1>4, <1>9, <1>12 DEF Distinct
<1>14. ToSet(NewIds) = Ids' \ Ids
  <2>1. ASSUME NEW x \in ToSet(NewIds)  PROVE x \in Ids' \ Ids
    BY <1>10, <1>12, <2>1 DEF ToSet
  <2>2. ASSUME NEW x \in Ids' \ Ids  PROVE x \in ToSet(NewIds)
    <3>1. PICK k \in 1..Len(Leftover) : x = Len(devices) + k
      BY <1>10
    <3> QED
      BY <1>12, <3>1 DEF ToSet
  <2> QED
    BY <2>1, <2>2
<1>15. mDevices' = mDevices \o NewIds /\ mDevices \in Seq(Ids')
  BY <1>3, <1>10 DEF M_AddDevices
<1>16. mDevices' \in Seq(Ids') /\ ToSet(mDevices') = Listed \cup (Ids' \ Ids)
  BY <1>12, <1>14, <1>15, ConcatLemma DEF Listed
<1> DEFINE q == Chosen(NewIds, {x \in DOMAIN devices' : devices'[x].state = ONLINE})
<1>17. q \in Seq(Ids') /\ ToSet(q) = {x \in Ids' \ Ids : devices'[x].state = ONLINE}
  <2>1. q \in Seq(Ids')
            /\ ToSet(q) = ToSet(NewIds) \cap {x \in DOMAIN devices' : devices'[x].state = ONLINE}
    BY <1>12, ChosenLemma
  <2>2. Ids' = DOMAIN devices'
    BY DEF Ids
  <2> QED
    BY <1>14, <2>1, <2>2
<1>18. m' = [m EXCEPT !.pc = "notify", !.connected = NewIds, !.queries = @ \o q]
  BY DEF M_AddDevices
<1> HIDE DEF q
<1>19. /\ m'.queries = m.queries \o q
       /\ m' = [m EXCEPT !.pc = "notify", !.connected = NewIds, !.queries = m'.queries]
  BY <1>2, <1>18 DEF MonitorType
<1>20. m.queries \in Seq(Ids')
  BY <1>2, <1>10
<1>21. m'.queries \in Seq(Ids') /\ ToSet(m'.queries) = ToSet(m.queries) \cup ToSet(q)
  BY <1>17, <1>19, <1>20, ConcatLemma
<1>22. Listed' = ToSet(mDevices')
  BY DEF Listed
<1> QED
  BY <1>7, <1>9, <1>10, <1>11, <1>12, <1>13, <1>14, <1>15, <1>16, <1>17, <1>19, <1>21, <1>22

(* How a notification changes the device it is about.                      *)
LEMMA TellEffect ==
  ASSUME Typed, NEW d \in Ids, NEW event \in {"connected", "gone"}, Tell(d, event)
  PROVE  /\ devices' \in Seq(DeviceType) /\ Ids' = Ids
         /\ devices'[d] = [devices[d] EXCEPT !.told = event, !.toldState = devices[d].state]
         /\ \A x \in Ids : x # d => devices'[x] = devices[x]
<1> DEFINE e == [devices[d] EXCEPT !.told = event, !.toldState = devices[d].state]
<1>1. e \in DeviceType
  BY DeviceFacts DEF DeviceType
<1>2. devices' = [devices EXCEPT ![d] = e]
  BY DEF Tell
<1> HIDE DEF e
<1>3. /\ devices' \in Seq(DeviceType) /\ Ids' = Ids
      /\ devices'[d] = e /\ \A x \in Ids : x # d => devices'[x] = devices[x]
  BY <1>1, <1>2, DeviceLemma
<1> QED
  BY <1>3 DEF e

(* How M_NotifyChanged changes what it changes.                            *)
LEMMA ChangedEffect ==
  ASSUME Typed, M_NotifyChanged
  PROVE  \E d \in Ids :
           /\ d = Head(m.changed) /\ d \in ToSet(m.changed)
           /\ devices' \in Seq(DeviceType) /\ Ids' = Ids
           /\ devices'[d] = [devices[d] EXCEPT !.toldState = devices[d].state]
           /\ \A x \in Ids : x # d => devices'[x] = devices[x]
           /\ m' = [m EXCEPT !.changed = Tail(m.changed)] /\ Tail(m.changed) \in Seq(Ids)
           /\ ToSet(m.changed) = ToSet(Tail(m.changed)) \cup {d}
<1> DEFINE d == Head(m.changed)
           e == [devices[d] EXCEPT !.toldState = devices[d].state]
<1>1. m \in MonitorType /\ m.changed \in Seq(Ids) /\ m.changed # <<>>
  BY DEF Typed, MonitorType, M_NotifyChanged
<1>2. /\ d \in Ids /\ Tail(m.changed) \in Seq(Ids) /\ d \in ToSet(m.changed)
      /\ ToSet(m.changed) = ToSet(Tail(m.changed)) \cup {d}
  BY <1>1, TailLemma
<1>3. e \in DeviceType
  BY <1>2, DeviceFacts DEF DeviceType
<1>4. devices' = [devices EXCEPT ![d] = e] /\ m' = [m EXCEPT !.changed = Tail(m.changed)]
  BY DEF M_NotifyChanged
<1>5. d = Head(m.changed) /\ e = [devices[d] EXCEPT !.toldState = devices[d].state]
  OBVIOUS
<1> HIDE DEF d, e
<1>6. /\ devices' \in Seq(DeviceType) /\ Ids' = Ids
      /\ devices'[d] = e /\ \A x \in Ids : x # d => devices'[x] = devices[x]
  BY <1>2, <1>3, <1>4, DeviceLemma
<1> QED
  BY <1>2, <1>4, <1>5, <1>6

(* How M_Query changes what it changes.                                    *)
LEMMA QueryEffect ==
  ASSUME Typed, M_Query
  PROVE  \E d \in Ids, props \in {"none", "some", "all"}, failed \in BOOLEAN :
           /\ d = Head(m.queries) /\ d \in ToSet(m.queries)
           /\ props = "all" \/ failed
           /\ devices' \in Seq(DeviceType) /\ Ids' = Ids
           /\ devices'[d] = [devices[d] EXCEPT !.props = props, !.failed = failed]
           /\ \A x \in Ids : x # d => devices'[x] = devices[x]
           /\ m' = [m EXCEPT !.queries = Tail(m.queries)] /\ Tail(m.queries) \in Seq(Ids)
           /\ ToSet(m.queries) = ToSet(Tail(m.queries)) \cup {d}
<1> DEFINE d == Head(m.queries)
           e(props, failed) == [devices[d] EXCEPT !.props = props, !.failed = failed]
<1>1. m \in MonitorType /\ m.queries \in Seq(Ids) /\ m.queries # <<>>
  BY DEF Typed, MonitorType, M_Query
<1>2. /\ d \in Ids /\ Tail(m.queries) \in Seq(Ids) /\ d \in ToSet(m.queries)
      /\ ToSet(m.queries) = ToSet(Tail(m.queries)) \cup {d}
  BY <1>1, TailLemma
<1>3. PICK props \in {"none", "some", "all"}, failed \in BOOLEAN :
        /\ props = "all" \/ failed
        /\ devices' = [devices EXCEPT ![d] = e(props, failed)]
  <2>1. m' = [m EXCEPT !.queries = Tail(m.queries)]
    BY DEF M_Query
  <2>2. CASE devices' = [devices EXCEPT ![d].props = "all", ![d].failed = FALSE]
    <3>1. devices' = [devices EXCEPT ![d] = e("all", FALSE)]
      BY <2>2
    <3> QED
      BY <3>1
  <2>3. ASSUME NEW props \in {"none", "some"},
               devices' = [devices EXCEPT ![d].props = props, ![d].failed = TRUE]
        PROVE  devices' = [devices EXCEPT ![d] = e(props, TRUE)]
    BY <2>3
  <2>4. \/ devices' = [devices EXCEPT ![d].props = "all", ![d].failed = FALSE]
        \/ \E props \in {"none", "some"} :
             devices' = [devices EXCEPT ![d].props = props, ![d].failed = TRUE]
    BY DEF M_Query
  <2> QED
    BY <2>2, <2>3, <2>4
<1>4. e(props, failed) \in DeviceType
  BY <1>2, DeviceFacts DEF DeviceType
<1>5. m' = [m EXCEPT !.queries = Tail(m.queries)]
  BY DEF M_Query
<1>6. d = Head(m.queries) /\ e(props, failed) = [devices[d] EXCEPT !.props = props, !.failed = failed]
  OBVIOUS
<1> HIDE DEF d, e
<1>7. /\ devices' \in Seq(DeviceType) /\ Ids' = Ids
      /\ devices'[d] = e(props, failed) /\ \A x \in Ids : x # d => devices'[x] = devices[x]
  BY <1>2, <1>3, <1>4, DeviceLemma
<1> QED
  BY <1>2, <1>3, <1>5, <1>6, <1>7

(* How M_NotifyDisconnected changes what it changes.                       *)
LEMMA GoneEffect ==
  ASSUME Typed, M_NotifyDisconnected
  PROVE  \E d \in Ids :
           /\ d = Head(m.gone) /\ d \in ToSet(m.gone)
           /\ devices' \in Seq(DeviceType) /\ Ids' = Ids
           /\ devices'[d] = [devices[d] EXCEPT !.told = "gone", !.toldState = devices[d].state]
           /\ \A x \in Ids : x # d => devices'[x] = devices[x]
           /\ m' = [m EXCEPT !.gone = Tail(m.gone)] /\ Tail(m.gone) \in Seq(Ids)
           /\ ToSet(m.gone) = ToSet(Tail(m.gone)) \cup {d}
           /\ Distinct(m.gone) => Distinct(Tail(m.gone)) /\ d \notin ToSet(Tail(m.gone))
<1> DEFINE d == Head(m.gone)
<1>1. m \in MonitorType /\ m.gone \in Seq(Ids) /\ m.gone # <<>>
  BY DEF Typed, MonitorType, M_NotifyDisconnected
<1>2. /\ d \in Ids /\ Tail(m.gone) \in Seq(Ids) /\ d \in ToSet(m.gone)
      /\ ToSet(m.gone) = ToSet(Tail(m.gone)) \cup {d}
      /\ Distinct(m.gone) => Distinct(Tail(m.gone)) /\ d \notin ToSet(Tail(m.gone))
  BY <1>1, TailLemma
<1>3. Tell(d, "gone") /\ m' = [m EXCEPT !.gone = Tail(m.gone)] /\ d = Head(m.gone)
  BY DEF M_NotifyDisconnected
<1> HIDE DEF d
<1> QED
  BY <1>2, <1>3, TellEffect

(* How M_NotifyConnected changes what it changes.                          *)
LEMMA ConnectedEffect ==
  ASSUME Typed, M_NotifyConnected
  PROVE  \E d \in Ids :
           /\ d = Head(m.connected) /\ d \in ToSet(m.connected)
           /\ devices' \in Seq(DeviceType) /\ Ids' = Ids
           /\ devices'[d] = [devices[d] EXCEPT !.told = "connected", !.toldState = devices[d].state]
           /\ \A x \in Ids : x # d => devices'[x] = devices[x]
           /\ m' = [m EXCEPT !.connected = Tail(m.connected)] /\ Tail(m.connected) \in Seq(Ids)
           /\ ToSet(m.connected) = ToSet(Tail(m.connected)) \cup {d}
           /\ Distinct(m.connected) => Distinct(Tail(m.connected)) /\ d \notin ToSet(Tail(m.connected))
<1> DEFINE d == Head(m.connected)
<1>1. m \in MonitorType /\ m.connected \in Seq(Ids) /\ m.connected # <<>>
  BY DEF Typed, MonitorType, M_NotifyConnected
<1>2. /\ d \in Ids /\ Tail(m.connected) \in Seq(Ids) /\ d \in ToSet(m.connected)
      /\ ToSet(m.connected) = ToSet(Tail(m.connected)) \cup {d}
      /\ Distinct(m.connected) => Distinct(Tail(m.connected)) /\ d \notin ToSet(Tail(m.connected))
  BY <1>1, TailLemma
<1>3. Tell(d, "connected") /\ m' = [m EXCEPT !.connected = Tail(m.connected)] /\ d = Head(m.connected)
  BY DEF M_NotifyConnected
<1> HIDE DEF d
<1> QED
  BY <1>2, <1>3, TellEffect

(* How a Notifier task changes what it changes.                            *)
LEMMA TaskEffect ==
  ASSUME Typed, NEW d \in tasks, T_Notify(d)
  PROVE  /\ d \in Ids /\ devices' \in Seq(DeviceType) /\ Ids' = Ids
         /\ devices'[d] = [devices[d] EXCEPT !.told = "gone", !.toldState = devices[d].state]
         /\ \A x \in Ids : x # d => devices'[x] = devices[x]
         /\ tasks' = tasks \ {d}
         /\ UNCHANGED <<mDevices, m, connVars, lock, stopper>>
<1>1. d \in Ids /\ Tell(d, "gone")
  BY DEF T_Notify, Typed, DevicesOK
<1>2. /\ devices' \in Seq(DeviceType) /\ Ids' = Ids
      /\ devices'[d] = [devices[d] EXCEPT !.told = "gone", !.toldState = devices[d].state]
      /\ \A x \in Ids : x # d => devices'[x] = devices[x]
  BY <1>1, TellEffect
<1> QED
  BY <1>1, <1>2 DEF T_Notify

(* How M_Drain and M_NoThreadAvailable change what they change.            *)
LEMMA DrainEffect ==
  ASSUME Typed, M_Drain \/ M_NoThreadAvailable
  PROVE  \E d \in Ids :
           /\ d \in Listed
           /\ mDevices' \in Seq(Ids) /\ Listed' = {e \in Listed : Serial(e) # Serial(d)}
           /\ Distinct(mDevices) => Distinct(mDevices')
           /\ devices' = devices /\ Ids' = Ids
           /\ \/ M_Drain /\ tasks' = tasks \cup {d} /\ m' = [m EXCEPT !.n = m.n - 1] /\ lock' = lock
              \/ M_NoThreadAvailable /\ tasks' = tasks /\ m' = MonitorAt("exited") /\ lock' = "free"
<1> DEFINE d == mDevices[m.n]
<1>1. mDevices \in Seq(Ids) /\ m.n \in DOMAIN mDevices
  BY DEF Typed, DevicesOK, M_Drain, M_NoThreadAvailable
<1>2. d \in Ids /\ d \in Listed
  BY <1>1 DEF Listed, ToSet
<1>3. /\ mDevices' = Without(mDevices, d) /\ devices' = devices
      /\ \/ M_Drain /\ tasks' = tasks \cup {d} /\ m' = [m EXCEPT !.n = m.n - 1] /\ lock' = lock
         \/ M_NoThreadAvailable /\ tasks' = tasks /\ m' = MonitorAt("exited") /\ lock' = "free"
  BY DEF M_Drain, M_NoThreadAvailable, otherVars
<1> HIDE DEF d
<1>4. /\ mDevices' \in Seq(Ids) /\ Listed' = {e \in Listed : Serial(e) # Serial(d)}
      /\ Distinct(mDevices) => Distinct(mDevices')
  BY <1>2, <1>3, WithoutLemma DEF Listed
<1>5. Ids' = Ids
  BY <1>3 DEF Ids
<1> QED
  BY <1>2, <1>3, <1>4, <1>5

-----------------------------------------------------------------------------
(***************************************************************************)
(* The invariants, step by step.                                           *)
(***************************************************************************)

(* Every step keeps the types.                                             *)
LEMMA TypedStep ==
  ASSUME Typed, PlaceInv, [Next]_vars
  PROVE  Typed'
<1>1. m \in MonitorType /\ AdbOK /\ DevicesOK
  BY DEF Typed
<1>2. CASE M_UpdateDevice
  <2>1. PICK d \in Ids, i \in DOMAIN m.list :
           /\ m.list[i] \in Entry
           /\ devices' = [devices EXCEPT ![d].state = m.list[i].state]
           /\ m' = [m EXCEPT !.old = m.old \cup {d}, !.used = m.used \cup {i},
                             !.changed = m'.changed, !.queries = m'.queries]
           /\ m'.changed \in Seq(Ids) /\ m'.queries \in Seq(Ids)
    BY <1>2, UpdateEffect
  <2> DEFINE e == [devices[d] EXCEPT !.state = m.list[i].state]
  <2>2. e \in DeviceType
    BY <2>1, DeviceFacts DEF DeviceType, Entry
  <2>3. devices' = [devices EXCEPT ![d] = e]
    BY <2>1
  <2> HIDE DEF e
  <2>4. devices' \in Seq(DeviceType) /\ Ids' = Ids
    BY <2>2, <2>3, DeviceLemma
  <2>5. DOMAIN m.list \subseteq Nat
    BY <1>1 DEF MonitorType
  <2>6. m' \in MonitorType'
    <3>1. /\ m.old \cup {d} \in SUBSET Ids /\ m.used \cup {i} \in SUBSET Nat
      BY <1>1, <2>1, <2>5, ExceptLemma
    <3> DEFINE c == m'.changed
               q == m'.queries
    <3>2. c \in Seq(Ids) /\ q \in Seq(Ids)
              /\ m' = [m EXCEPT !.old = m.old \cup {d}, !.used = m.used \cup {i}, !.changed = c, !.queries = q]
      BY <2>1
    <3> HIDE DEF c, q
    <3>3. m' \in MonitorType
      BY <1>1, <3>1, <3>2, ExceptLemma
    <3> QED
      BY <2>4, <3>3 DEF MonitorType
  <2> QED
    BY <1>1, <1>2, <2>4, <2>6 DEF M_UpdateDevice, Typed, DevicesOK, AdbOK, connVars, otherVars
<1>3. CASE M_RemoveDevice
  <2>1. PICK d \in Ids :
           /\ mDevices' \in Seq(Ids)
           /\ m' = [m EXCEPT !.old = m.old \cup {d}, !.gone = m'.gone]
           /\ m'.gone \in Seq(Ids)
    BY <1>3, RemoveEffect
  <2>2. Ids' = Ids
    BY <1>3 DEF M_RemoveDevice, Ids
  <2>3. m' \in MonitorType'
    <3> DEFINE g == m'.gone
    <3>1. m.old \cup {d} \in SUBSET Ids /\ g \in Seq(Ids)
              /\ m' = [m EXCEPT !.old = m.old \cup {d}, !.gone = g]
      BY <1>1, <2>1, ExceptLemma
    <3> HIDE DEF g
    <3>2. m' \in MonitorType
      BY <1>1, <3>1, ExceptLemma
    <3> QED
      BY <2>2, <3>2 DEF MonitorType
  <2> QED
    BY <1>1, <1>3, <2>1, <2>2, <2>3 DEF M_RemoveDevice, Typed, DevicesOK, AdbOK, connVars,
       otherVars
<1>4. CASE M_AddDevices
  <2>1. /\ devices' \in Seq(DeviceType) /\ Ids \subseteq Ids' /\ mDevices' \in Seq(Ids')
        /\ NewIds \in Seq(Ids') /\ m'.queries \in Seq(Ids')
        /\ m' = [m EXCEPT !.pc = "notify", !.connected = NewIds, !.queries = m'.queries]
    BY <1>4, AddEffect
  <2>2. m' \in MonitorType'
    <3>1. m.gone \in Seq(Ids') /\ m.changed \in Seq(Ids')
      BY <1>1, <2>1 DEF MonitorType
    <3>2. "notify" \in Places
      BY DEF Places
    <3> QED
      BY <1>1, <2>1, <3>1, <3>2 DEF MonitorType
  <2> QED
    BY <1>1, <1>4, <2>1, <2>2 DEF M_AddDevices, Typed, DevicesOK, AdbOK, connVars, otherVars
<1>5. CASE M_NotifyDisconnected
  <2>1. /\ devices' \in Seq(DeviceType) /\ Ids' = Ids
        /\ m' = [m EXCEPT !.gone = Tail(m.gone)] /\ Tail(m.gone) \in Seq(Ids)
    BY <1>5, GoneEffect
  <2>2. m' \in MonitorType'
    BY <1>1, <2>1 DEF MonitorType
  <2> QED
    BY <1>1, <1>5, <2>1, <2>2 DEF M_NotifyDisconnected, Typed, DevicesOK, AdbOK, connVars,
       otherVars
<1>6. CASE M_NotifyChanged
  <2>1. /\ devices' \in Seq(DeviceType) /\ Ids' = Ids
        /\ m' = [m EXCEPT !.changed = Tail(m.changed)] /\ Tail(m.changed) \in Seq(Ids)
    BY <1>6, ChangedEffect
  <2>2. m' \in MonitorType'
    BY <1>1, <2>1 DEF MonitorType
  <2> QED
    BY <1>1, <1>6, <2>1, <2>2 DEF M_NotifyChanged, Typed, DevicesOK, AdbOK, connVars, otherVars
<1>7. CASE M_NotifyConnected
  <2>1. /\ devices' \in Seq(DeviceType) /\ Ids' = Ids
        /\ m' = [m EXCEPT !.connected = Tail(m.connected)] /\ Tail(m.connected) \in Seq(Ids)
    BY <1>7, ConnectedEffect
  <2>2. m' \in MonitorType'
    BY <1>1, <2>1 DEF MonitorType
  <2> QED
    BY <1>1, <1>7, <2>1, <2>2 DEF M_NotifyConnected, Typed, DevicesOK, AdbOK, connVars, otherVars
<1>8. CASE M_Query
  <2>1. /\ devices' \in Seq(DeviceType) /\ Ids' = Ids
        /\ m' = [m EXCEPT !.queries = Tail(m.queries)] /\ Tail(m.queries) \in Seq(Ids)
    BY <1>8, QueryEffect
  <2>2. m' \in MonitorType'
    BY <1>1, <2>1 DEF MonitorType
  <2> QED
    BY <1>1, <1>8, <2>1, <2>2 DEF M_Query, Typed, DevicesOK, AdbOK, connVars, otherVars
<1>9. CASE M_Drain \/ M_NoThreadAvailable
  <2>1. PICK d \in Ids :
           /\ mDevices' \in Seq(Ids) /\ devices' = devices /\ Ids' = Ids
           /\ \/ tasks' = tasks \cup {d} /\ m' = [m EXCEPT !.n = m.n - 1]
              \/ tasks' = tasks /\ m' = MonitorAt("exited")
    BY <1>9, DrainEffect
  <2>2. m' \in MonitorType'
    <3>1. MonitorAt("exited") \in MonitorType /\ [m EXCEPT !.n = m.n - 1] \in MonitorType
      BY <1>1, AtTyped, ExceptLemma DEF Places
    <3>2. MonitorType' = MonitorType
      BY <2>1 DEF MonitorType
    <3> QED
      BY <2>1, <3>1, <3>2
  <2> QED
    BY <1>1, <1>9, <2>1, <2>2 DEF M_Drain, M_NoThreadAvailable, Typed, DevicesOK, AdbOK,
       connVars, otherVars
<1>10. CASE \E d \in tasks : T_Notify(d)
  <2>1. PICK d \in tasks : T_Notify(d)
    BY <1>10
  <2>2. /\ d \in Ids /\ devices' \in Seq(DeviceType) /\ Ids' = Ids /\ tasks' = tasks \ {d}
        /\ UNCHANGED <<mDevices, m, connVars>>
    BY <2>1, TaskEffect
  <2>3. MonitorType' = MonitorType
    BY <2>2 DEF MonitorType
  <2> QED
    BY <1>1, <2>2, <2>3 DEF Typed, DevicesOK, AdbOK, connVars
<1>11. CASE S_Joined
  <2>1. MonitorType' = MonitorType
    BY <1>11 DEF S_Joined, MonitorType, Ids
  <2>2. adb' \in AdbType /\ inbox' \in Seq(Message)
    BY <1>1, <1>11, AdbLemma, InboxLemma DEF S_Joined, AdbOK
  <2> QED
    BY <1>1, <1>11, <2>1, <2>2 DEF S_Joined, Typed, DevicesOK, AdbOK, Ids
<1>12. CASE UNCHANGED vars
  <2>1. MonitorType' = MonitorType
    BY <1>12 DEF vars, deviceVars, MonitorType, Ids
  <2> QED
    BY <1>1, <1>12, <2>1 DEF vars, deviceVars, connVars, otherVars, Typed, DevicesOK, AdbOK, Ids
<1> QED
  BY <1>2, <1>3, <1>4, <1>5, <1>6, <1>7, <1>8, <1>9, <1>10, <1>11, <1>12, CalmSteps
  DEF Next, Monitor, Stopper, Adb, AdbAnswers

(* The record of a monitor thread that has just arrived somewhere.         *)
LEMMA AtFacts ==
  \A pc : /\ MonitorAt(pc).pc = pc /\ Idle(MonitorAt(pc))
          /\ MonitorAt(pc).old = {} /\ MonitorAt(pc).used = {} /\ MonitorAt(pc).list = <<>>
          /\ MonitorAt(pc).connected = <<>>
BY DEF MonitorAt, Idle

(* The record of a monitor thread that has just received a list.           *)
LEMMA ReadFacts ==
  \A l : LET mon == [MonitorAt("update") EXCEPT !.list = l]
         IN  mon.pc = "update" /\ Idle(mon) /\ mon.old = {} /\ mon.used = {} /\ mon.list = l
BY DEF MonitorAt, Idle

(* Giving up the connection keeps WireInv.                                 *)
LEMMA HandleWire ==
  ASSUME Typed, WireInv, HandleException
  PROVE  WireInv'
<1>1. NoRequest.tracking = FALSE /\ NoRequest.requests = 0
  BY AdbFacts DEF AdbType, NoRequest
<1>2. CASE mQuit
  BY <1>2 DEF HandleException, WireInv
<1>3. CASE ~mQuit
  BY <1>1, <1>3 DEF HandleException, WireInv
<1> QED
  BY <1>2, <1>3

(* Every step keeps PlaceInv.                                              *)
LEMMA PlaceStep ==
  ASSUME Typed, WireInv, PlaceInv, [Next]_vars
  PROVE  PlaceInv'
<1>1. m \in MonitorType
  BY DEF Typed
<1>2. CASE M_Connect
  BY <1>1, <1>2, AtFacts DEF M_Connect, PlaceInv, MonitorType, EndIteration, Idle, mQuit,
     connVars, otherVars, deviceVars, vars
<1>3. CASE M_ConnectFails
  BY <1>1, <1>3, AtFacts DEF M_ConnectFails, PlaceInv, MonitorType, EndIteration, Idle, mQuit,
     connVars, otherVars, deviceVars, vars
<1>4. CASE M_StartAdb
  BY <1>1, <1>4, AtFacts DEF M_StartAdb, PlaceInv, MonitorType, EndIteration, Idle, mQuit,
     connVars, otherVars, deviceVars, vars
<1>5. CASE M_Request
  BY <1>1, <1>5, AtFacts DEF M_Request, HandleException, Reading, PlaceInv, MonitorType,
     EndIteration, Idle, mQuit, connVars, otherVars, deviceVars, vars
<1>6. CASE M_Reply
  BY <1>1, <1>6, AtFacts DEF M_Reply, PlaceInv, MonitorType, EndIteration, Idle, mQuit,
     connVars, otherVars, deviceVars, vars
<1>7. CASE M_ReplyTimeout
  BY <1>1, <1>7, AtFacts DEF M_ReplyTimeout, PlaceInv, MonitorType, EndIteration, Idle, mQuit,
     connVars, otherVars, deviceVars, vars
<1>8. CASE M_Diag
  BY <1>1, <1>8, AtFacts DEF M_Diag, PlaceInv, MonitorType, EndIteration, Idle, mQuit, connVars,
     otherVars, deviceVars, vars
<1>9. CASE M_Spin
  BY <1>1, <1>9, AtFacts DEF M_Spin, PlaceInv, MonitorType, EndIteration, Idle, mQuit, connVars,
     otherVars, deviceVars, vars
<1>10. CASE M_ReplyClosed
  BY <1>1, <1>10, AtFacts DEF M_ReplyClosed, PlaceInv, MonitorType, EndIteration, Idle, mQuit,
     connVars, otherVars, deviceVars, vars
<1>11. CASE M_ReadList
  <2>1. CASE mQuit
    BY <1>1, <1>11, <2>1, AtFacts DEF M_ReadList, Reading, PlaceInv, EndIteration, Idle, mQuit,
       connVars, otherVars, deviceVars
  <2>2. CASE ~mQuit
    <3>1. m' = [MonitorAt("update") EXCEPT !.list = Head(inbox).list]
      BY <1>11, <2>2 DEF M_ReadList
    <3>2. m'.pc = "update" /\ Idle(m') /\ m'.old = {} /\ m'.used = {}
      BY <3>1, ReadFacts
    <3>3. /\ m.pc = "top" /\ mMainAdbConnection # "none"
          /\ UNCHANGED <<deviceVars, lock, stopper, mMainAdbConnection>>
      BY <1>11 DEF M_ReadList, Reading, otherVars
    <3> QED
      BY <3>2, <3>3 DEF PlaceInv, Idle, deviceVars
  <2> QED
    BY <2>1, <2>2
<1>12. CASE M_ReadTimeout
  BY <1>1, <1>12, AtFacts DEF M_ReadTimeout, Reading, PlaceInv, MonitorType, EndIteration, Idle,
     mQuit, connVars, otherVars, deviceVars, vars
<1>13. CASE M_ReadError
  <2>1. CASE mQuit
    BY <1>1, <1>13, <2>1, AtFacts DEF M_ReadError, HandleException, Reading, PlaceInv,
       EndIteration, Idle, mQuit, connVars, otherVars, deviceVars
  <2>2. CASE ~mQuit
    BY <1>1, <1>13, <2>2, AtFacts DEF M_ReadError, HandleException, Reading, PlaceInv, Idle,
       mQuit, connVars, otherVars, deviceVars
  <2> QED
    BY <2>1, <2>2
<1>14. CASE M_LockDevices
  BY <1>1, <1>14, AtFacts DEF M_LockDevices, PlaceInv, MonitorType, EndIteration, Idle, mQuit,
     connVars, otherVars, deviceVars, vars
<1>15. CASE M_ListDone
  BY <1>1, <1>15, AtFacts DEF M_ListDone, Notified, PlaceInv, MonitorType, EndIteration, Idle,
     mQuit, connVars, otherVars, deviceVars, vars
<1>16. CASE M_LockToDrain
  BY <1>1, <1>16, AtFacts DEF M_LockToDrain, PlaceInv, MonitorType, EndIteration, Idle, mQuit,
     connVars, otherVars, deviceVars, vars
<1>17. CASE M_DrainOutOfRange
  BY <1>1, <1>17, AtFacts DEF M_DrainOutOfRange, PlaceInv, MonitorType, EndIteration, Idle,
     mQuit, connVars, otherVars, deviceVars, vars
<1>18. CASE M_Crashed
  BY <1>1, <1>18, AtFacts DEF M_Crashed, PlaceInv, MonitorType, EndIteration, Idle, mQuit,
     connVars, otherVars, deviceVars, vars
<1>19. CASE M_Drained
  BY <1>1, <1>19, AtFacts DEF M_Drained, PlaceInv, MonitorType, EndIteration, Idle, mQuit,
     connVars, otherVars, deviceVars, vars
<1>20. CASE S_Stop
  BY <1>1, <1>20, AtFacts DEF S_Stop, PlaceInv, MonitorType, EndIteration, Idle, mQuit,
     connVars, otherVars, deviceVars, vars
<1>21. CASE AdbAccept
  BY <1>1, <1>21, AtFacts DEF AdbAccept, PlaceInv, MonitorType, EndIteration, Idle, mQuit,
     connVars, otherVars, deviceVars, vars
<1>22. CASE AdbRefuse
  BY <1>1, <1>22, AtFacts DEF AdbRefuse, WireInv, PlaceInv, MonitorType, EndIteration, Idle,
     mQuit, connVars, otherVars, deviceVars, vars
<1>23. CASE AdbSecondRequest
  BY <1>1, <1>23, AtFacts DEF AdbSecondRequest, WireInv, PlaceInv, MonitorType, EndIteration,
     Idle, mQuit, connVars, otherVars, deviceVars, vars
<1>24. CASE AdbDie
  BY <1>1, <1>24, AtFacts DEF AdbDie, PlaceInv, MonitorType, EndIteration, Idle, mQuit,
     connVars, otherVars, deviceVars, vars
<1>25. CASE AdbStart
  BY <1>1, <1>25, AtFacts DEF AdbStart, PlaceInv, MonitorType, EndIteration, Idle, mQuit,
     connVars, otherVars, deviceVars, vars
<1>26. CASE S_Joined
  BY <1>1, <1>26, AtFacts DEF S_Joined, PlaceInv, MonitorType, EndIteration, Idle, mQuit,
     connVars, otherVars, deviceVars, vars
<1>27. CASE M_UpdateDevice
  BY <1>1, <1>27, AtFacts DEF M_UpdateDevice, PlaceInv, MonitorType, EndIteration, Idle, mQuit,
     connVars, otherVars, deviceVars, vars
<1>28. CASE M_RemoveDevice
  BY <1>1, <1>28, AtFacts DEF M_RemoveDevice, PlaceInv, MonitorType, EndIteration, Idle, mQuit,
     connVars, otherVars, deviceVars, vars
<1>29. CASE M_AddDevices
  BY <1>1, <1>29, AtFacts DEF M_AddDevices, PlaceInv, MonitorType, EndIteration, Idle, mQuit,
     connVars, otherVars, deviceVars, vars
<1>30. CASE M_NotifyDisconnected
  BY <1>1, <1>30, AtFacts DEF M_NotifyDisconnected, PlaceInv, MonitorType, EndIteration, Idle,
     mQuit, connVars, otherVars, deviceVars, vars
<1>31. CASE M_NotifyChanged
  BY <1>1, <1>31, AtFacts DEF M_NotifyChanged, PlaceInv, MonitorType, EndIteration, Idle, mQuit,
     connVars, otherVars, deviceVars, vars
<1>32. CASE M_NotifyConnected
  BY <1>1, <1>32, AtFacts DEF M_NotifyConnected, PlaceInv, MonitorType, EndIteration, Idle,
     mQuit, connVars, otherVars, deviceVars, vars
<1>33. CASE M_Query
  BY <1>1, <1>33, AtFacts DEF M_Query, PlaceInv, MonitorType, EndIteration, Idle, mQuit,
     connVars, otherVars, deviceVars, vars
<1>34. CASE M_Drain
  BY <1>1, <1>34, AtFacts DEF M_Drain, PlaceInv, MonitorType, EndIteration, Idle, mQuit,
     connVars, otherVars, deviceVars, vars
<1>35. CASE M_NoThreadAvailable
  BY <1>1, <1>35, AtFacts DEF M_NoThreadAvailable, PlaceInv, MonitorType, EndIteration, Idle,
     mQuit, connVars, otherVars, deviceVars, vars
<1>36. CASE \E l \in AdbLists : AdbChange(l)
  BY <1>1, <1>36, AtFacts DEF AdbChange, PlaceInv, MonitorType, EndIteration, Idle, mQuit,
     connVars, otherVars, deviceVars, vars
<1>37. CASE \E d \in tasks : T_Notify(d)
  BY <1>1, <1>37, AtFacts DEF T_Notify, PlaceInv, MonitorType, EndIteration, Idle, mQuit,
     connVars, otherVars, deviceVars, vars
<1>38. CASE UNCHANGED vars
  BY <1>1, <1>38, AtFacts DEF PlaceInv, MonitorType, EndIteration, Idle, mQuit, connVars,
     otherVars, deviceVars, vars
<1> QED
  BY <1>2, <1>3, <1>4, <1>5, <1>6, <1>7, <1>8, <1>9, <1>10, <1>11, <1>12, <1>13, <1>14, <1>15,
     <1>16, <1>17, <1>18, <1>19, <1>20, <1>21, <1>22, <1>23, <1>24, <1>25, <1>26, <1>27, <1>28,
     <1>29, <1>30, <1>31, <1>32, <1>33, <1>34, <1>35, <1>36, <1>37, <1>38
  DEF Next, Monitor, Stopper, Adb, AdbAnswers

(* Every step keeps WireInv.                                               *)
LEMMA WireStep ==
  ASSUME Typed, WireInv, [Next]_vars
  PROVE  WireInv'
<1>1. adb \in AdbType
  BY AdbFacts
<1>2. CASE M_Connect
  BY <1>1, <1>2 DEF M_Connect, WireInv, AdbType, NoRequest, connVars, vars
<1>3. CASE M_ConnectFails
  BY <1>1, <1>3 DEF M_ConnectFails, WireInv, AdbType, NoRequest, connVars, vars
<1>4. CASE M_StartAdb
  BY <1>1, <1>4 DEF M_StartAdb, WireInv, AdbType, NoRequest, connVars, vars
<1>5. CASE M_Request
  <2>1. CASE HandleException
    BY <2>1, HandleWire
  <2>2. CASE mMainAdbConnection = "open" /\ adb' = [adb EXCEPT !.requests = @ + 1]
            /\ UNCHANGED mMainAdbConnection
    BY <2>2 DEF WireInv
  <2>3. CASE UNCHANGED connVars
    BY <2>3 DEF WireInv, connVars
  <2> QED
    BY <1>5, <2>1, <2>2, <2>3 DEF M_Request
<1>6. CASE M_Reply
  BY <1>1, <1>6 DEF M_Reply, WireInv, AdbType, NoRequest, connVars, vars
<1>7. CASE M_ReplyTimeout
  BY <1>1, <1>7 DEF M_ReplyTimeout, WireInv, AdbType, NoRequest, connVars, vars
<1>8. CASE M_Diag
  BY <1>1, <1>8 DEF M_Diag, WireInv, AdbType, NoRequest, connVars, vars
<1>9. CASE M_Spin
  BY <1>1, <1>9 DEF M_Spin, WireInv, AdbType, NoRequest, connVars, vars
<1>10. CASE M_ReplyClosed
  BY <1>1, <1>10 DEF M_ReplyClosed, WireInv, AdbType, NoRequest, connVars, vars
<1>11. CASE M_ReadList
  BY <1>1, <1>11 DEF M_ReadList, WireInv, AdbType, NoRequest, connVars, vars
<1>12. CASE M_ReadTimeout
  BY <1>1, <1>12 DEF M_ReadTimeout, WireInv, AdbType, NoRequest, connVars, vars
<1>13. CASE M_ReadError
  BY <1>13, HandleWire DEF M_ReadError
<1>14. CASE M_LockDevices
  BY <1>1, <1>14 DEF M_LockDevices, WireInv, AdbType, NoRequest, connVars, vars
<1>15. CASE M_ListDone
  BY <1>1, <1>15 DEF M_ListDone, WireInv, AdbType, NoRequest, connVars, vars
<1>16. CASE M_LockToDrain
  BY <1>1, <1>16 DEF M_LockToDrain, WireInv, AdbType, NoRequest, connVars, vars
<1>17. CASE M_DrainOutOfRange
  BY <1>1, <1>17 DEF M_DrainOutOfRange, WireInv, AdbType, NoRequest, connVars, vars
<1>18. CASE M_Crashed
  BY <1>1, <1>18 DEF M_Crashed, WireInv, AdbType, NoRequest, connVars, vars
<1>19. CASE M_Drained
  BY <1>1, <1>19 DEF M_Drained, WireInv, AdbType, NoRequest, connVars, vars
<1>20. CASE S_Stop
  BY <1>1, <1>20 DEF S_Stop, WireInv, AdbType, NoRequest, connVars, vars
<1>21. CASE AdbAccept
  BY <1>1, <1>21 DEF AdbAccept, WireInv, AdbType, NoRequest, connVars, vars
<1>22. CASE AdbRefuse
  BY <1>1, <1>22 DEF AdbRefuse, WireInv, AdbType, NoRequest, connVars, vars
<1>23. CASE AdbSecondRequest
  <2>1. CASE UNCHANGED mMainAdbConnection
    BY <1>23, <2>1 DEF AdbSecondRequest, WireInv
  <2>2. CASE adb' = NoRequest
    BY <1>1, <2>2 DEF WireInv, AdbType, NoRequest
  <2> QED
    BY <1>23, <2>1, <2>2 DEF AdbSecondRequest
<1>24. CASE AdbDie
  BY <1>1, <1>24 DEF AdbDie, WireInv, AdbType, NoRequest, connVars, vars
<1>25. CASE AdbStart
  BY <1>1, <1>25 DEF AdbStart, WireInv, AdbType, NoRequest, connVars, vars
<1>26. CASE S_Joined
  BY <1>1, <1>26 DEF S_Joined, WireInv, AdbType, NoRequest, connVars, vars
<1>27. CASE M_UpdateDevice
  BY <1>1, <1>27 DEF M_UpdateDevice, WireInv, AdbType, NoRequest, connVars, vars
<1>28. CASE M_RemoveDevice
  BY <1>1, <1>28 DEF M_RemoveDevice, WireInv, AdbType, NoRequest, connVars, vars
<1>29. CASE M_AddDevices
  BY <1>1, <1>29 DEF M_AddDevices, WireInv, AdbType, NoRequest, connVars, vars
<1>30. CASE M_NotifyDisconnected
  BY <1>1, <1>30 DEF M_NotifyDisconnected, WireInv, AdbType, NoRequest, connVars, vars
<1>31. CASE M_NotifyChanged
  BY <1>1, <1>31 DEF M_NotifyChanged, WireInv, AdbType, NoRequest, connVars, vars
<1>32. CASE M_NotifyConnected
  BY <1>1, <1>32 DEF M_NotifyConnected, WireInv, AdbType, NoRequest, connVars, vars
<1>33. CASE M_Query
  BY <1>1, <1>33 DEF M_Query, WireInv, AdbType, NoRequest, connVars, vars
<1>34. CASE M_Drain
  BY <1>1, <1>34 DEF M_Drain, WireInv, AdbType, NoRequest, connVars, vars
<1>35. CASE M_NoThreadAvailable
  BY <1>1, <1>35 DEF M_NoThreadAvailable, WireInv, AdbType, NoRequest, connVars, vars
<1>36. CASE \E l \in AdbLists : AdbChange(l)
  BY <1>1, <1>36 DEF AdbChange, WireInv, AdbType, NoRequest, connVars, vars
<1>37. CASE \E d \in tasks : T_Notify(d)
  BY <1>1, <1>37 DEF T_Notify, WireInv, AdbType, NoRequest, connVars, vars
<1>38. CASE UNCHANGED vars
  BY <1>1, <1>38 DEF WireInv, AdbType, NoRequest, connVars, vars
<1> QED
  BY <1>2, <1>3, <1>4, <1>5, <1>6, <1>7, <1>8, <1>9, <1>10, <1>11, <1>12, <1>13, <1>14, <1>15,
     <1>16, <1>17, <1>18, <1>19, <1>20, <1>21, <1>22, <1>23, <1>24, <1>25, <1>26, <1>27, <1>28,
     <1>29, <1>30, <1>31, <1>32, <1>33, <1>34, <1>35, <1>36, <1>37, <1>38
  DEF Next, Monitor, Stopper, Adb, AdbAnswers

(* The steps that leave the devices and the queues alone.                  *)
CalmStep ==
  \/ M_Connect
  \/ M_ConnectFails
  \/ M_StartAdb
  \/ M_Request
  \/ M_Reply
  \/ M_ReplyTimeout
  \/ M_Diag
  \/ M_Spin
  \/ M_ReplyClosed
  \/ M_ReadList
  \/ M_ReadTimeout
  \/ M_ReadError
  \/ M_LockDevices
  \/ M_ListDone
  \/ M_LockToDrain
  \/ M_DrainOutOfRange
  \/ M_Crashed
  \/ M_Drained
  \/ S_Stop
  \/ AdbAccept
  \/ AdbRefuse
  \/ AdbSecondRequest
  \/ AdbDie
  \/ AdbStart
  \/ \E l \in AdbLists : AdbChange(l)
  \/ UNCHANGED vars

(* Where such a step changes the monitor thread's record, the queues are   *)
(* empty.                                                                  *)
LEMMA CalmFacts ==
  ASSUME Typed, PlaceInv, CalmStep
  PROVE  Calm /\ (m' = m \/ Idle(m))
<1>1. Calm
  <2>1. CASE UNCHANGED vars
    BY <2>1 DEF vars, deviceVars, otherVars, Calm
  <2> QED
    BY <2>1, CalmSteps DEF CalmStep
<1>2. CASE m.pc \notin {"merge", "notify"}
  BY <1>1, <1>2 DEF PlaceInv
<1>3. CASE m.pc \in {"merge", "notify"} /\ ~M_ListDone
  <2>1. m' = m
    BY <1>3 DEF CalmStep, M_Connect, M_ConnectFails, M_StartAdb, M_Request, M_Reply,
       M_ReplyTimeout, M_Diag, M_Spin,
       M_ReplyClosed, M_ReadList, M_ReadTimeout, M_ReadError, M_LockDevices, M_LockToDrain,
       M_DrainOutOfRange,
       M_Crashed, M_Drained, S_Stop, AdbAccept, AdbRefuse, AdbSecondRequest, AdbChange, AdbDie,
       AdbStart, vars, Reading, Spinning
  <2> QED
    BY <1>1, <2>1
<1>4. CASE M_ListDone
  BY <1>1, <1>4 DEF M_ListDone, Notified, Idle
<1> QED
  BY <1>1, <1>2, <1>3, <1>4

(* The devices whose disconnection the monitor thread has yet to tell.     *)
Gone == ToSet(m.gone)

(* The devices whose change of state it has yet to tell.                   *)
Changed == ToSet(m.changed)

(* The devices whose connection it has yet to tell.                        *)
New == ToSet(m.connected)

(* What is queued agrees with what was told: a device that will be told    *)
(* gone, by the monitor thread or by one task, was told connected and is   *)
(* listed no more; one that will be told changed is connected and nobody's *)
(* to be told gone; one that will be told connected was never heard of.  A *)
(* device of the list was told connected, or will be.                      *)
EventInv ==
  /\ Distinct(m.gone) /\ Distinct(m.connected)
  /\ \A d \in Gone \cup tasks : devices[d].told = "connected" /\ d \notin Listed
  /\ Gone \cap tasks = {}
  /\ \A d \in Changed : devices[d].told = "connected" /\ d \notin Gone \cup tasks
  /\ \A d \in New : devices[d].told = "unseen"
  /\ \A d \in Listed : devices[d].told = "connected" \/ d \in New
  /\ m.pc = "merge" => Gone \cup Changed \subseteq m.old

(* The queues and the list hold devices.                                   *)
LEMMA SetFacts ==
  ASSUME Typed
  PROVE  Gone \subseteq Ids /\ Changed \subseteq Ids /\ New \subseteq Ids
      /\ Listed \subseteq Ids /\ tasks \subseteq Ids
<1>1. m.gone \in Seq(Ids) /\ m.changed \in Seq(Ids) /\ m.connected \in Seq(Ids)
          /\ mDevices \in Seq(Ids) /\ tasks \subseteq Ids
  BY DEF Typed, MonitorType, DevicesOK
<1>2. \A s \in Seq(Ids) : ToSet(s) \subseteq Ids
  BY DEF ToSet
<1> QED
  BY <1>1, <1>2 DEF Gone, Changed, New, Listed

(* The empty sequence holds nothing.                                       *)
LEMMA EmptyFacts ==
  ToSet(<<>>) = {} /\ Distinct(<<>>)
BY DEF ToSet, Distinct

(* Every step keeps EventInv.                                              *)
LEMMA EventStep ==
  ASSUME Typed, PlaceInv, EventInv, [Next]_vars
  PROVE  EventInv'
<1>1. m \in MonitorType
  BY DEF Typed
<1>2. CASE CalmStep
  <2>1. Calm /\ (m' = m \/ Idle(m))
    BY <1>2, CalmFacts
  <2>2. UNCHANGED <<Gone, Changed, New, Listed, tasks, devices, m.gone, m.connected>>
    BY <2>1 DEF Calm, deviceVars, Gone, Changed, New, Listed
  <2>3. m'.pc = "merge" => Gone \cup Changed \subseteq m'.old
    <3>1. CASE m' = m
      BY <3>1 DEF EventInv
    <3>2. CASE Idle(m)
      BY <3>2, EmptyFacts DEF Idle, Gone, Changed
    <3> QED
      BY <2>1, <3>1, <3>2
  <2> QED
    BY <2>2, <2>3 DEF EventInv
<1>3. CASE M_UpdateDevice
  <2>1. PICK d \in Ids, i \in DOMAIN m.list :
           /\ d \in Listed /\ d \notin m.old
           /\ devices' = [devices EXCEPT ![d].state = m.list[i].state]
           /\ m' = [m EXCEPT !.old = m.old \cup {d}, !.used = m.used \cup {i},
                             !.changed = m'.changed, !.queries = m'.queries]
           /\ Changed' = Changed \cup (IF Changes(d, m.list[i].state) THEN {d} ELSE {})
    BY <1>3, UpdateEffect DEF Changed
  <2>2. /\ m'.gone = m.gone /\ m'.connected = m.connected /\ m'.pc = m.pc /\ m'.old = m.old \cup {d}
        /\ Gone' = Gone /\ New' = New /\ Listed' = Listed /\ tasks' = tasks
    BY <1>1, <1>3, <2>1 DEF MonitorType, Gone, New, Listed, M_UpdateDevice, otherVars
  <2>3. \A x \in Ids : devices'[x].told = devices[x].told
    <3>1. \A x \in Ids : devices[x] \in DeviceType
      BY DeviceFacts
    <3> QED
      BY <2>1, <3>1 DEF DeviceType, Ids
  <2>4. m.pc = "merge" /\ m.connected = <<>> /\ New = {}
    BY <1>3, EmptyFacts DEF M_UpdateDevice, PlaceInv, New
  <2>5. devices[d].told = "connected" /\ d \notin Gone \cup tasks
    BY <2>1, <2>4 DEF EventInv
  <2> QED
    BY <2>1, <2>2, <2>3, <2>4, <2>5, SetFacts DEF EventInv
<1>4. CASE M_RemoveDevice
  <2>1. PICK d \in Ids :
           /\ d \in Listed /\ d \notin m.old
           /\ Listed' = {e \in Listed : Serial(e) # Serial(d)}
           /\ m' = [m EXCEPT !.old = m.old \cup {d}, !.gone = m'.gone]
           /\ Gone' = Gone \cup {d}
           /\ Distinct(m.gone) /\ d \notin Gone => Distinct(m'.gone)
    BY <1>4, RemoveEffect DEF Gone
  <2>2. /\ m'.connected = m.connected /\ m'.pc = m.pc /\ m'.old = m.old \cup {d}
        /\ Changed' = Changed /\ New' = New /\ devices' = devices /\ tasks' = tasks
    BY <1>1, <1>4, <2>1 DEF MonitorType, Changed, New, M_RemoveDevice, otherVars
  <2>3. m.pc = "merge" /\ m.connected = <<>> /\ New = {}
    BY <1>4, EmptyFacts DEF M_RemoveDevice, PlaceInv, New
  <2>4. d \notin Gone /\ d \notin Changed /\ d \notin tasks /\ devices[d].told = "connected"
    BY <2>1, <2>3 DEF EventInv
  <2> QED
    BY <2>1, <2>2, <2>3, <2>4 DEF EventInv
<1>5. CASE M_AddDevices
  <2>1. /\ Ids \subseteq Ids'
        /\ \A x \in Ids : devices'[x] = devices[x]
        /\ \A x \in Ids' \ Ids : \E i \in DOMAIN m.list \ m.used : devices'[x] = NewDevice(m.list[i])
        /\ Distinct(NewIds) /\ ToSet(NewIds) = Ids' \ Ids
        /\ Listed' = Listed \cup (Ids' \ Ids)
        /\ m' = [m EXCEPT !.pc = "notify", !.connected = NewIds, !.queries = m'.queries]
    BY <1>5, AddEffect
  <2>2. /\ m'.connected = NewIds /\ m'.pc = "notify" /\ m'.gone = m.gone
        /\ Gone' = Gone /\ Changed' = Changed /\ New' = Ids' \ Ids /\ tasks' = tasks
    BY <1>1, <1>5, <2>1 DEF MonitorType, Gone, Changed, New, M_AddDevices, otherVars
  <2>3. New = {}
    BY <1>5, EmptyFacts DEF M_AddDevices, PlaceInv, New
  <2>4. \A x \in Ids' \ Ids : devices'[x].told = "unseen"
    <3> TAKE x \in Ids' \ Ids
    <3>1. PICK i \in DOMAIN m.list : devices'[x] = NewDevice(m.list[i])
      BY <2>1
    <3> QED
      BY <3>1 DEF NewDevice
  <2> QED
    BY <2>1, <2>2, <2>3, <2>4, SetFacts DEF EventInv
<1>6. CASE M_NotifyDisconnected
  <2>1. PICK d \in Ids :
           /\ d \in Gone /\ Ids' = Ids
           /\ devices'[d] = [devices[d] EXCEPT !.told = "gone", !.toldState = devices[d].state]
           /\ \A x \in Ids : x # d => devices'[x] = devices[x]
           /\ m' = [m EXCEPT !.gone = Tail(m.gone)]
           /\ Gone = ToSet(Tail(m.gone)) \cup {d}
           /\ Distinct(m.gone) => Distinct(Tail(m.gone)) /\ d \notin ToSet(Tail(m.gone))
    BY <1>6, GoneEffect DEF Gone
  <2>2. /\ m'.gone = Tail(m.gone) /\ m'.connected = m.connected /\ m'.pc = "notify"
        /\ Changed' = Changed /\ New' = New /\ Listed' = Listed /\ tasks' = tasks
    BY <1>1, <1>6, <2>1 DEF MonitorType, Changed, New, Listed, M_NotifyDisconnected, otherVars
  <2>3. Gone' = ToSet(Tail(m.gone))
    BY <2>2 DEF Gone
  <2>4. d \notin Changed /\ d \notin New /\ d \notin Listed /\ d \notin tasks
    BY <2>1 DEF EventInv
  <2> QED
    BY <2>1, <2>2, <2>3, <2>4, SetFacts DEF EventInv
<1>7. CASE M_NotifyChanged
  <2>1. PICK d \in Ids :
           /\ d \in Changed /\ Ids' = Ids
           /\ devices'[d] = [devices[d] EXCEPT !.toldState = devices[d].state]
           /\ \A x \in Ids : x # d => devices'[x] = devices[x]
           /\ m' = [m EXCEPT !.changed = Tail(m.changed)]
           /\ Changed = ToSet(Tail(m.changed)) \cup {d}
    BY <1>7, ChangedEffect DEF Changed
  <2>2. /\ m'.gone = m.gone /\ m'.connected = m.connected /\ m'.pc = "notify"
        /\ Changed' \subseteq Changed /\ Gone' = Gone /\ New' = New /\ Listed' = Listed /\ tasks' = tasks
    BY <1>1, <1>7, <2>1 DEF MonitorType, Changed, Gone, New, Listed, M_NotifyChanged, otherVars
  <2>3. \A x \in Ids : devices'[x].told = devices[x].told
    <3>1. devices'[d].told = devices[d].told
      BY <2>1, DeviceFacts DEF DeviceType
    <3> QED
      BY <2>1, <3>1
  <2> QED
    BY <2>1, <2>2, <2>3, SetFacts DEF EventInv
<1>8. CASE M_NotifyConnected
  <2>1. PICK d \in Ids :
           /\ d \in New /\ Ids' = Ids
           /\ devices'[d] = [devices[d] EXCEPT !.told = "connected", !.toldState = devices[d].state]
           /\ \A x \in Ids : x # d => devices'[x] = devices[x]
           /\ m' = [m EXCEPT !.connected = Tail(m.connected)]
           /\ New = ToSet(Tail(m.connected)) \cup {d}
           /\ Distinct(m.connected) => Distinct(Tail(m.connected)) /\ d \notin ToSet(Tail(m.connected))
    BY <1>8, ConnectedEffect DEF New
  <2>2. /\ m'.connected = Tail(m.connected) /\ m'.gone = m.gone /\ m'.pc = "notify"
        /\ Changed' = Changed /\ Gone' = Gone /\ Listed' = Listed /\ tasks' = tasks
    BY <1>1, <1>8, <2>1 DEF MonitorType, Changed, Gone, Listed, M_NotifyConnected, otherVars
  <2>3. New' = ToSet(Tail(m.connected))
    BY <2>2 DEF New
  <2>4. devices'[d].told = "connected"
    BY <2>1, DeviceFacts DEF DeviceType
  <2>5. d \notin Changed /\ d \notin Gone /\ d \notin tasks
    BY <2>1 DEF EventInv
  <2>6. \A x \in New' : devices'[x].told = "unseen"
    BY <2>1, <2>3, SetFacts DEF EventInv
  <2>7. \A x \in Listed : devices'[x].told = "connected" \/ x \in New'
    BY <2>1, <2>3, <2>4, SetFacts DEF EventInv
  <2> QED
    BY <2>1, <2>2, <2>5, <2>6, <2>7, SetFacts DEF EventInv
<1>9. CASE M_Query
  <2>1. PICK d \in Ids, props \in {"none", "some", "all"}, failed \in BOOLEAN :
           /\ Ids' = Ids
           /\ devices'[d] = [devices[d] EXCEPT !.props = props, !.failed = failed]
           /\ \A x \in Ids : x # d => devices'[x] = devices[x]
           /\ m' = [m EXCEPT !.queries = Tail(m.queries)]
    BY <1>9, QueryEffect
  <2>2. /\ m'.connected = m.connected /\ m'.gone = m.gone /\ m'.pc = "notify"
        /\ Changed' = Changed /\ Gone' = Gone /\ New' = New /\ Listed' = Listed /\ tasks' = tasks
    BY <1>1, <1>9, <2>1 DEF MonitorType, Changed, Gone, New, Listed, M_Query, otherVars
  <2>3. \A x \in Ids : devices'[x].told = devices[x].told
    <3>1. devices'[d].told = devices[d].told
      BY <2>1, DeviceFacts DEF DeviceType
    <3> QED
      BY <2>1, <3>1
  <2> QED
    BY <2>2, <2>3, SetFacts DEF EventInv
<1>10. CASE M_Drain \/ M_NoThreadAvailable
  <2>1. PICK d \in Ids :
           /\ d \in Listed /\ Listed' = {e \in Listed : Serial(e) # Serial(d)} /\ devices' = devices
           /\ \/ tasks' = tasks \cup {d} /\ m' = [m EXCEPT !.n = m.n - 1]
              \/ tasks' = tasks /\ m' = MonitorAt("exited")
    BY <1>10, DrainEffect
  <2>2. Idle(m) /\ m.pc = "drain"
    BY <1>10 DEF PlaceInv, M_Drain, M_NoThreadAvailable
  <2>3. Idle(m') /\ m'.pc # "merge"
    <3>1. CASE m' = MonitorAt("exited")
      BY <3>1, AtFacts
    <3>2. CASE m' = [m EXCEPT !.n = m.n - 1]
      BY <1>1, <2>2, <3>2 DEF MonitorType, Idle
    <3> QED
      BY <2>1, <3>1, <3>2
  <2>4. /\ Gone = {} /\ Changed = {} /\ New = {} /\ Gone' = {} /\ Changed' = {} /\ New' = {}
        /\ Distinct(m'.gone) /\ Distinct(m'.connected)
    BY <2>2, <2>3, EmptyFacts DEF Idle, Gone, Changed, New
  <2> QED
    BY <2>1, <2>3, <2>4 DEF EventInv
<1>11. CASE \E d \in tasks : T_Notify(d)
  <2>1. PICK d \in tasks : T_Notify(d)
    BY <1>11
  <2>2. /\ d \in Ids /\ Ids' = Ids
        /\ \A x \in Ids : x # d => devices'[x] = devices[x]
        /\ tasks' = tasks \ {d}
        /\ m' = m /\ Listed' = Listed /\ Changed' = Changed /\ Gone' = Gone /\ New' = New
    BY <2>1, TaskEffect DEF Listed, Changed, Gone, New
  <2>3. d \notin Gone /\ d \notin Changed /\ d \notin New /\ d \notin Listed
    BY DEF EventInv
  <2> QED
    BY <2>2, <2>3, SetFacts DEF EventInv
<1>12. CASE S_Joined
  <2>1. Listed' = {} /\ UNCHANGED <<devices, tasks, m, Changed, Gone, New>>
    BY <1>12, EmptyFacts DEF S_Joined, Listed, Changed, Gone, New
  <2> QED
    BY <2>1 DEF EventInv
<1> QED
  BY <1>2, <1>3, <1>4, <1>5, <1>6, <1>7, <1>8, <1>9, <1>10, <1>11, <1>12
  DEF Next, Monitor, Stopper, Adb, AdbAnswers, CalmStep

-----------------------------------------------------------------------------
(***************************************************************************)
(* The theorems.                                                           *)
(***************************************************************************)

(* What the listeners know: the refinement mapping of Events.              *)
View == [d \in Ids |-> [event |-> devices[d].told, state |-> devices[d].toldState]]

(* An event about one device is a step of the protocol of events.          *)
LEMMA HearsStep ==
  ASSUME Typed, NEW d \in Ids, Ids' = Ids,
         \A x \in Ids : x # d => devices'[x] = devices[x],
         NEW pre, NEW post, devices[d].told = pre, devices'[d].told = post
  PROVE  Events!Hears(d, pre, post) /\ d \in DOMAIN View
<1>1. View' = [View EXCEPT ![d] = [event |-> devices'[d].told, state |-> devices'[d].toldState]]
  BY DEF View
<1>2. View[d].event = devices[d].told /\ View'[d].state = devices'[d].toldState /\ DOMAIN View = Ids
  BY DEF View
<1>3. \E state \in {View'[d].state} : View' = [View EXCEPT ![d] = [event |-> devices'[d].told,
             state |-> state]]
  BY <1>1, <1>2
<1> QED
  BY <1>2, <1>3 DEF Events!Hears, View

(* Without an event the view stays.                                        *)
LEMMA SameView ==
  ASSUME Ids' = Ids, \A x \in Ids : devices'[x].told = devices[x].told
      /\ devices'[x].toldState = devices[x].toldState
  PROVE  UNCHANGED View
BY DEF View

(* Every step is a step of the protocol of events, or leaves the view      *)
(* alone.                                                                  *)
LEMMA ViewStep ==
  ASSUME Typed, PlaceInv, EventInv, [Next]_vars
  PROVE  Events!EventsNext \/ UNCHANGED View
<1>1. CASE CalmStep \/ M_RemoveDevice \/ M_Drain \/ M_NoThreadAvailable \/ S_Joined
  <2>1. devices' = devices
    <3>1. CASE CalmStep
      BY <3>1, CalmFacts DEF Calm, deviceVars
    <3> QED
      BY <1>1, <3>1 DEF M_RemoveDevice, M_Drain, M_NoThreadAvailable, S_Joined
  <2> QED
    BY <2>1 DEF View, Ids
<1>2. CASE M_UpdateDevice
  <2>1. PICK d \in Ids, i \in DOMAIN m.list : devices' = [devices EXCEPT ![d].state = m.list[i].state]
    BY <1>2, UpdateEffect
  <2>2. \A x \in Ids : devices[x] \in DeviceType
    BY DeviceFacts
  <2>3. Ids' = Ids /\ \A x \in Ids : devices'[x].told = devices[x].told
            /\ devices'[x].toldState = devices[x].toldState
    BY <2>1, <2>2 DEF DeviceType, Ids
  <2> QED
    BY <2>3, SameView
<1>3. CASE M_Query
  <2>1. PICK d \in Ids, props \in {"none", "some", "all"}, failed \in BOOLEAN :
           /\ Ids' = Ids
           /\ devices'[d] = [devices[d] EXCEPT !.props = props, !.failed = failed]
           /\ \A x \in Ids : x # d => devices'[x] = devices[x]
    BY <1>3, QueryEffect
  <2>2. devices'[d].told = devices[d].told /\ devices'[d].toldState = devices[d].toldState
    BY <2>1, DeviceFacts DEF DeviceType
  <2> QED
    BY <2>1, <2>2, SameView
<1>4. CASE M_AddDevices
  <2>1. /\ devices' \in Seq(DeviceType) /\ Ids \subseteq Ids'
            /\ Len(devices') = Len(devices) + Len(Leftover)
        /\ \A x \in Ids : devices'[x] = devices[x]
        /\ \A x \in Ids' \ Ids : \E i \in DOMAIN m.list \ m.used : devices'[x] = NewDevice(m.list[i])
    BY <1>4, AddEffect
  <2>2. Len(Leftover) \in Nat /\ Len(devices) \in Nat /\ Ids = 1..Len(devices) /\ Ids' = 1..Len(devices')
    BY <2>1, LeftoverLemma DEF Typed, DevicesOK, Ids
  <2>3. DOMAIN View = Ids /\ DOMAIN View' = Ids' /\ Len(View) = Len(devices)
            /\ Len(View') = Len(devices')
    BY <2>1, <2>2 DEF View
  <2>4. \A x \in Ids : View'[x] = View[x]
    BY <2>1 DEF View
  <2>5. \A x \in Ids' \ Ids : View'[x].event = "unseen"
    <3> TAKE x \in Ids' \ Ids
    <3>1. PICK i \in DOMAIN m.list : devices'[x] = NewDevice(m.list[i])
      BY <2>1
    <3>2. devices'[x].told = "unseen"
      BY <3>1 DEF NewDevice
    <3> QED
      BY <3>2 DEF View
  <2>6. CASE Len(Leftover) = 0
    <3>1. Ids' = Ids
      BY <2>1, <2>2, <2>6
    <3> QED
      BY <2>1, <3>1, SameView
  <2>7. CASE Len(Leftover) > 0
    <3>1. Len(View') > Len(View)
      BY <2>1, <2>2, <2>3, <2>7
    <3>2. Events!Appear
      BY <2>3, <2>4, <2>5, <3>1 DEF Events!Appear, View
    <3> QED
      BY <3>2 DEF Events!EventsNext
  <2> QED
    BY <2>2, <2>6, <2>7
<1>5. CASE M_NotifyDisconnected
  <2>1. PICK d \in Ids :
           /\ d \in Gone /\ Ids' = Ids
           /\ devices'[d] = [devices[d] EXCEPT !.told = "gone", !.toldState = devices[d].state]
           /\ \A x \in Ids : x # d => devices'[x] = devices[x]
    BY <1>5, GoneEffect DEF Gone
  <2>2. devices[d].told = "connected" /\ devices'[d].told = "gone"
    BY <2>1, DeviceFacts DEF EventInv, DeviceType
  <2>3. Events!Hears(d, "connected", "gone") /\ d \in DOMAIN View
    BY <2>1, <2>2, HearsStep
  <2> QED
    BY <2>3 DEF Events!EventsNext, Events!DeviceDisconnected, View
<1>6. CASE M_NotifyChanged
  <2>1. PICK d \in Ids :
           /\ d \in Changed /\ Ids' = Ids
           /\ devices'[d] = [devices[d] EXCEPT !.toldState = devices[d].state]
           /\ \A x \in Ids : x # d => devices'[x] = devices[x]
    BY <1>6, ChangedEffect DEF Changed
  <2>2. devices[d].told = "connected" /\ devices'[d].told = "connected"
    BY <2>1, DeviceFacts DEF EventInv, DeviceType
  <2>3. Events!Hears(d, "connected", "connected") /\ d \in DOMAIN View
    BY <2>1, <2>2, HearsStep
  <2> QED
    BY <2>3 DEF Events!EventsNext, Events!DeviceChanged, View
<1>7. CASE M_NotifyConnected
  <2>1. PICK d \in Ids :
           /\ d \in New /\ Ids' = Ids
           /\ devices'[d] = [devices[d] EXCEPT !.told = "connected", !.toldState = devices[d].state]
           /\ \A x \in Ids : x # d => devices'[x] = devices[x]
    BY <1>7, ConnectedEffect DEF New
  <2>2. devices[d].told = "unseen" /\ devices'[d].told = "connected"
    BY <2>1, DeviceFacts DEF EventInv, DeviceType
  <2>3. Events!Hears(d, "unseen", "connected") /\ d \in DOMAIN View
    BY <2>1, <2>2, HearsStep
  <2> QED
    BY <2>3 DEF Events!EventsNext, Events!DeviceConnected, View
<1>8. CASE \E d \in tasks : T_Notify(d)
  <2>1. PICK d \in tasks : T_Notify(d)
    BY <1>8
  <2>2. /\ d \in Ids /\ Ids' = Ids
        /\ devices'[d] = [devices[d] EXCEPT !.told = "gone", !.toldState = devices[d].state]
        /\ \A x \in Ids : x # d => devices'[x] = devices[x]
    BY <2>1, TaskEffect
  <2>3. devices[d].told = "connected" /\ devices'[d].told = "gone"
    BY <2>2, DeviceFacts DEF EventInv, DeviceType
  <2>4. Events!Hears(d, "connected", "gone") /\ d \in DOMAIN View
    BY <2>2, <2>3, HearsStep
  <2> QED
    BY <2>4 DEF Events!EventsNext, Events!DeviceDisconnected, View
<1> QED
  BY <1>1, <1>2, <1>3, <1>4, <1>5, <1>6, <1>7, <1>8
  DEF Next, Monitor, Stopper, Adb, AdbAnswers, CalmStep

(* The invariants hold initially.                                          *)
LEMMA InitOK ==
  ASSUME Init
  PROVE  Typed /\ WireInv /\ PlaceInv /\ EventInv
<1>1. m \in MonitorType /\ Idle(m) /\ m.pc = "top" /\ m.old = {} /\ m.used = {}
  BY AtTyped, AtFacts DEF Init, Places
<1>2. adb \in AdbType /\ adb.tracking = FALSE /\ adb.requests = 0
  <2> DEFINE empty == <<>>
  <2>1. empty \in Seq(Entry)
    OBVIOUS
  <2>2. adb \in [up : BOOLEAN, list : {empty}, tracking : {FALSE}, requests : {0}]
    BY DEF Init
  <2> HIDE DEF empty
  <2>3. PICK u \in BOOLEAN : adb = [up |-> u, list |-> empty, tracking |-> FALSE, requests |-> 0]
    BY <2>2
  <2> QED
    BY <2>1, <2>3 DEF AdbType
<1>3. DevicesOK /\ AdbOK /\ WireInv
  <2>1. <<>> \in Seq(DeviceType) /\ <<>> \in Seq(Ids)
    OBVIOUS
  <2>2. DevicesOK
    BY <2>1 DEF Init, DevicesOK
  <2>3. inbox \in Seq(Message)
    BY InboxLemma DEF Init
  <2>4. mMainAdbConnection = "none" /\ mMonitoring = FALSE
    BY DEF Init
  <2>5. AdbOK
    BY <1>2, <2>3, <2>4 DEF AdbOK
  <2>6. WireInv
    BY <1>2 DEF WireInv
  <2> QED
    BY <2>2, <2>5, <2>6
<1>4. PlaceInv
  BY <1>1 DEF Init, PlaceInv
<1>5. EventInv
  <2>1. Gone = {} /\ Changed = {} /\ New = {} /\ Listed = {} /\ Distinct(m.gone) /\ Distinct(m.connected)
    BY <1>1, EmptyFacts DEF Init, Idle, Gone, Changed, New, Listed
  <2> QED
    BY <1>1, <2>1 DEF EventInv, Init
<1> QED
  BY <1>1, <1>3, <1>4, <1>5 DEF Typed

(* The invariant that the theorems of this module share.                   *)
Base == Typed /\ WireInv /\ PlaceInv /\ EventInv

(* Whatever the lists, the faults and the interleaving, the types, the     *)
(* state of the connection, the vectors and the locks agree with where the *)
(* monitor thread is, and what is queued for the listeners with what they  *)
(* were told.                                                              *)
THEOREM BaseInvariant == Spec => []Base
<1>1. Init => Base
  BY InitOK DEF Base
<1>2. Base /\ [Next]_vars => Base'
  BY TypedStep, WireStep, PlaceStep, EventStep DEF Base
<1> QED
  BY <1>1, <1>2, PTL DEF Spec

(* EventProtocol: the listeners hear of each device connected, changed and *)
(* disconnected in that order, once, from the monitor thread or from a     *)
(* task of the pool (DeviceMonitor implements DeviceEvents).               *)
THEOREM EventsInOrder == Spec => EventProtocol
<1>1. Init => Events!EventsInit
  <2> SUFFICES ASSUME Init  PROVE Events!EventsInit
    OBVIOUS
  <2>1. Ids = {}
    BY DEF Init, Ids
  <2>2. View = <<>>
    BY <2>1 DEF View
  <2> QED
    BY <2>2 DEF Events!EventsInit, View
<1>2. Base /\ [Next]_vars => [Events!EventsNext]_View
  BY ViewStep DEF Base
<1> QED
  BY <1>1, <1>2, BaseInvariant, PTL DEF Spec, EventProtocol, Events!EventsSpec, View

(* NoConnectionNoDevices: a monitor that has given up its connection and   *)
(* goes on has removed the devices of it.                                  *)
THEOREM DevicesGone == Spec => []NoConnectionNoDevices
<1>1. Base => NoConnectionNoDevices
  BY DEF Base, PlaceInv, NoConnectionNoDevices, mQuit
<1> QED
  BY <1>1, BaseInvariant, PTL

(* StopIsFinal: after stop() returned the list stays as it is, and no      *)
(* device changes that no task was started for.                            *)
THEOREM StopFinal == Spec => StopIsFinal
<1> DEFINE Final == stopper = "done" =>
              /\ mDevices' = mDevices
              /\ \A d \in DOMAIN devices' : d \in Ids \ tasks => devices'[d] = devices[d]
              /\ Len(devices') = Len(devices)
<1>1. Base /\ [Next]_vars => Final
  <2> SUFFICES ASSUME Base, [Next]_vars, stopper = "done"  PROVE Final
    OBVIOUS
  <2>1. m.pc = "exited"
    BY DEF Base, PlaceInv
  <2>2. CASE \E d \in tasks : T_Notify(d)
    <3>1. PICK d \in tasks : T_Notify(d)
      BY <2>2
    <3>2. /\ d \in Ids /\ Ids' = Ids /\ devices' \in Seq(DeviceType) /\ mDevices' = mDevices
          /\ \A x \in Ids : x # d => devices'[x] = devices[x]
      BY <3>1, TaskEffect DEF Base
    <3>3. Len(devices') = Len(devices)
      BY <3>2 DEF Base, Typed, DevicesOK, Ids
    <3> QED
      BY <3>2, <3>3
  <2>3. CASE ~(\E d \in tasks : T_Notify(d))
    <3>1. UNCHANGED deviceVars
      BY <2>1, <2>3 DEF Next, Monitor, Stopper, Adb, AdbAnswers, M_Connect, M_ConnectFails,
         M_StartAdb, M_Request, M_Reply, M_ReplyTimeout, M_Diag, M_Spin,
       M_ReplyClosed, M_ReadList, M_ReadTimeout, M_ReadError, M_LockDevices, M_LockToDrain,
       M_DrainOutOfRange, M_ListDone,
       M_Crashed, M_Drained, S_Stop, S_Joined, AdbAccept, AdbRefuse, AdbSecondRequest,
       AdbChange, AdbDie, AdbStart, vars, Reading, Spinning,
       M_UpdateDevice, M_RemoveDevice, M_AddDevices, M_NotifyDisconnected, M_NotifyChanged,
       M_NotifyConnected, M_Query, M_Drain, M_NoThreadAvailable
    <3> QED
      BY <3>1 DEF deviceVars
  <2> QED
    BY <2>2, <2>3
<1>2. Base /\ [Next]_vars => [Final]_vars
  BY <1>1
<1> QED
  BY <1>2, BaseInvariant, PTL DEF Spec, StopIsFinal

-----------------------------------------------------------------------------
(***************************************************************************)
(* Queries.                                                                *)
(***************************************************************************)

(* The devices the monitor thread has yet to query.                        *)
Queries == ToSet(m.queries)

(* The device has properties if it is online, or its last query failed, or *)
(* it will be queried.                                                     *)
Queried(d) == devices[d].state = ONLINE => devices[d].props # "none" \/ devices[d].failed
    \/ d \in Queries

(* That holds of every device, listed or not.                              *)
QueriedInv == \A d \in Ids : Queried(d)

(* Every step keeps QueriedInv.                                            *)
LEMMA QueriedStep ==
  ASSUME Typed, PlaceInv, QueriedInv, [Next]_vars
  PROVE  QueriedInv'
<1>1. m \in MonitorType /\ \A x \in Ids : devices[x] \in DeviceType
  BY DeviceFacts DEF Typed
<1>2. CASE CalmStep
  <2>1. UNCHANGED <<devices, Queries>>
    BY <1>2, CalmFacts DEF Calm, deviceVars, Queries
  <2> QED
    BY <2>1 DEF QueriedInv, Queried, Ids
<1>3. CASE M_UpdateDevice
  <2>1. PICK d \in Ids, i \in DOMAIN m.list :
           /\ devices' = [devices EXCEPT ![d].state = m.list[i].state]
           /\ Queries' = Queries \cup (IF GetsQueried(d, m.list[i].state) THEN {d} ELSE {})
    BY <1>3, UpdateEffect DEF Queries
  <2> DEFINE state == m.list[i].state
  <2>2. /\ Ids' = Ids /\ \A x \in Ids : x # d => devices'[x] = devices[x]
        /\ devices'[d] = [devices[d] EXCEPT !.state = state]
    BY <2>1 DEF Ids
  <2> HIDE DEF state
  <2>3. devices'[d].state = state /\ devices'[d].props = devices[d].props
            /\ devices'[d].failed = devices[d].failed
    BY <1>1, <2>2 DEF DeviceType
  <2>4. Queries \subseteq Queries' /\ (GetsQueried(d, state) => d \in Queries')
    BY <2>1 DEF state
  <2>5. Queried(d)'
    BY <2>3, <2>4 DEF QueriedInv, Queried, GetsQueried, Changes
  <2>6. ASSUME NEW x \in Ids, x # d  PROVE Queried(x)'
    BY <2>2, <2>4, <2>6 DEF QueriedInv, Queried
  <2> QED
    BY <2>2, <2>5, <2>6 DEF QueriedInv
<1>4. CASE M_AddDevices
  <2>1. /\ Ids \subseteq Ids' /\ \A x \in Ids : devices'[x] = devices[x]
        /\ Queries' = Queries \cup {x \in Ids' \ Ids : devices'[x].state = ONLINE}
    BY <1>4, AddEffect DEF Queries
  <2> QED
    BY <2>1 DEF QueriedInv, Queried
<1>5. CASE M_NotifyDisconnected \/ M_NotifyChanged \/ M_NotifyConnected \/ \E d \in tasks : T_Notify(d)
  <2>1. Queries' = Queries
    BY <1>1, <1>5 DEF M_NotifyDisconnected, M_NotifyChanged, M_NotifyConnected, T_Notify,
       Queries, MonitorType
  <2>2. PICK d \in Ids :
           /\ Ids' = Ids /\ \A x \in Ids : x # d => devices'[x] = devices[x]
           /\ \/ devices'[d] = [devices[d] EXCEPT !.toldState = devices[d].state]
              \/ \E event \in {"connected", "gone"} :
                   devices'[d] = [devices[d] EXCEPT !.told = event, !.toldState = devices[d].state]
    BY <1>5, GoneEffect, ChangedEffect, ConnectedEffect, TaskEffect
  <2>3. devices'[d].state = devices[d].state /\ devices'[d].props = devices[d].props
            /\ devices'[d].failed = devices[d].failed
    BY <1>1, <2>2 DEF DeviceType
  <2> QED
    BY <2>1, <2>2, <2>3 DEF QueriedInv, Queried
<1>6. CASE M_Query
  <2>1. PICK d \in Ids, props \in {"none", "some", "all"}, failed \in BOOLEAN :
           /\ props = "all" \/ failed
           /\ Ids' = Ids
           /\ devices'[d] = [devices[d] EXCEPT !.props = props, !.failed = failed]
           /\ \A x \in Ids : x # d => devices'[x] = devices[x]
           /\ m' = [m EXCEPT !.queries = Tail(m.queries)]
           /\ Queries = ToSet(Tail(m.queries)) \cup {d}
    BY <1>6, QueryEffect DEF Queries
  <2>2. Queries' = ToSet(Tail(m.queries))
    BY <1>1, <2>1 DEF Queries, MonitorType
  <2>3. devices'[d].props = props /\ devices'[d].failed = failed
    BY <1>1, <2>1 DEF DeviceType
  <2>4. Queried(d)'
    BY <2>1, <2>3 DEF Queried
  <2>5. ASSUME NEW x \in Ids, x # d  PROVE Queried(x)'
    BY <2>1, <2>2, <2>5 DEF QueriedInv, Queried
  <2> QED
    BY <2>1, <2>4, <2>5 DEF QueriedInv
<1>7. CASE M_RemoveDevice \/ S_Joined \/ M_Drain
  <2>1. devices' = devices /\ Queries' = Queries
    BY <1>1, <1>7 DEF M_RemoveDevice, S_Joined, M_Drain, Queries, MonitorType
  <2> QED
    BY <2>1 DEF QueriedInv, Queried, Ids
<1>8. CASE M_NoThreadAvailable
  <2>1. devices' = devices /\ Queries = {}
    BY <1>8, EmptyFacts DEF M_NoThreadAvailable, PlaceInv, Idle, Queries
  <2> QED
    BY <2>1 DEF QueriedInv, Queried, Ids
<1> QED
  BY <1>2, <1>3, <1>4, <1>5, <1>6, <1>7, <1>8
  DEF Next, Monitor, Stopper, Adb, AdbAnswers, CalmStep

(* OnlineQueried: a device that got online was queried, although it may    *)
(* connect, go offline and come back while others come and go.             *)
THEOREM AllOnlineQueried == Spec => []OnlineQueried
<1>1. Init => QueriedInv
  BY DEF Init, QueriedInv, Ids
<1>2. Base /\ QueriedInv /\ [Next]_vars => QueriedInv'
  BY QueriedStep DEF Base
<1>3. Base /\ QueriedInv => OnlineQueried
  <2> SUFFICES ASSUME Base, QueriedInv, m.pc = "top", NEW d \in Listed, devices[d].state = ONLINE
               PROVE  devices[d].props # "none" \/ devices[d].failed
    BY DEF OnlineQueried
  <2>1. Queries = {}
    BY EmptyFacts DEF Base, PlaceInv, Idle, Queries
  <2>2. d \in Ids
    BY SetFacts DEF Base
  <2> QED
    BY <2>1, <2>2 DEF QueriedInv, Queried
<1> QED
  BY <1>1, <1>2, <1>3, BaseInvariant, PTL DEF Spec

(***************************************************************************)
(* Lists, and the merge.                                                   *)
(***************************************************************************)

(* No two entries of a list have the same serial number.                   *)
Unique(l) == \A i, j \in DOMAIN l : l[i].serial = l[j].serial => i = j

(* adb never lists a serial number twice.                                  *)
SerialsUnique == \A l \in AdbLists : Unique(l)

(* What a step does to the messages that wait to be read.                  *)
LEMMA InboxFlow ==
  ASSUME [Next]_vars
  PROVE  \/ inbox' = inbox
         \/ inbox # <<>> /\ inbox' = Tail(inbox)
         \/ inbox' = <<>>
         \/ inbox' = inbox \o <<Okay, ListOf(adb.list)>>
         \/ inbox' = Append(inbox, Fail)
         \/ \E l \in AdbLists : inbox' = Append(inbox, ListOf(l))
<1>1. CASE HandleException \/ S_Stop \/ S_Joined
  BY <1>1 DEF HandleException, S_Stop, S_Joined
<1>2. CASE M_Request \/ M_ReadError
  BY <1>1, <1>2 DEF M_Request, M_ReadError, connVars
<1>3. CASE M_Reply \/ M_Diag \/ M_ReadList
  BY <1>3 DEF M_Reply, M_Diag, M_ReadList
<1>4. CASE AdbAccept \/ AdbRefuse \/ \E l \in AdbLists : AdbChange(l)
  BY <1>4 DEF AdbAccept, AdbRefuse, AdbChange
<1>5. CASE M_Connect \/ M_ConnectFails \/ M_StartAdb \/ M_ReplyTimeout \/ M_Spin
          \/ M_ReplyClosed \/ M_ReadTimeout
           \/ M_LockDevices \/ M_ListDone \/ M_LockToDrain \/ M_DrainOutOfRange \/ M_Crashed \/ M_Drained
           \/ AdbSecondRequest \/ AdbDie \/ AdbStart \/ UNCHANGED vars
           \/ M_UpdateDevice \/ M_RemoveDevice \/ M_AddDevices \/ M_NotifyDisconnected \/ M_NotifyChanged
           \/ M_NotifyConnected \/ M_Query \/ M_Drain \/ M_NoThreadAvailable
                  \/ \E d \in tasks : T_Notify(d)
  BY <1>5 DEF M_Connect, M_ConnectFails, M_StartAdb, M_ReplyTimeout, M_Spin, M_ReplyClosed,
     M_ReadTimeout,
     M_LockDevices, M_ListDone, M_LockToDrain, M_DrainOutOfRange, M_Crashed, M_Drained,
     AdbSecondRequest, AdbDie, AdbStart, vars, connVars,
     M_UpdateDevice, M_RemoveDevice, M_AddDevices, M_NotifyDisconnected, M_NotifyChanged,
     M_NotifyConnected, M_Query, M_Drain, M_NoThreadAvailable, T_Notify
<1> QED
  BY <1>1, <1>2, <1>3, <1>4, <1>5 DEF Next, Monitor, Stopper, Adb, AdbAnswers

(* adb's list changes only when its devices change.                        *)
LEMMA AdbListFlow ==
  ASSUME Typed, [Next]_vars
  PROVE  adb'.list = adb.list \/ \E l \in AdbLists : AdbChange(l) /\ adb'.list = l
<1>1. adb \in AdbType
  BY AdbFacts
<1>2. NoRequest.list = adb.list /\ [NoRequest EXCEPT !.up = FALSE].list = adb.list
  BY <1>1 DEF NoRequest, AdbType
<1>3. CASE HandleException \/ S_Stop \/ S_Joined
  BY <1>2, <1>3 DEF HandleException, S_Stop, S_Joined
<1>4. CASE M_Request \/ M_ReadError
  BY <1>1, <1>3, <1>4 DEF M_Request, M_ReadError, connVars, AdbType
<1>5. CASE M_StartAdb \/ AdbStart \/ AdbDie \/ AdbRefuse \/ AdbAccept \/ AdbSecondRequest
  BY <1>1, <1>2, <1>5 DEF M_StartAdb, AdbStart, AdbDie, AdbRefuse, AdbAccept, AdbSecondRequest,
     AdbType
<1>6. CASE \E l \in AdbLists : AdbChange(l)
  BY <1>1, <1>6 DEF AdbChange, AdbType
<1>7. CASE M_Connect \/ M_ConnectFails \/ M_Reply \/ M_Diag \/ M_ReadList \/ M_ReplyTimeout
          \/ M_Spin \/ M_ReplyClosed
           \/ M_ReadTimeout \/ UNCHANGED vars
           \/ M_LockDevices \/ M_ListDone \/ M_LockToDrain \/ M_DrainOutOfRange \/ M_Crashed \/ M_Drained
           \/ M_UpdateDevice \/ M_RemoveDevice \/ M_AddDevices \/ M_NotifyDisconnected \/ M_NotifyChanged
           \/ M_NotifyConnected \/ M_Query \/ M_Drain \/ M_NoThreadAvailable
                  \/ \E d \in tasks : T_Notify(d)
  BY <1>7 DEF M_Connect, M_ConnectFails, M_Reply, M_Diag, M_ReadList, M_ReplyTimeout, M_Spin,
     M_ReplyClosed, M_ReadTimeout,
     M_LockDevices, M_ListDone, M_LockToDrain, M_DrainOutOfRange, M_Crashed, M_Drained, vars,
     connVars,
     M_UpdateDevice, M_RemoveDevice, M_AddDevices, M_NotifyDisconnected, M_NotifyChanged,
     M_NotifyConnected, M_Query, M_Drain, M_NoThreadAvailable, T_Notify
<1> QED
  BY <1>3, <1>4, <1>5, <1>6, <1>7 DEF Next, Monitor, Stopper, Adb, AdbAnswers

(* The list that the monitor thread merges is one it received.             *)
LEMMA MonitorListFlow ==
  ASSUME Typed, [Next]_vars
  PROVE  \/ m'.list = m.list
         \/ m'.list = <<>>
         \/ M_ReadList /\ inbox # <<>> /\ Head(inbox).kind = "list" /\ m'.list = Head(inbox).list
<1>1. m \in MonitorType
  BY DEF Typed
<1>2. \A pc : MonitorAt(pc).list = <<>>
  BY AtFacts
<1>3. CASE HandleException \/ EndIteration
  BY <1>2, <1>3 DEF HandleException, EndIteration
<1>4. CASE M_Request \/ M_ReadError
  BY <1>2, <1>3, <1>4 DEF M_Request, M_ReadError
<1>5. CASE M_ReadList
  BY <1>3, <1>5, ReadFacts DEF M_ReadList
<1>6. CASE M_Connect \/ M_ConnectFails \/ M_StartAdb \/ M_Reply \/ M_Diag \/ M_ReplyTimeout
          \/ M_Spin \/ M_ReplyClosed
           \/ M_ReadTimeout \/ UNCHANGED vars
  BY <1>2, <1>3, <1>6 DEF M_Connect, M_ConnectFails, M_StartAdb, M_Reply, M_Diag,
     M_ReplyTimeout, M_Spin,
     M_ReplyClosed, M_ReadTimeout, vars
<1>7. CASE M_LockDevices \/ M_ListDone \/ M_LockToDrain \/ M_DrainOutOfRange \/ M_Crashed \/ M_Drained
  BY <1>1, <1>2, <1>3, <1>7 DEF M_LockDevices, M_ListDone, M_LockToDrain, M_DrainOutOfRange,
     M_Crashed, M_Drained,
     vars, MonitorType
<1>8. CASE M_UpdateDevice \/ M_RemoveDevice \/ M_AddDevices \/ M_Drain \/ M_NoThreadAvailable
  BY <1>1, <1>2, <1>8 DEF M_UpdateDevice, M_RemoveDevice, M_AddDevices, M_Drain,
     M_NoThreadAvailable, MonitorType
<1>9. CASE M_NotifyDisconnected \/ M_NotifyChanged \/ M_NotifyConnected \/ M_Query
  BY <1>1, <1>9 DEF M_NotifyDisconnected, M_NotifyChanged, M_NotifyConnected, M_Query, MonitorType
<1>10. CASE Stopper \/ Adb \/ \E d \in tasks : T_Notify(d)
  BY <1>10 DEF Stopper, S_Stop, S_Joined, Adb, AdbAnswers, AdbAccept, AdbRefuse,
     AdbSecondRequest, AdbChange, AdbDie,
     AdbStart, T_Notify
<1> QED
  BY <1>4, <1>5, <1>6, <1>7, <1>8, <1>9, <1>10 DEF Next, Monitor

(* Wherever a list is, with adb, on the wire or in the merge, its serial   *)
(* numbers are unique.                                                     *)
ListsInv ==
  /\ Unique(adb.list) /\ Unique(m.list)
  /\ \A msg \in ToSet(inbox) : msg.kind = "list" => Unique(msg.list)

(* Every step keeps ListsInv.                                              *)
LEMMA ListsStep ==
  ASSUME SerialsUnique, Typed, ListsInv, [Next]_vars
  PROVE  ListsInv'
<1>1. inbox \in Seq(Message) /\ adb.list \in Seq(Entry)
  BY AdbFacts
<1>2. Unique(adb.list)'
  BY AdbListFlow DEF SerialsUnique, ListsInv, Unique
<1>3. Unique(m.list)'
  <2>1. Unique(<<>>)
    BY DEF Unique
  <2>2. inbox # <<>> => Head(inbox) \in ToSet(inbox)
    BY <1>1, TailLemma
  <2> QED
    BY <2>1, <2>2, MonitorListFlow DEF ListsInv, Unique
<1>4. \A l \in AdbLists : l \in Seq(Entry)
  BY MonitorAssumption DEF Entry
<1> DEFINE Good(msg) == msg.kind = "list" => Unique(msg.list)
<1>5. Good(Okay) /\ Good(Fail) /\ Good(ListOf(adb.list)) /\ \A l \in AdbLists : Good(ListOf(l))
  BY DEF Okay, Fail, ListOf, ListsInv, SerialsUnique
<1>6. \A msg \in ToSet(inbox) : Good(msg)
  BY DEF ListsInv
<1> HIDE DEF Good
<1>7. \A msg \in ToSet(inbox') : Good(msg)
  <2>1. CASE inbox' = inbox \/ inbox' = <<>>
    BY <1>6, <2>1, EmptyFacts
  <2>2. CASE inbox # <<>> /\ inbox' = Tail(inbox)
    BY <1>1, <1>6, <2>2, TailLemma
  <2>3. CASE inbox' = inbox \o <<Okay, ListOf(adb.list)>>
    <3> DEFINE pair == <<Okay, ListOf(adb.list)>>
    <3>1. pair \in Seq(Message)
      BY <1>1, InboxLemma
    <3>2. ToSet(pair) = {Okay, ListOf(adb.list)}
      <4>1. DOMAIN pair = {1, 2} /\ pair[1] = Okay /\ pair[2] = ListOf(adb.list)
        OBVIOUS
      <4> HIDE DEF pair
      <4> QED
        BY <4>1 DEF ToSet
    <3> HIDE DEF pair
    <3>3. ToSet(inbox \o pair) = ToSet(inbox) \cup ToSet(pair)
      BY <1>1, <3>1, ConcatLemma
    <3> QED
      BY <1>5, <1>6, <2>3, <3>2, <3>3 DEF pair
  <2>4. ASSUME NEW msg \in Message, inbox' = Append(inbox, msg), Good(msg)
        PROVE  \A x \in ToSet(inbox') : Good(x)
    <3>1. ToSet(inbox') = ToSet(inbox) \cup {msg}
      BY <1>1, <2>4, AppendLemma
    <3> QED
      BY <1>6, <2>4, <3>1
  <2>5. Fail \in Message /\ \A l \in AdbLists : ListOf(l) \in Message
    BY <1>4, InboxLemma
  <2> QED
    BY <1>5, <2>1, <2>2, <2>3, <2>4, <2>5, InboxFlow
<1> QED
  BY <1>2, <1>3, <1>7 DEF ListsInv, Good

(* A concatenation repeats nothing if its parts have nothing in common.    *)
LEMMA ConcatDistinct ==
  ASSUME NEW T, NEW s \in Seq(T), NEW t \in Seq(T), Distinct(s), Distinct(t), ToSet(s) \cap ToSet(t) = {}
  PROVE  Distinct(s \o t)
<1>1. /\ Len(s) \in Nat /\ Len(t) \in Nat /\ Len(s \o t) = Len(s) + Len(t)
      /\ DOMAIN s = 1..Len(s) /\ DOMAIN t = 1..Len(t)
      /\ \A i \in 1..(Len(s) + Len(t)) :
           (s \o t)[i] = IF i <= Len(s) THEN s[i] ELSE t[i - Len(s)]
  OBVIOUS
<1>2. \A i \in 1..Len(s), j \in 1..Len(t) : s[i] # t[j]
  BY <1>1 DEF ToSet
<1>3. \A i \in 1..(Len(s) + Len(t)) : i \in 1..Len(s) \/ (~(i <= Len(s)) /\ i - Len(s) \in 1..Len(t))
  BY <1>1
<1> SUFFICES ASSUME NEW i \in 1..(Len(s) + Len(t)), NEW j \in 1..(Len(s) + Len(t)), (s \o t)[i] = (s \o t)[j]
             PROVE  i = j
  BY <1>1 DEF Distinct
<1>4. CASE i \in 1..Len(s) /\ j \in 1..Len(s)
  <2>1. (s \o t)[i] = s[i] /\ (s \o t)[j] = s[j]
    BY <1>1, <1>4
  <2> QED
    BY <1>4, <2>1 DEF Distinct
<1>5. CASE ~(i <= Len(s)) /\ i - Len(s) \in 1..Len(t) /\ ~(j <= Len(s)) /\ j - Len(s) \in 1..Len(t)
  <2>1. (s \o t)[i] = t[i - Len(s)] /\ (s \o t)[j] = t[j - Len(s)]
    BY <1>1, <1>5
  <2>2. i - Len(s) = j - Len(s)
    BY <1>5, <2>1 DEF Distinct
  <2> QED
    BY <1>1, <2>2
<1>6. CASE i \in 1..Len(s) /\ ~(j <= Len(s)) /\ j - Len(s) \in 1..Len(t)
  <2>1. (s \o t)[i] = s[i] /\ (s \o t)[j] = t[j - Len(s)]
    BY <1>1, <1>6
  <2> QED
    BY <1>2, <1>6, <2>1
<1>7. CASE j \in 1..Len(s) /\ ~(i <= Len(s)) /\ i - Len(s) \in 1..Len(t)
  <2>1. (s \o t)[j] = s[j] /\ (s \o t)[i] = t[i - Len(s)]
    BY <1>1, <1>7
  <2> QED
    BY <1>2, <1>7, <2>1
<1> QED
  BY <1>3, <1>4, <1>5, <1>6, <1>7

(* The entry of a list that a device would match as it is.                 *)
EntryOf(d) == [serial |-> Serial(d), state |-> devices[d].state]

(* Serial numbers are unique in the list of devices.  In a merge, every    *)
(* device that was looked at and kept is like an entry that is used, and   *)
(* every entry used is that of a device kept.                              *)
MergeInv ==
  /\ Distinct(mDevices)
  /\ \A d, e \in Listed : Serial(d) = Serial(e) => d = e
  /\ m.pc = "merge" =>
       /\ \A d \in Listed \cap m.old : \E i \in m.used \cap DOMAIN m.list : m.list[i] = EntryOf(d)
       /\ \A i \in m.used : /\ i \in DOMAIN m.list
                            /\ \E d \in Listed \cap m.old : m.list[i].serial = Serial(d)

(* A merge starts with no device looked at and no entry used.              *)
LEMMA MergeStarts ==
  ASSUME Typed, PlaceInv, CalmStep, m'.pc = "merge"
  PROVE  m' = m \/ (m'.old = {} /\ m'.used = {})
<1>1. m \in MonitorType
  BY DEF Typed
<1>2. CASE M_LockDevices
  BY <1>1, <1>2, AtFacts DEF M_LockDevices, EndIteration, PlaceInv, MonitorType
<1>3. CASE M_LockToDrain
  BY <1>1, <1>3 DEF M_LockToDrain, MonitorType
<1>4. CASE HandleException \/ EndIteration
  BY <1>4, AtFacts DEF HandleException, EndIteration
<1>5. CASE M_ReadList
  BY <1>4, <1>5, ReadFacts DEF M_ReadList
<1>6. CASE CalmStep /\ ~M_LockDevices /\ ~M_LockToDrain /\ ~M_ReadList
  BY <1>4, <1>6, AtFacts DEF CalmStep, M_Connect, M_ConnectFails, M_StartAdb, M_Request,
     M_Reply, M_ReplyTimeout, M_Diag, M_Spin,
     M_ReplyClosed, M_ReadTimeout, M_ReadError, M_ListDone, M_DrainOutOfRange, M_Crashed,
     M_Drained,
     S_Stop, AdbAccept, AdbRefuse, AdbSecondRequest, AdbChange, AdbDie, AdbStart, vars
<1> QED
  BY <1>2, <1>3, <1>5, <1>6

(* A step that leaves the list, the states and the merge alone keeps       *)
(* MergeInv.                                                               *)
LEMMA SameEntries ==
  ASSUME Typed, MergeInv, Ids' = Ids, \A x \in Ids : EntryOf(x)' = EntryOf(x) /\ Serial(x)' = Serial(x),
         UNCHANGED <<mDevices, m.pc, m.list, m.old, m.used>>
  PROVE  MergeInv'
<1>1. Listed' = Listed /\ Listed \subseteq Ids
  BY SetFacts DEF Listed
<1> QED
  BY <1>1 DEF MergeInv

(* Every step keeps MergeInv.                                              *)
LEMMA MergeStep ==
  ASSUME SerialsUnique, Typed, PlaceInv, ListsInv, MergeInv, [Next]_vars
  PROVE  MergeInv'
<1>1. m \in MonitorType /\ m.list \in Seq(Entry) /\ \A x \in Ids : devices[x] \in DeviceType
  BY DeviceFacts DEF Typed, MonitorType
<1>2. CASE CalmStep
  <2>1. UNCHANGED <<devices, mDevices, Listed>>
    BY <1>2, CalmFacts DEF Calm, deviceVars, Listed
  <2>2. CASE m'.pc # "merge"
    BY <2>1, <2>2 DEF MergeInv, Serial
  <2>3. CASE m' = m
    BY <2>1, <2>3 DEF MergeInv, Serial, EntryOf
  <2>4. CASE m'.old = {} /\ m'.used = {}
    BY <2>1, <2>4 DEF MergeInv, Serial
  <2> QED
    BY <1>2, <2>2, <2>3, <2>4, MergeStarts
<1>3. CASE M_UpdateDevice
  <2>1. PICK d \in Ids, i \in DOMAIN m.list :
           /\ d \in Listed /\ d \notin m.old
           /\ i \notin m.used /\ m.list[i] \in Entry /\ m.list[i].serial = Serial(d)
           /\ devices' = [devices EXCEPT ![d].state = m.list[i].state]
           /\ m' = [m EXCEPT !.old = m.old \cup {d}, !.used = m.used \cup {i},
                             !.changed = m'.changed, !.queries = m'.queries]
    BY <1>3, UpdateEffect
  <2>2. /\ m'.old = m.old \cup {d} /\ m'.used = m.used \cup {i} /\ m'.list = m.list
            /\ m'.pc = m.pc /\ m.pc = "merge"
        /\ mDevices' = mDevices /\ Listed' = Listed
    BY <1>1, <1>3, <2>1 DEF MonitorType, M_UpdateDevice, Listed
  <2>3. /\ \A x \in Ids : x # d => devices'[x] = devices[x]
        /\ devices'[d] = [devices[d] EXCEPT !.state = m.list[i].state]
    BY <2>1 DEF Ids
  <2>4. devices'[d].serial = devices[d].serial /\ devices'[d].state = m.list[i].state
    BY <1>1, <2>3 DEF DeviceType
  <2>5. \A x \in Ids : Serial(x)' = Serial(x)
    BY <2>3, <2>4 DEF Serial
  <2>6. \A x \in Ids : x # d => EntryOf(x)' = EntryOf(x)
    BY <2>3, <2>5 DEF EntryOf
  <2>7. m.list[i] = EntryOf(d)'
    BY <2>1, <2>4 DEF Entry, EntryOf, Serial
  <2>8. Listed \subseteq Ids
    BY SetFacts
  <2>9. \A x \in Listed' \cap m'.old : \E j \in m'.used \cap DOMAIN m'.list : m'.list[j] = EntryOf(x)'
    <3> TAKE x \in Listed' \cap m'.old
    <3>1. CASE x = d
      BY <2>2, <2>7, <3>1
    <3>2. CASE x # d
      BY <2>2, <2>6, <2>8, <3>2 DEF MergeInv
    <3> QED
      BY <3>1, <3>2
  <2>10. \A j \in m'.used : /\ j \in DOMAIN m'.list
                            /\ \E x \in Listed' \cap m'.old : m'.list[j].serial = Serial(x)'
    <3> TAKE j \in m'.used
    <3>1. CASE j = i
      BY <2>1, <2>2, <2>5, <3>1
    <3>2. CASE j # i
      <4>1. j \in DOMAIN m.list /\ \E x \in Listed \cap m.old : m.list[j].serial = Serial(x)
        BY <2>2, <3>2 DEF MergeInv
      <4> QED
        BY <2>2, <2>5, <2>8, <4>1
    <3> QED
      BY <3>1, <3>2
  <2>11. \A x, y \in Listed' : Serial(x)' = Serial(y)' => x = y
    BY <2>2, <2>5, <2>8 DEF MergeInv
  <2> QED
    BY <2>2, <2>9, <2>10, <2>11 DEF MergeInv
<1>4. CASE M_RemoveDevice
  <2>1. PICK d \in Ids :
           /\ d \in Listed /\ d \notin m.old
           /\ Listed' = {e \in Listed : Serial(e) # Serial(d)}
                  /\ (Distinct(mDevices) => Distinct(mDevices'))
           /\ m' = [m EXCEPT !.old = m.old \cup {d}, !.gone = m'.gone]
    BY <1>4, RemoveEffect
  <2>2. /\ m'.old = m.old \cup {d} /\ m'.used = m.used /\ m'.list = m.list /\ m'.pc = m.pc
            /\ m.pc = "merge"
        /\ devices' = devices
    BY <1>1, <1>4, <2>1 DEF MonitorType, M_RemoveDevice
  <2>5. Listed' = Listed \ {d}
    BY <2>1 DEF MergeInv
  <2>3. Listed' \cap m'.old = Listed \cap m.old
    BY <2>1, <2>2, <2>5
  <2>4. \A x : EntryOf(x)' = EntryOf(x) /\ Serial(x)' = Serial(x)
    BY <2>2 DEF EntryOf, Serial
  <2> QED
    BY <2>1, <2>2, <2>3, <2>4 DEF MergeInv
<1>5. CASE M_AddDevices
  <2>1. /\ Ids \subseteq Ids' /\ \A x \in Ids : devices'[x] = devices[x]
        /\ \A k \in 1..Len(Leftover) : devices'[Len(devices) + k] = NewDevice(m.list[Leftover[k]])
        /\ \A x \in Ids' \ Ids : \E k \in 1..Len(Leftover) : x = Len(devices) + k
        /\ NewIds \in Seq(Ids') /\ Distinct(NewIds) /\ ToSet(NewIds) = Ids' \ Ids
        /\ mDevices' = mDevices \o NewIds
        /\ Listed' = Listed \cup (Ids' \ Ids)
        /\ m' = [m EXCEPT !.pc = "notify", !.connected = NewIds, !.queries = m'.queries]
    BY <1>5, AddEffect
  <2>2. m'.pc = "notify"
    BY <1>1, <2>1 DEF MonitorType
  <2>3. Listed \subseteq Ids /\ mDevices \in Seq(Ids) /\ mDevices \in Seq(Ids')
    BY <2>1, SetFacts DEF Typed, DevicesOK
  <2>4. Distinct(mDevices')
    BY <2>1, <2>3, ConcatDistinct DEF MergeInv, Listed
  <2>5. Listed \subseteq m.old /\ m.pc = "merge"
    BY <1>5, <2>3 DEF M_AddDevices, Unprocessed, Listed, ToSet
  <2>6. \A k \in 1..Len(Leftover) : Leftover[k] \in DOMAIN m.list /\ Leftover[k] \notin m.used
    <3>1. Leftover \in Seq(DOMAIN m.list) /\ ToSet(Leftover) = DOMAIN m.list \ m.used
      BY LeftoverLemma
    <3> QED
      BY <3>1 DEF ToSet
  <2>7. \A k \in 1..Len(Leftover) : devices'[Len(devices) + k].serial = m.list[Leftover[k]].serial
    <3> TAKE k \in 1..Len(Leftover)
    <3>1. devices'[Len(devices) + k] = NewDevice(m.list[Leftover[k]])
      BY <2>1
    <3> QED
      BY <3>1 DEF NewDevice
  <2>8. \A x \in Listed : Serial(x)' = Serial(x)
    BY <2>1, <2>3 DEF Serial
  <2>9. ASSUME NEW x \in Listed, NEW y \in Ids' \ Ids  PROVE Serial(x)' # Serial(y)'
    <3>1. PICK i \in m.used \cap DOMAIN m.list : m.list[i] = EntryOf(x)
      BY <2>5 DEF MergeInv
    <3>2. PICK k \in 1..Len(Leftover) : y = Len(devices) + k
      BY <2>1
    <3>3. m.list[i].serial = Serial(x)
      BY <3>1 DEF EntryOf
    <3>4. Serial(y)' = m.list[Leftover[k]].serial
      BY <2>7, <3>2 DEF Serial
    <3>5. Leftover[k] \in DOMAIN m.list /\ Leftover[k] # i
      BY <2>6, <3>1
    <3>6. m.list[i].serial # m.list[Leftover[k]].serial
      BY <3>1, <3>5 DEF ListsInv, Unique
    <3> QED
      BY <2>8, <3>3, <3>4, <3>6
  <2>10. ASSUME NEW x \in Ids' \ Ids, NEW y \in Ids' \ Ids, Serial(x)' = Serial(y)'  PROVE x = y
    <3>1. PICK k \in 1..Len(Leftover) : x = Len(devices) + k
      BY <2>1
    <3>2. PICK l \in 1..Len(Leftover) : y = Len(devices) + l
      BY <2>1
    <3>3. Leftover[k] = Leftover[l]
      <4>1. Serial(x)' = m.list[Leftover[k]].serial /\ Serial(y)' = m.list[Leftover[l]].serial
        BY <2>7, <3>1, <3>2 DEF Serial
      <4>2. Leftover[k] \in DOMAIN m.list /\ Leftover[l] \in DOMAIN m.list
        BY <2>6
      <4> QED
        BY <2>10, <4>1, <4>2 DEF ListsInv, Unique
    <3>4. k = l
      BY <3>3, LeftoverLemma DEF Distinct
    <3> QED
      BY <3>1, <3>2, <3>4
  <2>11. \A x, y \in Listed' : Serial(x)' = Serial(y)' => x = y
    BY <2>1, <2>8, <2>9, <2>10 DEF MergeInv
  <2> QED
    BY <2>2, <2>4, <2>11 DEF MergeInv
<1>6. CASE M_NotifyDisconnected \/ M_NotifyChanged \/ M_NotifyConnected \/ M_Query
          \/ \E d \in tasks : T_Notify(d)
  <2>1. UNCHANGED <<mDevices, m.pc, m.list, m.old, m.used>>
    BY <1>1, <1>6 DEF M_NotifyDisconnected, M_NotifyChanged, M_NotifyConnected, M_Query,
       T_Notify, MonitorType
  <2>2. PICK d \in Ids :
           /\ Ids' = Ids /\ \A x \in Ids : x # d => devices'[x] = devices[x]
           /\ \/ devices'[d] = [devices[d] EXCEPT !.toldState = devices[d].state]
              \/ \E event \in {"connected", "gone"} :
                   devices'[d] = [devices[d] EXCEPT !.told = event, !.toldState = devices[d].state]
              \/ \E props \in {"none", "some", "all"}, failed \in BOOLEAN :
                   devices'[d] = [devices[d] EXCEPT !.props = props, !.failed = failed]
    <3>1. CASE M_Query
      BY <3>1, QueryEffect
    <3> QED
      BY <1>6, <3>1, GoneEffect, ChangedEffect, ConnectedEffect, TaskEffect
  <2>3. devices'[d].state = devices[d].state /\ devices'[d].serial = devices[d].serial
    BY <1>1, <2>2 DEF DeviceType
  <2>4. \A x \in Ids : EntryOf(x)' = EntryOf(x) /\ Serial(x)' = Serial(x)
    BY <2>2, <2>3 DEF EntryOf, Serial
  <2> QED
    BY <2>1, <2>2, <2>4, SameEntries
<1>7. CASE M_Drain \/ M_NoThreadAvailable
  <2>1. PICK d \in Ids :
           /\ Listed' = {e \in Listed : Serial(e) # Serial(d)}
                  /\ (Distinct(mDevices) => Distinct(mDevices'))
           /\ devices' = devices
           /\ \/ m' = [m EXCEPT !.n = m.n - 1]
              \/ m' = MonitorAt("exited")
    BY <1>7, DrainEffect
  <2>2. m.pc = "drain"
    BY <1>7 DEF M_Drain, M_NoThreadAvailable
  <2>3. m'.pc # "merge"
    BY <1>1, <2>1, <2>2, AtFacts DEF MonitorType
  <2> QED
    BY <2>1, <2>3 DEF MergeInv, Serial
<1>8. CASE S_Joined
  <2>1. mDevices' = <<>> /\ Listed' = {} /\ m'.pc # "merge"
    BY <1>8, EmptyFacts DEF S_Joined, Listed
  <2> QED
    BY <2>1, EmptyFacts DEF MergeInv
<1> QED
  BY <1>2, <1>3, <1>4, <1>5, <1>6, <1>7, <1>8
  DEF Next, Monitor, Stopper, Adb, AdbAnswers, CalmStep

-----------------------------------------------------------------------------
(***************************************************************************)
(* The listeners.                                                          *)
(***************************************************************************)

(* A monitor thread that ended takes no step.                              *)
LEMMA ExitedStays ==
  ASSUME [Next]_vars, m.pc = "exited"
  PROVE  m' = m
BY DEF Next, Monitor, Stopper, Adb, AdbAnswers, M_Connect, M_ConnectFails, M_StartAdb,
   M_Request, M_Reply,
   M_ReplyTimeout, M_Diag, M_Spin, M_ReplyClosed, M_ReadList, M_ReadTimeout, M_ReadError,
   M_LockDevices, M_LockToDrain,
   M_DrainOutOfRange, M_ListDone, M_Crashed, M_Drained, S_Stop, S_Joined, AdbAccept, AdbRefuse,
   AdbSecondRequest,
   AdbChange, AdbDie, AdbStart, vars, Reading, Spinning, M_UpdateDevice, M_RemoveDevice,
   M_AddDevices,
   M_NotifyDisconnected, M_NotifyChanged, M_NotifyConnected, M_Query, M_Drain,
   M_NoThreadAvailable, T_Notify

(* What the listeners do not know yet is queued: while the monitor thread  *)
(* runs, a device told connected is listed, or its disconnection is queued *)
(* or with a task; and a device never told is queued as new, and listed.   *)
ToldInv ==
  m.pc # "exited" =>
    /\ \A d \in Ids : devices[d].told = "connected" => d \in Listed \cup Gone \cup tasks
    /\ \A d \in Ids : devices[d].told = "unseen" => d \in New
    /\ New \subseteq Listed

(* A listed device whose state the listeners do not know is queued as      *)
(* changed.                                                                *)
StateInv == \A d \in Listed : devices[d].toldState = devices[d].state \/ d \in Changed

(* A step that tells nothing and drops no device that is not queued keeps  *)
(* ToldInv.                                                                *)
LEMMA SameTold ==
  ASSUME ToldInv, m.pc # "exited", Ids' = Ids, \A x \in Ids : devices'[x].told = devices[x].told,
         Listed \cup Gone \cup tasks \subseteq (Listed \cup Gone \cup tasks)', New' = New, New' \subseteq Listed'
  PROVE  ToldInv'
BY DEF ToldInv

(* Every step keeps ToldInv.                                               *)
LEMMA ToldStep ==
  ASSUME Typed, PlaceInv, EventInv, MergeInv, ToldInv, [Next]_vars
  PROVE  ToldInv'
<1> SUFFICES ASSUME m'.pc # "exited"  PROVE ToldInv'
  BY DEF ToldInv
<1>0. m.pc # "exited" /\ New \subseteq Listed
  BY ExitedStays DEF ToldInv
<1>1. m \in MonitorType
  BY DEF Typed
<1>2. CASE CalmStep
  <2>1. Calm /\ (m' = m \/ Idle(m))
    BY <1>2, CalmFacts
  <2>2. UNCHANGED <<Gone, New, Listed, tasks, devices, Ids>>
    BY <2>1 DEF Calm, deviceVars, Gone, New, Listed, Ids
  <2> QED
    BY <1>0, <2>2 DEF ToldInv
<1>3. CASE M_UpdateDevice
  <2>1. PICK d \in Ids, i \in DOMAIN m.list :
           /\ devices' = [devices EXCEPT ![d].state = m.list[i].state]
           /\ m' = [m EXCEPT !.old = m.old \cup {d}, !.used = m.used \cup {i},
                             !.changed = m'.changed, !.queries = m'.queries]
    BY <1>3, UpdateEffect
  <2>2. /\ Gone' = Gone /\ New' = New /\ Listed' = Listed /\ tasks' = tasks
    BY <1>1, <1>3, <2>1 DEF MonitorType, Gone, New, Listed, M_UpdateDevice, otherVars
  <2>3. Ids' = Ids /\ \A x \in Ids : devices'[x].told = devices[x].told
    <3>1. \A x \in Ids : devices[x] \in DeviceType
      BY DeviceFacts
    <3> QED
      BY <2>1, <3>1 DEF DeviceType, Ids
  <2> QED
    BY <1>0, <2>2, <2>3, SameTold
<1>4. CASE M_RemoveDevice
  <2>1. PICK d \in Ids :
           /\ d \in Listed
           /\ Listed' = {e \in Listed : Serial(e) # Serial(d)}
           /\ m' = [m EXCEPT !.old = m.old \cup {d}, !.gone = m'.gone]
           /\ Gone' = Gone \cup {d}
    BY <1>4, RemoveEffect DEF Gone
  <2>2. New' = New /\ devices' = devices /\ tasks' = tasks /\ Ids' = Ids
    BY <1>1, <1>4, <2>1 DEF MonitorType, New, M_RemoveDevice, otherVars, Ids
  <2>3. New = {}
    BY <1>4, EmptyFacts DEF M_RemoveDevice, PlaceInv, New
  <2>4. Listed' = Listed \ {d}
    BY <2>1 DEF MergeInv
  <2>5. Listed \cup Gone \cup tasks \subseteq (Listed \cup Gone \cup tasks)'
    BY <2>1, <2>2, <2>4
  <2> QED
    BY <1>0, <2>2, <2>3, <2>5, SameTold
<1>5. CASE M_AddDevices
  <2>1. /\ Ids \subseteq Ids'
        /\ \A x \in Ids : devices'[x] = devices[x]
        /\ \A x \in Ids' \ Ids : \E i \in DOMAIN m.list \ m.used : devices'[x] = NewDevice(m.list[i])
        /\ ToSet(NewIds) = Ids' \ Ids
        /\ Listed' = Listed \cup (Ids' \ Ids)
        /\ m' = [m EXCEPT !.pc = "notify", !.connected = NewIds, !.queries = m'.queries]
    BY <1>5, AddEffect
  <2>2. Gone' = Gone /\ New' = Ids' \ Ids /\ tasks' = tasks
    BY <1>1, <1>5, <2>1 DEF MonitorType, Gone, New, M_AddDevices, otherVars
  <2>3. New = {}
    BY <1>5, EmptyFacts DEF M_AddDevices, PlaceInv, New
  <2>4. \A x \in Ids' \ Ids : devices'[x].told = "unseen"
    <3> TAKE x \in Ids' \ Ids
    <3>1. PICK i \in DOMAIN m.list : devices'[x] = NewDevice(m.list[i])
      BY <2>1
    <3> QED
      BY <3>1 DEF NewDevice
  <2> QED
    BY <1>0, <2>1, <2>2, <2>3, <2>4 DEF ToldInv
<1>6. CASE M_NotifyDisconnected
  <2>1. PICK d \in Ids :
           /\ Ids' = Ids
           /\ devices'[d] = [devices[d] EXCEPT !.told = "gone", !.toldState = devices[d].state]
           /\ \A x \in Ids : x # d => devices'[x] = devices[x]
           /\ m' = [m EXCEPT !.gone = Tail(m.gone)]
           /\ Gone = ToSet(Tail(m.gone)) \cup {d}
    BY <1>6, GoneEffect DEF Gone
  <2>2. Gone' = ToSet(Tail(m.gone)) /\ New' = New /\ Listed' = Listed /\ tasks' = tasks
    BY <1>1, <1>6, <2>1 DEF MonitorType, Gone, New, Listed, M_NotifyDisconnected, otherVars
  <2>3. devices'[d].told = "gone"
    BY <2>1, DeviceFacts DEF DeviceType
  <2> QED
    BY <1>0, <2>1, <2>2, <2>3 DEF ToldInv
<1>7. CASE M_NotifyChanged \/ M_Query
  <2>1. PICK d \in Ids :
           /\ Ids' = Ids
           /\ \A x \in Ids : x # d => devices'[x] = devices[x]
           /\ devices'[d].told = devices[d].told
           /\ m' = [m EXCEPT !.changed = m'.changed, !.queries = m'.queries]
    <3>1. CASE M_NotifyChanged
      <4>1. PICK d \in Ids :
               /\ Ids' = Ids
               /\ devices'[d] = [devices[d] EXCEPT !.toldState = devices[d].state]
               /\ \A x \in Ids : x # d => devices'[x] = devices[x]
               /\ m' = [m EXCEPT !.changed = Tail(m.changed)]
        BY <3>1, ChangedEffect
      <4>2. devices'[d].told = devices[d].told
        BY <4>1, DeviceFacts DEF DeviceType
      <4>3. m' = [m EXCEPT !.changed = m'.changed, !.queries = m'.queries]
        BY <1>1, <4>1 DEF MonitorType
      <4> QED
        BY <4>1, <4>2, <4>3
    <3>2. CASE M_Query
      <4>1. PICK d \in Ids, props \in {"none", "some", "all"}, failed \in BOOLEAN :
               /\ Ids' = Ids
               /\ devices'[d] = [devices[d] EXCEPT !.props = props, !.failed = failed]
               /\ \A x \in Ids : x # d => devices'[x] = devices[x]
               /\ m' = [m EXCEPT !.queries = Tail(m.queries)]
        BY <3>2, QueryEffect
      <4>2. devices'[d].told = devices[d].told
        BY <4>1, DeviceFacts DEF DeviceType
      <4>3. m' = [m EXCEPT !.changed = m'.changed, !.queries = m'.queries]
        BY <1>1, <4>1 DEF MonitorType
      <4> QED
        BY <4>1, <4>2, <4>3
    <3> QED
      BY <1>7, <3>1, <3>2
  <2>2. Gone' = Gone /\ New' = New /\ Listed' = Listed /\ tasks' = tasks
    BY <1>1, <1>7, <2>1 DEF MonitorType, Gone, New, Listed, M_NotifyChanged, M_Query, otherVars
  <2> QED
    BY <1>0, <2>1, <2>2, SameTold
<1>8. CASE M_NotifyConnected
  <2>1. PICK d \in Ids :
           /\ d \in New /\ Ids' = Ids
           /\ devices'[d] = [devices[d] EXCEPT !.told = "connected", !.toldState = devices[d].state]
           /\ \A x \in Ids : x # d => devices'[x] = devices[x]
           /\ m' = [m EXCEPT !.connected = Tail(m.connected)]
           /\ New = ToSet(Tail(m.connected)) \cup {d}
    BY <1>8, ConnectedEffect DEF New
  <2>2. Gone' = Gone /\ New' = ToSet(Tail(m.connected)) /\ Listed' = Listed /\ tasks' = tasks
    BY <1>1, <1>8, <2>1 DEF MonitorType, Gone, New, Listed, M_NotifyConnected, otherVars
  <2>3. devices'[d].told = "connected"
    BY <2>1, DeviceFacts DEF DeviceType
  <2> QED
    BY <1>0, <2>1, <2>2, <2>3 DEF ToldInv
<1>9. CASE M_Drain \/ M_NoThreadAvailable
  <2>1. PICK d \in Ids :
           /\ d \in Listed /\ Listed' = {e \in Listed : Serial(e) # Serial(d)}
           /\ devices' = devices /\ Ids' = Ids
           /\ \/ tasks' = tasks \cup {d} /\ m' = [m EXCEPT !.n = m.n - 1]
              \/ tasks' = tasks /\ m' = MonitorAt("exited")
    BY <1>9, DrainEffect
  <2>2. tasks' = tasks \cup {d} /\ m' = [m EXCEPT !.n = m.n - 1]
    BY <2>1, AtFacts
  <2>3. Idle(m)
    BY <1>9 DEF PlaceInv, M_Drain, M_NoThreadAvailable
  <2>4. New = {} /\ New' = New /\ Gone' = Gone
    BY <1>1, <2>2, <2>3, EmptyFacts DEF MonitorType, Idle, Gone, New
  <2>5. Listed' = Listed \ {d}
    BY <2>1 DEF MergeInv
  <2>6. Listed \cup Gone \cup tasks \subseteq (Listed \cup Gone \cup tasks)'
    BY <2>2, <2>4, <2>5
  <2> QED
    BY <1>0, <2>1, <2>4, <2>6, SameTold
<1>10. CASE \E d \in tasks : T_Notify(d)
  <2>1. PICK d \in tasks : T_Notify(d)
    BY <1>10
  <2>2. /\ d \in Ids /\ Ids' = Ids
        /\ devices'[d] = [devices[d] EXCEPT !.told = "gone", !.toldState = devices[d].state]
        /\ \A x \in Ids : x # d => devices'[x] = devices[x]
        /\ tasks' = tasks \ {d}
        /\ Listed' = Listed /\ Gone' = Gone /\ New' = New
    BY <2>1, TaskEffect DEF Listed, Gone, New
  <2>3. devices'[d].told = "gone"
    BY <2>2, DeviceFacts DEF DeviceType
  <2> QED
    BY <1>0, <2>2, <2>3 DEF ToldInv
<1>11. CASE S_Joined
  BY <1>0, <1>11 DEF S_Joined
<1> QED
  BY <1>2, <1>3, <1>4, <1>5, <1>6, <1>7, <1>8, <1>9, <1>10, <1>11
  DEF Next, Monitor, Stopper, Adb, AdbAnswers, CalmStep

(* A step that changes no state keeps StateInv, whatever it tells.         *)
LEMMA SameStates ==
  ASSUME Typed, StateInv, \A x \in Ids : devices'[x].state = devices[x].state,
         \A x \in Ids : devices'[x].toldState \in {devices[x].toldState, devices[x].state},
         Listed' \subseteq Listed, Changed \subseteq Changed'
  PROVE  StateInv'
BY SetFacts DEF StateInv

(* Every step keeps StateInv.                                              *)
LEMMA StateStep ==
  ASSUME Typed, PlaceInv, EventInv, StateInv, [Next]_vars
  PROVE  StateInv'
<1>1. m \in MonitorType
  BY DEF Typed
<1>2. CASE CalmStep
  <2>1. Calm /\ (m' = m \/ Idle(m))
    BY <1>2, CalmFacts
  <2>2. UNCHANGED <<Changed, Listed, devices>>
    BY <2>1 DEF Calm, deviceVars, Changed, Listed
  <2> QED
    BY <2>2 DEF StateInv
<1>3. CASE M_UpdateDevice
  <2>1. PICK d \in Ids, i \in DOMAIN m.list :
           /\ devices' = [devices EXCEPT ![d].state = m.list[i].state]
           /\ Changed' = Changed \cup (IF Changes(d, m.list[i].state) THEN {d} ELSE {})
    BY <1>3, UpdateEffect DEF Changed
  <2>2. /\ Ids' = Ids /\ \A x \in Ids : x # d => devices'[x] = devices[x]
        /\ devices'[d] = [devices[d] EXCEPT !.state = m.list[i].state]
    BY <2>1 DEF Ids
  <2>3. devices'[d].state = m.list[i].state /\ devices'[d].toldState = devices[d].toldState
    BY <2>2, DeviceFacts DEF DeviceType
  <2>4. Listed' = Listed
    BY <1>3 DEF M_UpdateDevice, Listed
  <2>5. d \in Changed' \/ devices[d].state = m.list[i].state
    BY <2>1 DEF Changes
  <2> QED
    BY <2>1, <2>2, <2>3, <2>4, <2>5, SetFacts DEF StateInv
<1>4. CASE M_RemoveDevice
  <2>1. PICK d \in Ids :
           /\ Listed' = {e \in Listed : Serial(e) # Serial(d)}
           /\ m' = [m EXCEPT !.old = m.old \cup {d}, !.gone = m'.gone]
    BY <1>4, RemoveEffect
  <2>2. Changed' = Changed /\ devices' = devices
    BY <1>1, <1>4, <2>1 DEF MonitorType, Changed, M_RemoveDevice
  <2> QED
    BY <2>1, <2>2, SameStates
<1>5. CASE M_AddDevices
  <2>1. /\ Ids \subseteq Ids'
        /\ \A x \in Ids : devices'[x] = devices[x]
        /\ \A x \in Ids' \ Ids : \E i \in DOMAIN m.list \ m.used : devices'[x] = NewDevice(m.list[i])
        /\ Listed' = Listed \cup (Ids' \ Ids)
        /\ m' = [m EXCEPT !.pc = "notify", !.connected = NewIds, !.queries = m'.queries]
    BY <1>5, AddEffect
  <2>2. Changed' = Changed
    BY <1>1, <2>1 DEF MonitorType, Changed
  <2>3. \A x \in Ids' \ Ids : devices'[x].toldState = devices'[x].state
    <3> TAKE x \in Ids' \ Ids
    <3>1. PICK i \in DOMAIN m.list : devices'[x] = NewDevice(m.list[i])
      BY <2>1
    <3> QED
      BY <3>1 DEF NewDevice
  <2> QED
    BY <2>1, <2>2, <2>3, SetFacts DEF StateInv
<1>6. CASE M_NotifyChanged
  <2>1. PICK d \in Ids :
           /\ Ids' = Ids
           /\ devices'[d] = [devices[d] EXCEPT !.toldState = devices[d].state]
           /\ \A x \in Ids : x # d => devices'[x] = devices[x]
           /\ m' = [m EXCEPT !.changed = Tail(m.changed)]
           /\ Changed = ToSet(Tail(m.changed)) \cup {d}
    BY <1>6, ChangedEffect DEF Changed
  <2>2. Changed' = ToSet(Tail(m.changed)) /\ Listed' = Listed
    BY <1>1, <1>6, <2>1 DEF MonitorType, Changed, Listed, M_NotifyChanged
  <2>3. devices'[d].toldState = devices'[d].state
    BY <2>1, DeviceFacts DEF DeviceType
  <2> QED
    BY <2>1, <2>2, <2>3, SetFacts DEF StateInv
<1>7. CASE M_NotifyDisconnected \/ M_NotifyConnected \/ M_Query \/ \E d \in tasks : T_Notify(d)
  <2>1. PICK d \in Ids :
           /\ Ids' = Ids
           /\ \A x \in Ids : x # d => devices'[x] = devices[x]
           /\ \/ \E event \in {"connected", "gone"} :
                   devices'[d] = [devices[d] EXCEPT !.told = event, !.toldState = devices[d].state]
              \/ \E props \in {"none", "some", "all"}, failed \in BOOLEAN :
                   devices'[d] = [devices[d] EXCEPT !.props = props, !.failed = failed]
    <3>1. CASE M_Query
      BY <3>1, QueryEffect
    <3> QED
      BY <1>7, <3>1, GoneEffect, ConnectedEffect, TaskEffect
  <2>2. devices'[d].state = devices[d].state
            /\ devices'[d].toldState \in {devices[d].toldState, devices[d].state}
    BY <2>1, DeviceFacts DEF DeviceType
  <2>3. Changed' = Changed /\ Listed' = Listed
    BY <1>1, <1>7 DEF MonitorType, Changed, Listed, M_NotifyDisconnected, M_NotifyConnected,
       M_Query, T_Notify
  <2> QED
    BY <2>1, <2>2, <2>3, SameStates
<1>8. CASE M_Drain \/ M_NoThreadAvailable
  <2>1. PICK d \in Ids :
           /\ Listed' = {e \in Listed : Serial(e) # Serial(d)} /\ devices' = devices
           /\ \/ m' = [m EXCEPT !.n = m.n - 1]
              \/ m' = MonitorAt("exited")
    BY <1>8, DrainEffect
  <2>2. Idle(m)
    BY <1>8 DEF PlaceInv, M_Drain, M_NoThreadAvailable
  <2>3. Changed = {}
    BY <2>2, EmptyFacts DEF Idle, Changed
  <2> QED
    BY <2>1, <2>3, SameStates
<1>9. CASE S_Joined
  <2>1. Listed' = {}
    BY <1>9, EmptyFacts DEF S_Joined, Listed
  <2> QED
    BY <2>1 DEF StateInv
<1> QED
  BY <1>2, <1>3, <1>4, <1>5, <1>6, <1>7, <1>8, <1>9
  DEF Next, Monitor, Stopper, Adb, AdbAnswers, CalmStep

(* The invariant of the merge and of the notifications.                    *)
SyncInv == ListsInv /\ MergeInv /\ ToldInv /\ StateInv

(* It holds initially.                                                     *)
LEMMA SyncInitOK ==
  ASSUME Init
  PROVE  SyncInv
<1>1. Ids = {} /\ Listed = {} /\ New = {} /\ m.pc = "top" /\ m.list = <<>> /\ adb.list = <<>>
          /\ inbox = <<>>
  BY EmptyFacts, AtFacts DEF Init, Ids, Listed, New, Idle
<1> QED
  BY <1>1, EmptyFacts DEF Init, SyncInv, ListsInv, Unique, MergeInv, ToldInv, StateInv

(* ListenersInSync, if adb never lists a serial number twice: when nothing *)
(* is left to tell, the listeners know exactly the devices of the list, in *)
(* their states.  (With a serial number twice, removeDevice drops more     *)
(* devices than the listeners are told of.)                                *)
THEOREM ListenersTold ==
  ASSUME SerialsUnique
  PROVE  Spec => []ListenersInSync
<1> DEFINE Sync == Base /\ SyncInv
<1>1. Init => Sync
  BY InitOK, SyncInitOK DEF Base
<1>2. Sync /\ [Next]_vars => Sync'
  BY TypedStep, WireStep, PlaceStep, EventStep, ListsStep, MergeStep, ToldStep,
     StateStep DEF Base, SyncInv
<1>3. Sync => ListenersInSync
  <2> SUFFICES ASSUME Sync, Quiet, NEW d \in Ids
               PROVE  /\ d \in Listed <=> devices[d].told = "connected"
                      /\ d \in Listed => devices[d].toldState = devices[d].state
    BY DEF ListenersInSync
  <2>1. Idle(m) /\ tasks = {} /\ m.pc = "top"
    BY DEF Quiet, Base, PlaceInv
  <2>2. Gone = {} /\ Changed = {} /\ New = {}
    BY <2>1, EmptyFacts DEF Idle, Gone, Changed, New
  <2> QED
    BY <2>1, <2>2 DEF Base, EventInv, SyncInv, ToldInv, StateInv
<1> QED
  BY <1>1, <1>2, <1>3, PTL DEF Spec

-----------------------------------------------------------------------------
(***************************************************************************)
(* The wire.                                                               *)
(***************************************************************************)

(* A sequence that repeats nothing is no longer than one that holds all it *)
(* holds.                                                                  *)
LEMMA LenLemma ==
  ASSUME NEW T, NEW s \in Seq(T), NEW t \in Seq(T), Distinct(s), ToSet(s) \subseteq ToSet(t)
  PROVE  Len(s) <= Len(t)
<1>1. /\ Len(s) \in Nat /\ Len(t) \in Nat /\ DOMAIN s = 1..Len(s) /\ DOMAIN t = 1..Len(t)
  OBVIOUS
<1>2. CASE Len(s) = 0
  BY <1>1, <1>2
<1>3. CASE Len(s) # 0
  <2> DEFINE index(x) == CHOOSE i \in 1..Len(s) : s[i] = x
             f == [k \in 1..Len(t) |-> IF t[k] \in ToSet(s) THEN index(t[k]) ELSE 1]
  <2>1. \A x \in ToSet(s) : index(x) \in 1..Len(s) /\ s[index(x)] = x
    BY <1>1 DEF ToSet
  <2>2. 1 \in 1..Len(s)
    BY <1>1, <1>3
  <2> HIDE DEF index
  <2>3. f \in [1..Len(t) -> 1..Len(s)]
    BY <2>1, <2>2
  <2>4. \A i \in 1..Len(s) : \E k \in 1..Len(t) : f[k] = i
    <3> TAKE i \in 1..Len(s)
    <3>1. s[i] \in ToSet(s)
      BY <1>1 DEF ToSet
    <3>2. PICK k \in 1..Len(t) : t[k] = s[i]
      BY <1>1, <3>1 DEF ToSet
    <3>3. index(s[i]) = i
      BY <2>1, <3>1 DEF Distinct
    <3>4. f[k] = i
      BY <3>1, <3>2, <3>3
    <3> QED
      BY <3>4
  <2> HIDE DEF f
  <2>5. ExistsSurjection(1..Len(t), 1..Len(s))
    BY <2>3, <2>4 DEF ExistsSurjection, Surjection
  <2>6. Cardinality(1..Len(s)) <= Len(t)
    BY <1>1, <2>5, FS_SurjCardinalityBound
  <2>7. Cardinality(1..Len(s)) = Len(s)
    <3> DEFINE n == Len(s)
    <3>1. 1 \in Int /\ n \in Int /\ n > 0
      BY <1>1, <1>3
    <3> HIDE DEF n
    <3>2. Cardinality(1..n) = IF 1 > n THEN 0 ELSE n - 1 + 1
      BY <3>1, FS_Interval
    <3>3. Cardinality(1..n) = n
      BY <3>1, <3>2
    <3> QED
      BY <3>3 DEF n
  <2> QED
    BY <1>1, <1>3, <2>6, <2>7
<1> QED
  BY <1>2, <1>3

(* Serial numbers are unique: a list of devices is as long as the list of  *)
(* their entries.                                                          *)
LEMMA SameLen ==
  ASSUME NEW I, NEW ids \in Seq(I), Distinct(ids), NEW e,
         \A x, y \in ToSet(ids) : e[x].serial = e[y].serial => x = y,
         NEW l \in Seq(Entry), Unique(l), {e[d] : d \in ToSet(ids)} = ToSet(l)
  PROVE  Len(ids) = Len(l)
<1>1. /\ Len(ids) \in Nat /\ DOMAIN ids = 1..Len(ids) /\ Len(l) \in Nat /\ DOMAIN l = 1..Len(l)
      /\ \A i \in 1..Len(ids) : ids[i] \in ToSet(ids)
      /\ \A i \in 1..Len(l) : l[i] \in ToSet(l)
  BY DEF ToSet
<1>2. Distinct(l)
  BY <1>1 DEF Unique, Distinct
<1> DEFINE T == ToSet(l)
           s == [k \in 1..Len(ids) |-> e[ids[k]]]
<1>3. l \in Seq(T)
  <2>1. l = [i \in 1..Len(l) |-> l[i]]
    OBVIOUS
  <2> QED
    BY <1>1, <2>1
<1>4. s \in Seq(T) /\ Len(s) = Len(ids) /\ DOMAIN s = 1..Len(ids)
          /\ \A k \in 1..Len(ids) : s[k] = e[ids[k]]
  <2>1. \A k \in 1..Len(ids) : e[ids[k]] \in T
    BY <1>1
  <2> QED
    BY <1>1, <2>1
<1> HIDE DEF s
<1>5. ToSet(s) = T
  <2>1. \A x \in ToSet(s) : x \in T
    BY <1>1, <1>4 DEF ToSet
  <2>2. \A x \in T : \E k \in 1..Len(ids) : x = e[ids[k]]
    <3> TAKE x \in T
    <3>1. PICK d \in ToSet(ids) : x = e[d]
      OBVIOUS
    <3>2. PICK k \in 1..Len(ids) : d = ids[k]
      BY <1>1 DEF ToSet
    <3> QED
      BY <3>1, <3>2
  <2>3. \A k \in 1..Len(ids) : e[ids[k]] \in ToSet(s)
    BY <1>4 DEF ToSet
  <2>4. T \subseteq ToSet(s)
    <3> HIDE DEF T
    <3> QED
      BY <2>2, <2>3
  <2> HIDE DEF T
  <2> QED
    BY <2>1, <2>4
<1>6. Distinct(s)
  <2> SUFFICES ASSUME NEW i \in 1..Len(ids), NEW j \in 1..Len(ids), s[i] = s[j]
               PROVE  i = j
    BY <1>4 DEF Distinct
  <2>1. e[ids[i]].serial = e[ids[j]].serial
    BY <1>4
  <2>2. ids[i] = ids[j]
    BY <1>1, <2>1
  <2> QED
    BY <2>2 DEF Distinct
<1>7. Len(s) <= Len(l) /\ Len(l) <= Len(s)
  <2>1. ToSet(l) \subseteq ToSet(s) /\ ToSet(s) \subseteq ToSet(l)
    BY <1>5
  <2>2. s \in Seq(T) /\ l \in Seq(T)
    BY <1>3, <1>4
  <2> HIDE DEF T
  <2> QED
    BY <1>2, <1>6, <2>1, <2>2, LenLemma
<1>8. Len(s) = Len(ids)
  BY <1>4
<1>9. Len(ids) <= Len(l) /\ Len(l) <= Len(ids) /\ Len(ids) \in Nat /\ Len(l) \in Nat
  <2> HIDE DEF T
  <2> QED
    BY <1>1, <1>7, <1>8
<1>10. \A a, b \in Nat : a <= b /\ b <= a => a = b
  OBVIOUS
<1> QED
  BY <1>9, <1>10

(* The list of devices is l, device for device.                            *)
Mirrors(l) ==
  /\ {[serial |-> Serial(d), state |-> devices[d].state] : d \in Listed} = ToSet(l)
  /\ Len(mDevices) = Len(l)

(* A merge that is done leaves the devices of the list received.           *)
LEMMA MergedLemma ==
  ASSUME SerialsUnique, Typed, PlaceInv, ListsInv, MergeInv, MergeInv', Typed', M_AddDevices
  PROVE  Mirrors(m.list)'
<1>1. m \in MonitorType /\ m.list \in Seq(Entry) /\ \A x \in Ids : devices[x] \in DeviceType
  BY DeviceFacts DEF Typed, MonitorType
<1>2. /\ Ids \subseteq Ids' /\ \A x \in Ids : devices'[x] = devices[x]
      /\ \A k \in 1..Len(Leftover) :
           /\ Len(devices) + k \in Ids' \ Ids
           /\ devices'[Len(devices) + k] = NewDevice(m.list[Leftover[k]])
      /\ \A x \in Ids' \ Ids : \E k \in 1..Len(Leftover) : x = Len(devices) + k
      /\ Listed' = Listed \cup (Ids' \ Ids)
      /\ m' = [m EXCEPT !.pc = "notify", !.connected = NewIds, !.queries = m'.queries]
  BY AddEffect
<1>3. m'.list = m.list
  BY <1>1, <1>2 DEF MonitorType
<1>4. Listed \subseteq m.old /\ m.pc = "merge" /\ Listed \subseteq Ids
  <2>1. mDevices \in Seq(Ids)
    BY DEF Typed, DevicesOK
  <2> QED
    BY <2>1, SetFacts DEF M_AddDevices, Unprocessed, Listed, ToSet
<1>5. /\ DOMAIN Leftover = 1..Len(Leftover)
      /\ \A k \in 1..Len(Leftover) : Leftover[k] \in DOMAIN m.list
      /\ \A i \in DOMAIN m.list \ m.used : \E k \in 1..Len(Leftover) : Leftover[k] = i
  <2>1. Leftover \in Seq(DOMAIN m.list) /\ ToSet(Leftover) = DOMAIN m.list \ m.used
    BY LeftoverLemma
  <2> QED
    BY <2>1 DEF ToSet
<1>6. \A i \in DOMAIN m.list : m.list[i] = [serial |-> m.list[i].serial, state |-> m.list[i].state]
  <2>1. \A i \in DOMAIN m.list : m.list[i] \in Entry
    BY <1>1
  <2> QED
    BY <2>1 DEF Entry
<1>7. \A x \in Ids' : \A k \in 1..Len(Leftover) : x = Len(devices) + k => EntryOf(x)' = m.list[Leftover[k]]
  <2> SUFFICES ASSUME NEW x \in Ids', NEW k \in 1..Len(Leftover), x = Len(devices) + k
               PROVE  EntryOf(x)' = m.list[Leftover[k]]
    OBVIOUS
  <2>1. devices'[x] = NewDevice(m.list[Leftover[k]])
    BY <1>2
  <2>2. devices'[x].serial = m.list[Leftover[k]].serial /\ devices'[x].state = m.list[Leftover[k]].state
    BY <2>1 DEF NewDevice
  <2>3. Leftover[k] \in DOMAIN m.list
    BY <1>5
  <2> QED
    BY <1>6, <2>2, <2>3 DEF EntryOf, Serial
<1>8. \A x \in Listed : EntryOf(x)' = EntryOf(x)
  BY <1>2, <1>4 DEF EntryOf, Serial
<1>9. \A x \in Listed' : EntryOf(x)' \in ToSet(m.list)
  <2> TAKE x \in Listed'
  <2>1. CASE x \in Listed
    <3>1. \E i \in DOMAIN m.list : m.list[i] = EntryOf(x)
      BY <1>4, <2>1 DEF MergeInv
    <3> QED
      BY <1>8, <2>1, <3>1 DEF ToSet
  <2>2. CASE x \in Ids' \ Ids
    <3>1. PICK k \in 1..Len(Leftover) : x = Len(devices) + k
      BY <1>2, <2>2
    <3>2. EntryOf(x)' = m.list[Leftover[k]]
      BY <1>7, <2>2, <3>1
    <3>3. Leftover[k] \in DOMAIN m.list
      BY <1>5
    <3> QED
      BY <3>2, <3>3 DEF ToSet
  <2> QED
    BY <1>2, <2>1, <2>2
<1>10. \A i \in DOMAIN m.list : \E x \in Listed' : EntryOf(x)' = m.list[i]
  <2> TAKE i \in DOMAIN m.list
  <2>1. CASE i \in m.used
    <3>1. PICK x \in Listed : m.list[i].serial = Serial(x)
      BY <1>4, <2>1 DEF MergeInv
    <3>2. PICK j \in DOMAIN m.list : m.list[j] = EntryOf(x)
      BY <1>4 DEF MergeInv
    <3>3. m.list[j].serial = Serial(x)
      BY <3>2 DEF EntryOf
    <3>4. j = i
      BY <3>1, <3>3 DEF ListsInv, Unique
    <3> QED
      BY <1>2, <1>8, <3>2, <3>4
  <2>2. CASE i \notin m.used
    <3>1. PICK k \in 1..Len(Leftover) : Leftover[k] = i
      BY <1>5, <2>2
    <3>2. Len(devices) + k \in Ids' \ Ids
      BY <1>2
    <3>3. PICK x \in Ids' \ Ids : x = Len(devices) + k
      BY <3>2
    <3> QED
      BY <1>2, <1>7, <3>1, <3>3
  <2> QED
    BY <2>1, <2>2
<1>11. {EntryOf(x)' : x \in Listed'} = ToSet(m.list)
  BY <1>9, <1>10 DEF ToSet
<1>12. Len(mDevices') = Len(m.list)
  <2> DEFINE e == [d \in Ids' |-> [serial |-> devices'[d].serial, state |-> devices'[d].state]]
  <2>1. mDevices' \in Seq(Ids') /\ Distinct(mDevices') /\ Listed' = ToSet(mDevices')
            /\ Listed' \subseteq Ids'
    BY <1>2, <1>4 DEF Typed, DevicesOK, MergeInv, Listed
  <2>2. \A x \in Ids' : e[x] = EntryOf(x)' /\ e[x].serial = Serial(x)'
    BY DEF EntryOf, Serial
  <2> HIDE DEF e
  <2>3. {e[d] : d \in ToSet(mDevices')} = ToSet(m.list)
    BY <1>11, <2>1, <2>2
  <2>4. \A x, y \in ToSet(mDevices') : e[x].serial = e[y].serial => x = y
    BY <2>1, <2>2 DEF MergeInv
  <2>5. Unique(m.list)
    BY DEF ListsInv
  <2> QED
    BY <1>1, <2>1, <2>3, <2>4, <2>5, SameLen
<1> QED
  BY <1>3, <1>11, <1>12 DEF Mirrors, EntryOf

(* The connection is open, adb tracks devices on it, and the monitor       *)
(* thread has not ended.                                                   *)
Tracked == mMainAdbConnection = "open" /\ adb.tracking /\ m.pc # "exited"

(* The last message on the wire is adb's list.                             *)
LastIsNew == inbox[Len(inbox)] = ListOf(adb.list)

(* adb's list is not lost: it is the last message on the wire, once the    *)
(* answer OKAY is there or was read, or the list in the merge, or mirrored *)
(* already.                                                                *)
FlowInv ==
  /\ m.pc \in {"reply", "diag"} => ~mMonitoring
  /\ Tracked =>
       /\ inbox # <<>> /\ (mMonitoring \/ Okay \in ToSet(inbox)) => LastIsNew
       /\ mMonitoring /\ inbox = <<>> =>
            IF m.pc \in {"update", "merge"} THEN m.list = adb.list ELSE Mirrors(adb.list)

(* Every step keeps the first part of FlowInv.                             *)
LEMMA MonitoringStep ==
  ASSUME Typed, m.pc \in {"reply", "diag"} => ~mMonitoring, [Next]_vars
  PROVE  m'.pc \in {"reply", "diag"} => ~mMonitoring'
<1>1. m \in MonitorType
  BY DEF Typed
<1>2. CASE HandleException \/ EndIteration
  BY <1>2, AtFacts DEF HandleException, EndIteration
<1>3. CASE M_Request \/ M_ReadError
  BY <1>2, <1>3, AtFacts DEF M_Request, M_ReadError, connVars
<1>4. CASE M_ReadList
  BY <1>2, <1>4, ReadFacts DEF M_ReadList
<1>5. CASE M_Connect \/ M_ConnectFails \/ M_StartAdb \/ M_Reply \/ M_Diag \/ M_ReplyTimeout
          \/ M_Spin \/ M_ReplyClosed
           \/ M_ReadTimeout \/ UNCHANGED vars
  BY <1>2, <1>5, AtFacts DEF M_Connect, M_ConnectFails, M_StartAdb, M_Reply, M_Diag,
     M_ReplyTimeout, M_Spin,
     M_ReplyClosed, M_ReadTimeout, vars, connVars
<1>6. CASE M_LockDevices \/ M_ListDone \/ M_LockToDrain \/ M_DrainOutOfRange \/ M_Crashed \/ M_Drained
  BY <1>1, <1>2, <1>6, AtFacts DEF M_LockDevices, M_ListDone, M_LockToDrain, M_DrainOutOfRange,
     M_Crashed, M_Drained,
     vars, connVars, MonitorType
<1>7. CASE M_UpdateDevice \/ M_RemoveDevice \/ M_AddDevices \/ M_Drain \/ M_NoThreadAvailable
  BY <1>1, <1>7, AtFacts DEF M_UpdateDevice, M_RemoveDevice, M_AddDevices, M_Drain,
     M_NoThreadAvailable, MonitorType
<1>8. CASE M_NotifyDisconnected \/ M_NotifyChanged \/ M_NotifyConnected \/ M_Query
  BY <1>1, <1>8 DEF M_NotifyDisconnected, M_NotifyChanged, M_NotifyConnected, M_Query, MonitorType
<1>9. CASE Stopper \/ Adb \/ \E d \in tasks : T_Notify(d)
  BY <1>9 DEF Stopper, S_Stop, S_Joined, Adb, AdbAnswers, AdbAccept, AdbRefuse,
     AdbSecondRequest, AdbChange, AdbDie,
     AdbStart, T_Notify, connVars
<1> QED
  BY <1>3, <1>4, <1>5, <1>6, <1>7, <1>8, <1>9 DEF Next, Monitor

(* The steps after which the connection is not open, or adb does not track *)
(* devices on it.                                                          *)
LEMMA LostStep ==
  ASSUME Typed, WireInv, PlaceInv,
         \/ M_Connect \/ M_ConnectFails \/ M_StartAdb \/ M_ReplyClosed \/ M_ReadError
         \/ M_LockToDrain \/ M_Drain \/ M_NoThreadAvailable \/ M_DrainOutOfRange \/ M_Drained
         \/ Stopper \/ AdbRefuse \/ AdbDie
  PROVE  ~Tracked'
<1>1. CASE HandleException
  BY <1>1, AtFacts DEF HandleException, EndIteration, Tracked
<1>2. CASE M_Connect
  BY <1>2 DEF M_Connect, WireInv, Tracked
<1>3. CASE M_ReadError
  BY <1>1, <1>3 DEF M_ReadError
<1>4. CASE M_ConnectFails \/ M_StartAdb \/ M_ReplyClosed
  BY <1>4 DEF M_ConnectFails, M_StartAdb, M_ReplyClosed, PlaceInv, connVars, Tracked
<1>5. CASE M_LockToDrain \/ M_Drain \/ M_NoThreadAvailable \/ M_DrainOutOfRange \/ M_Drained
  BY <1>5 DEF M_LockToDrain, M_Drain, M_NoThreadAvailable, M_DrainOutOfRange, M_Drained,
     PlaceInv, connVars, Tracked
<1>6. CASE Stopper
  BY <1>6 DEF Stopper, S_Stop, S_Joined, Tracked
<1>7. CASE AdbRefuse \/ AdbDie
  BY <1>7 DEF AdbRefuse, AdbDie, Tracked
<1> QED
  BY <1>2, <1>3, <1>4, <1>5, <1>6, <1>7

(* A step that leaves the list and the states alone leaves what they       *)
(* mirror.                                                                 *)
LEMMA SameMirror ==
  ASSUME Typed, mDevices' = mDevices, \A x \in Ids : EntryOf(x)' = EntryOf(x), NEW l, Mirrors(l)
  PROVE  /\ {[serial |-> Serial(d)', state |-> devices'[d].state] : d \in Listed'} = ToSet(l)
         /\ Len(mDevices') = Len(l)
BY SetFacts DEF Mirrors, Listed, EntryOf

(* The steps that leave the wire alone, and the list received, too, keep   *)
(* FlowInv.                                                                *)
LEMMA SameFlow ==
  ASSUME Typed, FlowInv, m.pc # "exited",
         UNCHANGED <<mMainAdbConnection, mMonitoring, inbox, adb.tracking, adb.list>>,
         \/ m'.pc \in {"update", "merge"} /\ m.pc \in {"update", "merge"} /\ m'.list = m.list
         \/ /\ m'.pc \notin {"update", "merge"} /\ m.pc \notin {"update", "merge"}
            /\ mDevices' = mDevices /\ \A x \in Ids : EntryOf(x)' = EntryOf(x),
         Tracked'
  PROVE  /\ inbox' # <<>> /\ (mMonitoring' \/ Okay \in ToSet(inbox')) => LastIsNew'
         /\ mMonitoring' /\ inbox' = <<>> =>
              IF m'.pc \in {"update", "merge"} THEN m'.list = adb'.list ELSE Mirrors(adb.list)'
<1>1. Tracked
  BY DEF Tracked
<1>2. mMonitoring /\ inbox = <<>> =>
        IF m.pc \in {"update", "merge"} THEN m.list = adb.list ELSE Mirrors(adb.list)
  BY <1>1 DEF FlowInv
<1>3. inbox' # <<>> /\ (mMonitoring' \/ Okay \in ToSet(inbox')) => LastIsNew'
  BY <1>1 DEF FlowInv, LastIsNew
<1>4. CASE m'.pc \in {"update", "merge"} /\ m.pc \in {"update", "merge"} /\ m'.list = m.list
  BY <1>2, <1>3, <1>4
<1>5. CASE /\ m'.pc \notin {"update", "merge"} /\ m.pc \notin {"update", "merge"}
           /\ mDevices' = mDevices /\ \A x \in Ids : EntryOf(x)' = EntryOf(x)
  <2>1. Mirrors(adb.list) => Mirrors(adb.list)'
    <3> SUFFICES ASSUME Mirrors(adb.list)  PROVE Mirrors(adb.list)'
      OBVIOUS
    <3>1. /\ {[serial |-> Serial(d)', state |-> devices'[d].state] : d \in Listed'} = ToSet(adb.list)
          /\ Len(mDevices') = Len(adb.list)
      BY <1>5, SameMirror
    <3> QED
      BY <3>1 DEF Mirrors
  <2> QED
    BY <1>2, <1>3, <1>5, <2>1
<1> QED
  BY <1>4, <1>5

(* Tail keeps the last message, if there is another.                       *)
LEMMA TailLast ==
  ASSUME NEW T, NEW s \in Seq(T), s # <<>>, Tail(s) # <<>>
  PROVE  Tail(s)[Len(Tail(s))] = s[Len(s)]
<1>1. Len(s) \in Nat /\ Len(Tail(s)) = Len(s) - 1 /\ Len(Tail(s)) # 0 /\ Len(s) > 0
  <2>1. Tail(s) \in Seq(T) /\ Len(Tail(s)) = Len(s) - 1
    BY HeadTailProperties
  <2>2. \A x \in Seq(T) : x # <<>> => Len(x) \in Nat /\ Len(x) # 0
    BY EmptySeq, LenProperties
  <2> QED
    BY <2>1, <2>2
<1>2. \A i \in 1..(Len(s) - 1) : Tail(s)[i] = s[i + 1]
  OBVIOUS
<1>3. Len(s) - 1 \in 1..(Len(s) - 1) /\ (Len(s) - 1) + 1 = Len(s)
  BY <1>1
<1> QED
  BY <1>1, <1>2, <1>3

(* The only message is the last.                                           *)
LEMMA TailOnly ==
  ASSUME NEW T, NEW s \in Seq(T), s # <<>>, Tail(s) = <<>>
  PROVE  s[Len(s)] = Head(s)
<1>1. Len(Tail(s)) = Len(s) - 1 /\ Len(Tail(s)) = 0 /\ Len(s) \in Nat
  BY HeadTailProperties, LenProperties
<1>2. Len(s) = 1
  BY <1>1
<1> QED
  BY <1>2

(* What tells the messages apart.                                          *)
LEMMA Messages ==
  /\ \A l : Okay # ListOf(l) /\ ListOf(l).list = l /\ ListOf(l).kind = "list"
  /\ \A msg \in Message : msg.kind = "okay" => msg = Okay
BY DEF Message, Okay, Fail, ListOf

(* Every step keeps FlowInv.                                               *)
LEMMA FlowStep ==
  ASSUME SerialsUnique, Typed, Typed', WireInv, PlaceInv, ListsInv, MergeInv, MergeInv',
         FlowInv, [Next]_vars
  PROVE  FlowInv'
<1> SUFFICES ASSUME Tracked'
             PROVE  /\ inbox' # <<>> /\ (mMonitoring' \/ Okay \in ToSet(inbox')) => LastIsNew'
                    /\ mMonitoring' /\ inbox' = <<>> =>
                         IF m'.pc \in {"update", "merge"} THEN m'.list = adb'.list ELSE Mirrors(adb.list)'
  BY MonitoringStep DEF FlowInv
<1>1. m \in MonitorType /\ inbox \in Seq(Message) /\ adb \in AdbType /\ adb.list \in Seq(Entry)
  BY AdbFacts DEF Typed
<1>2. m.pc # "exited"
  BY ExitedStays DEF Tracked
<1>3. CASE M_Request
  <2>1. CASE HandleException
    BY <2>1, AtFacts DEF HandleException, EndIteration, Tracked
  <2>2. CASE ~HandleException
    <3>1. /\ m'.pc = "reply" /\ ~mMonitoring'
          /\ UNCHANGED <<mMainAdbConnection, mMonitoring, inbox, adb.tracking, adb.list>>
      BY <1>1, <1>3, <2>2, AtFacts DEF M_Request, connVars, AdbType
    <3>2. Tracked
      BY <1>2, <3>1 DEF Tracked
    <3> QED
      BY <3>1, <3>2 DEF FlowInv, LastIsNew
  <2> QED
    BY <2>1, <2>2
<1>4. CASE M_Reply
  <2>1. /\ inbox # <<>> /\ inbox' = Tail(inbox) /\ Head(inbox) \in Message /\ ~mMonitoring
        /\ UNCHANGED <<mMainAdbConnection, adb>>
    BY <1>1, <1>4 DEF M_Reply, FlowInv
  <2>2. Tracked
    BY <1>2, <2>1 DEF Tracked
  <2>3. CASE Head(inbox).kind = "okay"
    <3>1. Head(inbox) = Okay /\ Okay \in ToSet(inbox)
      BY <1>1, <2>1, <2>3, Messages, TailLemma
    <3>2. LastIsNew
      BY <2>1, <2>2, <3>1 DEF FlowInv
    <3>3. Tail(inbox) # <<>>
      BY <1>1, <2>1, <3>1, <3>2, TailOnly, Messages DEF LastIsNew
    <3> QED
      BY <1>1, <2>1, <3>2, <3>3, TailLast DEF LastIsNew
  <2>4. CASE Head(inbox).kind # "okay"
    <3>1. ~mMonitoring'
      BY <1>4, <2>1, <2>4 DEF M_Reply
    <3>2. ToSet(inbox') \subseteq ToSet(inbox)
      BY <1>1, <2>1, TailLemma
    <3> QED
      BY <1>1, <2>1, <2>2, <3>1, <3>2, TailLast DEF FlowInv, LastIsNew
  <2> QED
    BY <2>3, <2>4
<1>5. CASE M_Diag
  <2>1. /\ inbox' = inbox \/ (inbox # <<>> /\ inbox' = Tail(inbox))
        /\ ~mMonitoring' /\ UNCHANGED <<mMainAdbConnection, adb>>
    BY <1>5 DEF M_Diag, FlowInv
  <2>2. Tracked
    BY <1>2, <2>1 DEF Tracked
  <2>3. ToSet(inbox') \subseteq ToSet(inbox)
    BY <1>1, <2>1, TailLemma
  <2> QED
    BY <1>1, <2>1, <2>2, <2>3, TailLast DEF FlowInv, LastIsNew
<1>6. CASE M_ReadList
  <2>1. /\ inbox # <<>> /\ inbox' = Tail(inbox) /\ mMonitoring
        /\ UNCHANGED <<mMainAdbConnection, mMonitoring, adb>>
    BY <1>6 DEF M_ReadList, Reading
  <2>2. Tracked
    BY <1>2, <2>1 DEF Tracked
  <2>3. ~mQuit
    BY <1>6, AtFacts DEF M_ReadList, EndIteration, Tracked
  <2>4. m'.pc = "update" /\ m'.list = Head(inbox).list
    BY <1>6, <2>3, ReadFacts DEF M_ReadList
  <2>5. LastIsNew
    BY <2>1, <2>2 DEF FlowInv
  <2>6. Tail(inbox) # <<>> => LastIsNew'
    BY <1>1, <2>1, <2>5, TailLast DEF LastIsNew
  <2>7. Tail(inbox) = <<>> => m'.list = adb.list
    BY <1>1, <2>1, <2>4, <2>5, TailOnly, Messages DEF LastIsNew
  <2> QED
    BY <2>1, <2>4, <2>6, <2>7
<1>7. CASE M_AddDevices
  <2>1. /\ m.pc = "merge" /\ UNCHANGED <<mMainAdbConnection, mMonitoring, inbox, adb>>
    BY <1>7 DEF M_AddDevices, connVars
  <2>2. Tracked
    BY <1>2, <2>1 DEF Tracked
  <2>3. m'.pc = "notify" /\ m'.list = m.list
    BY <1>1, <1>7 DEF M_AddDevices, MonitorType
  <2>4. Mirrors(m.list)'
    BY <1>7, MergedLemma
  <2>5. mMonitoring /\ inbox = <<>> => m.list = adb.list
    BY <2>1, <2>2 DEF FlowInv
  <2>6. mMonitoring /\ inbox = <<>> => Mirrors(adb.list)'
    BY <2>1, <2>3, <2>4, <2>5 DEF Mirrors
  <2>7. inbox' # <<>> /\ (mMonitoring' \/ Okay \in ToSet(inbox')) => LastIsNew'
    BY <2>1, <2>2 DEF FlowInv, LastIsNew
  <2> QED
    BY <2>1, <2>3, <2>6, <2>7
<1>8. CASE M_UpdateDevice \/ M_RemoveDevice
  <2>1. /\ m.pc = "merge" /\ m'.pc = "merge" /\ m'.list = m.list
        /\ UNCHANGED <<mMainAdbConnection, mMonitoring, inbox, adb>>
    BY <1>1, <1>8 DEF M_UpdateDevice, M_RemoveDevice, MonitorType, connVars
  <2> QED
    BY <1>2, <2>1, SameFlow
<1>9. CASE M_LockDevices
  <2>1. ~mQuit
    BY <1>9, AtFacts DEF M_LockDevices, EndIteration, Tracked
  <2>2. /\ m.pc = "update" /\ m'.pc = "merge" /\ m'.list = m.list
        /\ UNCHANGED <<mMainAdbConnection, mMonitoring, inbox, adb>>
    BY <1>1, <1>9, <2>1 DEF M_LockDevices, MonitorType, connVars
  <2> QED
    BY <1>2, <2>2, SameFlow
<1>10. CASE M_NotifyDisconnected \/ M_NotifyChanged \/ M_NotifyConnected \/ M_Query
           \/ \E d \in tasks : T_Notify(d)
  <2>1. /\ UNCHANGED <<mDevices, m.pc, m.list>>
        /\ UNCHANGED <<mMainAdbConnection, mMonitoring, inbox, adb>>
    BY <1>1, <1>10 DEF M_NotifyDisconnected, M_NotifyChanged, M_NotifyConnected, M_Query,
       T_Notify, MonitorType, connVars
  <2>2. PICK d \in Ids :
           /\ Ids' = Ids /\ \A x \in Ids : x # d => devices'[x] = devices[x]
           /\ \/ devices'[d] = [devices[d] EXCEPT !.toldState = devices[d].state]
              \/ \E event \in {"connected", "gone"} :
                   devices'[d] = [devices[d] EXCEPT !.told = event, !.toldState = devices[d].state]
              \/ \E props \in {"none", "some", "all"}, failed \in BOOLEAN :
                   devices'[d] = [devices[d] EXCEPT !.props = props, !.failed = failed]
    <3>1. CASE M_Query
      BY <3>1, QueryEffect
    <3> QED
      BY <1>10, <3>1, GoneEffect, ChangedEffect, ConnectedEffect, TaskEffect
  <2>3. devices'[d].state = devices[d].state /\ devices'[d].serial = devices[d].serial
    BY <2>2, DeviceFacts DEF DeviceType
  <2>4. \A x \in Ids : EntryOf(x)' = EntryOf(x)
    BY <2>2, <2>3 DEF EntryOf, Serial
  <2> QED
    BY <1>2, <2>1, <2>4, SameFlow
<1>11. CASE \/ M_ReplyTimeout \/ M_ReadTimeout \/ M_ListDone \/ M_Spin \/ M_Crashed
           \/ AdbSecondRequest \/ AdbStart
            \/ UNCHANGED vars
  <2>1. UNCHANGED <<devices, mDevices>>
    BY <1>11 DEF M_ReplyTimeout, M_ReadTimeout, M_ListDone, M_Spin, M_Crashed, AdbSecondRequest,
       AdbStart, vars, deviceVars
  <2>2. \A x \in Ids : EntryOf(x)' = EntryOf(x)
    BY <2>1 DEF EntryOf, Serial
  <2>3. \/ m' = m
        \/ m'.pc \notin {"update", "merge"} /\ m.pc \notin {"update", "merge"}
    BY <1>11, AtFacts DEF M_ReplyTimeout, M_ReadTimeout, M_ListDone, M_Spin, M_Crashed,
       AdbSecondRequest, AdbStart, vars,
       EndIteration, Reading
  <2>4. UNCHANGED <<mMainAdbConnection, mMonitoring, inbox, adb.tracking, adb.list>>
    BY <1>1, <1>11 DEF M_ReplyTimeout, M_ReadTimeout, M_ListDone, M_Spin, M_Crashed,
       AdbSecondRequest, AdbStart, vars,
       connVars, AdbType, Tracked
  <2> QED
    BY <1>2, <2>1, <2>2, <2>3, <2>4, SameFlow
<1>12. CASE AdbAccept \/ \E l \in AdbLists : AdbChange(l)
  <2>1. \E s \in Seq(Message) : /\ inbox' = s /\ s # <<>> /\ s[Len(s)] = ListOf(adb'.list)
    <3>1. CASE AdbAccept
      <4> DEFINE pair == <<Okay, ListOf(adb.list)>>
      <4>1. pair \in Seq(Message) /\ Len(pair) = 2 /\ pair[2] = ListOf(adb.list)
        BY <1>1, InboxLemma
      <4>2. inbox' = inbox \o pair /\ adb'.list = adb.list
        BY <1>1, <3>1 DEF AdbAccept, AdbType
      <4> HIDE DEF pair
      <4>3. /\ inbox \o pair \in Seq(Message) /\ Len(inbox \o pair) = Len(inbox) + 2
            /\ Len(inbox) \in Nat
        BY <1>1, <4>1, ConcatProperties, LenProperties
      <4>4. (inbox \o pair)[Len(inbox) + 2] = pair[2]
        <5>1. /\ Len(inbox) + 2 \in 1..(Len(inbox) + Len(pair)) /\ ~(Len(inbox) + 2 <= Len(inbox))
              /\ Len(inbox) + 2 - Len(inbox) = 2
          BY <4>1, <4>3
        <5> QED
          BY <1>1, <4>1, <5>1, ConcatProperties
      <4>5. inbox \o pair # <<>>
        BY <4>3
      <4>6. inbox' \in Seq(Message) /\ inbox' # <<>> /\ inbox'[Len(inbox')] = ListOf(adb'.list)
        BY <4>1, <4>2, <4>3, <4>4, <4>5
      <4> QED
        BY <4>6
    <3>2. ASSUME NEW l \in AdbLists, AdbChange(l)
          PROVE  \E s \in Seq(Message) : /\ inbox' = s /\ s # <<>> /\ s[Len(s)] = ListOf(adb'.list)
      <4>1. adb.tracking /\ adb'.list = l /\ inbox' = Append(inbox, ListOf(l))
        BY <1>1, <3>2 DEF AdbChange, AdbType, Tracked
      <4>2. l \in Seq(Entry)
        BY MonitorAssumption DEF Entry
      <4>3. ListOf(l) \in Message
        BY <4>2, InboxLemma
      <4> QED
        BY <1>1, <4>1, <4>3
    <3> QED
      BY <1>12, <3>1, <3>2
  <2> QED
    BY <2>1 DEF LastIsNew
<1>13. CASE \/ M_Connect \/ M_ConnectFails \/ M_StartAdb \/ M_ReplyClosed \/ M_ReadError
            \/ M_LockToDrain \/ M_Drain \/ M_NoThreadAvailable \/ M_DrainOutOfRange \/ M_Drained
            \/ Stopper \/ AdbRefuse \/ AdbDie
  BY <1>13, LostStep
<1> QED
  BY <1>3, <1>4, <1>5, <1>6, <1>7, <1>8, <1>9, <1>10, <1>11, <1>12, <1>13 DEF Next, Monitor,
     Adb, AdbAnswers

(* MirrorsAdb, if adb never lists a serial number twice: once all that adb *)
(* sent was read, the list is adb's, device for device and state for       *)
(* state, whatever was merged, refused, timed out or lost before.          *)
THEOREM AdbMirrored ==
  ASSUME SerialsUnique
  PROVE  Spec => []MirrorsAdb
<1> DEFINE Flow == Base /\ SyncInv /\ FlowInv
<1>1. Init => Flow
  <2> SUFFICES ASSUME Init  PROVE Flow
    OBVIOUS
  <2>1. m.pc = "top" /\ mMainAdbConnection = "none"
    BY AtFacts DEF Init
  <2>2. FlowInv
    BY <2>1 DEF FlowInv, Tracked
  <2> QED
    BY <2>2, InitOK, SyncInitOK DEF Base
<1>2. Flow /\ [Next]_vars => Flow'
  <2> SUFFICES ASSUME Flow, [Next]_vars  PROVE Flow'
    OBVIOUS
  <2>1. Base'
    BY TypedStep, WireStep, PlaceStep, EventStep DEF Base
  <2>2. SyncInv'
    BY ListsStep, MergeStep, ToldStep, StateStep DEF Base, SyncInv
  <2>3. FlowInv'
    BY <2>1, <2>2, FlowStep DEF Base, SyncInv
  <2> QED
    BY <2>1, <2>2, <2>3
<1>3. Flow => MirrorsAdb
  BY DEF FlowInv, MirrorsAdb, Tracked, Mirrors
<1> QED
  BY <1>1, <1>2, <1>3, PTL DEF Spec
===============================================================================
