------------------------ MODULE ClientRegistry_proofs ------------------------
(***************************************************************************)
(* The list of debugger ports and the clients of a device, proved for      *)
(* every base port, every caller, and any number of VMs, clients and       *)
(* faults.  The list comes first, whoever its callers are: PortInv is an   *)
(* inductive invariant, and the list implements PortPool.  Then the        *)
(* clients, in the order of the module:                                    *)
(*                                                                         *)
(*   Typed     the types, the invariant of the list of ports, and that no  *)
(*             client is listed twice: whatever find() and erase do to the *)
(*             list, a client that is dropped is gone from it;             *)
(*   LockInv   which code runs under mClientsLock, and how far a sweep is; *)
(*   ViewInv   where the listeners may lag behind the list;                *)
(*   MergeInv  which pids of a list may still be opened;                   *)
(*   LeaseInv  who leases which port.                                      *)
(*                                                                         *)
(* Every step of either thread keeps each of them, wherever the other      *)
(* thread is; only LockInv says that both are never in a merge and a sweep *)
(* at a time.                                                              *)
(***************************************************************************)
EXTENDS ClientRegistry, SequenceTheorems, WellFoundedInduction, TLAPS

Asc(s) == \A i, j \in DOMAIN s : i < j => s[i] < s[j]

(* Min is the least element of a nonempty set of naturals.                 *)
LEMMA MinLemma ==
  ASSUME NEW S \in SUBSET Nat, S # {}
  PROVE  Min(S) \in S /\ \A x \in S : Min(S) <= x
<1> DEFINE R == OpToRel(<, Nat)
<1>1. IsWellFoundedOn(R, Nat)
  BY NatLessThanWellFounded
<1>2. \A a, b \in Nat : a < b => <<a, b>> \in R
  BY DEF OpToRel
<1> HIDE DEF R
<1>3. PICK x \in S : \A y \in S : ~(<<y, x>> \in R)
  BY <1>1, WFMin
<1>4. ASSUME NEW y \in S  PROVE x <= y
  <2>1. x \in Nat /\ y \in Nat /\ ~(y < x)
    BY <1>2, <1>3
  <2> QED
    BY <2>1
<1>5. x \in S /\ \A y \in S : x <= y
  BY <1>4
<1> QED
  BY <1>5 DEF Min

(* Taking the front of an ascending list leaves the others, or the one     *)
(* fresh port after the last.                                              *)
LEMMA TakeLemma ==
  ASSUME NEW s \in Seq(Nat \ {0}), s # <<>>, Asc(s)
  PROVE  /\ AfterTake(s) \in Seq(Nat \ {0})
         /\ AfterTake(s) # <<>>
         /\ Asc(AfterTake(s))
         /\ NextPort(s) = s[1]
         /\ s[1] \in Nat \ {0}
         /\ s[1] < AfterTake(s)[Len(AfterTake(s))]
         /\ s[Len(s)] <= AfterTake(s)[Len(AfterTake(s))]
         /\ ToSet(AfterTake(s)) = IF ToSet(s) = {s[1]} THEN {s[1] + 1} ELSE ToSet(s) \ {s[1]}
<1>1. s[1] \in Nat \ {0} /\ NextPort(s) = s[1] /\ Len(s) \in Nat \ {0}
  BY DEF NextPort
<1>2. CASE Len(s) = 1
  <2>1. AfterTake(s) = <<s[1] + 1>>
    BY <1>2 DEF AfterTake
  <2>2. ToSet(s) = {s[1]} /\ ToSet(AfterTake(s)) = {s[1] + 1}
    BY <1>2, <2>1 DEF ToSet
  <2> QED
    BY <1>1, <1>2, <2>1, <2>2 DEF Asc
<1>3. CASE Len(s) # 1
  <2>1. Len(s) >= 2 /\ AfterTake(s) = Tail(s)
    <3>1. Len(s) > 1
      <4>1. \A n \in Nat \ {0} : n # 1 => n > 1
        OBVIOUS
      <4> QED
        BY <1>1, <1>3, <4>1, Zenon
    <3> QED
      BY <1>1, <3>1 DEF AfterTake
  <2>2. /\ Tail(s) \in Seq(Nat \ {0})
        /\ Len(Tail(s)) = Len(s) - 1
        /\ \A i \in 1..(Len(s) - 1) : Tail(s)[i] = s[i + 1]
    BY <1>1, <2>1
  <2>3. Asc(Tail(s))
    BY <2>1, <2>2 DEF Asc
  <2>4. ToSet(s) # {s[1]}
    <3>1. s[2] \in ToSet(s) /\ s[2] # s[1]
      BY <2>1 DEF Asc, ToSet
    <3> QED
      BY <3>1
  <2>5. ToSet(Tail(s)) = ToSet(s) \ {s[1]}
    <3>1. ASSUME NEW x \in ToSet(Tail(s))  PROVE x \in ToSet(s) \ {s[1]}
      <4>1. PICK i \in 1..(Len(s) - 1) : x = s[i + 1]
        BY <2>1, <2>2, <3>1 DEF ToSet
      <4>2. i + 1 \in 1..Len(s) /\ 1 \in 1..Len(s) /\ s[1] < s[i + 1] /\ s[i + 1] \in Nat
        BY <1>1, <2>1 DEF Asc
      <4> QED
        BY <1>1, <4>1, <4>2 DEF ToSet
    <3>2. ASSUME NEW x \in ToSet(s) \ {s[1]}  PROVE x \in ToSet(Tail(s))
      <4>1. PICK i \in 2..Len(s) : x = s[i]
        BY <1>1, <3>2 DEF ToSet
      <4>2. i - 1 \in 1..(Len(s) - 1) /\ Tail(s)[i - 1] = x
        BY <1>1, <2>2, <4>1
      <4>3. DOMAIN Tail(s) = 1..(Len(s) - 1)
        BY <2>2
      <4> QED
        BY <4>2, <4>3, Zenon DEF ToSet
    <3> QED
      BY <3>1, <3>2
  <2>6. Tail(s)[Len(Tail(s))] = s[Len(s)] /\ s[1] < s[Len(s)]
    BY <2>1, <2>2 DEF Asc
  <2>7. s[Len(s)] \in Nat /\ Tail(s) # <<>>
    <3>1. Len(<<>>) = 0
      OBVIOUS
    <3>2. Tail(s) # <<>>
      BY <1>1, <2>1, <2>2, <3>1
    <3> QED
      BY <1>1, <3>2
  <2> QED
    BY <1>1, <2>1, <2>2, <2>3, <2>4, <2>5, <2>6, <2>7
<1> QED
  BY <1>2, <1>3

(* The elements of a sequence after an insertion.                          *)
IsInsertion(t, s, k, e) ==
  /\ t \in Seq(Nat \ {0})
  /\ Len(t) = Len(s) + 1
  /\ \A j \in 1..(Len(s) + 1) :
        t[j] = IF j < k THEN s[j] ELSE IF j = k THEN e ELSE s[j - 1]

\* What the loop of addPortToAvailableList returns.
LEMMA InsertLemma ==
  ASSUME NEW s \in Seq(Nat \ {0}), NEW k \in 1..Len(s), NEW e \in Nat \ {0}
  PROVE  IsInsertion(InsertAt(s, k, e), s, k, e)
<1>1. InsertAt(s, k, e) \in Seq(Nat \ {0}) /\ Len(InsertAt(s, k, e)) = Len(s) + 1
  BY DEF InsertAt
<1>2. ASSUME NEW j \in 1..(Len(s) + 1)
      PROVE  InsertAt(s, k, e)[j] = IF j < k THEN s[j] ELSE IF j = k THEN e ELSE s[j - 1]
  BY DEF InsertAt
<1> QED
  BY <1>1, <1>2 DEF IsInsertion

(* Giving back a port keeps an ascending list ascending, keeps its last    *)
(* element, and adds the port exactly when it is positive and below the    *)
(* last one.                                                               *)
LEMMA ReturnLemma ==
  ASSUME NEW s \in Seq(Nat \ {0}), s # <<>>, Asc(s), NEW port \in Int
  PROVE  /\ AfterReturn(s, port) \in Seq(Nat \ {0})
         /\ AfterReturn(s, port) # <<>>
         /\ Asc(AfterReturn(s, port))
         /\ AfterReturn(s, port)[Len(AfterReturn(s, port))] = s[Len(s)]
         /\ ToSet(AfterReturn(s, port)) =
              IF port > 0 /\ port < s[Len(s)] THEN ToSet(s) \cup {port} ELSE ToSet(s)
<1> DEFINE larger == {i \in DOMAIN s : port < s[i]}
           t == AfterReturn(s, port)
<1>1. DOMAIN s = 1..Len(s) /\ Len(s) \in Nat \ {0}
  OBVIOUS
<1>2. larger # {} <=> port < s[Len(s)]
  BY <1>1 DEF Asc
<1>3. CASE port > 0 /\ ~Contains(s, port) /\ larger # {}
  <2>1. PICK k \in larger : k = Min(larger) /\ \A i \in larger : k <= i
    <3>1. larger \in SUBSET Nat
      BY <1>1
    <3> QED
      BY <1>3, <3>1, MinLemma
  <2>2. t = InsertAt(s, k, port)
    BY <1>3, <2>1 DEF AfterReturn
  <2>3. k \in 1..Len(s) /\ port < s[k]
    BY <1>1, <2>1
  <2>4. /\ t \in Seq(Nat \ {0})
        /\ Len(t) = Len(s) + 1
        /\ \A j \in 1..(Len(s) + 1) :
              t[j] = IF j < k THEN s[j] ELSE IF j = k THEN port ELSE s[j - 1]
    <3>1. port \in Nat \ {0}
      BY <1>3
    <3>2. k \in 1..Len(s)
      BY <2>3
    <3>3. IsInsertion(InsertAt(s, k, port), s, k, port)
      BY <3>1, <3>2, InsertLemma, Zenon
    <3> HIDE DEF t
    <3> QED
      BY <2>2, <3>3 DEF IsInsertion
  <2>5. \A j \in 1..(k - 1) : s[j] < port
    <3>1. ASSUME NEW j \in 1..(k - 1)  PROVE s[j] < port
      <4>1. j \in 1..Len(s) /\ s[j] \in Nat /\ ~(k <= j)
        BY <1>1, <2>3
      <4>2. j \notin larger
        BY <2>1, <4>1, Zenon
      <4>3. s[j] # port
        BY <1>3, <4>1 DEF Contains
      <4> QED
        BY <1>1, <4>1, <4>2, <4>3
    <3> QED
      BY <3>1
  <2>6. \A j \in k..Len(s) : port < s[j]
    BY <1>1, <2>1, <2>3 DEF Asc
  <2> HIDE DEF larger, t
  <2>7. \A j \in 1..Len(s) : s[j] \in Nat
    BY <1>1
  <2>8. Asc(t)
    <3>1. SUFFICES ASSUME NEW i \in 1..(Len(s) + 1), NEW j \in 1..(Len(s) + 1), i < j
                   PROVE  t[i] < t[j]
      BY <2>4 DEF Asc
    <3>2. CASE j < k
      <4>1. t[i] = s[i] /\ t[j] = s[j] /\ i \in 1..Len(s) /\ j \in 1..Len(s)
        BY <1>1, <2>3, <2>4, <3>1, <3>2
      <4> QED
        BY <1>1, <3>1, <4>1 DEF Asc
    <3>3. CASE j = k
      BY <1>1, <2>3, <2>4, <2>5, <3>1, <3>3
    <3>4. CASE j > k
      <4>1. t[j] = s[j - 1] /\ j - 1 \in k..Len(s)
        BY <1>1, <2>3, <2>4, <3>4
      <4>2. CASE i <= k
        <5>1. port < t[j] /\ t[j] \in Nat
          BY <1>1, <2>3, <2>6, <2>7, <4>1
        <5>2. t[i] = port \/ (t[i] = s[i] /\ i \in 1..(k - 1) /\ i \in 1..Len(s))
          BY <1>1, <2>3, <2>4, <4>2
        <5>3. t[i] \in Int /\ t[i] <= port
          BY <2>5, <2>7, <5>2
        <5> QED
          BY <5>1, <5>3
      <4>3. CASE i > k
        <5>1. t[i] = s[i - 1] /\ i - 1 \in 1..Len(s) /\ i - 1 < j - 1
          BY <1>1, <2>3, <2>4, <3>1, <4>3
        <5>2. j - 1 \in 1..Len(s)
          BY <1>1, <2>3, <4>1
        <5> QED
          BY <1>1, <4>1, <5>1, <5>2 DEF Asc
      <4> QED
        BY <4>2, <4>3, <2>3
    <3> QED
      BY <3>2, <3>3, <3>4, <2>3
  <2>9. t[Len(t)] = s[Len(s)] /\ t # <<>>
    BY <1>1, <2>3, <2>4
  <2>10. DOMAIN t = 1..(Len(s) + 1)
    BY <1>1, <2>4
  <2>11. ToSet(t) = ToSet(s) \cup {port}
    <3>1. ASSUME NEW x \in ToSet(t)  PROVE x \in ToSet(s) \cup {port}
      <4>1. PICK j \in 1..(Len(s) + 1) : x = t[j]
        BY <2>10, <3>1 DEF ToSet
      <4>2. CASE j = k
        BY <2>3, <2>4, <4>1, <4>2
      <4>3. CASE j # k
        <5>1. CASE j < k
          <6>1. j \in 1..Len(s) /\ x = s[j]
            BY <1>1, <2>3, <2>4, <4>1, <5>1
          <6> QED
            BY <1>1, <6>1 DEF ToSet
        <5>2. CASE j > k
          <6>1. j - 1 \in 1..Len(s) /\ x = s[j - 1]
            BY <1>1, <2>3, <2>4, <4>1, <5>2
          <6> QED
            BY <1>1, <6>1 DEF ToSet
        <5> QED
          BY <2>3, <4>3, <5>1, <5>2
      <4> QED
        BY <4>2, <4>3
    <3>2. ASSUME NEW x \in ToSet(s)  PROVE x \in ToSet(t)
      <4>1. PICK n \in 1..Len(s) : x = s[n]
        BY <1>1, <3>2 DEF ToSet
      <4>2. PICK j \in 1..(Len(s) + 1) : x = t[j]
        <5>1. CASE n < k
          <6>1. n \in 1..(Len(s) + 1) /\ t[n] = s[n]
            BY <1>1, <2>3, <2>4, <5>1
          <6> QED
            BY <4>1, <6>1
        <5>2. CASE n >= k
          <6>1. n + 1 \in 1..(Len(s) + 1) /\ t[n + 1] = s[n]
            BY <1>1, <2>3, <2>4, <5>2
          <6> QED
            BY <4>1, <6>1
        <5> QED
          BY <2>3, <5>1, <5>2
      <4> QED
        BY <2>4, <2>10, <4>2 DEF ToSet
    <3>3. port \in ToSet(t)
      <4>1. k \in 1..(Len(s) + 1) /\ t[k] = port
        BY <1>1, <2>3, <2>4
      <4> QED
        BY <2>10, <4>1 DEF ToSet
    <3> QED
      BY <3>1, <3>2, <3>3
  <2>12. port > 0 /\ port < s[Len(s)]
    BY <1>2, <1>3
  <2> QED
    BY <2>4, <2>8, <2>9, <2>11, <2>12 DEF t
<1>4. CASE ~(port > 0 /\ ~Contains(s, port) /\ larger # {})
  <2>1. t = s
    BY <1>4 DEF AfterReturn
  <2>2. port > 0 /\ port < s[Len(s)] => port \in ToSet(s)
    BY <1>1, <1>2, <1>4 DEF Contains, ToSet
  <2> QED
    BY <2>1, <2>2
<1> QED
  BY <1>3, <1>4

-----------------------------------------------------------------------------
(***************************************************************************)
(* The invariant.  Ascending alone is not inductive without the typing and *)
(* NeverEmpty (the list has a first and a last element); NotHandedOutTwice *)
(* needs Frontier, because the port pushed on an empty list must be new.   *)
(***************************************************************************)

\* The invariant holds of the initial states,
LEMMA InitPortInv == PortsInit => PortInv
<1> SUFFICES ASSUME PortsInit  PROVE PortInv
  OBVIOUS
<1>1. mDebuggerPorts = <<DebugPortBase>> /\ handedOut = {} /\ DebugPortBase \in Nat \ {0}
  BY PortsAssumption DEF PortsInit
<1> QED
  BY <1>1 DEF PortInv, PortsTypeOK, NeverEmpty, Ascending, Frontier, NotHandedOutTwice

(* Handing out keeps the invariant: the port handed out leaves the list,   *)
(* and the end of the list never moves down.                               *)
LEMMA TakeKeepsInv == PortInv /\ GetNextDebuggerPort => PortInv'
<1> SUFFICES ASSUME PortInv, GetNextDebuggerPort  PROVE PortInv'
  OBVIOUS
<1> DEFINE s == mDebuggerPorts
           t == mDebuggerPorts'
<1>1. /\ s \in Seq(Nat \ {0}) /\ s # <<>> /\ Asc(s)
      /\ handedOut \subseteq Nat \ {0}
      /\ \A p \in handedOut : p < s[Len(s)]
      /\ handedOut \cap ToSet(s) = {}
  BY DEF PortInv, PortsTypeOK, NeverEmpty, Ascending, Frontier, NotHandedOutTwice, Asc
<1>2. t = AfterTake(s) /\ handedOut' = handedOut \cup {NextPort(s)}
  BY <1>1 DEF GetNextDebuggerPort
<1>3. /\ t \in Seq(Nat \ {0}) /\ t # <<>> /\ Asc(t)
      /\ handedOut' = handedOut \cup {s[1]}
      /\ s[1] \in Nat \ {0}
      /\ s[1] < t[Len(t)]
      /\ s[Len(s)] <= t[Len(t)]
      /\ ToSet(t) = IF ToSet(s) = {s[1]} THEN {s[1] + 1} ELSE ToSet(s) \ {s[1]}
  BY <1>1, <1>2, TakeLemma
<1> HIDE DEF s, t
<1>4. s[Len(s)] \in Nat /\ t[Len(t)] \in Nat /\ s[1] <= s[Len(s)] /\ s[Len(s)] \in ToSet(s)
  BY <1>1, <1>3 DEF Asc, ToSet
<1>5. \A p \in handedOut' : p < t[Len(t)]
  BY <1>1, <1>3, <1>4
<1>6. handedOut' \cap ToSet(t) = {}
  <2>1. CASE ToSet(s) = {s[1]}
    <3>1. ToSet(t) = {s[1] + 1} /\ s[Len(s)] = s[1]
      BY <1>3, <1>4, <2>1
    <3>2. \A p \in handedOut' : p # s[1] + 1
      BY <1>1, <1>3, <3>1
    <3> QED
      BY <3>1, <3>2
  <2>2. CASE ToSet(s) # {s[1]}
    BY <1>1, <1>3, <2>2
  <2> QED
    BY <2>1, <2>2
<1>7. handedOut' \subseteq Nat \ {0}
  BY <1>1, <1>3
<1> QED
  BY <1>3, <1>5, <1>6, <1>7
     DEF s, t, Asc, PortInv, PortsTypeOK, NeverEmpty, Ascending, Frontier, NotHandedOutTwice

(* Giving back keeps the invariant, whoever gives back whatever port.      *)
LEMMA ReturnKeepsInv ==
  ASSUME NEW port \in Int, PortInv, AddPortToAvailableList(port)
  PROVE  PortInv'
<1> DEFINE s == mDebuggerPorts
           t == mDebuggerPorts'
<1>1. /\ s \in Seq(Nat \ {0}) /\ s # <<>> /\ Asc(s)
      /\ handedOut \subseteq Nat \ {0}
      /\ \A p \in handedOut : p < s[Len(s)]
      /\ handedOut \cap ToSet(s) = {}
  BY DEF PortInv, PortsTypeOK, NeverEmpty, Ascending, Frontier, NotHandedOutTwice, Asc
<1>2. port \in Int /\ t = AfterReturn(s, port) /\ handedOut' = handedOut \ {port}
  BY DEF AddPortToAvailableList
<1>3. /\ t \in Seq(Nat \ {0}) /\ t # <<>> /\ Asc(t)
      /\ t[Len(t)] = s[Len(s)]
      /\ ToSet(t) = IF port > 0 /\ port < s[Len(s)] THEN ToSet(s) \cup {port} ELSE ToSet(s)
  BY <1>1, <1>2, ReturnLemma
<1> HIDE DEF s, t
<1>4. handedOut' \cap ToSet(t) = {}
  BY <1>1, <1>2, <1>3
<1>5. handedOut' \subseteq Nat \ {0} /\ \A p \in handedOut' : p < t[Len(t)]
  BY <1>1, <1>2, <1>3
<1> QED
  BY <1>3, <1>4, <1>5
     DEF s, t, Asc, PortInv, PortsTypeOK, NeverEmpty, Ascending, Frontier, NotHandedOutTwice

\* and every step keeps it.
LEMMA NextPortInv == PortInv /\ [PortsNext]_listVars => PortInv'
<1> SUFFICES ASSUME PortInv, [PortsNext]_listVars  PROVE PortInv'
  OBVIOUS
<1>1. CASE GetNextDebuggerPort
  BY <1>1, TakeKeepsInv
<1>2. ASSUME NEW port \in ClientPorts, AddPortToAvailableList(port)  PROVE PortInv'
  <2>1. port \in Int
    BY PortsAssumption
  <2> QED
    BY <1>2, <2>1, ReturnKeepsInv
<1>3. CASE UNCHANGED listVars
  BY <1>3 DEF listVars, PortInv, PortsTypeOK, NeverEmpty, Ascending, Frontier, NotHandedOutTwice
<1> QED
  BY <1>1, <1>2, <1>3 DEF PortsNext

(* In every run of the allocator the list is typed, non-empty, strictly    *)
(* ascending, ends above every port on loan and shares no port with them.  *)
THEOREM PortInvariant == PortsSpec => []PortInv
<1> QED
  BY InitPortInv, NextPortInv, PTL DEF PortsSpec

(* Every element of the vector is a positive port.                         *)
THEOREM PortTypes == PortsSpec => []PortsTypeOK
<1>1. PortInv => PortsTypeOK
  BY DEF PortInv
<1> QED
  BY <1>1, PortInvariant, PTL

(* getNextDebuggerPort never answers -1.                                   *)
THEOREM ListNeverEmpty == PortsSpec => []NeverEmpty
<1>1. PortInv => NeverEmpty
  BY DEF PortInv
<1> QED
  BY <1>1, PortInvariant, PTL

(* addPortToAvailableList keeps the vector sorted and free of repetitions, *)
(* even when clients are closed twice.                                     *)
THEOREM ListAscending == PortsSpec => []Ascending
<1>1. PortInv => Ascending
  BY DEF PortInv
<1> QED
  BY <1>1, PortInvariant, PTL

(* A port is not handed out again before somebody gives it back.           *)
THEOREM NoDoubleHandOut == PortsSpec => []NotHandedOutTwice
<1>1. PortInv => NotHandedOutTwice
  BY DEF PortInv
<1> QED
  BY <1>1, PortInvariant, PTL

-----------------------------------------------------------------------------
(***************************************************************************)
(* The sorted vector implements the abstract pool: the front of the list   *)
(* is the least free port, its end the greatest.                           *)
(***************************************************************************)

\* What the two ends of the port list are.
LEMMA EndsLemma ==
  ASSUME NEW s \in Seq(Nat \ {0}), s # <<>>, Asc(s)
  PROVE  /\ Pool!IsLeast(s[1], ToSet(s))
         /\ Pool!IsGreatest(s[Len(s)], ToSet(s))
<1>1. DOMAIN s = 1..Len(s) /\ Len(s) \in Nat \ {0} /\ \A i \in 1..Len(s) : s[i] \in Nat
  OBVIOUS
<1>2. \A i \in 1..Len(s) : s[1] <= s[i] /\ s[i] <= s[Len(s)]
  BY <1>1 DEF Asc
<1>3. s[1] \in ToSet(s) /\ s[Len(s)] \in ToSet(s)
  BY <1>1 DEF ToSet
<1>4. \A q \in ToSet(s) : s[1] <= q /\ q <= s[Len(s)]
  BY <1>1, <1>2 DEF ToSet
<1> QED
  BY <1>3, <1>4 DEF Pool!IsLeast, Pool!IsGreatest

\* Taking a port is a step of the abstract pool,
LEMMA TakeRefines == PortInv /\ GetNextDebuggerPort => Pool!Take
<1> SUFFICES ASSUME PortInv, GetNextDebuggerPort  PROVE Pool!Take
  OBVIOUS
<1> DEFINE s == mDebuggerPorts
<1>1. s \in Seq(Nat \ {0}) /\ s # <<>> /\ Asc(s)
  BY DEF PortInv, PortsTypeOK, NeverEmpty, Ascending, Asc
<1>2. mDebuggerPorts' = AfterTake(s) /\ handedOut' = handedOut \cup {NextPort(s)}
  BY <1>1 DEF GetNextDebuggerPort
<1>3. /\ NextPort(s) = s[1]
      /\ ToSet(AfterTake(s)) = IF ToSet(s) = {s[1]} THEN {s[1] + 1} ELSE ToSet(s) \ {s[1]}
  BY <1>1, TakeLemma
<1>4. Pool!IsLeast(s[1], ToSet(s))
  BY <1>1, EndsLemma
<1>5. s[1] \in ToSet(s)
  BY <1>4 DEF Pool!IsLeast
<1> QED
  BY <1>2, <1>3, <1>4, <1>5 DEF Pool!Take

\* and so is giving one back.
LEMMA ReturnRefines ==
  ASSUME NEW port \in Int, PortInv, AddPortToAvailableList(port)
  PROVE  Pool!GiveBack(port) \/ UNCHANGED Pool!poolVars
<1> DEFINE s == mDebuggerPorts
<1>1. /\ s \in Seq(Nat \ {0}) /\ s # <<>> /\ Asc(s)
      /\ handedOut \subseteq Nat \ {0}
      /\ \A p \in handedOut : p < s[Len(s)]
  BY DEF PortInv, PortsTypeOK, NeverEmpty, Ascending, Frontier, Asc
<1>2. port \in Int /\ mDebuggerPorts' = AfterReturn(s, port) /\ handedOut' = handedOut \ {port}
  BY DEF AddPortToAvailableList
<1>3. ToSet(mDebuggerPorts') =
        IF port > 0 /\ port < s[Len(s)] THEN ToSet(s) \cup {port} ELSE ToSet(s)
  BY <1>1, <1>2, ReturnLemma
<1>4. Pool!IsGreatest(s[Len(s)], ToSet(s)) /\ s[Len(s)] \in ToSet(s)
  BY <1>1, EndsLemma DEF Pool!IsGreatest
<1>5. CASE port > 0 /\ port < s[Len(s)]
  BY <1>2, <1>3, <1>4, <1>5 DEF Pool!GiveBack
<1>6. CASE ~(port > 0 /\ port < s[Len(s)])
  <2>1. port \notin handedOut
    BY <1>1, <1>2, <1>6
  <2> QED
    BY <1>2, <1>3, <1>6, <2>1 DEF Pool!poolVars
<1> QED
  BY <1>5, <1>6

(* Seen through the set of its elements, the list of available ports is    *)
(* the abstract pool: every run of the allocator is a run of PortPool.     *)
THEOREM PortsRefinePool == PortsSpec => ImplementsPool
<1>1. PortsInit => Pool!PoolInit
  BY DEF PortsInit, Pool!PoolInit, ToSet
<1>2. PortInv /\ [PortsNext]_listVars => [Pool!PoolNext]_(Pool!poolVars)
  <2> SUFFICES ASSUME PortInv, [PortsNext]_listVars
               PROVE  Pool!PoolNext \/ UNCHANGED Pool!poolVars
    OBVIOUS
  <2>1. CASE GetNextDebuggerPort
    BY <2>1, TakeRefines DEF Pool!PoolNext
  <2>2. ASSUME NEW port \in ClientPorts, AddPortToAvailableList(port)
        PROVE  Pool!PoolNext \/ UNCHANGED Pool!poolVars
    <3>1. port \in Int
      BY PortsAssumption
    <3> QED
      BY <2>2, <3>1, ReturnRefines DEF Pool!PoolNext
  <2>3. CASE UNCHANGED listVars
    BY <2>3 DEF listVars, Pool!poolVars
  <2> QED
    BY <2>1, <2>2, <2>3 DEF PortsNext
<1> QED
  BY <1>1, <1>2, PortInvariant, PTL DEF PortsSpec, ImplementsPool, Pool!PoolSpec

-----------------------------------------------------------------------------
(* A list without repetitions.                                             *)
Distinct(s) == \A i, j \in 1..Len(s) : s[i] = s[j] => i = j

(* What erasing the position that find() returned leaves of a list.        *)
LEMMA RemoveLemma ==
  ASSUME NEW S, NEW s \in Seq(S), NEW e
  PROVE  /\ RemoveFirst(s, e) \in Seq(S)
         /\ ToSet(RemoveFirst(s, e)) \subseteq ToSet(s)
         /\ Distinct(s) => Distinct(RemoveFirst(s, e)) /\ e \notin ToSet(RemoveFirst(s, e))
<1> DEFINE t == RemoveFirst(s, e)
<1>1. CASE ~ \E i \in 1..Len(s) : s[i] = e
  <2>1. t = s
    BY <1>1 DEF RemoveFirst
  <2>2. e \notin ToSet(s)
    BY <1>1 DEF ToSet
  <2> QED
    BY <2>1, <2>2
<1>2. CASE \E i \in 1..Len(s) : s[i] = e
  <2> DEFINE I == {i \in 1..Len(s) : s[i] = e}
  <2>1. t = RemoveAt(s, Min(I)) /\ I # {}
    BY <1>2 DEF RemoveFirst, SelectInSeq
  <2>2. Min(I) \in I
    <3>1. I \in SUBSET Nat
      OBVIOUS
    <3> HIDE DEF I
    <3>2. Min(I) = Min(I)
      BY Zenon DEF Min, Min
    <3>3. Min(I) \in I
      BY <2>1, <3>1, MinLemma
    <3> QED
      BY <3>2, <3>3
  <2>3. PICK k \in 1..Len(s) : s[k] = e /\ t = SubSeq(s, 1, k - 1) \o SubSeq(s, k + 1, Len(s))
    BY <2>1, <2>2 DEF RemoveAt
  <2>4. /\ t \in Seq(S) /\ Len(t) = Len(s) - 1
        /\ \A i \in 1..(Len(s) - 1) : t[i] = IF i < k THEN s[i] ELSE s[i + 1]
    <3> DEFINE a == SubSeq(s, 1, k - 1)
               b == SubSeq(s, k + 1, Len(s))
    <3>1. Len(s) \in Nat /\ \A i \in 1..Len(s) : s[i] \in S
      OBVIOUS
    <3>2. /\ a \in Seq(S) /\ Len(a) = k - 1
          /\ \A i \in 1..(k - 1) : a[i] = s[i]
      <4>1. /\ SubSeq(s, 1, k - 1) \in Seq(S)
            /\ Len(SubSeq(s, 1, k - 1)) = IF 1 <= k - 1 THEN (k - 1) - 1 + 1 ELSE 0
            /\ \A i \in 1 .. (k - 1) - 1 + 1 : SubSeq(s, 1, k - 1)[i] = s[1 + i - 1]
        BY <3>1, SubSeqProperties
      <4> QED
        BY <4>1
    <3>3. /\ b \in Seq(S) /\ Len(b) = Len(s) - k
          /\ \A i \in 1..(Len(s) - k) : b[i] = s[k + i]
      <4>1. /\ SubSeq(s, k + 1, Len(s)) \in Seq(S)
            /\ Len(SubSeq(s, k + 1, Len(s))) = IF k + 1 <= Len(s) THEN Len(s) - (k + 1) + 1 ELSE 0
            /\ \A i \in 1 .. Len(s) - (k + 1) + 1 : SubSeq(s, k + 1, Len(s))[i] = s[k + 1 + i - 1]
        BY <3>1, SubSeqProperties
      <4> QED
        BY <4>1
    <3> HIDE DEF a, b
    <3>4. /\ a \o b \in Seq(S) /\ Len(a \o b) = Len(a) + Len(b)
          /\ \A i \in 1..(Len(a) + Len(b)) : (a \o b)[i] = IF i <= Len(a) THEN a[i] ELSE b[i - Len(a)]
      BY <3>2, <3>3, ConcatProperties
    <3>5. t = a \o b
      BY <2>3 DEF a, b
    <3>6. t \in Seq(S) /\ Len(t) = Len(s) - 1
      BY <3>1, <3>2, <3>3, <3>4, <3>5
    <3>7. ASSUME NEW i \in 1..(Len(s) - 1)
          PROVE  t[i] = IF i < k THEN s[i] ELSE s[i + 1]
      <4>1. i \in 1..(Len(a) + Len(b)) /\ Len(a) = k - 1
        BY <3>1, <3>2, <3>3
      <4>2. t[i] = IF i <= k - 1 THEN a[i] ELSE b[i - (k - 1)]
        BY <3>4, <3>5, <4>1
      <4>3. CASE i < k
        BY <3>1, <3>2, <4>2, <4>3
      <4>4. CASE ~(i < k)
        <5>1. i - (k - 1) \in 1..(Len(s) - k) /\ k + (i - (k - 1)) = i + 1
          BY <3>1, <4>4
        <5> QED
          BY <3>1, <3>3, <4>2, <4>4, <5>1
      <4> QED
        BY <4>3, <4>4
    <3> QED
      BY <3>6, <3>7
  <2> HIDE DEF t
  <2>5. ToSet(t) \subseteq ToSet(s)
    <3>1. \A i \in 1..Len(t) : t[i] \in ToSet(s)
      BY <2>4 DEF ToSet
    <3> QED
      BY <2>4, <3>1 DEF ToSet
  <2>6. ASSUME Distinct(s)
        PROVE  Distinct(t) /\ e \notin ToSet(t)
    <3>1. Distinct(t)
      BY <2>4, <2>6 DEF Distinct
    <3>2. ASSUME NEW i \in 1..Len(t)
          PROVE  t[i] # e
      <4>1. PICK j \in 1..Len(s) : t[i] = s[j] /\ j # k
        <5>1. i \in 1..(Len(s) - 1) /\ Len(s) \in Nat
          BY <2>4
        <5>2. i \in 1..Len(s) /\ i + 1 \in 1..Len(s)
          BY <5>1
        <5>3. CASE i < k
          BY <2>4, <5>1, <5>2, <5>3
        <5>4. CASE ~(i < k)
          <6>1. i + 1 # k
            BY <5>4
          <6> QED
            BY <2>4, <5>1, <5>2, <5>4, <6>1
        <5> QED
          BY <5>3, <5>4
      <4> QED
        BY <2>3, <2>6, <4>1 DEF Distinct
    <3> QED
      BY <2>4, <3>1, <3>2 DEF ToSet
  <2> QED
    BY <2>4, <2>5, <2>6 DEF t
<1> QED
  BY <1>1, <1>2

(* A port that is taken was on nobody's hands.                             *)
LEMMA TakePortLemma ==
  ASSUME PortInv, TakePort
  PROVE  /\ PortInv'
         /\ NextPort(mDebuggerPorts) \in Nat \ {0}
         /\ NextPort(mDebuggerPorts) \notin handedOut
         /\ handedOut' = handedOut \cup {NextPort(mDebuggerPorts)}
         /\ misreturned' = misreturned
<1>3. PortInv'
  BY TakeKeepsInv DEF TakePort
<1>4. /\ mDebuggerPorts \in Seq(Nat \ {0}) /\ mDebuggerPorts # <<>>
      /\ handedOut \cap ToSet(mDebuggerPorts) = {}
  BY DEF PortInv, PortsTypeOK, NeverEmpty, NotHandedOutTwice, ToSet,
     ToSet
<1>5. mDebuggerPorts[1] \in ToSet(mDebuggerPorts) /\ mDebuggerPorts[1] \in Nat \ {0}
  BY <1>4 DEF ToSet
<1>6. NextPort(mDebuggerPorts) = mDebuggerPorts[1]
  BY <1>4 DEF NextPort
<1>7. handedOut' = handedOut \cup {NextPort(mDebuggerPorts)} /\ misreturned' = misreturned
  BY <1>4 DEF TakePort, GetNextDebuggerPort
<1> QED
  BY <1>3, <1>4, <1>5, <1>6, <1>7

(* A port that is given back is on nobody's hands.                         *)
LEMMA ReturnPortLemma ==
  ASSUME PortInv, NEW port \in Int, NEW leased, ReturnPort(port, leased)
  PROVE  /\ PortInv'
         /\ handedOut' = handedOut \ {port}
         /\ misreturned' = IF leased THEN misreturned ELSE misreturned \cup {port}
<1>1. PortInv'
  BY ReturnKeepsInv DEF ReturnPort
<1> QED
  BY <1>1 DEF ReturnPort, AddPortToAvailableList

-----------------------------------------------------------------------------
(* The part of the invariant that every other part rests on.               *)
Typed == TypeOK /\ PortInv /\ Distinct(mClients)

(* What closing a client does.                                             *)
LEMMA DropClientLemma ==
  ASSUME Typed, NEW c \in Ids, NEW notify \in BOOLEAN, DropClient(c, notify)
  PROVE  /\ clients' \in Seq(ClientType) /\ Ids' = Ids
         /\ \A d \in Ids : /\ clients'[d].pid = clients[d].pid
                          /\ clients'[d].port = clients[d].port
                          /\ clients'[d].chan = (d # c /\ clients[d].chan)
                          /\ clients'[d].leases = (d # c /\ clients[d].leases)
         /\ mClients' \in Seq(Ids) /\ Distinct(mClients')
         /\ ToSet(mClients') \subseteq ToSet(mClients) \ {c}
         /\ view' = IF notify THEN mClients' ELSE view
         /\ PortInv' /\ misreturned' \subseteq Port
         /\ handedOut' = handedOut \ {clients[c].port}
         /\ misreturned' = IF clients[c].leases THEN misreturned
                           ELSE misreturned \cup {clients[c].port}
<1> DEFINE Closed(d) == [d EXCEPT !.chan = FALSE, !.debugger = FALSE, !.leases = FALSE]
<1>1. clients \in Seq(ClientType) /\ c \in 1..Len(clients) /\ Ids = 1..Len(clients)
  BY DEF Typed, TypeOK, ClientsOK, Ids
<1>2. /\ clients' = [clients EXCEPT ![c] = Closed(clients[c])]
      /\ mClients' = RemoveFirst(mClients, c)
      /\ ReturnPort(clients[c].port, clients[c].leases)
      /\ view' = IF notify THEN mClients' ELSE view
  BY DEF DropClient
<1>3. \A d \in ClientType : /\ Closed(d) \in ClientType
                            /\ Closed(d).pid = d.pid /\ Closed(d).port = d.port
                            /\ Closed(d).chan = FALSE /\ Closed(d).leases = FALSE
  BY DEF ClientType
<1> HIDE DEF Closed
<1>4. /\ clients' \in Seq(ClientType) /\ Ids' = Ids
      /\ \A d \in Ids : clients'[d] = IF d = c THEN Closed(clients[c]) ELSE clients[d]
  BY <1>1, <1>2, <1>3 DEF Ids
<1>5. \A d \in Ids : clients[d] \in ClientType
  BY <1>1
<1>6. \A d \in Ids : clients[d].leases \in BOOLEAN /\ clients[d].chan \in BOOLEAN
  BY <1>5 DEF ClientType
<1>7. clients[c].port \in Port /\ clients[c].port \in Int
  BY <1>5 DEF ClientType, Port
<1>8. /\ PortInv' /\ handedOut' = handedOut \ {clients[c].port}
      /\ misreturned' = IF clients[c].leases THEN misreturned
                        ELSE misreturned \cup {clients[c].port}
  BY <1>2, <1>7, ReturnPortLemma DEF Typed
<1>9. misreturned' \subseteq Port
  BY <1>7, <1>8 DEF Typed, TypeOK, PortsOK
<1>10. mClients \in Seq(Ids) /\ Distinct(mClients)
  BY DEF Typed, TypeOK, ClientsOK
<1>11. /\ mClients' \in Seq(Ids) /\ Distinct(mClients')
       /\ ToSet(mClients') \subseteq ToSet(mClients) \ {c}
  BY <1>2, <1>10, RemoveLemma
<1>12. ASSUME NEW d \in Ids
       PROVE  /\ clients'[d].pid = clients[d].pid
              /\ clients'[d].port = clients[d].port
              /\ clients'[d].chan = (d # c /\ clients[d].chan)
              /\ clients'[d].leases = (d # c /\ clients[d].leases)
  <2>1. CASE d = c
    <3>1. clients'[d] = Closed(clients[c]) /\ clients[c] \in ClientType
      BY <1>4, <1>5, <2>1
    <3> QED
      BY <1>3, <2>1, <3>1
  <2>2. CASE d # c
    BY <1>4, <1>6, <2>2
  <2> QED
    BY <2>1, <2>2
<1> QED
  BY <1>2, <1>4, <1>8, <1>9, <1>11, <1>12

(* What a client that is opened adds.                                      *)
LEMMA JoinLemma ==
  ASSUME Typed, NEW pid \in Pids, NEW port \in Port, NEW leased \in BOOLEAN,
         ClientJoins(pid, port, leased)
  PROVE  /\ clients' \in Seq(ClientType) /\ Len(clients) \in Nat
         /\ Ids = 1..Len(clients) /\ Ids' = 1..(Len(clients) + 1)
         /\ \A d \in Ids : clients'[d] = clients[d]
         /\ clients'[Len(clients) + 1].pid = pid
         /\ clients'[Len(clients) + 1].port = port
         /\ clients'[Len(clients) + 1].leases = leased
         /\ mClients' \in Seq(Ids') /\ Distinct(mClients')
         /\ ToSet(mClients') = ToSet(mClients) \cup {Len(clients) + 1}
         /\ view' \in Seq(Ids') /\ view' = view
         /\ faults' \in 0..MaxFaults /\ crashed' \in BOOLEAN
         /\ UNCHANGED <<portVars, lost>>
<1> DEFINE n == Len(clients) + 1
<1>1. /\ clients \in Seq(ClientType) /\ Ids = 1..Len(clients) /\ Len(clients) \in Nat
      /\ mClients \in Seq(Ids) /\ view \in Seq(Ids) /\ Distinct(mClients)
      /\ faults \in 0..MaxFaults
  BY DEF Typed, TypeOK, ClientsOK, Ids, EnvOK
<1>2. PICK bound \in BOOLEAN :
        /\ faults' = faults \/ (faults < MaxFaults /\ faults' = faults + 1)
        /\ clients' = Append(clients, NewClient(pid, port, bound, leased))
        /\ crashed' = ~bound
  BY DEF ClientJoins, Fault
<1> DEFINE new == NewClient(pid, port, bound, leased)
<1>3. /\ new \in ClientType /\ new.pid = pid /\ new.port = port
      /\ new.leases = leased
  BY DEF NewClient, ClientType
<1>4. mClients' = Append(mClients, n) /\ UNCHANGED <<view, portVars, lost>>
  BY DEF ClientJoins
<1> HIDE DEF new
<1>5. /\ clients' \in Seq(ClientType) /\ Ids' = 1..n /\ clients'[n] = new
      /\ \A d \in Ids : clients'[d] = clients[d]
  BY <1>1, <1>2, <1>3 DEF new, Ids
<1>6. Ids \subseteq Ids' /\ n \in Ids' /\ n \notin Ids
  BY <1>1, <1>5
<1>7. view' \in Seq(Ids') /\ mClients \in Seq(Ids')
  BY <1>1, <1>4, <1>6, SeqMonotonic
<1>8. /\ mClients' \in Seq(Ids') /\ Len(mClients') = Len(mClients) + 1
      /\ mClients'[Len(mClients) + 1] = n
      /\ \A i \in 1..Len(mClients) : mClients'[i] = mClients[i] /\ mClients[i] # n
  BY <1>1, <1>4, <1>6, <1>7
<1>9. Distinct(mClients')
  <2> SUFFICES ASSUME NEW i \in 1..Len(mClients'), NEW j \in 1..Len(mClients'),
                      mClients'[i] = mClients'[j]
               PROVE  i = j
    BY DEF Distinct
  <2>1. Len(mClients) \in Nat
    BY <1>1
  <2>2. CASE i \in 1..Len(mClients) /\ j \in 1..Len(mClients)
    BY <1>1, <1>8, <2>2 DEF Distinct
  <2>3. CASE i = Len(mClients) + 1 \/ j = Len(mClients) + 1
    BY <1>8, <2>1, <2>3
  <2> QED
    BY <1>8, <2>1, <2>2, <2>3
<1>10. ToSet(mClients') = ToSet(mClients) \cup {n}
  <2>1. DOMAIN mClients' = 1..(Len(mClients) + 1) /\ DOMAIN mClients = 1..Len(mClients)
        /\ Len(mClients) \in Nat
    BY <1>1, <1>8
  <2> QED
    BY <1>8, <2>1 DEF ToSet
<1>11. faults' \in 0..MaxFaults /\ crashed' \in BOOLEAN
  BY <1>1, <1>2, RegistryAssumption
<1> QED
  BY <1>1, <1>3, <1>4, <1>5, <1>7, <1>8, <1>9, <1>10, <1>11

(* A handshake that fails leaves the clients alone.                        *)
LEMMA HandshakeLemma ==
  ASSUME Typed, NEW pid \in Pids, NEW port \in Port, NEW leased \in BOOLEAN,
         HandshakeFails(pid, port, leased)
  PROVE  /\ UNCHANGED <<clients, mClients, crashed>> /\ view' = mClients
         /\ PortInv' /\ handedOut' = handedOut \ {DebugPortBase}
         /\ misreturned' = misreturned \cup {DebugPortBase} /\ misreturned' \subseteq Port
         /\ lost' = (IF leased THEN lost \cup {port} ELSE lost) /\ lost' \subseteq Port
         /\ faults' \in 0..MaxFaults
<1>1. DebugPortBase \in Port /\ DebugPortBase \in Int
  BY PortsAssumption DEF Port
<1>2. ReturnPort(DebugPortBase, FALSE)
  BY DEF HandshakeFails
<1>3. /\ PortInv' /\ handedOut' = handedOut \ {DebugPortBase}
      /\ misreturned' = misreturned \cup {DebugPortBase}
  BY <1>1, <1>2, ReturnPortLemma DEF Typed
<1>4. misreturned' \subseteq Port /\ lost' \subseteq Port
  BY <1>1, <1>3 DEF Typed, TypeOK, PortsOK, HandshakeFails
<1>5. faults' \in 0..MaxFaults
  BY RegistryAssumption DEF Typed, TypeOK, EnvOK, HandshakeFails, Fault
<1> QED
  BY <1>3, <1>4, <1>5 DEF HandshakeFails

-----------------------------------------------------------------------------
(***************************************************************************)
(* The types.  What a step leaves alone keeps its type.                    *)
(***************************************************************************)

(* The list of ports is left alone.                                        *)
LEMMA CalmPorts ==
  ASSUME Typed, UNCHANGED portVars
  PROVE  PortInv' /\ (UNCHANGED lost => PortsOK')
BY DEF portVars, PortInv, PortsTypeOK, NeverEmpty, Ascending,
       Frontier, NotHandedOutTwice, ToSet, Typed, TypeOK, PortsOK

(* The clients are left alone; the listeners may be notified.              *)
LEMMA CalmClients ==
  ASSUME Typed, UNCHANGED <<clients, mClients>>, view' = view \/ view' = mClients
  PROVE  ClientsOK' /\ Distinct(mClients') /\ Ids' = Ids
BY DEF Typed, TypeOK, ClientsOK, Ids

(* The map of requests is left alone.                                      *)
LEMMA CalmReopen ==
  ASSUME Typed, UNCHANGED reopenVars, Ids \subseteq Ids'
  PROVE  ReopenOK'
BY DEF Typed, TypeOK, ReopenOK, reopenVars

(* The reactor thread stays where it is.                                   *)
LEMMA CalmReactor ==
  ASSUME Typed, UNCHANGED r, Ids \subseteq Ids'
  PROVE  ReactorOK'
<1>1. r \in [pc : {"select", "read", "error", "reopen", "snapshot", "merge",
                  "open", "opening", "joining"},
            client : Ids \cup {0}, pid : Pids \cup {0}, port : Port \cup {0, NO_STATIC_PORT},
            snapshot : Seq(Ids), seen : Ids \cup {0}, pids : SUBSET Pids, changed : BOOLEAN]
  BY DEF Typed, TypeOK, ReactorOK
<1>2. r.snapshot \in Seq(Ids')
  BY <1>1, SeqMonotonic
<1> QED
  BY <1>1, <1>2 DEF Typed, TypeOK, ReactorOK

(* The device client thread stays where it is.                             *)
LEMMA CalmMonitor ==
  ASSUME Typed, UNCHANGED m, DOMAIN mClientsToReopen \subseteq DOMAIN mClientsToReopen'
  PROVE  MonitorOK'
BY DEF Typed, TypeOK, MonitorOK

(* Faults are counted up to the bound.                                     *)
LEMMA CountFaults ==
  ASSUME Typed, faults' = faults \/ \E kind : Fault(kind)
  PROVE  faults' \in 0..MaxFaults
<1>1. faults \in 0..MaxFaults
  BY DEF Typed, TypeOK, EnvOK
<1> QED
  BY <1>1, RegistryAssumption DEF Fault

(* The device and its VMs are left alone.                                  *)
LEMMA CalmEnv ==
  ASSUME Typed, UNCHANGED <<envVars, crashed>>, faults' \in 0..MaxFaults
  PROVE  EnvOK'
BY DEF Typed, TypeOK, EnvOK, envVars

(* Steps of the reactor thread that open and close no client.              *)
LEMMA ListsTyped ==
  ASSUME Typed, R_ReadList \/ R_ListError \/ R_LockClients \/ R_UnlockClients \/ R_Notify
  PROVE  Typed'
<1>1. CASE R_ReadList
  <2>1. jdwpLists \in Seq(SUBSET Pids) /\ jdwpLists # <<>>
    BY <1>1 DEF R_ReadList, Typed, TypeOK, EnvOK
  <2>2. Head(jdwpLists) \in SUBSET Pids /\ Tail(jdwpLists) \in Seq(SUBSET Pids)
    BY <1>1, <2>1
  <2>0. Len(clients) \in Ids \cup {0}
    BY DEF Ids, Typed, TypeOK, ClientsOK
  <2>3. ReactorOK'
    BY <1>1, <2>0, <2>2, CalmClients
       DEF R_ReadList, clientVars, Typed, TypeOK, ReactorOK, ClientsOK
  <2>4. EnvOK'
    BY <1>1, <2>2 DEF R_ReadList, Typed, TypeOK, EnvOK
  <2> QED
    BY <1>1, <2>1, <2>2, <2>3, <2>4, CalmPorts, CalmClients, CalmReopen, CalmMonitor
       DEF R_ReadList, clientVars, reopenVars, Typed, TypeOK
<1>2. CASE R_ListError
  <2>1. EnvOK'
    BY <1>2, CountFaults DEF R_ListError, Typed, TypeOK, EnvOK
  <2> QED
    BY <1>2, <2>1, CalmPorts, CalmClients, CalmReopen, CalmReactor, CalmMonitor
       DEF R_ListError, clientVars, reopenVars, Typed, TypeOK
<1>3. CASE R_LockClients
  <2>1. ReactorOK'
    BY <1>3, CalmClients DEF R_LockClients, clientVars, Typed, TypeOK, ReactorOK, ClientsOK
  <2>2. ReopenOK'
    BY <1>3, CalmClients DEF R_LockClients, clientVars, Typed, TypeOK, ReopenOK
  <2> QED
    BY <1>3, <2>1, <2>2, CalmPorts, CalmClients, CalmMonitor, CalmEnv, CountFaults
       DEF R_LockClients, clientVars, reopenVars, Typed, TypeOK
<1>4. CASE R_UnlockClients
  <2>1. ReactorOK'
    BY <1>4, CalmClients DEF R_UnlockClients, clientVars, Typed, TypeOK, ReactorOK, ClientsOK
  <2>2. ReopenOK'
    BY <1>4, CalmClients DEF R_UnlockClients, clientVars, Typed, TypeOK, ReopenOK
  <2> QED
    BY <1>4, <2>1, <2>2, CalmPorts, CalmClients, CalmMonitor, CalmEnv, CountFaults
       DEF R_UnlockClients, clientVars, reopenVars, Typed, TypeOK
<1>5. CASE R_Notify
  <2>1. ReactorOK'
    BY <1>5, CalmClients DEF R_Notify, ReactorIdle, Typed, TypeOK, ReactorOK, ClientsOK
  <2> QED
    BY <1>5, <2>1, CalmPorts, CalmClients, CalmReopen, CalmMonitor, CalmEnv, CountFaults
       DEF R_Notify, clientVars, reopenVars, Typed, TypeOK
<1> QED
  BY <1>1, <1>2, <1>3, <1>4, <1>5

(* The handshake is marked as answered.                                    *)
LEMMA ShakenLemma ==
  ASSUME Typed, NEW c \in Ids, clients' = [clients EXCEPT ![c].shaken = TRUE], UNCHANGED <<mClients, view>>
  PROVE  ClientsOK' /\ Distinct(mClients') /\ Ids' = Ids
<1>1. \A d \in ClientType : [d EXCEPT !.shaken = TRUE] \in ClientType
  BY DEF ClientType
<1> QED
  BY <1>1 DEF Typed, TypeOK, ClientsOK, Ids

(* The port wanted for an application is a port.                           *)
LEMMA AppNameLemma ==
  ASSUME Typed, R_AppName
  PROVE  ReactorOK'
<1>1. r.client \in Ids /\ clients[r.client] \in ClientType
  BY DEF R_AppName, Typed, TypeOK, ReactorOK, ClientsOK, Ids
<1>2. StaticPort[clients[r.client].pid] \in Port \cup {NO_STATIC_PORT}
  BY <1>1, RegistryAssumption DEF ClientType, Port
<1> DEFINE newPort == StaticPort[clients[r.client].pid]
<1> HIDE DEF newPort
<1>3. Ids' = Ids
  BY CalmClients DEF R_AppName, clientVars
<1>4. CASE r' = ReactorIdle
  BY <1>3, <1>4 DEF ReactorIdle, ReactorOK
<1>5. CASE r' = [r EXCEPT !.pc = "reopen", !.port = newPort] /\ newPort # NO_STATIC_PORT
  BY <1>1, <1>2, <1>3, <1>5 DEF newPort, Port, Typed, TypeOK, ReactorOK
<1> QED
  BY <1>4, <1>5 DEF R_AppName, newPort

(* Steps of the reactor thread on a client's socket.                       *)
LEMMA SocketsTyped ==
  ASSUME Typed,
         \/ \E c \in Ids, notification \in {"read", "error"} : R_Select(c, notification)
         \/ R_GoodHandshake \/ R_BadHandshake \/ R_AppName \/ R_OtherData
         \/ R_AddClientToDropAndReopen
  PROVE  Typed'
<1>1. CASE \E c \in Ids, notification \in {"read", "error"} : R_Select(c, notification)
  <2>1. ReactorOK'
    BY <1>1, CalmClients DEF R_Select, clientVars, Typed, TypeOK, ReactorOK, ClientsOK
  <2>2. faults' \in 0..MaxFaults
    BY <1>1, CountFaults DEF R_Select
  <2> QED
    BY <1>1, <2>1, <2>2, CalmPorts, CalmClients, CalmReopen, CalmMonitor, CalmEnv
       DEF R_Select, clientVars, reopenVars, Typed, TypeOK
<1>2. CASE R_GoodHandshake
  <2>1. ClientsOK' /\ Distinct(mClients') /\ Ids' = Ids
    BY <1>2, ShakenLemma DEF R_GoodHandshake, Typed, TypeOK, ReactorOK, ClientsOK
  <2>2. ReactorOK'
    BY <1>2, <2>1 DEF R_GoodHandshake, ReactorIdle, Typed, TypeOK, ReactorOK, ClientsOK
  <2> QED
    BY <1>2, <2>1, <2>2, CalmPorts, CalmReopen, CalmMonitor, CalmEnv, CountFaults
       DEF R_GoodHandshake, clientVars, reopenVars, Typed, TypeOK
<1>3. CASE R_BadHandshake
  <2>1. NO_STATIC_PORT # 0
    BY <1>3 DEF NO_STATIC_PORT
  <2>2. ReactorOK'
    BY <1>3, <2>1, CalmClients DEF R_BadHandshake, clientVars, Typed, TypeOK, ReactorOK, ClientsOK
  <2>3. faults' \in 0..MaxFaults
    BY <1>3, CountFaults DEF R_BadHandshake
  <2> QED
    BY <1>3, <2>1, <2>2, <2>3, CalmPorts, CalmClients, CalmReopen, CalmMonitor, CalmEnv
       DEF R_BadHandshake, clientVars, reopenVars, Typed, TypeOK
<1>4. CASE R_AppName
  <2>1. ReactorOK'
    BY <1>4, AppNameLemma
  <2> QED
    BY <1>4, <2>1, CalmPorts, CalmClients, CalmReopen, CalmMonitor, CalmEnv, CountFaults
       DEF R_AppName, clientVars, reopenVars, Typed, TypeOK
<1>5. CASE R_OtherData
  <2>1. ReactorOK'
    BY <1>5, CalmClients
       DEF R_OtherData, clientVars, ReactorIdle, Typed, TypeOK, ReactorOK, ClientsOK
  <2> QED
    BY <1>5, <2>1, CalmPorts, CalmClients, CalmReopen, CalmMonitor, CalmEnv, CountFaults
       DEF R_OtherData, clientVars, reopenVars, Typed, TypeOK
<1>6. CASE R_AddClientToDropAndReopen
  <2>1. ReactorOK'
    BY <1>6, CalmClients
       DEF R_AddClientToDropAndReopen, clientVars, ReactorIdle, Typed, TypeOK, ReactorOK, ClientsOK
  <2>2. ReopenOK' /\ DOMAIN mClientsToReopen \subseteq DOMAIN mClientsToReopen'
    BY <1>6, CalmClients
       DEF R_AddClientToDropAndReopen, WithRequest, clientVars, Typed, TypeOK, ReopenOK, ReactorOK
  <2> QED
    BY <1>6, <2>1, <2>2, CalmPorts, CalmClients, CalmMonitor, CalmEnv, CountFaults
       DEF R_AddClientToDropAndReopen, clientVars, reopenVars, Typed, TypeOK
<1> QED
  BY <1>1, <1>2, <1>3, <1>4, <1>5, <1>6

(* Steps that open or close clients.                                       *)
LEMMA PoolPorts == PortInv' => mDebuggerPorts' \in Seq(Port) /\ handedOut' \subseteq Port
BY DEF PortInv, PortsTypeOK, Port

(* A client is closed.                                                     *)
LEMMA DropTyped ==
  ASSUME Typed, NEW c \in Ids, NEW notify \in BOOLEAN, DropClient(c, notify), UNCHANGED lost
  PROVE  ClientsOK' /\ Distinct(mClients') /\ Ids' = Ids /\ PortInv' /\ PortsOK'
<1>1. /\ clients' \in Seq(ClientType) /\ Ids' = Ids /\ Distinct(mClients')
      /\ mClients' \in Seq(Ids) /\ view' = IF notify THEN mClients' ELSE view
      /\ PortInv' /\ misreturned' \subseteq Port
  BY DropClientLemma
<1>2. view \in Seq(Ids) /\ lost \subseteq Port
  BY DEF Typed, TypeOK, ClientsOK, PortsOK
<1> QED
  BY <1>1, <1>2, PoolPorts DEF ClientsOK, PortsOK

(* A client is opened.                                                     *)
LEMMA JoinTyped ==
  ASSUME Typed, NEW pid \in Pids, NEW port \in Port, NEW leased \in BOOLEAN,
         ClientJoins(pid, port, leased)
  PROVE  /\ ClientsOK' /\ Distinct(mClients') /\ Ids \subseteq Ids' /\ PortInv' /\ PortsOK'
         /\ faults' \in 0..MaxFaults /\ crashed' \in BOOLEAN
<1>1. /\ clients' \in Seq(ClientType) /\ Len(clients) \in Nat
      /\ Ids = 1..Len(clients) /\ Ids' = 1..(Len(clients) + 1)
      /\ mClients' \in Seq(Ids') /\ Distinct(mClients') /\ view' \in Seq(Ids')
      /\ faults' \in 0..MaxFaults /\ crashed' \in BOOLEAN
      /\ UNCHANGED <<portVars, lost>>
  BY JoinLemma
<1>2. Ids \subseteq Ids'
  BY <1>1
<1> QED
  BY <1>1, <1>2, CalmPorts DEF ClientsOK

(* A handshake fails.                                                      *)
LEMMA HandshakeTyped ==
  ASSUME Typed, NEW pid \in Pids, NEW port \in Port, NEW leased \in BOOLEAN,
         HandshakeFails(pid, port, leased)
  PROVE  /\ ClientsOK' /\ Distinct(mClients') /\ Ids \subseteq Ids' /\ PortInv' /\ PortsOK'
         /\ faults' \in 0..MaxFaults /\ crashed' \in BOOLEAN
<1>1. /\ UNCHANGED <<clients, mClients, crashed>> /\ view' = mClients
      /\ PortInv' /\ misreturned' \subseteq Port /\ lost' \subseteq Port
      /\ faults' \in 0..MaxFaults
  BY HandshakeLemma
<1>2. ClientsOK' /\ Distinct(mClients') /\ Ids' = Ids
  BY <1>1, CalmClients
<1>3. crashed' \in BOOLEAN
  BY <1>1 DEF Typed, TypeOK, EnvOK
<1> QED
  BY <1>1, <1>2, <1>3, PoolPorts DEF PortsOK

(* A connection is made, or fails.                                         *)
LEMMA ConnectTyped ==
  ASSUME Typed, NEW pid \in Pids, NEW port \in Port, NEW leased \in BOOLEAN, UNCHANGED portVars,
         ConnectFails(pid, port, leased) \/ UNCHANGED <<lost, faults>>
  PROVE  PortsOK' /\ PortInv' /\ faults' \in 0..MaxFaults
<1>1. lost' \subseteq Port
  BY DEF ConnectFails, Typed, TypeOK, PortsOK
<1>2. faults' \in 0..MaxFaults
  BY CountFaults DEF ConnectFails
<1> QED
  BY <1>1, <1>2, CalmPorts, PoolPorts DEF portVars, Typed, TypeOK, PortsOK

(* One round of the merge.                                                 *)
LEMMA MergeTyped ==
  ASSUME Typed, R_Merge
  PROVE  Typed'
<1> DEFINE c == Head(r.snapshot)
<1>1. r.snapshot \in Seq(Ids) /\ r.snapshot # <<>>
  BY DEF R_Merge, Typed, TypeOK, ReactorOK
<1>2. c \in Ids /\ Tail(r.snapshot) \in Seq(Ids)
  BY <1>1
<1> HIDE DEF c
<1>3. /\ ClientsOK' /\ Distinct(mClients') /\ Ids' = Ids /\ PortInv' /\ PortsOK'
  <2>1. CASE clients[c].pid \in r.pids
    BY <2>1, CalmClients, CalmPorts DEF R_Merge, c, clientVars
  <2>2. CASE clients[c].pid \notin r.pids
    BY <1>2, <2>2, DropTyped DEF R_Merge, c
  <2> QED
    BY <2>1, <2>2
<1>4. \/ r' = [r EXCEPT !.snapshot = Tail(r.snapshot), !.pids = @ \ {clients[c].pid}]
      \/ r' = [r EXCEPT !.snapshot = Tail(r.snapshot), !.changed = TRUE]
  BY DEF R_Merge, c
<1>5. ReactorOK'
  <2>1. r.pc = "merge"
    BY DEF R_Merge
  <2>2. CASE r' = [r EXCEPT !.snapshot = Tail(r.snapshot), !.pids = @ \ {clients[c].pid}]
    BY <1>2, <1>3, <2>1, <2>2 DEF Typed, TypeOK, ReactorOK
  <2>3. CASE r' = [r EXCEPT !.snapshot = Tail(r.snapshot), !.changed = TRUE]
    BY <1>2, <1>3, <2>1, <2>3 DEF Typed, TypeOK, ReactorOK
  <2> QED
    BY <1>4, <2>2, <2>3
<1>6. /\ UNCHANGED <<m, reopenVars, crashed, envVars, faults>>
      /\ DOMAIN mClientsToReopen \subseteq DOMAIN mClientsToReopen'
  BY DEF R_Merge, reopenVars
<1> QED
  BY <1>3, <1>5, <1>6, CalmReopen, CalmMonitor, CalmEnv, CountFaults DEF Typed, TypeOK

(* The reactor thread opens a client.                                      *)
LEMMA OpensTyped ==
  ASSUME Typed, (\E pid \in Pids : R_TakePort(pid)) \/ R_Connect \/ R_CreateClient
  PROVE  Typed'
<1>1. CASE \E pid \in Pids : R_TakePort(pid)
  <2>1. PICK pid \in Pids : R_TakePort(pid)
    BY <1>1
  <2>2. /\ PortInv' /\ NextPort(mDebuggerPorts) \in Port /\ misreturned' = misreturned
    BY <2>1, TakePortLemma DEF R_TakePort, Typed, Port
  <2>3. PortsOK'
    BY <2>1, <2>2, PoolPorts DEF R_TakePort, Typed, TypeOK, PortsOK
  <2>4. ClientsOK' /\ Distinct(mClients') /\ Ids' = Ids
    BY <2>1, CalmClients DEF R_TakePort, clientVars
  <2>5. ReactorOK'
    BY <2>1, <2>2, <2>4 DEF R_TakePort, Typed, TypeOK, ReactorOK
  <2> QED
    BY <2>1, <2>2, <2>3, <2>4, <2>5, CalmReopen, CalmMonitor, CalmEnv, CountFaults
       DEF R_TakePort, reopenVars, Typed, TypeOK
<1>2. CASE R_Connect
  <2>1. r.pid \in Pids /\ r.port \in Port
    BY <1>2 DEF R_Connect, Typed, TypeOK, ReactorOK
  <2>2. PortsOK' /\ PortInv' /\ faults' \in 0..MaxFaults
    BY <1>2, <2>1, ConnectTyped DEF R_Connect
  <2>3. ClientsOK' /\ Distinct(mClients') /\ Ids' = Ids
    BY <1>2, CalmClients DEF R_Connect, clientVars
  <2>4. ReactorOK'
    BY <1>2, <2>3 DEF R_Connect, Typed, TypeOK, ReactorOK
  <2> QED
    BY <1>2, <2>2, <2>3, <2>4, CalmReopen, CalmMonitor, CalmEnv
       DEF R_Connect, reopenVars, Typed, TypeOK
<1>3. CASE R_CreateClient
  <2>1. r.pid \in Pids /\ r.port \in Port
    BY <1>3 DEF R_CreateClient, Typed, TypeOK, ReactorOK
  <2>2. /\ ClientsOK' /\ Distinct(mClients') /\ Ids \subseteq Ids' /\ PortInv' /\ PortsOK'
        /\ faults' \in 0..MaxFaults /\ crashed' \in BOOLEAN
    BY <1>3, <2>1, HandshakeTyped, JoinTyped DEF R_CreateClient
  <2>3. r.snapshot \in Seq(Ids')
    BY <2>2, SeqMonotonic DEF Typed, TypeOK, ReactorOK
  <2>4. ReactorOK'
    BY <1>3, <2>2, <2>3 DEF R_CreateClient, Typed, TypeOK, ReactorOK
  <2>5. EnvOK'
    BY <1>3, <2>2 DEF R_CreateClient, envVars, Typed, TypeOK, EnvOK
  <2> QED
    BY <1>3, <2>2, <2>4, <2>5, CalmReopen, CalmMonitor
       DEF R_CreateClient, reopenVars, Typed, TypeOK
<1> QED
  BY <1>1, <1>2, <1>3

(* The reactor thread closes a client.                                     *)
LEMMA ClosesTyped ==
  ASSUME Typed, R_ReadClosed \/ R_DropClient
  PROVE  Typed'
<1>1. r.client \in Ids /\ DropClient(r.client, TRUE) /\ UNCHANGED lost
  BY DEF R_ReadClosed, R_DropClient, Typed, TypeOK, ReactorOK
<1>2. ClientsOK' /\ Distinct(mClients') /\ Ids' = Ids /\ PortInv' /\ PortsOK'
  BY <1>1, DropTyped
<1>3. ReactorOK'
  <2>1. CASE R_ReadClosed
    BY <1>2, <2>1, CalmReactor DEF R_ReadClosed
  <2>2. CASE R_DropClient
    BY <1>2, <2>2 DEF R_DropClient, ReactorIdle, ReactorOK
  <2> QED
    BY <2>1, <2>2
<1>4. EnvOK'
  <2>1. faults' \in 0..MaxFaults
    BY CountFaults DEF R_ReadClosed, R_DropClient
  <2> QED
    BY <2>1 DEF R_ReadClosed, R_DropClient, envVars, Typed, TypeOK, EnvOK
<1>5. UNCHANGED <<m, reopenVars>> /\ DOMAIN mClientsToReopen \subseteq DOMAIN mClientsToReopen'
  BY DEF R_ReadClosed, R_DropClient, reopenVars
<1> QED
  BY <1>2, <1>3, <1>4, <1>5, CalmReopen, CalmMonitor DEF Typed, TypeOK

(* Steps of the device client thread.                                      *)
LEMMA MonitorTyped ==
  ASSUME Typed,
         \/ M_Sleep \/ M_Wake
         \/ M_LockClients \/ (\E c \in Ids : M_DropClient(c)) \/ M_TakePort
         \/ M_Connect \/ M_CreateClient \/ M_Notify \/ M_UnlockClients
  PROVE  Typed'
<1>1. CASE M_LockClients
  <2>1. MonitorOK'
    BY <1>1 DEF M_LockClients, Typed, TypeOK, MonitorOK
  <2>2. ClientsOK' /\ Distinct(mClients') /\ Ids' = Ids
    BY <1>1, CalmClients DEF M_LockClients, clientVars
  <2>3. ReopenOK'
    BY <1>1, <2>2 DEF M_LockClients, Typed, TypeOK, ReopenOK
  <2> QED
    BY <1>1, <2>1, <2>2, <2>3, CalmPorts, CalmReactor, CalmEnv, CountFaults
       DEF M_LockClients, Typed, TypeOK
<1>2. CASE \E c \in Ids : M_DropClient(c)
  <2>1. PICK c \in Ids : M_DropClient(c)
    BY <1>2
  <2>2. ClientsOK' /\ Distinct(mClients') /\ Ids' = Ids /\ PortInv' /\ PortsOK'
    BY <2>1, DropTyped DEF M_DropClient
  <2>3. clients[c].pid \in Pids
    <3>1. clients[c] \in ClientType
      BY DEF Typed, TypeOK, ClientsOK, Ids
    <3> QED
      BY <3>1 DEF ClientType
  <2>4. c \in DOMAIN mClientsToReopen /\ mClientsToReopen[c] \in Port \cup {NO_STATIC_PORT}
    BY <2>1 DEF M_DropClient, Typed, TypeOK, MonitorOK, ReopenOK
  <2>5. NO_STATIC_PORT # 0 /\ 0 \notin Port
    BY DEF NO_STATIC_PORT, Port
  <2>6. MonitorOK'
    BY <2>1, <2>3, <2>4, <2>5 DEF M_DropClient, reopenVars, Typed, TypeOK, MonitorOK
  <2> QED
    BY <2>1, <2>2, <2>6, CalmReopen, CalmReactor, CalmEnv, CountFaults
       DEF M_DropClient, Typed, TypeOK
<1>3. CASE M_TakePort
  <2>1. ClientsOK' /\ Distinct(mClients') /\ Ids' = Ids
    BY <1>3, CalmClients DEF M_TakePort, clientVars
  <2>2. CASE m.port = NO_STATIC_PORT
    <3>1. PortInv' /\ NextPort(mDebuggerPorts) \in Port /\ misreturned' = misreturned
      BY <1>3, <2>2, TakePortLemma DEF M_TakePort, Typed, Port
    <3>2. PortsOK'
      BY <1>3, <3>1, PoolPorts DEF M_TakePort, Typed, TypeOK, PortsOK
    <3>3. MonitorOK'
      BY <1>3, <2>2, <3>1 DEF M_TakePort, reopenVars, Typed, TypeOK, MonitorOK
    <3> QED
      BY <1>3, <2>1, <3>1, <3>2, <3>3, CalmReopen, CalmReactor, CalmEnv, CountFaults
         DEF M_TakePort, Typed, TypeOK
  <2>3. CASE m.port # NO_STATIC_PORT
    <3>1. MonitorOK'
      BY <1>3, <2>3 DEF M_TakePort, reopenVars, Typed, TypeOK, MonitorOK
    <3> QED
      BY <1>3, <2>1, <2>3, <3>1, CalmPorts, CalmReopen, CalmReactor, CalmEnv, CountFaults
         DEF M_TakePort, Typed, TypeOK
  <2> QED
    BY <2>2, <2>3
<1>4. CASE M_Connect
  <2>1. m.pid \in Pids /\ m.port \in Port /\ m.leased \in BOOLEAN
    BY <1>4 DEF M_Connect, Typed, TypeOK, MonitorOK
  <2>2. PortsOK' /\ PortInv' /\ faults' \in 0..MaxFaults
    BY <1>4, <2>1, ConnectTyped DEF M_Connect
  <2>3. ClientsOK' /\ Distinct(mClients') /\ Ids' = Ids
    BY <1>4, CalmClients DEF M_Connect, clientVars
  <2>4. MonitorOK'
    BY <1>4 DEF M_Connect, reopenVars, Typed, TypeOK, MonitorOK
  <2> QED
    BY <1>4, <2>2, <2>3, <2>4, CalmReopen, CalmReactor, CalmEnv DEF M_Connect, Typed, TypeOK
<1>5. CASE M_CreateClient
  <2>1. m.pid \in Pids /\ m.port \in Port /\ m.leased \in BOOLEAN
    BY <1>5 DEF M_CreateClient, Typed, TypeOK, MonitorOK
  <2>2. /\ ClientsOK' /\ Distinct(mClients') /\ Ids \subseteq Ids' /\ PortInv' /\ PortsOK'
        /\ faults' \in 0..MaxFaults /\ crashed' \in BOOLEAN
    BY <1>5, <2>1, HandshakeTyped, JoinTyped DEF M_CreateClient
  <2>3. MonitorOK'
    BY <1>5 DEF M_CreateClient, reopenVars, Typed, TypeOK, MonitorOK
  <2>4. EnvOK'
    BY <1>5, <2>2 DEF M_CreateClient, envVars, Typed, TypeOK, EnvOK
  <2> QED
    BY <1>5, <2>2, <2>3, <2>4, CalmReopen, CalmReactor DEF M_CreateClient, Typed, TypeOK
<1>6. CASE M_Notify
  <2>1. MonitorOK'
    BY <1>6 DEF M_Notify, reopenVars, Typed, TypeOK, MonitorOK
  <2> QED
    BY <1>6, <2>1, CalmPorts, CalmClients, CalmReopen, CalmReactor, CalmEnv, CountFaults
       DEF M_Notify, Typed, TypeOK
<1>7. CASE M_UnlockClients
  <2>1. MonitorOK'
    BY <1>7 DEF M_UnlockClients, MonitorIdle, MonitorOK
  <2>2. ReopenOK'
    BY <1>7 DEF M_UnlockClients, ReopenOK
  <2> QED
    BY <1>7, <2>1, <2>2, CalmPorts, CalmClients, CalmReactor, CalmEnv, CountFaults
       DEF M_UnlockClients, clientVars, Typed, TypeOK
<1>8. CASE M_Sleep
  <2>1. MonitorOK'
    BY <1>8 DEF M_Sleep, Typed, TypeOK, MonitorOK
  <2>2. ClientsOK' /\ Distinct(mClients') /\ Ids' = Ids
    BY <1>8, CalmClients DEF M_Sleep, clientVars
  <2>3. ReopenOK'
    BY <1>8, <2>2 DEF M_Sleep, Typed, TypeOK, ReopenOK
  <2> QED
    BY <1>8, <2>1, <2>2, <2>3, CalmPorts, CalmReactor, CalmEnv, CountFaults
       DEF M_Sleep, Typed, TypeOK
<1>9. CASE M_Wake
  <2>1. MonitorOK'
    BY <1>9 DEF M_Wake, MonitorIdle, MonitorOK
  <2>2. ClientsOK' /\ Distinct(mClients') /\ Ids' = Ids
    BY <1>9, CalmClients DEF M_Wake, clientVars
  <2>3. ReopenOK'
    BY <1>9, <2>2 DEF M_Wake, Typed, TypeOK, ReopenOK
  <2> QED
    BY <1>9, <2>1, <2>2, <2>3, CalmPorts, CalmReactor, CalmEnv, CountFaults
       DEF M_Wake, Typed, TypeOK
<1> QED
  BY <1>1, <1>2, <1>3, <1>4, <1>5, <1>6, <1>7, <1>8, <1>9

(* A VM starts or exits.                                                   *)
LEMMA VmsTyped ==
  ASSUME Typed, Vms
  PROVE  Typed'
<1>1. PICK newVms \in SUBSET Pids : VmChange(newVms)
  <2>1. PICK pid \in Pids : VmStart(pid) \/ VmExit(pid)
    BY DEF Vms
  <2>2. vms \cup {pid} \in SUBSET Pids /\ vms \ {pid} \in SUBSET Pids
    BY DEF Typed, TypeOK, EnvOK
  <2> QED
    BY <2>1, <2>2 DEF VmStart, VmExit
<1>2. jdwpLists' \in Seq(SUBSET Pids) /\ changes' \in 0..MaxChanges
  BY <1>1, RegistryAssumption DEF VmChange, Typed, TypeOK, EnvOK
<1>3. EnvOK'
  BY <1>1, <1>2 DEF VmChange, Typed, TypeOK, EnvOK
<1>4. ClientsOK' /\ Distinct(mClients') /\ Ids' = Ids
  BY <1>1, CalmClients DEF VmChange, clientVars
<1> QED
  BY <1>1, <1>3, <1>4, CalmPorts, CalmReopen, CalmReactor, CalmMonitor
     DEF VmChange, reopenVars, Typed, TypeOK

(* Everything is typed at the start.                                       *)
LEMMA InitTyped == Init => Typed
<1> SUFFICES ASSUME Init  PROVE Typed
  OBVIOUS
<1>1. Ids = {} /\ DOMAIN mClientsToReopen = {}
  BY DEF Init, Ids
<1>2. PortInv
  BY PortsAssumption
     DEF Init, PortsInit, PortInv, PortsTypeOK, NeverEmpty,
     Ascending, Frontier, NotHandedOutTwice, ToSet
<1>3. PortsOK
  BY PortsAssumption DEF Init, PortsInit, PortsOK, Port
<1>4. ClientsOK /\ Distinct(mClients)
  BY DEF Init, ClientsOK, Distinct
<1>5. ReopenOK
  BY <1>1 DEF Init, ReopenOK
<1>6. ReactorOK
  BY DEF Init, ReactorIdle, ReactorOK
<1>7. MonitorOK
  BY DEF Init, MonitorIdle, MonitorOK
<1>8. EnvOK
  <2>1. 0 \in 0..MaxChanges /\ 0 \in 0..MaxFaults
    BY RegistryAssumption
  <2>2. <<>> \in Seq(SUBSET Pids)
    BY EmptySeq
  <2> QED
    BY <2>1, <2>2 DEF Init, EnvOK
<1> QED
  BY <1>2, <1>3, <1>4, <1>5, <1>6, <1>7, <1>8 DEF Typed, TypeOK

(* Every step keeps the types.                                             *)
LEMMA NextTyped == Typed /\ [Next]_vars => Typed'
<1> SUFFICES ASSUME Typed, [Next]_vars  PROVE Typed'
  OBVIOUS
<1>1. CASE Reactor
  BY <1>1, ListsTyped, MergeTyped, OpensTyped, SocketsTyped, ClosesTyped DEF Reactor
<1>2. CASE ClientMonitor /\ ~UNCHANGED vars
  BY <1>2, MonitorTyped DEF ClientMonitor
<1>3. CASE Vms
  BY <1>3, VmsTyped
<1>4. CASE UNCHANGED vars
  BY <1>4, CalmPorts, CalmClients, CalmReopen, CalmReactor, CalmMonitor, CalmEnv, CountFaults
     DEF vars, clientVars, reopenVars, Typed, TypeOK
<1> QED
  BY <1>1, <1>2, <1>3, <1>4 DEF Next, Crashed

(* Every variable keeps its type, the list of ports its invariant, and no  *)
(* client is twice in the device's list, in every interleaving of the two  *)
(* threads with each other, the VMs and the faults.                        *)
THEOREM RegistryTyped == Spec => []Typed
<1> QED
  BY InitTyped, NextTyped, PTL DEF Spec

(* The variables have their types in every run, for any number of VMs,     *)
(* ports and faults.                                                       *)
THEOREM RegistryTypes == Spec => []TypeOK
<1>1. Typed => TypeOK
  BY DEF Typed
<1> QED
  BY <1>1, RegistryTyped, PTL

-----------------------------------------------------------------------------
(***************************************************************************)
(* No request to reopen a client is lost.                                  *)
(***************************************************************************)

(* A client keeps its pid and its port; a client that is closed stays      *)
(* closed, and a lease that has ended stays ended.                         *)
Stays(d) ==
  /\ d \in Ids' /\ clients'[d].pid = clients[d].pid /\ clients'[d].port = clients[d].port
  /\ clients'[d].chan => clients[d].chan
  /\ clients'[d].leases => clients[d].leases

(* Closing a client closes it, and nothing else changes.                   *)
LEMMA DroppedStay ==
  ASSUME Typed, NEW c \in Ids, NEW notify \in BOOLEAN, DropClient(c, notify), NEW d \in Ids
  PROVE  Stays(d)
BY DropClientLemma DEF Stays

(* A step that leaves the clients alone.                                   *)
LEMMA UnchangedStay ==
  ASSUME Typed, UNCHANGED clients, NEW d \in Ids
  PROVE  Stays(d)
BY DEF Stays, Ids

(* Opening a client leaves the others alone.                               *)
LEMMA CreatedStay ==
  ASSUME Typed, R_CreateClient \/ M_CreateClient, NEW d \in Ids
  PROVE  Stays(d)
<1>1. CASE R_CreateClient
  <2>1. r.pid \in Pids /\ r.port \in Port
    BY <1>1 DEF R_CreateClient, Typed, TypeOK, ReactorOK
  <2>2. CASE HandshakeFails(r.pid, r.port, TRUE)
    BY <2>2, UnchangedStay DEF HandshakeFails
  <2>3. CASE ClientJoins(r.pid, r.port, TRUE)
    <3>1. TRUE \in BOOLEAN
      OBVIOUS
    <3>2. /\ Ids = 1..Len(clients) /\ Ids' = 1..(Len(clients) + 1) /\ Len(clients) \in Nat
          /\ \A e \in Ids : clients'[e] = clients[e]
      BY <2>1, <2>3, <3>1, JoinLemma
    <3> QED
      <4>1. d \in Ids' /\ clients'[d] = clients[d]
        BY <3>2
      <4> QED
        BY <4>1 DEF Stays
  <2> QED
    BY <1>1, <2>2, <2>3 DEF R_CreateClient
<1>2. CASE M_CreateClient
  <2>1. m.pid \in Pids /\ m.port \in Port /\ m.leased \in BOOLEAN
    BY <1>2 DEF M_CreateClient, Typed, TypeOK, MonitorOK
  <2>2. CASE HandshakeFails(m.pid, m.port, m.leased)
    BY <2>2, UnchangedStay DEF HandshakeFails
  <2>3. CASE ClientJoins(m.pid, m.port, m.leased)
    BY <2>1, <2>3, JoinLemma DEF Stays
  <2> QED
    BY <1>2, <2>2, <2>3 DEF M_CreateClient
<1> QED
  BY <1>1, <1>2

(* No step changes what a client is, or opens it again.                    *)
LEMMA ClientsStay ==
  ASSUME Typed, [Next]_vars, NEW d \in Ids
  PROVE  Stays(d)
<1>1. CASE UNCHANGED clients
  BY <1>1, UnchangedStay
<1>2. CASE R_Merge
  <2>1. Head(r.snapshot) \in Ids
    BY <1>2 DEF R_Merge, Typed, TypeOK, ReactorOK
  <2> QED
    BY <1>1, <1>2, <2>1, DroppedStay DEF R_Merge, clientVars
<1>3. CASE R_ReadClosed \/ R_DropClient
  <2>1. r.client \in Ids
    BY <1>3 DEF R_ReadClosed, R_DropClient, Typed, TypeOK, ReactorOK
  <2> QED
    BY <1>3, <2>1, DroppedStay DEF R_ReadClosed, R_DropClient
<1>4. CASE \E c \in Ids : M_DropClient(c)
  BY <1>4, DroppedStay DEF M_DropClient
<1>5. CASE R_CreateClient \/ M_CreateClient
  BY <1>5, CreatedStay
<1>6. CASE R_GoodHandshake
  <2>1. clients' = [clients EXCEPT ![r.client].shaken = TRUE] /\ clients \in Seq(ClientType)
    BY <1>6 DEF R_GoodHandshake, Typed, TypeOK, ClientsOK
  <2>2. Ids' = Ids /\ clients[d] \in ClientType
    BY <2>1 DEF Ids
  <2>3. clients'[d] = clients[d] \/ clients'[d] = [clients[d] EXCEPT !.shaken = TRUE]
    BY <2>1, <2>2 DEF Ids
  <2> QED
    BY <2>2, <2>3 DEF Stays, ClientType
<1>7. CASE Vms \/ UNCHANGED vars
  BY <1>1, <1>7 DEF Vms, VmStart, VmExit, VmChange, clientVars, vars
<1>8. CASE Reactor
  BY <1>1, <1>2, <1>3, <1>5, <1>6, <1>8
     DEF Reactor, R_ReadList, R_ListError, R_LockClients, R_UnlockClients, R_TakePort, R_Connect,
         R_Notify, R_Select, R_BadHandshake, R_AppName, R_OtherData, R_AddClientToDropAndReopen,
           clientVars
<1>9. CASE ClientMonitor
  BY <1>1, <1>4, <1>5, <1>9
     DEF ClientMonitor, M_Sleep, M_Wake, M_LockClients, M_TakePort, M_Connect, M_Notify,
         M_UnlockClients, clientVars
<1> QED
  BY <1>7, <1>8, <1>9 DEF Next, Crashed

(* Every client that a sweep has been through is closed, and nobody else   *)
(* changes the map meanwhile.                                              *)
LockInv ==
  /\ LockOK
  /\ m.pc # "idle" => \A c \in DOMAIN mClientsToReopen \ m.todo : ~clients[c].chan

(* Every step keeps the lock where the code holds it.                      *)
LEMMA NextLock == Typed /\ LockInv /\ [Next]_vars => LockInv'
<1> SUFFICES ASSUME Typed, LockInv, [Next]_vars  PROVE LockInv'
  OBVIOUS
<1>0. /\ \A d \in Ids : clients'[d].chan => clients[d].chan
      /\ DOMAIN mClientsToReopen \subseteq Ids
  BY ClientsStay DEF Stays, Typed, TypeOK, ReopenOK
<1>1. CASE R_ReadList
  BY <1>0, <1>1 DEF R_ReadList, reopenVars, LockInv, LockOK, Typed, TypeOK, ReactorOK
<1>2. CASE R_ListError
  BY <1>0, <1>2 DEF R_ListError, reopenVars, LockInv, LockOK, Typed, TypeOK, ReactorOK
<1>3. CASE R_LockClients
  BY <1>0, <1>3 DEF R_LockClients, reopenVars, LockInv, LockOK, Typed, TypeOK, ReactorOK
<1>4. CASE R_Merge
  BY <1>0, <1>4 DEF R_Merge, reopenVars, LockInv, LockOK, Typed, TypeOK, ReactorOK
<1>5. CASE R_UnlockClients
  BY <1>0, <1>5 DEF R_UnlockClients, reopenVars, LockInv, LockOK, Typed, TypeOK, ReactorOK
<1>6. CASE \E pid \in Pids : R_TakePort(pid)
  BY <1>0, <1>6 DEF R_TakePort, reopenVars, LockInv, LockOK, Typed, TypeOK, ReactorOK
<1>7. CASE R_Connect
  BY <1>0, <1>7 DEF R_Connect, reopenVars, LockInv, LockOK, Typed, TypeOK, ReactorOK
<1>8. CASE R_CreateClient
  BY <1>0, <1>8 DEF R_CreateClient, reopenVars, LockInv, LockOK, Typed, TypeOK, ReactorOK
<1>9. CASE R_Notify
  BY <1>0, <1>9 DEF R_Notify, reopenVars, ReactorIdle, LockInv, LockOK, Typed, TypeOK, ReactorOK
<1>10. CASE \E c \in Ids, notification \in {"read", "error"} : R_Select(c, notification)
  BY <1>0, <1>10 DEF R_Select, reopenVars, LockInv, LockOK, Typed, TypeOK, ReactorOK
<1>11. CASE R_ReadClosed
  BY <1>0, <1>11 DEF R_ReadClosed, reopenVars, LockInv, LockOK, Typed, TypeOK, ReactorOK
<1>12. CASE R_DropClient
  BY <1>0, <1>12
     DEF R_DropClient, reopenVars, ReactorIdle, LockInv, LockOK, Typed, TypeOK, ReactorOK
<1>13. CASE R_GoodHandshake
  BY <1>0, <1>13
     DEF R_GoodHandshake, reopenVars, ReactorIdle, LockInv, LockOK, Typed, TypeOK, ReactorOK
<1>14. CASE R_BadHandshake
  BY <1>0, <1>14 DEF R_BadHandshake, reopenVars, LockInv, LockOK, Typed, TypeOK, ReactorOK
<1>15. CASE R_AppName
  BY <1>0, <1>15 DEF R_AppName, reopenVars, ReactorIdle, LockInv, LockOK, Typed, TypeOK, ReactorOK
<1>16. CASE R_OtherData
  BY <1>0, <1>16 DEF R_OtherData, reopenVars, ReactorIdle, LockInv, LockOK, Typed, TypeOK, ReactorOK
<1>17. CASE R_AddClientToDropAndReopen
  BY <1>0, <1>17
     DEF R_AddClientToDropAndReopen, reopenVars, ReactorIdle, WithRequest, LockInv, LockOK,
         Typed, TypeOK, ReactorOK
<1>18. CASE M_LockClients
  BY <1>0, <1>18 DEF M_LockClients, reopenVars, LockInv, LockOK, Typed, TypeOK, MonitorOK
<1>19. CASE \E c \in Ids : M_DropClient(c)
  <2>1. PICK c \in Ids : M_DropClient(c)
    BY <1>19
  <2>2. ~clients'[c].chan /\ m'.todo = m.todo \ {c} /\ m'.pc = "wait"
    BY <2>1, DropClientLemma DEF M_DropClient, Typed, TypeOK, MonitorOK
  <2> QED
    BY <1>0, <2>1, <2>2 DEF M_DropClient, reopenVars, LockInv, LockOK
<1>20. CASE M_TakePort
  BY <1>0, <1>20 DEF M_TakePort, reopenVars, LockInv, LockOK, Typed, TypeOK, MonitorOK
<1>21. CASE M_Connect
  BY <1>0, <1>21 DEF M_Connect, reopenVars, LockInv, LockOK, Typed, TypeOK, MonitorOK
<1>22. CASE M_CreateClient
  BY <1>0, <1>22 DEF M_CreateClient, reopenVars, LockInv, LockOK, Typed, TypeOK, MonitorOK
<1>23. CASE M_Notify
  BY <1>0, <1>23 DEF M_Notify, reopenVars, LockInv, LockOK, Typed, TypeOK, MonitorOK
<1>24. CASE M_UnlockClients
  BY <1>0, <1>24
     DEF M_UnlockClients, reopenVars, MonitorIdle, LockInv, LockOK, Typed, TypeOK, MonitorOK
<1>25. CASE Vms \/ UNCHANGED vars
  BY <1>0, <1>25 DEF Vms, VmStart, VmExit, VmChange, reopenVars, vars, LockInv, LockOK
<1>26. CASE M_Sleep
  BY <1>0, <1>26 DEF M_Sleep, reopenVars, LockInv, LockOK, Typed, TypeOK, MonitorOK
<1>27. CASE M_Wake
  BY <1>0, <1>27 DEF M_Wake, MonitorIdle, reopenVars, LockInv, LockOK, Typed, TypeOK, MonitorOK
<1> QED
  BY <1>1, <1>2, <1>3, <1>4, <1>5, <1>6, <1>7, <1>8, <1>9, <1>10, <1>11, <1>12, <1>13, <1>14,
     <1>15, <1>16, <1>17, <1>18, <1>19, <1>20, <1>21, <1>22, <1>23, <1>24, <1>25, <1>26, <1>27
     DEF Next, Reactor, ClientMonitor, Crashed

(* Only the end of a sweep takes requests out of the map.                  *)
LEMMA RequestStays ==
  ASSUME Typed, LockInv, [Next]_vars, NEW c \in DOMAIN mClientsToReopen,
         c \notin DOMAIN mClientsToReopen'
  PROVE  ~clients[c].chan
<1>1. CASE R_AddClientToDropAndReopen
  BY <1>1 DEF R_AddClientToDropAndReopen, WithRequest
<1>2. CASE M_UnlockClients
  BY <1>2 DEF M_UnlockClients, LockInv
<1>3. CASE UNCHANGED mClientsToReopen
  BY <1>3
<1>4. CASE Reactor
  BY <1>1, <1>3, <1>4 DEF Reactor, reopenVars,
     R_ReadList, R_ListError, R_LockClients, R_Merge, R_UnlockClients,
     R_TakePort, R_Connect, R_CreateClient, R_Notify, R_Select,
     R_ReadClosed, R_DropClient, R_GoodHandshake, R_BadHandshake, R_AppName,
     R_OtherData
<1>5. CASE ClientMonitor
  BY <1>2, <1>3, <1>5 DEF ClientMonitor, reopenVars, M_Sleep, M_Wake,
     M_LockClients, M_DropClient, M_TakePort, M_Connect, M_CreateClient, M_Notify
<1>6. CASE Vms \/ UNCHANGED vars
  BY <1>3, <1>6 DEF Vms, VmStart, VmExit, VmChange, reopenVars, vars
<1> QED
  BY <1>4, <1>5, <1>6 DEF Next, Crashed

(* The lock is free at the start.                                          *)
LEMMA InitLock == Init => LockInv
BY DEF Init, ReactorIdle, MonitorIdle, LockInv, LockOK

(* mClientsLock is held exactly where the code holds it, and a sweep has   *)
(* closed every client that it is through with.                            *)
THEOREM LockInvariant == Spec => []LockInv
<1>1. Init => Typed /\ LockInv
  BY InitTyped, InitLock
<1>2. Typed /\ LockInv /\ [Next]_vars => Typed' /\ LockInv'
  BY NextTyped, NextLock
<1> QED
  BY <1>1, <1>2, PTL DEF Spec

(* A request to reopen a client leaves the map only when the client has    *)
(* been closed, whenever the reactor adds it.                              *)
THEOREM RequestsKept == Spec => NoRequestLost
<1>1. Typed /\ LockInv /\ [Next]_vars =>
        [\A c \in DOMAIN mClientsToReopen :
           c \notin DOMAIN mClientsToReopen' => ~clients[c].chan]_vars
  BY RequestStays
<1> QED
  BY <1>1, RegistryTyped, LockInvariant, PTL DEF Spec, NoRequestLost

-----------------------------------------------------------------------------
(***************************************************************************)
(* The listeners hear of every change.                                     *)
(***************************************************************************)

(* Where the list has changed since the last notification, one of the      *)
(* threads is on its way to the next one.                                  *)
ViewInv ==
  /\ \/ view = mClients
     \/ r.pc \in {"merge", "open", "opening", "joining"} /\ r.changed
     \/ m.pc \in {"wait", "opening", "joining", "notify"}
  /\ r.pc \in {"opening", "joining"} => r.changed

(* Every step that changes the list leaves a notification to come.         *)
LEMMA NextView == Typed /\ ViewInv /\ [Next]_vars => ViewInv'
<1> SUFFICES ASSUME Typed, ViewInv, [Next]_vars  PROVE ViewInv'
  OBVIOUS
<1>1. CASE R_ReadList
  BY <1>1 DEF R_ReadList, clientVars, ViewInv, Typed, TypeOK, ReactorOK
<1>2. CASE R_ListError
  BY <1>2 DEF R_ListError, clientVars, ViewInv, Typed, TypeOK, ReactorOK
<1>3. CASE R_LockClients
  BY <1>3 DEF R_LockClients, clientVars, ViewInv, Typed, TypeOK, ReactorOK
<1>4. CASE R_Merge
  BY <1>4 DEF R_Merge, clientVars, DropClient, ViewInv, Typed, TypeOK, ReactorOK
<1>5. CASE R_UnlockClients
  BY <1>5 DEF R_UnlockClients, clientVars, ViewInv, Typed, TypeOK, ReactorOK
<1>6. CASE \E pid \in Pids : R_TakePort(pid)
  BY <1>6 DEF R_TakePort, clientVars, ViewInv, Typed, TypeOK, ReactorOK
<1>7. CASE R_Connect
  BY <1>7 DEF R_Connect, clientVars, ViewInv, Typed, TypeOK, ReactorOK
<1>8. CASE R_CreateClient
  BY <1>8 DEF R_CreateClient, clientVars, HandshakeFails, ClientJoins, ViewInv, Typed, TypeOK,
     ReactorOK
<1>9. CASE R_Notify
  BY <1>9 DEF R_Notify, clientVars, ReactorIdle, ViewInv, Typed, TypeOK, ReactorOK
<1>10. CASE \E c \in Ids, notification \in {"read", "error"} : R_Select(c, notification)
  BY <1>10 DEF R_Select, clientVars, ViewInv, Typed, TypeOK, ReactorOK
<1>11. CASE R_ReadClosed
  BY <1>11 DEF R_ReadClosed, clientVars, DropClient, ViewInv, Typed, TypeOK, ReactorOK
<1>12. CASE R_DropClient
  BY <1>12 DEF R_DropClient, clientVars, ReactorIdle, DropClient, ViewInv, Typed, TypeOK, ReactorOK
<1>13. CASE R_GoodHandshake
  BY <1>13 DEF R_GoodHandshake, clientVars, ReactorIdle, ViewInv, Typed, TypeOK, ReactorOK
<1>14. CASE R_BadHandshake
  BY <1>14 DEF R_BadHandshake, clientVars, ViewInv, Typed, TypeOK, ReactorOK
<1>15. CASE R_AppName
  BY <1>15 DEF R_AppName, clientVars, ReactorIdle, ViewInv, Typed, TypeOK, ReactorOK
<1>16. CASE R_OtherData
  BY <1>16 DEF R_OtherData, clientVars, ReactorIdle, ViewInv, Typed, TypeOK, ReactorOK
<1>17. CASE R_AddClientToDropAndReopen
  BY <1>17 DEF R_AddClientToDropAndReopen, clientVars, ReactorIdle, ViewInv, Typed, TypeOK,
     ReactorOK
<1>18. CASE M_LockClients
  BY <1>18 DEF M_LockClients, clientVars, ViewInv, Typed, TypeOK, MonitorOK
<1>19. CASE \E c \in Ids : M_DropClient(c)
  BY <1>19 DEF M_DropClient, clientVars, DropClient, ViewInv, Typed, TypeOK, MonitorOK
<1>20. CASE M_TakePort
  BY <1>20 DEF M_TakePort, clientVars, ViewInv, Typed, TypeOK, MonitorOK
<1>21. CASE M_Connect
  BY <1>21 DEF M_Connect, clientVars, ViewInv, Typed, TypeOK, MonitorOK
<1>22. CASE M_CreateClient
  BY <1>22 DEF M_CreateClient, clientVars, HandshakeFails, ClientJoins, ViewInv, Typed, TypeOK,
     MonitorOK
<1>23. CASE M_Notify
  BY <1>23 DEF M_Notify, clientVars, ViewInv, Typed, TypeOK, MonitorOK
<1>24. CASE M_UnlockClients
  BY <1>24 DEF M_UnlockClients, clientVars, MonitorIdle, ViewInv, Typed, TypeOK, MonitorOK
<1>25. CASE Vms \/ UNCHANGED vars
  BY <1>25 DEF Vms, VmStart, VmExit, VmChange, clientVars, vars, ViewInv
<1>26. CASE M_Sleep
  BY <1>26 DEF M_Sleep, clientVars, ViewInv, Typed, TypeOK, MonitorOK
<1>27. CASE M_Wake
  BY <1>27 DEF M_Wake, clientVars, MonitorIdle, ViewInv, Typed, TypeOK, MonitorOK
<1> QED
  BY <1>1, <1>2, <1>3, <1>4, <1>5, <1>6, <1>7, <1>8, <1>9, <1>10, <1>11, <1>12, <1>13, <1>14,
     <1>15, <1>16, <1>17, <1>18, <1>19, <1>20, <1>21, <1>22, <1>23, <1>24, <1>25, <1>26, <1>27
     DEF Next, Reactor, ClientMonitor, Crashed

(* When both threads are between two jobs, the listeners have been told of *)
(* every change of the device's list of clients.                           *)
THEOREM ViewsFresh == Spec => []ViewFresh
<1>1. Init => Typed /\ ViewInv
  BY InitTyped DEF Init, ReactorIdle, ViewInv
<1>2. Typed /\ ViewInv /\ [Next]_vars => Typed' /\ ViewInv'
  BY NextTyped, NextView
<1>3. Typed /\ ViewInv => ViewFresh
  BY DEF ViewInv, ViewFresh
<1> QED
  BY <1>1, <1>2, <1>3, PTL DEF Spec

-----------------------------------------------------------------------------
(***************************************************************************)
(* The merge opens no client for a VM that had one when it began.          *)
(***************************************************************************)

(* A client that was listed when the reactor copied the list, for a pid    *)
(* that is left to open, is still before the merge.                        *)
MergeInv ==
  /\ \A c \in ToSet(mClients) : c <= r.seen =>
       /\ clients[c].pid \in r.pids => c \in ToSet(r.snapshot)
       /\ r.pc \in {"opening", "joining"} => clients[c].pid # r.pid
  /\ r.pc \in {"open", "opening", "joining"} => r.snapshot = <<>>
  /\ r.pc \in {"select", "read", "error", "reopen"} => r.pids = {}

(* The list holds clients.                                                 *)
LEMMA ListedIds == Typed => ToSet(mClients) \subseteq Ids
BY DEF Typed, TypeOK, ClientsOK, ToSet

(* Clients that leave the list, and nothing new.                           *)
LEMMA FewerListed ==
  ASSUME Typed, MergeInv, [Next]_vars, ToSet(mClients') \subseteq ToSet(mClients),
         UNCHANGED r \/ r' = ReactorIdle
  PROVE  MergeInv'
<1>1. \A c \in ToSet(mClients') : /\ c \in ToSet(mClients)
                                 /\ clients'[c].pid = clients[c].pid
  BY ListedIds, ClientsStay DEF Stays
<1>2. CASE UNCHANGED r
  BY <1>1, <1>2 DEF MergeInv
<1>3. CASE r' = ReactorIdle
  BY <1>1, <1>3 DEF MergeInv, ReactorIdle
<1> QED
  BY <1>2, <1>3

(* One round of the merge takes the client and its pid together.           *)
LEMMA MergeStep ==
  ASSUME Typed, MergeInv, R_Merge
  PROVE  MergeInv'
<1> DEFINE c == Head(r.snapshot)
<1>1. r.snapshot \in Seq(Ids) /\ r.snapshot # <<>> /\ r.pc = "merge"
  BY DEF R_Merge, Typed, TypeOK, ReactorOK
<1>2. c \in Ids /\ ToSet(r.snapshot) \subseteq ToSet(Tail(r.snapshot)) \cup {c}
  <2>1. ASSUME NEW x \in ToSet(r.snapshot), x # c
        PROVE  x \in ToSet(Tail(r.snapshot))
    <3>1. PICK i \in 1..Len(r.snapshot) : x = r.snapshot[i]
      BY <1>1, <2>1 DEF ToSet
    <3>2. i # 1 /\ Len(r.snapshot) \in Nat
      BY <1>1, <2>1, <3>1
    <3>3. i - 1 \in 1..Len(Tail(r.snapshot)) /\ Tail(r.snapshot)[i - 1] = x
      BY <1>1, <3>1, <3>2
    <3>4. DOMAIN Tail(r.snapshot) = 1..Len(Tail(r.snapshot))
      BY <1>1
    <3> QED
      BY <3>3, <3>4 DEF ToSet
  <2> QED
    BY <1>1, <2>1
<1> HIDE DEF c
<1>3. r \in [pc : {"select", "read", "error", "reopen", "snapshot", "merge",
                  "open", "opening", "joining"},
            client : Ids \cup {0}, pid : Pids \cup {0}, port : Port \cup {0, NO_STATIC_PORT},
            snapshot : Seq(Ids), seen : Ids \cup {0}, pids : SUBSET Pids, changed : BOOLEAN]
  BY DEF Typed, TypeOK, ReactorOK
<1>4. CASE clients[c].pid \in r.pids
  <2>1. /\ r' = [r EXCEPT !.snapshot = Tail(r.snapshot), !.pids = @ \ {clients[c].pid}]
        /\ UNCHANGED <<clients, mClients>>
    BY <1>4 DEF R_Merge, c, clientVars
  <2>2. /\ r'.pids = r.pids \ {clients[c].pid} /\ r'.pc = "merge"
        /\ r'.snapshot = Tail(r.snapshot) /\ r'.seen = r.seen
    BY <1>1, <1>3, <2>1
  <2> QED
    BY <1>2, <2>1, <2>2 DEF MergeInv
<1>5. CASE clients[c].pid \notin r.pids
  <2>1. /\ r' = [r EXCEPT !.snapshot = Tail(r.snapshot), !.changed = TRUE]
        /\ DropClient(c, FALSE)
    BY <1>5 DEF R_Merge, c
  <2>2. /\ r'.pids = r.pids /\ r'.pc = "merge"
        /\ r'.snapshot = Tail(r.snapshot) /\ r'.seen = r.seen
    BY <1>1, <1>3, <2>1
  <2>3. \A d \in ToSet(mClients') : /\ d \in ToSet(mClients) \ {c}
                                   /\ clients'[d].pid = clients[d].pid
    BY <1>2, <2>1, DropClientLemma, ListedIds
  <2> QED
    BY <1>2, <2>2, <2>3 DEF MergeInv
<1> QED
  BY <1>4, <1>5

(* A client that joins the list was not made when the list was copied.     *)
LEMMA JoinedLate ==
  ASSUME Typed, NEW pid \in Pids, NEW port \in Port, NEW leased \in BOOLEAN,
         ClientJoins(pid, port, leased)
  PROVE  \A c \in ToSet(mClients') : c <= r.seen =>
           c \in ToSet(mClients) /\ clients'[c] = clients[c]
<1> DEFINE n == Len(clients) + 1
<1>1. /\ Len(clients) \in Nat /\ Ids = 1..Len(clients)
      /\ \A d \in Ids : clients'[d] = clients[d]
      /\ ToSet(mClients') = ToSet(mClients) \cup {n}
  BY JoinLemma
<1>2. r.seen \in Ids \cup {0}
  BY DEF Typed, TypeOK, ReactorOK
<1>3. ~(n <= r.seen)
  BY <1>1, <1>2
<1> HIDE DEF n
<1> QED
  BY <1>1, <1>3, ListedIds

(* A client joins the list.                                                *)
LEMMA MergeJoin ==
  ASSUME Typed, MergeInv, R_CreateClient \/ M_CreateClient
  PROVE  MergeInv'
<1>1. CASE R_CreateClient
  <2>1. r.pid \in Pids /\ r.port \in Port /\ r.pc = "joining"
    BY <1>1 DEF R_CreateClient, Typed, TypeOK, ReactorOK
  <2>2. /\ r'.pc = "open" /\ r'.pids = r.pids
        /\ r'.snapshot = r.snapshot /\ r'.seen = r.seen
    BY <1>1 DEF R_CreateClient, Typed, TypeOK, ReactorOK
  <2>3. CASE HandshakeFails(r.pid, r.port, TRUE)
    BY <2>1, <2>2, <2>3 DEF HandshakeFails, MergeInv
  <2>4. CASE ClientJoins(r.pid, r.port, TRUE)
    <3>1. \A c \in ToSet(mClients') : c <= r.seen =>
            c \in ToSet(mClients) /\ clients'[c] = clients[c]
      BY <2>1, <2>4, JoinedLate
    <3> QED
      BY <2>1, <2>2, <3>1 DEF MergeInv
  <2> QED
    BY <1>1, <2>3, <2>4 DEF R_CreateClient
<1>2. CASE M_CreateClient
  <2>1. m.pid \in Pids /\ m.port \in Port /\ m.leased \in BOOLEAN
    BY <1>2 DEF M_CreateClient, Typed, TypeOK, MonitorOK
  <2>2. UNCHANGED r
    BY <1>2 DEF M_CreateClient
  <2>3. CASE HandshakeFails(m.pid, m.port, m.leased)
    BY <2>2, <2>3 DEF HandshakeFails, MergeInv
  <2>4. CASE ClientJoins(m.pid, m.port, m.leased)
    <3>1. \A c \in ToSet(mClients') : c <= r.seen =>
            c \in ToSet(mClients) /\ clients'[c] = clients[c]
      BY <2>1, <2>4, JoinedLate
    <3> QED
      BY <2>2, <3>1 DEF MergeInv
  <2> QED
    BY <1>2, <2>3, <2>4 DEF M_CreateClient
<1> QED
  BY <1>1, <1>2

(* Every step keeps it.                                                    *)
LEMMA NextMerge == Typed /\ MergeInv /\ [Next]_vars => MergeInv'
<1> SUFFICES ASSUME Typed, MergeInv, [Next]_vars  PROVE MergeInv'
  OBVIOUS
<1>0. CASE UNCHANGED <<r, mClients>>
  BY <1>0, FewerListed
<1>1. CASE R_ReadList
  BY <1>1 DEF R_ReadList, clientVars, MergeInv, Typed, TypeOK, ReactorOK
<1>2. CASE R_LockClients
  BY <1>2 DEF R_LockClients, clientVars, MergeInv, Typed, TypeOK, ReactorOK
<1>3. CASE R_UnlockClients
  BY <1>3 DEF R_UnlockClients, clientVars, MergeInv, Typed, TypeOK, ReactorOK
<1>4. CASE \E pid \in Pids : R_TakePort(pid)
  <2>1. PICK pid \in Pids : R_TakePort(pid)
    BY <1>4
  <2>2. /\ UNCHANGED <<clients, mClients>> /\ r.pc = "open" /\ pid \in r.pids
        /\ r'.pc = "opening" /\ r'.pids = r.pids \ {pid} /\ r'.pid = pid
        /\ r'.snapshot = r.snapshot /\ r'.seen = r.seen
    BY <2>1 DEF R_TakePort, clientVars, Typed, TypeOK, ReactorOK
  <2>3. ToSet(r.snapshot) = {}
    BY <2>2 DEF MergeInv, ToSet
  <2> QED
    BY <2>2, <2>3 DEF MergeInv
<1>5. CASE R_Connect
  <2>1. /\ UNCHANGED <<clients, mClients>> /\ r.pc = "opening"
        /\ r'.pids = r.pids /\ r'.snapshot = r.snapshot /\ r'.seen = r.seen
        /\ r'.pc = "open" \/ (r'.pc = "joining" /\ r'.pid = r.pid)
    BY <1>5 DEF R_Connect, clientVars, Typed, TypeOK, ReactorOK
  <2> QED
    BY <2>1 DEF MergeInv
<1>6. CASE \E c \in Ids, notification \in {"read", "error"} : R_Select(c, notification)
  BY <1>6 DEF R_Select, clientVars, MergeInv, Typed, TypeOK, ReactorOK
<1>7. CASE R_BadHandshake
  BY <1>7 DEF R_BadHandshake, clientVars, MergeInv, Typed, TypeOK, ReactorOK
<1>8. CASE R_Notify \/ R_GoodHandshake \/ R_OtherData \/ R_AddClientToDropAndReopen
  BY <1>8, FewerListed
     DEF R_Notify, R_GoodHandshake, R_OtherData, R_AddClientToDropAndReopen, clientVars
<1>9. CASE R_AppName
  <2>1. UNCHANGED <<clients, mClients>> /\ r.pc = "read"
    BY <1>9 DEF R_AppName, clientVars
  <2>2. r'.pc \in {"select", "reopen"} /\ r'.pids = {}
    BY <1>9 DEF R_AppName, ReactorIdle, MergeInv, Typed, TypeOK, ReactorOK
  <2> QED
    BY <2>1, <2>2 DEF MergeInv
<1>10. CASE R_ReadClosed \/ R_DropClient
  <2>1. r.client \in Ids /\ DropClient(r.client, TRUE) /\ (UNCHANGED r \/ r' = ReactorIdle)
    BY <1>10 DEF R_ReadClosed, R_DropClient, Typed, TypeOK, ReactorOK
  <2> QED
    BY <2>1, DropClientLemma, FewerListed
<1>11. CASE \E c \in Ids : M_DropClient(c)
  <2>1. PICK c \in Ids : DropClient(c, FALSE) /\ UNCHANGED r
    BY <1>11 DEF M_DropClient
  <2> QED
    BY <2>1, DropClientLemma, FewerListed
<1>12. CASE R_Merge \/ R_CreateClient \/ M_CreateClient
  BY <1>12, MergeStep, MergeJoin
<1>13. CASE Reactor
  BY <1>0, <1>1, <1>2, <1>3, <1>4, <1>5, <1>6, <1>7, <1>8, <1>9, <1>10, <1>12, <1>13
     DEF Reactor, R_ListError, clientVars
<1>14. CASE ClientMonitor
  BY <1>0, <1>11, <1>12, <1>14
     DEF ClientMonitor, M_Sleep, M_Wake, M_LockClients, M_TakePort, M_Connect, M_Notify,
         M_UnlockClients, clientVars
<1>15. CASE Vms \/ UNCHANGED vars
  BY <1>0, <1>15 DEF Vms, VmStart, VmExit, VmChange, clientVars, vars
<1> QED
  BY <1>13, <1>14, <1>15 DEF Next, Crashed

(* A merge opens no client for a VM that had a listed client when the      *)
(* reactor copied the list, whatever the device client thread does in      *)
(* between: a client that is in its way was reopened after that.           *)
THEOREM MergesOnce == Spec => []MergeOpensOnce
<1>1. Init => Typed /\ MergeInv
  <2> SUFFICES ASSUME Init  PROVE MergeInv
    BY InitTyped
  <2>1. ToSet(mClients) = {} /\ r = ReactorIdle
    BY DEF Init, ToSet
  <2> QED
    BY <2>1 DEF MergeInv, ReactorIdle
<1>2. Typed /\ MergeInv /\ [Next]_vars => Typed' /\ MergeInv'
  BY NextTyped, NextMerge
<1>3. Typed /\ MergeInv => MergeOpensOnce
  <2> SUFFICES ASSUME Typed, MergeInv, r.pc \in {"open", "opening", "joining"},
                      NEW c \in ToSet(mClients), clients[c].pid \in PidsToOpen
               PROVE  c > r.seen
    BY DEF MergeOpensOnce
  <2>1. ToSet(r.snapshot) = {}
    BY DEF MergeInv, ToSet
  <2>2. ~(c <= r.seen)
    BY <2>1 DEF MergeInv, PidsToOpen
  <2>3. c \in Ids /\ Ids \subseteq Nat /\ r.seen \in Ids \cup {0}
    BY ListedIds DEF Ids, Typed, TypeOK, ClientsOK, ReactorOK
  <2>4. c \in Nat /\ r.seen \in Nat
    <3>1. \A i \in Ids : i \in Nat
      BY <2>3
    <3>2. r.seen \in Ids \/ r.seen = 0
      BY <2>3
    <3>3. c \in Nat
      BY <2>3, <3>1
    <3>4. r.seen \in Nat
      BY <3>1, <3>2
    <3> QED
      BY <3>3, <3>4
  <2>5. \A i, j \in Nat : ~(i <= j) => i > j
    OBVIOUS
  <2> QED
    BY <2>2, <2>4, <2>5
<1> QED
  BY <1>1, <1>2, <1>3, PTL DEF Spec

-----------------------------------------------------------------------------
(***************************************************************************)
(* Leases of ports.                                                        *)
(***************************************************************************)

(* Who leases which port.                                                  *)
LeaseMap == [l \in Leases |-> LeasedPort(l)]

(* A port on lease is out and leased once, unless it has been given back   *)
(* by somebody without a lease; a port that is out is on lease or lost.    *)
Sound(map, out, returned, gone) ==
  /\ \A l \in DOMAIN map : map[l] \notin returned =>
       map[l] \in out /\ \A k \in DOMAIN map : map[k] = map[l] => k = l
  /\ out \subseteq {map[l] : l \in DOMAIN map} \cup gone

(* The lease invariant; outside an opening the device client thread has    *)
(* none.                                                                   *)
LeaseInv ==
  /\ Sound(LeaseMap, handedOut, misreturned, lost)
  /\ m.pc \in {"idle", "sleep", "sweep", "wait", "notify"} => ~m.leased

(* A lease that begins: its port was not out.                              *)
LEMMA LeaseBegins ==
  ASSUME NEW map, NEW new, NEW out, NEW returned, NEW gone, NEW l, NEW port,
         Sound(map, out, returned, gone), l \notin DOMAIN map, port \notin out,
         DOMAIN new = DOMAIN map \cup {l}, new[l] = port,
         \A k \in DOMAIN map : new[k] = map[k]
  PROVE  Sound(new, out \cup {port}, returned, gone)
<1>1. ASSUME NEW k \in DOMAIN new, new[k] \notin returned
      PROVE  new[k] \in out \cup {port} /\ \A j \in DOMAIN new : new[j] = new[k] => j = k
  BY <1>1 DEF Sound
<1>2. \A x \in out \cup {port} : x \in {new[k] : k \in DOMAIN new} \cup gone
  BY DEF Sound
<1> QED
  BY <1>1, <1>2 DEF Sound

(* A lease that ends, with the ports back given back: one port that is     *)
(* nobody else's, or ports that are returned without a lease.              *)
LEMMA LeaseEnds ==
  ASSUME NEW map, NEW new, NEW out, NEW returned, NEW gone, NEW l, NEW back,
         NEW returned1, NEW gone1, Sound(map, out, returned, gone),
         DOMAIN new = DOMAIN map \ {l}, \A k \in DOMAIN new : new[k] = map[k],
         returned \subseteq returned1, gone \subseteq gone1,
         \A p \in back : p \in returned1 \/ (l \in DOMAIN map /\ map[l] = p),
         l \in DOMAIN map => map[l] \in back \cup gone1
  PROVE  Sound(new, out \ back, returned1, gone1)
<1>1. ASSUME NEW k \in DOMAIN new, new[k] \notin returned1
      PROVE  new[k] \in out \ back /\ \A j \in DOMAIN new : new[j] = new[k] => j = k
  BY <1>1 DEF Sound
<1>2. \A x \in out \ back : x \in {new[k] : k \in DOMAIN new} \cup gone1
  BY DEF Sound
<1> QED
  BY <1>1, <1>2 DEF Sound

(* A lease that a thread hands to the client it opened.                    *)
LEMMA LeaseMoves ==
  ASSUME NEW map, NEW new, NEW out, NEW returned, NEW gone, NEW l, NEW n,
         Sound(map, out, returned, gone), l \in DOMAIN map, n \notin DOMAIN map,
         DOMAIN new = (DOMAIN map \ {l}) \cup {n}, new[n] = map[l],
         \A k \in DOMAIN map \ {l} : new[k] = map[k]
  PROVE  Sound(new, out, returned, gone)
<1>1. ASSUME NEW k \in DOMAIN new, new[k] \notin returned
      PROVE  new[k] \in out /\ \A j \in DOMAIN new : new[j] = new[k] => j = k
  BY <1>1 DEF Sound
<1>2. \A x \in out : x \in {new[k] : k \in DOMAIN new} \cup gone
  BY DEF Sound
<1> QED
  BY <1>1, <1>2 DEF Sound

(* Whether the two threads have a port they took and not passed on.        *)
ReactorLeases == r.pc \in {"opening", "joining"}
MonitorLeases == m.pc \in {"opening", "joining"} /\ m.leased

(* The leases, and their ports.                                            *)
Members ==
  /\ DOMAIN LeaseMap = Leases
  /\ \A l : l \in Leases <=> \/ l \in Ids /\ clients[l].leases
                             \/ l = 0 /\ ReactorLeases
                             \/ l = -1 /\ MonitorLeases
  /\ \A l \in Ids : l # 0 /\ l # -1 /\ (clients[l].leases => LeaseMap[l] = clients[l].port)
  /\ ReactorLeases => LeaseMap[0] = r.port
  /\ MonitorLeases => LeaseMap[-1] = m.port

(* What is on lease, read off the state.                                   *)
LEMMA LeaseMembers == Typed => Members
<1> SUFFICES ASSUME Typed  PROVE Members
  OBVIOUS
<1>1. \A l : l \in Leases <=> \/ l \in Ids /\ clients[l].leases
                              \/ l = 0 /\ ReactorLeases
                              \/ l = -1 /\ MonitorLeases
  BY DEF Leases, ReactorLease, MonitorLease, ReactorLeases, MonitorLeases
<1>2. Ids = 1..Len(clients) /\ Len(clients) \in Nat
  BY DEF Typed, TypeOK, ClientsOK, Ids
<1>3. \A l \in Ids : l # 0 /\ l # -1
  BY <1>2
<1>4. DOMAIN LeaseMap = Leases /\ \A l \in Leases : LeaseMap[l] = LeasedPort(l)
  BY DEF LeaseMap
<1>5. \A l \in Ids : LeasedPort(l) = clients[l].port
  BY <1>3 DEF LeasedPort, ReactorLease, MonitorLease
<1>6. LeasedPort(0) = r.port /\ LeasedPort(-1) = m.port
  BY DEF LeasedPort, ReactorLease, MonitorLease
<1> QED
  BY <1>1, <1>3, <1>4, <1>5, <1>6 DEF Members

(* The same after a step.                                                  *)
LEMMA NextMembers == Typed' => Members'
BY LeaseMembers, PTL

(* A step that neither starts nor ends a lease.                            *)
LEMMA CalmLeases ==
  ASSUME Typed, Typed', LeaseInv, UNCHANGED portVars, UNCHANGED lost, Ids' = Ids,
         \A d \in Ids : clients'[d].leases = clients[d].leases /\ clients'[d].port = clients[d].port,
         ReactorLeases' <=> ReactorLeases, ReactorLeases => r'.port = r.port,
         MonitorLeases' <=> MonitorLeases, MonitorLeases => m'.port = m.port
  PROVE  Sound(LeaseMap', handedOut', misreturned', lost')
<1>1. Leases' = Leases
  <2>1. ASSUME NEW l
        PROVE  l \in Leases' <=> l \in Leases
    BY LeaseMembers, NextMembers DEF Members
  <2> QED
    BY <2>1
<1>2. LeaseMap' = LeaseMap
  <2>1. \A l \in Leases : LeaseMap'[l] = LeaseMap[l]
    BY <1>1, LeaseMembers, NextMembers DEF Members
  <2>2. LeaseMap = [l \in Leases |-> LeaseMap[l]] /\ LeaseMap' = [l \in Leases' |-> LeaseMap'[l]]
    BY DEF LeaseMap
  <2> QED
    BY <1>1, <2>1, <2>2
<1> QED
  BY <1>2 DEF LeaseInv, portVars

(* A client is closed: its lease, if it has one, ends.                     *)
LEMMA DropEnds ==
  ASSUME Typed, Typed', LeaseInv, NEW c \in Ids, NEW notify \in BOOLEAN, DropClient(c, notify),
         UNCHANGED lost, ReactorLeases' <=> ReactorLeases, ReactorLeases => r'.port = r.port,
         MonitorLeases' <=> MonitorLeases, MonitorLeases => m'.port = m.port
  PROVE  Sound(LeaseMap', handedOut', misreturned', lost')
<1>1. /\ Ids' = Ids
      /\ \A d \in Ids : /\ clients'[d].port = clients[d].port
                       /\ clients'[d].leases = (d # c /\ clients[d].leases)
      /\ handedOut' = handedOut \ {clients[c].port}
      /\ misreturned' = IF clients[c].leases THEN misreturned ELSE misreturned \cup {clients[c].port}
  BY DropClientLemma
<1>2. Members /\ Members'
  BY LeaseMembers, NextMembers
<1>3. DOMAIN LeaseMap' = DOMAIN LeaseMap \ {c}
  <2>1. ASSUME NEW l
        PROVE  l \in Leases' <=> l \in Leases /\ l # c
    BY <1>1, <1>2 DEF Members
  <2> QED
    BY <1>2, <2>1 DEF Members
<1>4. \A l \in DOMAIN LeaseMap' : LeaseMap'[l] = LeaseMap[l]
  <2> SUFFICES ASSUME NEW l \in DOMAIN LeaseMap'  PROVE LeaseMap'[l] = LeaseMap[l]
    OBVIOUS
  <2>1. l \in Leases' /\ l \in Leases
    BY <1>2, <1>3 DEF Members
  <2>2. CASE l \in Ids
    BY <1>1, <1>2, <2>1, <2>2 DEF Members
  <2>3. CASE l \notin Ids
    BY <1>1, <1>2, <2>1, <2>3 DEF Members
  <2> QED
    BY <2>2, <2>3
<1>5. \A p \in {clients[c].port} : p \in misreturned' \/ (c \in DOMAIN LeaseMap /\ LeaseMap[c] = p)
  BY <1>1, <1>2 DEF Members
<1>6. c \in DOMAIN LeaseMap => LeaseMap[c] \in {clients[c].port} \cup lost'
  BY <1>2 DEF Members
<1>7. misreturned \subseteq misreturned' /\ lost \subseteq lost'
  BY <1>1
<1>8. Sound(LeaseMap', handedOut \ {clients[c].port}, misreturned', lost')
  <2> DEFINE new == LeaseMap'
             back == {clients[c].port}
  <2>1. Sound(LeaseMap, handedOut, misreturned, lost)
    BY DEF LeaseInv
  <2>2. /\ DOMAIN new = DOMAIN LeaseMap \ {c} /\ \A l \in DOMAIN new : new[l] = LeaseMap[l]
        /\ \A p \in back : p \in misreturned' \/ (c \in DOMAIN LeaseMap /\ LeaseMap[c] = p)
        /\ c \in DOMAIN LeaseMap => LeaseMap[c] \in back \cup lost'
    BY <1>3, <1>4, <1>5, <1>6
  <2> HIDE DEF new, back
  <2>3. Sound(new, handedOut \ back, misreturned', lost')
    BY <1>7, <2>1, <2>2, LeaseEnds
  <2> QED
    BY <2>3 DEF new, back
<1> QED
  BY <1>1, <1>8

(* A thread takes a port.                                                  *)
LEMMA ReactorTakes ==
  ASSUME Typed, Typed', LeaseInv, NEW pid \in Pids, R_TakePort(pid)
  PROVE  Sound(LeaseMap', handedOut', misreturned', lost')
<1> DEFINE port == NextPort(mDebuggerPorts)
<1>1. /\ port \notin handedOut /\ handedOut' = handedOut \cup {port}
      /\ misreturned' = misreturned /\ lost' = lost
  BY TakePortLemma DEF R_TakePort, Typed
<1>2. /\ ~ReactorLeases /\ ReactorLeases' /\ r'.port = port
      /\ UNCHANGED <<m, clients>> /\ Ids' = Ids /\ (MonitorLeases' <=> MonitorLeases)
  BY DEF R_TakePort, ReactorLeases, MonitorLeases, clientVars, Ids, Typed, TypeOK, ReactorOK
<1> HIDE DEF port
<1>3. Members /\ Members'
  BY LeaseMembers, NextMembers
<1>4. 0 \notin DOMAIN LeaseMap /\ DOMAIN LeaseMap' = DOMAIN LeaseMap \cup {0}
  <2>1. ASSUME NEW l
        PROVE  /\ l \in Leases' <=> l \in Leases \/ l = 0
               /\ 0 \notin Leases
    BY <1>2, <1>3 DEF Members
  <2> QED
    BY <1>3, <2>1 DEF Members
<1>5. LeaseMap'[0] = port /\ \A l \in DOMAIN LeaseMap : LeaseMap'[l] = LeaseMap[l]
  BY <1>2, <1>3 DEF Members
<1> QED
  BY <1>1, <1>4, <1>5, LeaseBegins DEF LeaseInv

(* The device client thread takes a port, unless a static one is wanted.   *)
LEMMA MonitorTakes ==
  ASSUME Typed, Typed', LeaseInv, M_TakePort
  PROVE  Sound(LeaseMap', handedOut', misreturned', lost')
<1> DEFINE port == NextPort(mDebuggerPorts)
<1>1. UNCHANGED <<r, clients, lost>> /\ Ids' = Ids /\ (ReactorLeases' <=> ReactorLeases) /\ ~m.leased
  BY DEF M_TakePort, ReactorLeases, clientVars, Ids, LeaseInv
<1>2. CASE m.port = NO_STATIC_PORT
  <2>1. /\ port \notin handedOut /\ handedOut' = handedOut \cup {port}
        /\ misreturned' = misreturned
    BY <1>2, TakePortLemma DEF M_TakePort, Typed
  <2>2. ~MonitorLeases /\ MonitorLeases' /\ m'.port = port
    BY <1>2 DEF M_TakePort, MonitorLeases, Typed, TypeOK, MonitorOK
  <2> HIDE DEF port
  <2>3. Members /\ Members'
    BY LeaseMembers, NextMembers
  <2>4. -1 \notin DOMAIN LeaseMap /\ DOMAIN LeaseMap' = DOMAIN LeaseMap \cup {-1}
    <3>1. ASSUME NEW l
          PROVE  /\ l \in Leases' <=> l \in Leases \/ l = -1
                 /\ -1 \notin Leases
      BY <1>1, <2>2, <2>3 DEF Members
    <3> QED
      BY <2>3, <3>1 DEF Members
  <2>5. LeaseMap'[-1] = port /\ \A l \in DOMAIN LeaseMap : LeaseMap'[l] = LeaseMap[l]
    BY <1>1, <2>2, <2>3 DEF Members
  <2> QED
    BY <1>1, <2>1, <2>4, <2>5, LeaseBegins DEF LeaseInv
<1>3. CASE m.port # NO_STATIC_PORT
  <2>1. UNCHANGED portVars /\ ~MonitorLeases /\ ~MonitorLeases'
    BY <1>1, <1>3 DEF M_TakePort, MonitorLeases, Typed, TypeOK, MonitorOK
  <2> QED
    BY <1>1, <2>1, CalmLeases
<1> QED
  BY <1>2, <1>3

(* The reactor fails to connect: the port it took, if any, is lost.      *)
LEMMA ReactorConnects ==
  ASSUME Typed, Typed', LeaseInv, R_Connect
  PROVE  Sound(LeaseMap', handedOut', misreturned', lost')
<1>1. /\ UNCHANGED <<m, clients, portVars>> /\ Ids' = Ids /\ (MonitorLeases' <=> MonitorLeases)
      /\ ReactorLeases <=> TRUE
  BY DEF R_Connect, clientVars, Ids, Typed, TypeOK, ReactorOK, ReactorLeases, MonitorLeases
<1>2. CASE r'.pc = "joining"
  BY <1>1, <1>2, CalmLeases
     DEF R_Connect, clientVars, Ids, Typed, TypeOK, ReactorOK, ReactorLeases, MonitorLeases
<1>3. CASE r'.pc # "joining"
  <2>1. ~ReactorLeases' /\ lost' = IF TRUE THEN lost \cup {r.port} ELSE lost
    BY <1>3 DEF R_Connect, ConnectFails, clientVars, Ids, Typed, TypeOK, ReactorOK,
       ReactorLeases, MonitorLeases
  <2>2. Members /\ Members'
    BY LeaseMembers, NextMembers
  <2>3. DOMAIN LeaseMap' = DOMAIN LeaseMap \ {0}
    <3>1. ASSUME NEW l
          PROVE  l \in Leases' <=> l \in Leases /\ l # 0
      BY <1>1, <2>1, <2>2 DEF Members
    <3> QED
      BY <2>2, <3>1 DEF Members
  <2>4. \A l \in DOMAIN LeaseMap' : LeaseMap'[l] = LeaseMap[l]
    BY <1>1, <2>1, <2>2 DEF Members
  <2>5. 0 \in DOMAIN LeaseMap => LeaseMap[0] \in {} \cup lost'
    BY <1>1, <2>1, <2>2 DEF Members
  <2>6. handedOut' = handedOut \ {} /\ misreturned' = misreturned /\ lost \subseteq lost'
    BY <1>1, <2>1 DEF portVars
  <2>7. \A p \in {} : p \in misreturned' \/ (0 \in DOMAIN LeaseMap /\ LeaseMap[0] = p)
    OBVIOUS
  <2> QED
    BY <2>3, <2>4, <2>5, <2>6, <2>7, LeaseEnds DEF LeaseInv
<1> QED
  BY <1>2, <1>3

(* The reactor creates the client, which takes over the lease.             *)
LEMMA ReactorCreates ==
  ASSUME Typed, Typed', LeaseInv, R_CreateClient
  PROVE  Sound(LeaseMap', handedOut', misreturned', lost')
<1>1. /\ UNCHANGED m /\ (MonitorLeases' <=> MonitorLeases) /\ (ReactorLeases <=> TRUE) /\ ~ReactorLeases'
      /\ r.pid \in Pids /\ r.port \in Port
  BY DEF R_CreateClient, clientVars, Ids, Typed, TypeOK, ReactorOK, ReactorLeases, MonitorLeases
<1>2. Members /\ Members'
  BY LeaseMembers, NextMembers
<1>3. CASE HandshakeFails(r.pid, r.port, TRUE)
  <2>1. /\ UNCHANGED clients /\ Ids' = Ids /\ handedOut' = handedOut \ {DebugPortBase}
        /\ misreturned' = misreturned \cup {DebugPortBase}
        /\ lost' = IF TRUE THEN lost \cup {r.port} ELSE lost
    BY <1>1, <1>3, HandshakeLemma DEF Ids
  <2>2. DOMAIN LeaseMap' = DOMAIN LeaseMap \ {0}
    <3>1. ASSUME NEW l
          PROVE  l \in Leases' <=> l \in Leases /\ l # 0
      BY <1>1, <1>2, <2>1 DEF Members
    <3> QED
      BY <1>2, <3>1 DEF Members
  <2>3. \A l \in DOMAIN LeaseMap' : LeaseMap'[l] = LeaseMap[l]
    BY <1>1, <1>2, <2>1 DEF Members
  <2>4. 0 \in DOMAIN LeaseMap => LeaseMap[0] \in {DebugPortBase} \cup lost'
    BY <1>1, <1>2, <2>1 DEF Members
  <2>5. \A p \in {DebugPortBase} :
          p \in misreturned' \/ (0 \in DOMAIN LeaseMap /\ LeaseMap[0] = p)
    BY <2>1
  <2>6. misreturned \subseteq misreturned' /\ lost \subseteq lost'
    BY <2>1
  <2> QED
    BY <2>1, <2>2, <2>3, <2>4, <2>5, <2>6, LeaseEnds DEF LeaseInv
<1>4. CASE ClientJoins(r.pid, r.port, TRUE)
  <2> DEFINE n == Len(clients) + 1
  <2>1. /\ Ids = 1..Len(clients) /\ Ids' = 1..(Len(clients) + 1) /\ Len(clients) \in Nat
        /\ \A d \in Ids : clients'[d] = clients[d]
        /\ clients'[n].port = r.port /\ clients'[n].leases = TRUE
        /\ UNCHANGED <<portVars, lost>>
    BY <1>1, <1>4, JoinLemma
  <2>2. n \notin Ids /\ Ids' = Ids \cup {n} /\ n # 0 /\ n # -1
    BY <2>1
  <2> HIDE DEF n
  <2>3. n \notin DOMAIN LeaseMap
    BY <1>2, <2>2 DEF Members
  <2>4. DOMAIN LeaseMap' = (DOMAIN LeaseMap \ {0}) \cup {n}
    <3>1. ASSUME NEW l
          PROVE  l \in Leases' <=> (l \in Leases /\ l # 0) \/ l = n
      BY <1>1, <1>2, <2>1, <2>2 DEF Members
    <3> QED
      BY <1>2, <3>1 DEF Members
  <2>5. 0 \in DOMAIN LeaseMap /\ LeaseMap'[n] = LeaseMap[0]
    BY <1>1, <1>2, <2>1, <2>2 DEF Members
  <2>6. \A k \in DOMAIN LeaseMap \ {0} : LeaseMap'[k] = LeaseMap[k]
    BY <1>1, <1>2, <2>1, <2>2 DEF Members
  <2> QED
    BY <2>1, <2>3, <2>4, <2>5, <2>6, LeaseMoves DEF LeaseInv, portVars
<1> QED
  BY <1>3, <1>4 DEF R_CreateClient

(* The device client thread fails to connect: the port it took, if any, is lost.*)
LEMMA MonitorConnects ==
  ASSUME Typed, Typed', LeaseInv, M_Connect
  PROVE  Sound(LeaseMap', handedOut', misreturned', lost')
<1>1. /\ UNCHANGED <<r, clients, portVars>> /\ Ids' = Ids /\ (ReactorLeases' <=> ReactorLeases)
      /\ MonitorLeases <=> m.leased
  BY DEF M_Connect, clientVars, Ids, Typed, TypeOK, MonitorOK, ReactorLeases, MonitorLeases
<1>2. CASE m'.pc = "joining"
  BY <1>1, <1>2, CalmLeases
     DEF M_Connect, clientVars, Ids, Typed, TypeOK, MonitorOK, ReactorLeases, MonitorLeases
<1>3. CASE m'.pc # "joining"
  <2>1. ~MonitorLeases' /\ lost' = IF m.leased THEN lost \cup {m.port} ELSE lost
    BY <1>3 DEF M_Connect, ConnectFails, clientVars, Ids, Typed, TypeOK, MonitorOK,
       ReactorLeases, MonitorLeases
  <2>2. Members /\ Members'
    BY LeaseMembers, NextMembers
  <2>3. DOMAIN LeaseMap' = DOMAIN LeaseMap \ {-1}
    <3>1. ASSUME NEW l
          PROVE  l \in Leases' <=> l \in Leases /\ l # -1
      BY <1>1, <2>1, <2>2 DEF Members
    <3> QED
      BY <2>2, <3>1 DEF Members
  <2>4. \A l \in DOMAIN LeaseMap' : LeaseMap'[l] = LeaseMap[l]
    BY <1>1, <2>1, <2>2 DEF Members
  <2>5. -1 \in DOMAIN LeaseMap => LeaseMap[-1] \in {} \cup lost'
    BY <1>1, <2>1, <2>2 DEF Members
  <2>6. handedOut' = handedOut \ {} /\ misreturned' = misreturned /\ lost \subseteq lost'
    BY <1>1, <2>1 DEF portVars
  <2>7. \A p \in {} : p \in misreturned' \/ (-1 \in DOMAIN LeaseMap /\ LeaseMap[-1] = p)
    OBVIOUS
  <2> QED
    BY <2>3, <2>4, <2>5, <2>6, <2>7, LeaseEnds DEF LeaseInv
<1> QED
  BY <1>2, <1>3

(* The device client thread creates the client, which takes over the lease. *)
LEMMA MonitorCreates ==
  ASSUME Typed, Typed', LeaseInv, M_CreateClient
  PROVE  Sound(LeaseMap', handedOut', misreturned', lost')
<1>1. /\ UNCHANGED r /\ (ReactorLeases' <=> ReactorLeases) /\ (MonitorLeases <=> m.leased) /\ ~MonitorLeases'
      /\ m.pid \in Pids /\ m.port \in Port /\ m.leased \in BOOLEAN
  BY DEF M_CreateClient, clientVars, Ids, Typed, TypeOK, MonitorOK, ReactorLeases, MonitorLeases
<1>2. Members /\ Members'
  BY LeaseMembers, NextMembers
<1>3. CASE HandshakeFails(m.pid, m.port, m.leased)
  <2>1. /\ UNCHANGED clients /\ Ids' = Ids /\ handedOut' = handedOut \ {DebugPortBase}
        /\ misreturned' = misreturned \cup {DebugPortBase}
        /\ lost' = IF m.leased THEN lost \cup {m.port} ELSE lost
    BY <1>1, <1>3, HandshakeLemma DEF Ids
  <2>2. DOMAIN LeaseMap' = DOMAIN LeaseMap \ {-1}
    <3>1. ASSUME NEW l
          PROVE  l \in Leases' <=> l \in Leases /\ l # -1
      BY <1>1, <1>2, <2>1 DEF Members
    <3> QED
      BY <1>2, <3>1 DEF Members
  <2>3. \A l \in DOMAIN LeaseMap' : LeaseMap'[l] = LeaseMap[l]
    BY <1>1, <1>2, <2>1 DEF Members
  <2>4. -1 \in DOMAIN LeaseMap => LeaseMap[-1] \in {DebugPortBase} \cup lost'
    BY <1>1, <1>2, <2>1 DEF Members
  <2>5. \A p \in {DebugPortBase} :
          p \in misreturned' \/ (-1 \in DOMAIN LeaseMap /\ LeaseMap[-1] = p)
    BY <2>1
  <2>6. misreturned \subseteq misreturned' /\ lost \subseteq lost'
    BY <2>1
  <2> QED
    BY <2>1, <2>2, <2>3, <2>4, <2>5, <2>6, LeaseEnds DEF LeaseInv
<1>4. CASE ClientJoins(m.pid, m.port, m.leased)
  <2> DEFINE n == Len(clients) + 1
  <2>1. /\ Ids = 1..Len(clients) /\ Ids' = 1..(Len(clients) + 1) /\ Len(clients) \in Nat
        /\ \A d \in Ids : clients'[d] = clients[d]
        /\ clients'[n].port = m.port /\ clients'[n].leases = m.leased
        /\ UNCHANGED <<portVars, lost>>
    BY <1>1, <1>4, JoinLemma
  <2>2. n \notin Ids /\ Ids' = Ids \cup {n} /\ n # 0 /\ n # -1
    BY <2>1
  <2> HIDE DEF n
  <2>3. n \notin DOMAIN LeaseMap
    BY <1>2, <2>2 DEF Members
  <2>4. CASE m.leased
    <3>0. /\ MonitorLeases /\ ~MonitorLeases' /\ -1 \notin Ids /\ 0 \notin Ids /\ n # -1 /\ n # 0
          /\ n \notin Ids /\ clients'[n].leases /\ \A l : l \in Ids' <=> l \in Ids \/ l = n
      BY <1>1, <1>2, <2>1, <2>2, <2>4 DEF Members
    <3>4. DOMAIN LeaseMap' = (DOMAIN LeaseMap \ {-1}) \cup {n}
      <4>1. ASSUME NEW l
            PROVE  l \in Leases' <=> (l \in Leases /\ l # -1) \/ l = n
        BY <1>1, <1>2, <2>1, <2>2, <3>0, <2>4 DEF Members
      <4> QED
        BY <1>2, <4>1 DEF Members
    <3>5. -1 \in DOMAIN LeaseMap /\ LeaseMap'[n] = LeaseMap[-1]
      BY <1>1, <1>2, <2>1, <2>2, <3>0, <2>4 DEF Members
    <3>6. \A k \in DOMAIN LeaseMap \ {-1} : LeaseMap'[k] = LeaseMap[k]
      BY <1>1, <1>2, <2>1, <2>2, <3>0, <2>4 DEF Members
    <3> QED
      BY <2>1, <2>3, <3>4, <3>5, <3>6, LeaseMoves DEF LeaseInv, portVars
  <2>5. CASE ~m.leased
    <3>1. Leases' = Leases
      <4>1. ASSUME NEW l
            PROVE  l \in Leases' <=> l \in Leases
        BY <1>1, <1>2, <2>1, <2>2, <2>5 DEF Members
      <4> QED
        BY <4>1
    <3>2. \A l \in Leases : LeaseMap'[l] = LeaseMap[l]
      BY <1>1, <1>2, <2>1, <2>2, <2>5, <3>1 DEF Members
    <3>3. LeaseMap = [l \in Leases |-> LeaseMap[l]] /\ LeaseMap' = [l \in Leases' |-> LeaseMap'[l]]
      BY DEF LeaseMap
    <3>4. LeaseMap' = LeaseMap
      BY <3>1, <3>2, <3>3
    <3> QED
      BY <2>1, <3>4 DEF LeaseInv, portVars
  <2> QED
    BY <2>4, <2>5
<1> QED
  BY <1>3, <1>4 DEF M_CreateClient

(* Every step keeps the leases sound.                                      *)
LEMMA NextLeases == Typed /\ LeaseInv /\ [Next]_vars => LeaseInv'
<1> SUFFICES ASSUME Typed, LeaseInv, [Next]_vars  PROVE LeaseInv'
  OBVIOUS
<1>0. Typed'
  BY NextTyped
<1>1. CASE R_ReadList
  <2>1. /\ UNCHANGED <<m, clients, portVars, lost>> /\ Ids' = Ids
        /\ ~ReactorLeases /\ ~ReactorLeases' /\ (MonitorLeases' <=> MonitorLeases)
    BY <1>1 DEF R_ReadList, clientVars, Ids, ReactorLeases, MonitorLeases, Typed, TypeOK, ReactorOK
  <2> QED
    BY <1>0, <2>1, CalmLeases DEF LeaseInv
<1>2. CASE R_ListError
  <2>1. /\ UNCHANGED <<m, clients, portVars, lost>> /\ Ids' = Ids
        /\ ~ReactorLeases /\ ~ReactorLeases' /\ (MonitorLeases' <=> MonitorLeases)
    BY <1>2 DEF R_ListError, clientVars, Ids, ReactorLeases, MonitorLeases, Typed, TypeOK, ReactorOK
  <2> QED
    BY <1>0, <2>1, CalmLeases DEF LeaseInv
<1>3. CASE R_LockClients
  <2>1. /\ UNCHANGED <<m, clients, portVars, lost>> /\ Ids' = Ids
        /\ ~ReactorLeases /\ ~ReactorLeases' /\ (MonitorLeases' <=> MonitorLeases)
    BY <1>3 DEF R_LockClients, clientVars, Ids, ReactorLeases, MonitorLeases, Typed, TypeOK,
       ReactorOK
  <2> QED
    BY <1>0, <2>1, CalmLeases DEF LeaseInv
<1>4. CASE R_UnlockClients
  <2>1. /\ UNCHANGED <<m, clients, portVars, lost>> /\ Ids' = Ids
        /\ ~ReactorLeases /\ ~ReactorLeases' /\ (MonitorLeases' <=> MonitorLeases)
    BY <1>4 DEF R_UnlockClients, clientVars, Ids, ReactorLeases, MonitorLeases, Typed, TypeOK,
       ReactorOK
  <2> QED
    BY <1>0, <2>1, CalmLeases DEF LeaseInv
<1>5. CASE R_Notify
  <2>1. /\ UNCHANGED <<m, clients, portVars, lost>> /\ Ids' = Ids
        /\ ~ReactorLeases /\ ~ReactorLeases' /\ (MonitorLeases' <=> MonitorLeases)
    BY <1>5 DEF R_Notify, clientVars, Ids, ReactorIdle, ReactorLeases, MonitorLeases, Typed,
       TypeOK, ReactorOK
  <2> QED
    BY <1>0, <2>1, CalmLeases DEF LeaseInv
<1>6. CASE \E c \in Ids, notification \in {"read", "error"} : R_Select(c, notification)
  <2>1. /\ UNCHANGED <<m, clients, portVars, lost>> /\ Ids' = Ids
        /\ ~ReactorLeases /\ ~ReactorLeases' /\ (MonitorLeases' <=> MonitorLeases)
    BY <1>6 DEF R_Select, clientVars, Ids, ReactorLeases, MonitorLeases, Typed, TypeOK, ReactorOK
  <2> QED
    BY <1>0, <2>1, CalmLeases DEF LeaseInv
<1>7. CASE R_BadHandshake
  <2>1. /\ UNCHANGED <<m, clients, portVars, lost>> /\ Ids' = Ids
        /\ ~ReactorLeases /\ ~ReactorLeases' /\ (MonitorLeases' <=> MonitorLeases)
    BY <1>7 DEF R_BadHandshake, clientVars, Ids, ReactorLeases, MonitorLeases, Typed, TypeOK,
       ReactorOK
  <2> QED
    BY <1>0, <2>1, CalmLeases DEF LeaseInv
<1>8. CASE R_AppName
  <2>1. /\ UNCHANGED <<m, clients, portVars, lost>> /\ Ids' = Ids
        /\ ~ReactorLeases /\ ~ReactorLeases' /\ (MonitorLeases' <=> MonitorLeases)
    BY <1>8 DEF R_AppName, clientVars, Ids, ReactorIdle, ReactorLeases, MonitorLeases, Typed,
       TypeOK, ReactorOK
  <2> QED
    BY <1>0, <2>1, CalmLeases DEF LeaseInv
<1>9. CASE R_OtherData
  <2>1. /\ UNCHANGED <<m, clients, portVars, lost>> /\ Ids' = Ids
        /\ ~ReactorLeases /\ ~ReactorLeases' /\ (MonitorLeases' <=> MonitorLeases)
    BY <1>9 DEF R_OtherData, clientVars, Ids, ReactorIdle, ReactorLeases, MonitorLeases, Typed,
       TypeOK, ReactorOK
  <2> QED
    BY <1>0, <2>1, CalmLeases DEF LeaseInv
<1>10. CASE R_AddClientToDropAndReopen
  <2>1. /\ UNCHANGED <<m, clients, portVars, lost>> /\ Ids' = Ids
        /\ ~ReactorLeases /\ ~ReactorLeases' /\ (MonitorLeases' <=> MonitorLeases)
    BY <1>10 DEF R_AddClientToDropAndReopen, clientVars, Ids, ReactorIdle, ReactorLeases,
       MonitorLeases, Typed, TypeOK, ReactorOK
  <2> QED
    BY <1>0, <2>1, CalmLeases DEF LeaseInv
<1>11. CASE R_GoodHandshake
  <2>1. /\ UNCHANGED <<m, portVars, lost>> /\ Ids' = Ids
        /\ ~ReactorLeases /\ ~ReactorLeases' /\ (MonitorLeases' <=> MonitorLeases)
    BY <1>11 DEF R_GoodHandshake, Ids, ReactorIdle, ReactorLeases, MonitorLeases, Typed, TypeOK,
       ClientsOK
  <2>2. clients' = [clients EXCEPT ![r.client].shaken = TRUE] /\ clients \in Seq(ClientType)
    BY <1>11 DEF R_GoodHandshake, Typed, TypeOK, ClientsOK
  <2>3. ASSUME NEW d \in Ids
        PROVE  clients'[d].leases = clients[d].leases /\ clients'[d].port = clients[d].port
    <3>1. clients[d] \in ClientType
      BY <2>2 DEF Ids
    <3>2. clients'[d] = clients[d] \/ clients'[d] = [clients[d] EXCEPT !.shaken = TRUE]
      BY <2>2 DEF Ids
    <3> QED
      BY <3>1, <3>2 DEF ClientType
  <2> QED
    BY <1>0, <2>1, <2>3, CalmLeases DEF LeaseInv
<1>12. CASE R_Merge
  <2>1. /\ UNCHANGED <<m, lost>> /\ ~ReactorLeases /\ ~ReactorLeases'
        /\ (MonitorLeases' <=> MonitorLeases) /\ Head(r.snapshot) \in Ids
    <3>1. r.pc = "merge" /\ r.snapshot # <<>> /\ UNCHANGED <<m, lost>>
      BY <1>12 DEF R_Merge
    <3>2. r.snapshot \in Seq(Ids)
      BY DEF Typed, TypeOK, ReactorOK
    <3>3. Head(r.snapshot) \in Ids
      BY <3>1, <3>2
    <3>4. r'.pc = "merge"
      <4>1. \/ r' = [r EXCEPT !.snapshot = Tail(r.snapshot),
                            !.pids = @ \ {clients[Head(r.snapshot)].pid}]
            \/ r' = [r EXCEPT !.snapshot = Tail(r.snapshot), !.changed = TRUE]
        BY <1>12 DEF R_Merge
      <4> QED
        BY <3>1, <4>1 DEF Typed, TypeOK, ReactorOK
    <3> QED
      BY <3>1, <3>3, <3>4 DEF ReactorLeases, MonitorLeases
  <2>2. CASE UNCHANGED <<clientVars, portVars>>
    BY <1>0, <2>1, <2>2, CalmLeases DEF LeaseInv, clientVars, Ids
  <2>3. CASE DropClient(Head(r.snapshot), FALSE)
    BY <1>0, <2>1, <2>3, DropEnds DEF LeaseInv
  <2> QED
    BY <1>12, <2>2, <2>3 DEF R_Merge
<1>13. CASE R_ReadClosed \/ R_DropClient
  <2>1. /\ UNCHANGED <<m, lost>> /\ ~ReactorLeases /\ ~ReactorLeases'
        /\ (MonitorLeases' <=> MonitorLeases) /\ r.client \in Ids /\ DropClient(r.client, TRUE)
    <3>1. CASE R_ReadClosed
      BY <3>1 DEF R_ReadClosed, ReactorLeases, MonitorLeases, Typed, TypeOK, ReactorOK
    <3>2. CASE R_DropClient
      <4>1. r.pc \in {"read", "error"} /\ r' = ReactorIdle /\ UNCHANGED <<m, lost>> /\ DropClient(r.client, TRUE)
        BY <3>2 DEF R_DropClient
      <4>2. r.client \in Ids
        BY <4>1 DEF Typed, TypeOK, ReactorOK
      <4> QED
        BY <4>1, <4>2 DEF ReactorIdle, ReactorLeases, MonitorLeases
    <3> QED
      BY <1>13, <3>1, <3>2
  <2> QED
    BY <1>0, <2>1, DropEnds DEF LeaseInv
<1>14. CASE (\E pid \in Pids : R_TakePort(pid)) \/ R_Connect \/ R_CreateClient
  <2>1. Sound(LeaseMap', handedOut', misreturned', lost')
    BY <1>0, <1>14, ReactorTakes, ReactorConnects, ReactorCreates
  <2> QED
    BY <1>14, <2>1 DEF LeaseInv, R_TakePort, R_Connect, R_CreateClient
<1>15. CASE M_Sleep \/ M_Wake \/ M_LockClients \/ M_Notify \/ M_UnlockClients
  <2>1. /\ UNCHANGED <<r, clients, portVars, lost>> /\ Ids' = Ids
        /\ ~MonitorLeases /\ ~MonitorLeases' /\ (ReactorLeases' <=> ReactorLeases) /\ ~m'.leased
    <3>1. CASE M_LockClients
      BY <3>1 DEF M_LockClients, clientVars, Ids, ReactorLeases, MonitorLeases, LeaseInv,
                  Typed, TypeOK, MonitorOK
    <3>2. CASE M_Notify
      BY <3>2 DEF M_Notify, Ids, ReactorLeases, MonitorLeases, LeaseInv, Typed, TypeOK, MonitorOK
    <3>3. CASE M_UnlockClients
      BY <3>3 DEF M_UnlockClients, clientVars, Ids, MonitorIdle, ReactorLeases, MonitorLeases
    <3>4. CASE M_Sleep
      BY <3>4 DEF M_Sleep, clientVars, Ids, ReactorLeases, MonitorLeases, LeaseInv,
                  Typed, TypeOK, MonitorOK
    <3>5. CASE M_Wake
      BY <3>5 DEF M_Wake, clientVars, Ids, MonitorIdle, ReactorLeases, MonitorLeases
    <3> QED
      BY <1>15, <3>1, <3>2, <3>3, <3>4, <3>5
  <2> QED
    BY <1>0, <2>1, CalmLeases DEF LeaseInv
<1>16. CASE \E c \in Ids : M_DropClient(c)
  <2>1. PICK c \in Ids : M_DropClient(c)
    BY <1>16
  <2>2. /\ UNCHANGED <<r, lost>> /\ ~MonitorLeases /\ ~MonitorLeases'
        /\ (ReactorLeases' <=> ReactorLeases) /\ ~m'.leased /\ DropClient(c, FALSE)
    BY <2>1 DEF M_DropClient, ReactorLeases, MonitorLeases, LeaseInv, Typed, TypeOK, MonitorOK
  <2> QED
    BY <1>0, <2>2, DropEnds DEF LeaseInv
<1>17. CASE M_TakePort \/ M_Connect \/ M_CreateClient
  <2>1. Sound(LeaseMap', handedOut', misreturned', lost')
    BY <1>0, <1>17, MonitorTakes, MonitorConnects, MonitorCreates
  <2>2. m'.pc \in {"idle", "sleep", "sweep", "wait", "notify"} => ~m'.leased
    <3>1. CASE M_TakePort
      <4>1. \/ m' = [m EXCEPT !.pc = "opening", !.leased = TRUE,
                            !.port = NextPort(mDebuggerPorts)]
            \/ m' = [m EXCEPT !.pc = "opening"]
        BY <3>1 DEF M_TakePort
      <4>2. m'.pc = "opening"
        BY <4>1 DEF Typed, TypeOK, MonitorOK
      <4> QED
        BY <4>2
    <3>2. CASE M_Connect
      BY <3>2 DEF M_Connect, Typed, TypeOK, MonitorOK
    <3>3. CASE M_CreateClient
      BY <3>3 DEF M_CreateClient, Typed, TypeOK, MonitorOK
    <3> QED
      BY <1>17, <3>1, <3>2, <3>3
  <2> QED
    BY <2>1, <2>2 DEF LeaseInv
<1>18. CASE Vms \/ UNCHANGED vars
  <2>1. /\ UNCHANGED <<r, m, clients, portVars, lost>> /\ Ids' = Ids
        /\ (ReactorLeases' <=> ReactorLeases) /\ (MonitorLeases' <=> MonitorLeases)
    BY <1>18 DEF Vms, VmStart, VmExit, VmChange, vars, clientVars, Ids, ReactorLeases, MonitorLeases
  <2> QED
    BY <1>0, <2>1, CalmLeases DEF LeaseInv
<1> QED
  BY <1>1, <1>2, <1>3, <1>4, <1>5, <1>6, <1>7, <1>8, <1>9, <1>10, <1>11, <1>12, <1>13, <1>14,
     <1>15, <1>16, <1>17, <1>18
     DEF Next, Reactor, ClientMonitor, Crashed

(* Nothing is on lease at the start.                                       *)
LEMMA InitLeases == Init => LeaseInv
<1> SUFFICES ASSUME Init  PROVE LeaseInv
  OBVIOUS
<1>1. Leases = {}
  BY DEF Init, Leases, Ids, ReactorIdle, MonitorIdle
<1>2. DOMAIN LeaseMap = {} /\ handedOut = {} /\ ~m.leased
  BY <1>1 DEF LeaseMap, Init, PortsInit, MonitorIdle
<1> QED
  BY <1>2 DEF LeaseInv, Sound

(* Leases are exclusive and complete, in every interleaving of the two     *)
(* threads.                                                                *)
THEOREM LeasesInvariant == Spec => []LeaseInv
<1>1. Init => Typed /\ LeaseInv
  BY InitTyped, InitLeases
<1>2. Typed /\ LeaseInv /\ [Next]_vars => Typed' /\ LeaseInv'
  BY NextTyped, NextLeases
<1> QED
  BY <1>1, <1>2, PTL DEF Spec

(* No two clients are given the same port, and none that is available,     *)
(* unless somebody without a lease gave the port back.                     *)
THEOREM PortsAreExclusive == Spec => []PortsExclusive
<1>1. Typed /\ LeaseInv => PortsExclusive
  <2> SUFFICES ASSUME Typed, LeaseInv, NEW l \in Leases, LeasedPort(l) \notin misreturned
               PROVE  /\ LeasedPort(l) \notin ToSet(mDebuggerPorts)
                      /\ \A k \in Leases : LeasedPort(k) = LeasedPort(l) => k = l
    BY DEF PortsExclusive
  <2>1. DOMAIN LeaseMap = Leases /\ \A k \in Leases : LeaseMap[k] = LeasedPort(k)
    BY DEF LeaseMap
  <2>2. /\ LeasedPort(l) \in handedOut
        /\ \A k \in Leases : LeasedPort(k) = LeasedPort(l) => k = l
    BY <2>1 DEF LeaseInv, Sound
  <2>3. handedOut \cap ToSet(mDebuggerPorts) = {}
    BY DEF Typed, PortInv, NotHandedOutTwice, ToSet
  <2> QED
    BY <2>2, <2>3
<1> QED
  BY <1>1, RegistryTyped, LeasesInvariant, PTL

(* A port that was handed out and not given back is on lease, unless       *)
(* opening the client it was taken for failed.                             *)
THEOREM PortsDoNotLeak == Spec => []NoPortLeaks
<1>1. LeaseInv => NoPortLeaks
  BY DEF LeaseInv, Sound, NoPortLeaks, LeaseMap
<1> QED
  BY <1>1, LeasesInvariant, PTL
==============================================================================
