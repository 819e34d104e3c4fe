------------------------- MODULE LogService_proofs -------------------------
(***************************************************************************)
(* The log receiver, proved for every log, header size and chunk.          *)
(*                                                                         *)
(* As long as it is not cancelled and no memory was destroyed, n entries   *)
(* of the log have been delivered, and what was read behind the n-th is in *)
(* the header buffer (Waiting) or in the current entry (Filling).          *)
(***************************************************************************)
EXTENDS LogService, SequenceTheorems, TLAPS

H == ENTRY_HEADER_SIZE

Entries == [len : Int, room : Int, header : Seq(Int), data : Seq(Int)]

(***************************************************************************)
(* Bytes                                                                   *)
(***************************************************************************)

(* The bytes behind a place up to another are as many as lie between.      *)
LEMMA BytesType ==
  ASSUME NEW a \in Nat, NEW b \in Nat, a <= b
  PROVE  /\ Bytes(a, b) \in Seq(Int)
         /\ Len(Bytes(a, b)) = b - a
         /\ \A i \in 1..b - a : Bytes(a, b)[i] = a + i
<1>1. b - a \in Nat /\ \A i \in 1..b - a : a + i \in Int
  OBVIOUS
<1> DEFINE n == b - a
<1> HIDE DEF n
<1>2. /\ [i \in 1..n |-> a + i] \in Seq(Int)
      /\ Len([i \in 1..n |-> a + i]) = n
      /\ \A i \in 1..n : [j \in 1..n |-> a + j][i] = a + i
  BY <1>1 DEF n
<1> QED
  BY <1>2 DEF Bytes, n

(* Adjacent pieces of the log, one behind the other                        *)
LEMMA BytesConcat ==
  ASSUME NEW a \in Nat, NEW b \in Nat, NEW c \in Nat, a <= b, b <= c
  PROVE  Bytes(a, b) \o Bytes(b, c) = Bytes(a, c)
<1> DEFINE s == Bytes(a, b)  t == Bytes(b, c)  u == Bytes(a, c)
<1>1. /\ s \in Seq(Int) /\ Len(s) = b - a /\ \A i \in 1..b - a : s[i] = a + i
      /\ t \in Seq(Int) /\ Len(t) = c - b /\ \A i \in 1..c - b : t[i] = b + i
  BY BytesType
<1>2. u \in Seq(Int) /\ Len(u) = c - a /\ \A i \in 1..c - a : u[i] = a + i
  <2>1. a <= c
    OBVIOUS
  <2> QED
    BY <2>1, BytesType
<1> HIDE DEF s, t, u
<1>3. /\ s \o t \in Seq(Int) /\ Len(s \o t) = c - a
      /\ \A i \in 1..c - a : (s \o t)[i] = IF i <= b - a THEN s[i] ELSE t[i - (b - a)]
  <2>1. Len(s) + Len(t) = c - a /\ Len(s) = b - a
    BY <1>1
  <2>2. /\ s \o t \in Seq(Int) /\ Len(s \o t) = Len(s) + Len(t)
        /\ \A i \in 1..Len(s) + Len(t) : (s \o t)[i] = IF i <= Len(s) THEN s[i] ELSE t[i - Len(s)]
    BY <1>1, ConcatProperties
  <2> QED
    BY <2>1, <2>2
<1>4. ASSUME NEW i \in 1..c - a  PROVE (s \o t)[i] = u[i]
  <2>1. CASE i <= b - a
    BY <1>1, <1>2, <1>3, <2>1
  <2>2. CASE ~(i <= b - a)
    <3>1. i - (b - a) \in 1..c - b /\ b + (i - (b - a)) = a + i
      BY <2>2
    <3>2. (s \o t)[i] = t[i - (b - a)]
      BY <1>3, <2>2
    <3>3. t[i - (b - a)] = b + (i - (b - a)) /\ u[i] = a + i
      BY <1>1, <1>2, <3>1
    <3> QED
      BY <3>1, <3>2, <3>3
  <2> QED
    BY <2>1, <2>2
<1>5. s \o t = u
  BY <1>2, <1>3, <1>4, SeqEqual
<1> QED
  BY <1>5 DEF s, t, u

(* The first m bytes of a piece, and the others                            *)
LEMMA BytesSplit ==
  ASSUME NEW a \in Nat, NEW b \in Nat, NEW m \in Nat, a + m <= b
  PROVE  /\ SubSeq(Bytes(a, b), 1, m) = Bytes(a, a + m)
         /\ SubSeq(Bytes(a, b), m + 1, b - a) = Bytes(a + m, b)
<1> DEFINE s == Bytes(a, b)  t == Bytes(a, a + m)  u == Bytes(a + m, b)
<1>1. s \in Seq(Int) /\ Len(s) = b - a /\ \A k \in 1..b - a : s[k] = a + k
  BY BytesType
<1>2. t \in Seq(Int) /\ Len(t) = m /\ \A k \in 1..m : t[k] = a + k
  <2>1. a + m \in Nat /\ a <= a + m /\ a + m - a = m
    OBVIOUS
  <2> QED
    BY <2>1, BytesType
<1>3. u \in Seq(Int) /\ Len(u) = b - a - m /\ \A k \in 1..b - a - m : u[k] = a + m + k
  <2>1. a + m \in Nat /\ b - (a + m) = b - a - m
    OBVIOUS
  <2> QED
    BY <2>1, BytesType
<1> HIDE DEF s, t, u
<1>4. SubSeq(s, 1, m) = t
  <2>1. \A k \in 1..m : s[k] \in Int
    BY <1>1
  <2>2. /\ SubSeq(s, 1, m) \in Seq(Int)
        /\ Len(SubSeq(s, 1, m)) = IF 1 <= m THEN m - 1 + 1 ELSE 0
        /\ \A k \in 1..m - 1 + 1 : SubSeq(s, 1, m)[k] = s[1 + k - 1]
    BY <2>1, SubSeqProperties
  <2>3. Len(SubSeq(s, 1, m)) = m
    BY <2>2
  <2>4. ASSUME NEW k \in 1..m  PROVE SubSeq(s, 1, m)[k] = t[k]
    <3>1. k \in 1..b - a /\ k \in 1..m - 1 + 1 /\ 1 + k - 1 = k
      OBVIOUS
    <3> QED
      BY <1>1, <1>2, <2>2, <3>1
  <2> QED
    BY <1>2, <2>2, <2>3, <2>4, SeqEqual
<1>5. SubSeq(s, m + 1, b - a) = u
  <2> DEFINE v == SubSeq(s, m + 1, b - a)
  <2>1. \A k \in m + 1..b - a : s[k] \in Int
    BY <1>1
  <2>2. /\ v \in Seq(Int)
        /\ Len(v) = IF m + 1 <= b - a THEN b - a - (m + 1) + 1 ELSE 0
        /\ \A k \in 1..b - a - (m + 1) + 1 : v[k] = s[m + 1 + k - 1]
    BY <2>1, SubSeqProperties
  <2> HIDE DEF v
  <2>3. Len(v) = b - a - m
    BY <2>2
  <2>4. ASSUME NEW k \in 1..b - a - m  PROVE v[k] = u[k]
    <3>1. k \in 1..b - a - (m + 1) + 1 /\ m + 1 + k - 1 \in 1..b - a /\ m + 1 + k - 1 = m + k
      OBVIOUS
    <3>2. v[k] = a + (m + k)
      BY <1>1, <2>2, <3>1
    <3> QED
      BY <1>3, <3>2
  <2>5. v = u
    BY <1>3, <2>2, <2>3, <2>4, SeqEqual
  <2> QED
    BY <2>5 DEF v
<1> QED
  BY <1>4, <1>5 DEF s, t, u

(* Nothing lies behind a place up to itself.                               *)
LEMMA NoBytes == \A a \in Nat : Bytes(a, a) = <<>>
<1> TAKE a \in Nat
<1>1. Bytes(a, a) \in Seq(Int) /\ Len(Bytes(a, a)) = 0
  BY BytesType
<1> QED
  BY <1>1, EmptySeq

(* The entries of a log end at least a header behind each other.           *)
LEMMA Ends ==
  ASSUME log \in Logs
  PROVE  /\ Len(log) \in Nat
         /\ \A k \in 0..Len(log) : End(k) \in Nat
         /\ \A j, k \in 0..Len(log) : j < k => End(k) - End(j) >= H
         /\ H \in Nat /\ H > 0
<1>1. /\ log \in Seq(Nat) /\ H \in Nat /\ H > 0
      /\ \A k \in DOMAIN log : /\ log[k] >= H
                               /\ \A j \in 1..k - 1 : log[k] - log[j] >= H
  BY LogAssumption DEF H
<1>2. Len(log) \in Nat /\ DOMAIN log = 1..Len(log) /\ \A k \in 1..Len(log) : log[k] \in Nat
  BY <1>1
<1>3. ASSUME NEW k \in 0..Len(log)  PROVE End(k) \in Nat
  BY <1>2 DEF End
<1>4. ASSUME NEW j \in 0..Len(log), NEW k \in 0..Len(log), j < k  PROVE End(k) - End(j) >= H
  <2>1. k \in 1..Len(log) /\ End(k) = log[k] /\ log[k] \in Nat /\ log[k] >= H
    BY <1>1, <1>2, <1>4 DEF End
  <2>2. CASE j = 0
    BY <1>1, <2>1, <2>2 DEF End
  <2>3. CASE j # 0
    <3>1. j \in 1..k - 1 /\ End(j) = log[j]
      BY <1>2, <1>4, <2>3 DEF End
    <3> QED
      BY <1>1, <1>2, <2>1, <3>1
  <2> QED
    BY <2>2, <2>3
<1> QED
  BY <1>1, <1>2, <1>3, <1>4

(* No two entries end at the same place.                                   *)
LEMMA EndsDiffer ==
  ASSUME log \in Logs, NEW j \in 0..Len(log), NEW k \in 0..Len(log), End(j) < End(k) + H, End(k) < End(j) + H
  PROVE  j = k
<1>1. /\ Len(log) \in Nat /\ End(j) \in Nat /\ End(k) \in Nat /\ H \in Nat
      /\ j < k => End(k) - End(j) >= H
      /\ k < j => End(j) - End(k) >= H
  BY Ends
<1> QED
  BY <1>1

(* The entry that createEntry makes of the n-th header                     *)
Created(n, bytes) ==
  [len |-> End(n) - End(n - 1) - H, room |-> End(n) - End(n - 1) - H, header |-> bytes, data |-> <<>>]

LEMMA CreateLemma ==
  ASSUME log \in Logs, NEW n \in 1..Len(log), NEW bytes, bytes[1] = End(n - 1) + 1
  PROVE  CreateEntry(bytes) = Created(n, bytes)
<1> DEFINE P(k) == End(k - 1) < bytes[1] /\ bytes[1] <= End(k)
<1>1. Len(log) \in Nat /\ H \in Nat /\ H > 0 /\ DOMAIN log = 1..Len(log)
  BY Ends, LogAssumption
<1>2. P(n)
  <2>1. n - 1 \in 0..Len(log) /\ n \in 0..Len(log) /\ n - 1 < n
    BY <1>1
  <2>2. End(n - 1) \in Nat /\ End(n) \in Nat /\ End(n) - End(n - 1) >= H
    BY <2>1, Ends
  <2> QED
    BY <1>1, <2>2
<1>3. ASSUME NEW k \in DOMAIN log, P(k)  PROVE k = n
  <2>1. /\ k \in 0..Len(log) /\ k - 1 \in 0..Len(log)
        /\ n \in 0..Len(log) /\ n - 1 \in 0..Len(log)
    BY <1>1
  <2>2. End(k) \in Nat /\ End(k - 1) \in Nat /\ End(n) \in Nat /\ End(n - 1) \in Nat
    BY <2>1, Ends
  <2>3. k <= n - 1 => End(k) <= End(n - 1)
    <3>1. k < n - 1 => End(n - 1) - End(k) >= H
      BY <2>1, Ends
    <3> QED
      BY <1>1, <2>1, <2>2, <3>1
  <2>4. n <= k - 1 => End(n) <= End(k - 1)
    <3>1. n < k - 1 => End(k - 1) - End(n) >= H
      BY <2>1, Ends
    <3> QED
      BY <1>1, <2>1, <2>2, <3>1
  <2>5. End(k - 1) < End(n - 1) + 1 /\ End(n - 1) + 1 <= End(k) /\ End(n - 1) + 1 <= End(n)
    BY <1>2, <1>3
  <2> QED
    <3>1. k - 1 \in Int /\ n - 1 \in Int /\ ~(k <= n - 1) /\ ~(n <= k - 1)
      BY <1>1, <2>1, <2>2, <2>3, <2>4, <2>5
    <3>2. k \in Int /\ n \in Int
      BY <1>1, <2>1
    <3> QED
      BY <3>1, <3>2
<1>4. n \in DOMAIN log
  BY <1>1
<1>5. (CHOOSE k \in DOMAIN log : P(k)) = n
  BY <1>2, <1>3, <1>4
<1> QED
  BY <1>5 DEF CreateEntry, Created, H
-----------------------------------------------------------------------------
(***************************************************************************)
(* The invariant                                                           *)
(***************************************************************************)

Whole(e, k) == e.header \o e.data = BytesOf(k)

(* How far parseNewData has looked at the log                              *)
Place == received - Len(chunk)

(* What was delivered is whole, once and in order.                         *)
Told ==
  /\ \A i \in DOMAIN delivered :
       delivered[i].header = NoHeader \/ \E k \in DOMAIN log : i \in Times(k)
  /\ \A k \in DOMAIN log : \A i, j \in Times(k) : i = j
  /\ \A k \in DOMAIN log : \A i \in Times(k), j \in 1..k - 1 : \E h \in Times(j) : h < i

(* The first n entries were delivered, and no other.                       *)
Sofar(n) == \A k \in DOMAIN log : Times(k) # {} <=> k <= n

(* e is the n-th entry, with the data up to place p.                       *)
PartOf(e, n, p) ==
  /\ e \in Entries
  /\ e.header = Bytes(End(n - 1), End(n - 1) + H)
  /\ e.data = Bytes(End(n - 1) + H, p)
  /\ e.len = End(n) - End(n - 1) - H /\ e.room = e.len
  /\ End(n - 1) + H <= p /\ p <= End(n)

(* What was read behind the n-th entry is in the header buffer.            *)
Waiting(n) ==
  /\ entry = NoEntry \/ \E len \in Garbage : entry = Uninitialised(len)
  /\ header = Bytes(End(n), Place)
  /\ End(n) <= Place /\ Place < End(n) + H

(* What was read behind the n-th entry is in the next one.                 *)
Filling(n) ==
  /\ n < Len(log)
  /\ PartOf(entry, n + 1, Place)
  /\ Place < End(n + 1)
  /\ header = <<>>

Types ==
  /\ log \in Logs /\ cancelled \in BOOLEAN
  /\ received \in 0..End(Len(log))
  /\ delivered \in Seq(Entries)
  /\ \E p \in 0..received : chunk = Bytes(p, received)
  /\ pc \in {"loop", "receive"} => chunk = <<>>

LogInv ==
  /\ Types
  /\ pc # "undefined" =>
       /\ Told
       /\ ~cancelled => \E n \in 0..Len(log) : Sofar(n) /\ (Waiting(n) \/ Filling(n))

(***************************************************************************)
(* What is delivered                                                       *)
(***************************************************************************)

LEMMA BytesOfDiffer ==
  ASSUME log \in Logs, NEW k \in 1..Len(log)
  PROVE  /\ BytesOf(k) # NoHeader
         /\ \A j \in 1..Len(log) : BytesOf(j) = BytesOf(k) => j = k
<1>1. ASSUME NEW j \in 1..Len(log)
      PROVE  BytesOf(j)[1] = End(j - 1) + 1 /\ End(j - 1) \in Nat /\ H \in Nat /\ H > 0
  <2>1. Len(log) \in Nat /\ H \in Nat /\ H > 0
    BY Ends
  <2>2. j - 1 \in 0..Len(log) /\ j \in 0..Len(log) /\ j - 1 < j
    BY <2>1
  <2>3. End(j - 1) \in Nat /\ End(j) \in Nat /\ End(j) - End(j - 1) >= H
    BY <2>2, Ends
  <2>4. 1 \in 1..End(j) - End(j - 1) /\ End(j - 1) <= End(j)
    BY <2>1, <2>3
  <2>5. BytesOf(j)[1] = End(j - 1) + 1
    <3>2. \A i \in 1..End(j) - End(j - 1) : Bytes(End(j - 1), End(j))[i] = End(j - 1) + i
      BY <2>3, <2>4, BytesType, Zenon
    <3> QED
      BY <2>4, <3>2 DEF BytesOf
  <2> QED
    BY <2>1, <2>3, <2>5
<1>2. BytesOf(k) # NoHeader
  BY <1>1 DEF NoHeader
<1>3. ASSUME NEW j \in 1..Len(log), BytesOf(j) = BytesOf(k)  PROVE j = k
  <2>1. End(j - 1) = End(k - 1) /\ End(j - 1) \in Nat /\ End(k - 1) \in Nat /\ H \in Nat /\ H > 0
    <3>1. BytesOf(j)[1] = End(j - 1) + 1 /\ End(j - 1) \in Nat /\ H \in Nat /\ H > 0
      BY <1>1
    <3>2. BytesOf(k)[1] = End(k - 1) + 1 /\ End(k - 1) \in Nat
      BY <1>1
    <3>3. BytesOf(j)[1] = BytesOf(k)[1]
      BY <1>3
    <3> QED
      BY <3>1, <3>2, <3>3
  <2>2. Len(log) \in Nat
    BY Ends
  <2>3. j - 1 \in 0..Len(log) /\ k - 1 \in 0..Len(log)
    BY <2>2
  <2>4. End(j - 1) < End(k - 1) + H /\ End(k - 1) < End(j - 1) + H
    BY <2>1
  <2>5. j - 1 = k - 1
    BY <2>3, <2>4, EndsDiffer
  <2> QED
    BY <2>2, <2>5
<1> QED
  BY <1>2, <1>3

(* Delivering one entry more                                               *)
LEMMA TimesAppend ==
  ASSUME delivered \in Seq(Entries), NEW e \in Entries, delivered' = Append(delivered, e),
         UNCHANGED log, NEW k
  PROVE  /\ delivered' \in Seq(Entries) /\ DOMAIN delivered' = DOMAIN delivered \cup {Len(delivered) + 1}
         /\ \A i \in DOMAIN delivered : delivered'[i] = delivered[i]
         /\ delivered'[Len(delivered) + 1] = e
         /\ Times(k)' = Times(k) \cup (IF Whole(e, k) THEN {Len(delivered) + 1} ELSE {})
<1>1. /\ delivered' \in Seq(Entries) /\ Len(delivered') = Len(delivered) + 1 /\ Len(delivered) \in Nat
      /\ \A i \in 1..Len(delivered) : delivered'[i] = delivered[i]
      /\ delivered'[Len(delivered) + 1] = e
  BY AppendProperties
<1>2. DOMAIN delivered' = DOMAIN delivered \cup {Len(delivered) + 1} /\ DOMAIN delivered = 1..Len(delivered)
  <2>1. DOMAIN delivered' = 1..Len(delivered) + 1 /\ DOMAIN delivered = 1..Len(delivered)
    BY <1>1
  <2> QED
    BY <1>1, <2>1
<1>3. BytesOf(k)' = BytesOf(k)
  BY DEF BytesOf, End
<1>4. Times(k)' = {i \in DOMAIN delivered' : delivered'[i].header \o delivered'[i].data = BytesOf(k)}
  BY <1>3 DEF Times
<1>5. Len(delivered) + 1 \in Times(k)' <=> Whole(e, k)
  BY <1>1, <1>2, <1>4 DEF Whole
<1>6. \A i \in DOMAIN delivered : i \in Times(k)' <=> i \in Times(k)
  BY <1>1, <1>2, <1>4 DEF Times
<1>7. Times(k)' \subseteq DOMAIN delivered' /\ Times(k) \subseteq DOMAIN delivered
  BY <1>4 DEF Times
<1>8. Len(delivered) + 1 \notin DOMAIN delivered
  BY <1>1, <1>2
<1>9. Times(k)' = Times(k) \cup (IF Whole(e, k) THEN {Len(delivered) + 1} ELSE {})
  BY <1>2, <1>5, <1>6, <1>7, <1>8
<1> QED
  BY <1>1, <1>2, <1>9

LEMMA TimesSame == ASSUME UNCHANGED <<log, delivered>>, NEW k  PROVE Times(k)' = Times(k)
  BY DEF Times, BytesOf, End

(* The next entry is delivered.                                            *)
LEMMA DeliverNext ==
  ASSUME log \in Logs, delivered \in Seq(Entries), Told, NEW n \in 0..Len(log), n < Len(log), Sofar(n),
         NEW e \in Entries, Whole(e, n + 1), delivered' = Append(delivered, e), UNCHANGED log
  PROVE  Told' /\ Sofar(n + 1)'
<1> DEFINE last == Len(delivered) + 1
<1>1. Len(log) \in Nat /\ DOMAIN log = 1..Len(log) /\ n + 1 \in 1..Len(log) /\ n \in Nat
  BY Ends, LogAssumption
<1>2. \A k \in DOMAIN log : Whole(e, k) <=> k = n + 1
  BY <1>1, BytesOfDiffer DEF Whole
<1>3. \A k \in DOMAIN log : Times(k)' = Times(k) \cup (IF k = n + 1 THEN {last} ELSE {})
  BY <1>2, TimesAppend
<1>4. /\ DOMAIN delivered' = DOMAIN delivered \cup {last}
      /\ \A i \in DOMAIN delivered : delivered'[i] = delivered[i]
      /\ delivered'[last] = e
  BY TimesAppend
<1>5. \A i \in DOMAIN delivered : i \in Nat /\ i < last
  <2>1. DOMAIN delivered = 1..Len(delivered) /\ Len(delivered) \in Nat
    OBVIOUS
  <2> QED
    BY <2>1
<1>6. Times(n + 1) = {} /\ \A k \in DOMAIN log : Times(k) \subseteq DOMAIN delivered
  <2>1. ~(n + 1 <= n)
    BY <1>1
  <2> QED
    BY <1>1, <2>1 DEF Sofar, Times
<1> HIDE DEF last
<1>7. ASSUME NEW i \in DOMAIN delivered'
      PROVE  delivered'[i].header = NoHeader \/ \E k \in DOMAIN log' : i \in Times(k)'
  <2>1. CASE i = last
    BY <1>1, <1>3, <2>1
  <2>2. CASE i # last
    <3>1. i \in DOMAIN delivered /\ delivered'[i] = delivered[i]
      BY <1>4, <2>2
    <3>2. delivered[i].header = NoHeader \/ \E k \in DOMAIN log : i \in Times(k)
      BY <3>1 DEF Told
    <3> QED
      BY <1>3, <3>1, <3>2
  <2> QED
    BY <2>1, <2>2
<1>8. ASSUME NEW k \in DOMAIN log', NEW i \in Times(k)', NEW j \in Times(k)'
      PROVE  i = j
  <2>1. CASE k = n + 1
    BY <1>3, <1>6, <2>1
  <2>2. CASE k # n + 1
    BY <1>3, <2>2 DEF Told
  <2> QED
    BY <2>1, <2>2
<1>9. ASSUME NEW k \in DOMAIN log', NEW i \in Times(k)', NEW j \in 1..k - 1
      PROVE  \E h \in Times(j)' : h < i
  <2>1. j \in DOMAIN log
    BY <1>1
  <2>2. CASE k = n + 1
    <3>1. i = last /\ j <= n
      BY <1>1, <1>3, <1>6, <2>2
    <3>2. PICK h \in Times(j) : TRUE
      BY <2>1, <3>1 DEF Sofar
    <3> QED
      BY <1>3, <1>5, <1>6, <2>1, <3>1, <3>2
  <2>3. CASE k # n + 1
    <3>1. PICK h \in Times(j) : h < i
      BY <1>3, <2>3 DEF Told
    <3> QED
      BY <1>3, <2>1, <3>1
  <2> QED
    BY <2>2, <2>3
<1>10. Sofar(n + 1)'
  <2>1. ASSUME NEW k \in DOMAIN log  PROVE Times(k)' # {} <=> k <= n + 1
    <3>1. k \in Nat /\ (Times(k) # {} <=> k <= n)
      BY <1>1 DEF Sofar
    <3>2. CASE k = n + 1
      BY <1>1, <1>3, <3>2
    <3>3. CASE k # n + 1
      BY <1>1, <1>3, <3>1, <3>3
    <3> QED
      BY <3>2, <3>3
  <2> QED
    BY <2>1 DEF Sofar
<1> QED
  BY <1>7, <1>8, <1>9, <1>10 DEF Told

(* An entry that was never read is delivered.                              *)
LEMMA DeliverNothing ==
  ASSUME log \in Logs, delivered \in Seq(Entries), Told, NEW n, Sofar(n),
         NEW e \in Entries, e.header = NoHeader, e.data = <<>>,
         delivered' = Append(delivered, e), UNCHANGED log
  PROVE  Told' /\ Sofar(n)'
<1>1. DOMAIN log = 1..Len(log)
  BY Ends, LogAssumption
<1>2. ASSUME NEW k \in DOMAIN log  PROVE ~Whole(e, k)
  <2>1. e.header \o e.data = NoHeader
    <3>1. e.header \in Seq(Int)
      BY DEF Entries
    <3> QED
      BY <3>1, ConcatEmptySeq
  <2>2. BytesOf(k) # NoHeader
    BY <1>1, BytesOfDiffer
  <2> QED
    BY <2>1, <2>2 DEF Whole
<1>3. \A k \in DOMAIN log : Times(k)' = Times(k)
  <2>1. \A k \in DOMAIN log :
           Times(k)' = Times(k) \cup (IF Whole(e, k) THEN {Len(delivered) + 1} ELSE {})
    BY TimesAppend
  <2> QED
    BY <1>2, <2>1
<1>4. /\ DOMAIN delivered' = DOMAIN delivered \cup {Len(delivered) + 1}
      /\ \A i \in DOMAIN delivered : delivered'[i] = delivered[i]
      /\ delivered'[Len(delivered) + 1] = e
  BY TimesAppend
<1>5. ASSUME NEW i \in DOMAIN delivered'
      PROVE  delivered'[i].header = NoHeader \/ \E k \in DOMAIN log' : i \in Times(k)'
  <2>1. CASE i = Len(delivered) + 1
    BY <1>4, <2>1
  <2>2. CASE i # Len(delivered) + 1
    <3>1. i \in DOMAIN delivered /\ delivered'[i] = delivered[i]
      BY <1>4, <2>2
    <3>2. delivered[i].header = NoHeader \/ \E k \in DOMAIN log : i \in Times(k)
      BY <3>1 DEF Told
    <3> QED
      BY <1>3, <3>1, <3>2
  <2> QED
    BY <2>1, <2>2
<1>6. \A k \in DOMAIN log' : \A i, j \in Times(k)' : i = j
  BY <1>3 DEF Told
<1>7. ASSUME NEW k \in DOMAIN log', NEW i \in Times(k)', NEW j \in 1..k - 1
      PROVE  \E h \in Times(j)' : h < i
  <2>1. j \in DOMAIN log
    <3>1. Len(log) \in Nat
      BY Ends
    <3> QED
      BY <1>1, <3>1
  <2> QED
    BY <1>3, <2>1 DEF Told
<1>8. Sofar(n)'
  BY <1>3 DEF Sofar
<1> QED
  BY <1>5, <1>6, <1>7, <1>8 DEF Told
-----------------------------------------------------------------------------
(***************************************************************************)
(* parseNewData                                                            *)
(***************************************************************************)

(* The rest of the chunk goes into an entry that is genuine.               *)
LEMMA TakeNext ==
  ASSUME log \in Logs, received \in Nat, delivered \in Seq(Entries), Told,
         NEW n \in 0..Len(log), n < Len(log), Sofar(n),
         NEW p \in Nat, p <= received, NEW e, PartOf(e, n + 1, p),
         TakeData(e, Bytes(p, received)), UNCHANGED <<log, received>>
  PROVE  /\ pc' \in {"parse", "loop"} /\ Told' /\ delivered' \in Seq(Entries)
         /\ \/ /\ entry' = NoEntry /\ Sofar(n + 1)' /\ pc' = "parse"
               /\ End(n + 1) <= received /\ chunk' = Bytes(End(n + 1), received)
            \/ /\ PartOf(entry', n + 1, received) /\ received < End(n + 1) /\ Sofar(n)'
               /\ chunk' = <<>>
<1> DEFINE B == End(n) + H
           E == End(n + 1)
           rest == Bytes(p, received)
           missing == e.len - Len(e.data)
           stored == IF Len(rest) >= missing THEN missing ELSE Len(rest)
<1>1. Len(log) \in Nat /\ n \in Nat /\ n + 1 \in 0..Len(log) /\ n + 1 - 1 = n /\ n + 1 \in 1..Len(log)
  BY Ends
<1>2. End(n) \in Nat /\ E \in Nat /\ H \in Nat /\ H > 0
  BY <1>1, Ends
<1>3. /\ e \in Entries /\ e.header = Bytes(End(n), B) /\ e.data = Bytes(B, p)
      /\ e.len = E - End(n) - H /\ e.room = e.len /\ B <= p /\ p <= E
  BY <1>1 DEF PartOf
<1> DEFINE more == SubSeq(rest, 1, missing)
<1> HIDE DEF E
<1>4. B \in Nat /\ End(n) <= B
  BY <1>2
<1> HIDE DEF B, rest, more, stored, missing
<1>5. Len(e.data) = p - B /\ Len(rest) = received - p
  BY <1>2, <1>3, <1>4, BytesType DEF rest
<1>6. missing = E - p
  <2>1. e.len = E - B
    BY <1>2, <1>3 DEF B
  <2> QED
    BY <1>2, <1>4, <1>5, <2>1 DEF missing
<1>7. e.room = E - B
  BY <1>2, <1>3 DEF B
<1>8. ~(stored < 0 \/ Len(e.data) + stored > e.room)
  <2>1. /\ Len(rest) >= missing => stored = E - p
        /\ ~(Len(rest) >= missing) => stored = received - p /\ received < E
    BY <1>2, <1>5, <1>6 DEF stored
  <2>2. stored \in Nat /\ stored <= E - p
    BY <1>2, <1>3, <2>1
  <2> QED
    BY <1>2, <1>3, <1>4, <1>5, <1>7, <2>2
<1>9. CASE Len(rest) >= missing
  <2> DEFINE d == WithData(e, more)
  <2>1. /\ delivered' = Append(delivered, d) /\ entry' = NoEntry
        /\ chunk' = SubSeq(rest, missing + 1, Len(rest)) /\ pc' = "parse"
    BY <1>8, <1>9 DEF TakeData, rest, more, stored, missing
  <2>2. E <= received
    BY <1>2, <1>5, <1>6, <1>9
  <2>3. more = Bytes(p, E) /\ chunk' = Bytes(E, received)
    <3>1. ASSUME NEW m \in Nat, p + m <= received
          PROVE  /\ SubSeq(Bytes(p, received), 1, m) = Bytes(p, p + m)
                 /\ SubSeq(Bytes(p, received), m + 1, received - p) = Bytes(p + m, received)
      BY <3>1, BytesSplit
    <3>2. E - p \in Nat /\ p + (E - p) = E
      BY <1>2, <1>3
    <3> QED
      BY <1>5, <1>6, <2>1, <2>2, <3>1, <3>2 DEF more, rest
  <2>5. d \in Entries /\ d.header = Bytes(End(n), B) /\ d.data = Bytes(B, E)
    <3>1. Bytes(B, p) \o Bytes(p, E) = Bytes(B, E)
      BY <1>2, <1>3, <1>4, BytesConcat
    <3>2. Bytes(B, E) \in Seq(Int)
      BY <1>2, <1>3, <1>4, BytesType
    <3>3. e.data \o more = Bytes(B, E)
      BY <1>3, <2>3, <3>1
    <3> QED
      BY <1>3, <3>2, <3>3 DEF WithData, Entries
  <2>6. Whole(d, n + 1)
    <3>1. Bytes(End(n), B) \o Bytes(B, E) = Bytes(End(n), E)
      <4>1. End(n) <= B /\ B <= E
        BY <1>2, <1>3, <1>4
      <4> QED
        BY <1>2, <1>4, <4>1, BytesConcat
    <3> HIDE DEF d
    <3>2. d.header \o d.data = Bytes(End(n), E)
      BY <2>5, <3>1
    <3>3. BytesOf(n + 1) = Bytes(End(n), E)
      <4>1. End(n + 1 - 1) = End(n)
        BY <1>1
      <4> QED
        BY <4>1 DEF BytesOf, E
    <3> QED
      BY <3>2, <3>3 DEF Whole
  <2> HIDE DEF d
  <2>7. Told' /\ Sofar(n + 1)'
    BY <2>1, <2>5, <2>6, DeliverNext
  <2>8. delivered' \in Seq(Entries)
    BY <2>1, <2>5, AppendProperties
  <2> QED
    BY <2>1, <2>2, <2>3, <2>7, <2>8 DEF E
<1>10. CASE ~(Len(rest) >= missing)
  <2>1. /\ entry' = WithData(e, rest) /\ chunk' = <<>> /\ pc' = "loop" /\ UNCHANGED delivered
    BY <1>8, <1>10 DEF TakeData, rest, more, stored, missing
  <2>2. received < E
    BY <1>2, <1>5, <1>6, <1>10
  <2>3. Told' /\ Sofar(n)'
    BY <2>1, TimesSame DEF Told, Sofar
  <2>4. e.data \o rest = Bytes(B, received) /\ Bytes(B, received) \in Seq(Int) /\ B <= received
    <3>1. B <= received
      BY <1>3, <1>4
    <3> QED
      <4>1. Bytes(B, p) \o Bytes(p, received) = Bytes(B, received)
        BY <1>3, <1>4, BytesConcat
      <4>2. Bytes(B, received) \in Seq(Int)
        BY <1>4, <3>1, BytesType
      <4> QED
        BY <1>3, <3>1, <4>1, <4>2 DEF rest
  <2>5. entry' = [e EXCEPT !.data = Bytes(B, received)]
    BY <2>1, <2>4 DEF WithData
  <2>6. PartOf(entry', n + 1, received)
    <3>1. entry' \in Entries
      BY <1>3, <2>4, <2>5 DEF Entries
    <3>2. /\ entry'.header = e.header /\ entry'.data = Bytes(B, received)
          /\ entry'.len = e.len /\ entry'.room = e.room
      BY <1>3, <2>5 DEF Entries
    <3> QED
      BY <1>1, <1>2, <1>3, <2>2, <2>4, <3>1, <3>2 DEF PartOf, B, E
  <2> QED
    BY <2>1, <2>2, <2>3, <2>6 DEF E
<1> QED
  BY <1>9, <1>10

(* Nothing but an entry without data fits into an entry that has no room.  *)
LEMMA TakeNothing ==
  ASSUME NEW len \in Int, delivered \in Seq(Entries), chunk \in Seq(Int), Len(chunk) > 0,
         TakeData(Uninitialised(len), chunk), pc' # "undefined"
  PROVE  /\ pc' = "parse" /\ chunk' = chunk /\ entry' = NoEntry
         /\ \E e \in Entries : /\ e.header = NoHeader /\ e.data = <<>>
                              /\ delivered' = Append(delivered, e)
<1> DEFINE e == Uninitialised(len)
           stored == IF Len(chunk) >= len THEN len ELSE Len(chunk)
<1>1. /\ e.len = len /\ e.room = 0 /\ e.header = NoHeader /\ e.data = <<>> /\ Len(e.data) = 0
      /\ e \in Entries
  <2>1. NoHeader \in Seq(Int) /\ <<>> \in Seq(Int) /\ Len(<<>>) = 0
    BY DEF NoHeader
  <2> QED
    BY <2>1 DEF Uninitialised, Entries
<1> HIDE DEF e
<1>2. e.len - Len(e.data) = len
  BY <1>1
<1>3. ~(stored < 0 \/ Len(e.data) + stored > e.room)
  BY <1>2 DEF TakeData, e
<1>4. len = 0 /\ Len(chunk) >= len
  BY <1>1, <1>3
<1>5. /\ delivered' = Append(delivered, WithData(e, SubSeq(chunk, 1, 0)))
      /\ chunk' = SubSeq(chunk, 1, Len(chunk)) /\ entry' = NoEntry /\ pc' = "parse"
  BY <1>1, <1>2, <1>3, <1>4 DEF TakeData, e
<1>6. SubSeq(chunk, 1, 0) = <<>> /\ SubSeq(chunk, 1, Len(chunk)) = chunk
  OBVIOUS
<1>7. WithData(e, <<>>) = e
  BY <1>1 DEF WithData, Entries
<1> QED
  BY <1>1, <1>5, <1>6, <1>7

-----------------------------------------------------------------------------
(***************************************************************************)
(* Every step keeps the invariant.                                         *)
(***************************************************************************)

LEMMA EndSame == ASSUME UNCHANGED log, NEW k  PROVE End(k)' = End(k) /\ BytesOf(k)' = BytesOf(k)
  BY DEF End, BytesOf

LEMMA InitInv == Init => LogInv
<1> SUFFICES ASSUME Init  PROVE LogInv
  OBVIOUS
<1>1. /\ log \in Logs /\ received = 0 /\ chunk = <<>> /\ entry = NoEntry /\ header = <<>>
      /\ delivered = <<>> /\ cancelled = FALSE
  BY DEF Init
<1>2. Len(log) \in Nat /\ End(Len(log)) \in Nat /\ End(0) = 0 /\ H \in Nat /\ H > 0
  BY <1>1, Ends DEF End
<1>3. Bytes(0, 0) = <<>>
  BY NoBytes
<1>4. Place = 0
  <2>1. received = 0 /\ Len(chunk) = 0
    BY <1>1, EmptySeq
  <2> QED
    BY <2>1 DEF Place
<1>5. Types
  <2>1. received \in 0..End(Len(log)) /\ 0 \in 0..received
    BY <1>1, <1>2
  <2>2. chunk = Bytes(0, received)
    BY <1>1, <1>3
  <2>3. delivered \in Seq(Entries)
    BY <1>1, EmptySeq, Zenon
  <2>4. cancelled \in BOOLEAN
    BY <1>1, Zenon
  <2> QED
    BY <1>1, <2>1, <2>2, <2>3, <2>4 DEF Types
<1>6. \A k : Times(k) = {}
  BY <1>1 DEF Times
<1>7. Told
  BY <1>1, <1>6 DEF Told
<1>8. Sofar(0)
  <2>1. DOMAIN log = 1..Len(log)
    BY <1>1, LogAssumption
  <2> QED
    BY <1>2, <1>6, <2>1 DEF Sofar
<1>9. Waiting(0)
  BY <1>1, <1>2, <1>3, <1>4 DEF Waiting
<1>10. 0 \in 0..Len(log)
  BY <1>2
<1> QED
  BY <1>5, <1>7, <1>8, <1>9, <1>10 DEF LogInv

(* The loop of runLogService, and cancel                                   *)
LEMMA CalmStep ==
  ASSUME LogInv, UNCHANGED <<log, reading>>, cancelled' \in {cancelled, TRUE},
         pc' = "undefined" => pc = "undefined",
         pc = "undefined" => pc' = "undefined",
         pc' \in {"loop", "receive"} => chunk = <<>>
  PROVE  LogInv'
<1>1. UNCHANGED <<log, received, chunk, entry, header, delivered>>
  BY DEF reading
<1>2. Types'
  <2>1. End(Len(log))' = End(Len(log))
    BY <1>1, EndSame
  <2>2. Types
    BY DEF LogInv
  <2>3. pc' \in {"loop", "receive"} => chunk' = <<>>
    BY <1>1
  <2>4. cancelled' \in BOOLEAN
    BY <2>2 DEF Types
  <2> QED
    BY <1>1, <2>1, <2>2, <2>3, <2>4 DEF Types
<1>3. \A k : Times(k)' = Times(k)
  BY <1>1, TimesSame
<1>4. Told => Told'
  BY <1>1, <1>3 DEF Told
<1>5. ASSUME NEW n, Sofar(n), Waiting(n) \/ Filling(n)
      PROVE  Sofar(n)' /\ (Waiting(n) \/ Filling(n))'
  <2>1. Sofar(n)'
    BY <1>1, <1>3, <1>5 DEF Sofar
  <2>2. Place' = Place /\ \A k : End(k)' = End(k)
    BY <1>1, EndSame DEF Place
  <2>3. Waiting(n) => Waiting(n)'
    BY <1>1, <2>2 DEF Waiting
  <2>4. Filling(n) => Filling(n)'
    BY <1>1, <2>2 DEF Filling, PartOf
  <2> QED
    BY <1>5, <2>1, <2>3, <2>4
<1> QED
  BY <1>1, <1>2, <1>4, <1>5 DEF LogInv

(* What parseNewData still has to look at lies behind its place.           *)
LEMMA ChunkLemma ==
  ASSUME Types
  PROVE  /\ log \in Logs /\ received \in Nat /\ Place \in Nat /\ Place <= received
         /\ received <= End(Len(log))
         /\ chunk = Bytes(Place, received) /\ chunk \in Seq(Int) /\ Len(chunk) = received - Place
         /\ chunk # <<>> <=> Place < received
<1>1. log \in Logs /\ End(Len(log)) \in Nat
  <2>1. log \in Logs
    BY DEF Types
  <2>2. Len(log) \in Nat
    BY <2>1, Ends
  <2> QED
    BY <2>1, <2>2, Ends
<1>2. received \in Nat /\ received <= End(Len(log))
  BY <1>1 DEF Types
<1>3. PICK p \in Nat : p <= received /\ chunk = Bytes(p, received)
  BY <1>2 DEF Types
<1>4. chunk \in Seq(Int) /\ Len(chunk) = received - p
  BY <1>2, <1>3, BytesType
<1>5. Place = p
  BY <1>2, <1>3, <1>4 DEF Place
<1>6. chunk # <<>> <=> Len(chunk) > 0
  BY <1>4, EmptySeq
<1> QED
  BY <1>1, <1>2, <1>3, <1>4, <1>5, <1>6

(* Where the entry under way is none, the header is read.                  *)
LEMMA NoEntryWaits ==
  ASSUME log \in Logs, NEW n \in 0..Len(log), Waiting(n) \/ Filling(n)
  PROVE  /\ entry = NoEntry => Waiting(n)
         /\ entry # NoEntry => Filling(n) \/ \E len \in Garbage : entry = Uninitialised(len)
<1>1. ASSUME Filling(n)  PROVE entry # NoEntry
  <2>1. n + 1 - 1 = n /\ n < Len(log)
    BY <1>1, Ends DEF Filling
  <2>2. entry.header = Bytes(End(n), End(n) + H)
    BY <1>1, <2>1 DEF Filling, PartOf
  <2>3. End(n) \in Nat /\ H \in Nat /\ H > 0 /\ End(n) + H \in Nat /\ End(n) <= End(n) + H
    BY Ends
  <2>4. Len(entry.header) = H
    <3> DEFINE a == End(n)
               b == End(n) + H
    <3>1. a \in Nat /\ b \in Nat /\ a <= b /\ b - a = H /\ entry.header = Bytes(a, b)
      BY <2>2, <2>3
    <3> HIDE DEF a, b
    <3> QED
      BY <3>1, BytesType
  <2>5. Len(NoEntry.header) = 0
    BY DEF NoEntry
  <2> QED
    BY <2>3, <2>4, <2>5
<1> QED
  BY <1>1 DEF Waiting

LEMMA ReceiveDataInv == LogInv /\ ReceiveData => LogInv'
<1> SUFFICES ASSUME LogInv, ReceiveData  PROVE LogInv'
  OBVIOUS
<1>1. /\ log \in Logs /\ received \in Nat /\ received <= End(Len(log)) /\ Types /\ chunk = <<>>
      /\ Place = received
  <2>1. Types /\ chunk = <<>> /\ Len(<<>>) = 0
    BY DEF LogInv, Types, ReceiveData
  <2> QED
    BY <2>1, ChunkLemma DEF Place
<1>2. PICK n \in received + 1..End(Len(log)) : chunk' = Bytes(received, n) /\ received' = n
  BY DEF ReceiveData
<1>3. UNCHANGED <<log, entry, header, delivered, cancelled>> /\ pc = "receive" /\ pc' = "parse"
  BY DEF ReceiveData
<1>4. n \in Nat /\ received <= n /\ n <= End(Len(log)) /\ End(Len(log)) \in Nat
  <2>1. Len(log) \in Nat
    BY <1>1, Ends
  <2>2. End(Len(log)) \in Nat
    BY <1>1, <2>1, Ends
  <2> QED
    BY <1>1, <2>2
<1>5. Len(chunk') = n - received
  BY <1>1, <1>2, <1>4, BytesType
<1>6. Place' = Place
  BY <1>1, <1>2, <1>4, <1>5 DEF Place
<1>7. \A k : End(k)' = End(k) /\ Times(k)' = Times(k)
  BY <1>3, EndSame, TimesSame
<1>8. Types'
  <2>1. received' \in 0..End(Len(log))' /\ received \in 0..received'
    BY <1>1, <1>2, <1>3, <1>4, <1>7
  <2> QED
    BY <1>1, <1>2, <1>3, <2>1 DEF Types
<1>9. Told'
  BY <1>3, <1>7 DEF LogInv, Told
<1>10. ASSUME NEW m, Sofar(m), Waiting(m) \/ Filling(m)
       PROVE  Sofar(m)' /\ (Waiting(m) \/ Filling(m))'
  <2>1. Sofar(m)'
    BY <1>3, <1>7, <1>10 DEF Sofar
  <2>2. Waiting(m) => Waiting(m)'
    BY <1>3, <1>6, <1>7 DEF Waiting
  <2>3. Filling(m) => Filling(m)'
    BY <1>3, <1>6, <1>7 DEF Filling, PartOf
  <2> QED
    BY <1>10, <2>1, <2>2, <2>3
<1> QED
  BY <1>3, <1>8, <1>9, <1>10 DEF LogInv

LEMMA ParseEndsInv == LogInv /\ ParseEnds => LogInv'
<1> SUFFICES ASSUME LogInv, ParseEnds  PROVE LogInv'
  OBVIOUS
<1>1. CASE chunk = <<>>
  <2>1. UNCHANGED <<log, reading>> /\ cancelled' = cancelled /\ pc = "parse" /\ pc' = "loop"
    BY <1>1 DEF ParseEnds, reading
  <2> QED
    BY <1>1, <2>1, CalmStep
<1>2. CASE cancelled
  <2>1. /\ UNCHANGED <<log, received, entry, header, delivered, cancelled>> /\ chunk' = <<>>
        /\ pc = "parse" /\ pc' = "loop"
    BY DEF ParseEnds
  <2>2. Types'
    <3>1. received \in Nat /\ Types
      BY ChunkLemma DEF LogInv
    <3>2. Bytes(received, received) = <<>> /\ received \in 0..received
      BY <3>1, NoBytes
    <3>3. End(Len(log))' = End(Len(log))
      BY <2>1, EndSame
    <3> QED
      BY <2>1, <3>1, <3>2, <3>3 DEF Types
  <2>3. Told'
    <3>1. \A k : Times(k)' = Times(k)
      BY <2>1, TimesSame
    <3> QED
      BY <2>1, <3>1 DEF LogInv, Told
  <2> QED
    BY <1>2, <2>1, <2>2, <2>3 DEF LogInv
<1> QED
  BY <1>1, <1>2 DEF ParseEnds

(* What is known when parseNewData looks at a byte                         *)
LEMMA ParseFacts ==
  ASSUME LogInv, pc = "parse", chunk # <<>>, ~cancelled
  PROVE  /\ Types /\ Told /\ log \in Logs /\ received \in Nat /\ delivered \in Seq(Entries)
         /\ chunk = Bytes(Place, received) /\ chunk \in Seq(Int) /\ Len(chunk) = received - Place
         /\ Place \in Nat /\ Place < received /\ Place <= received
         /\ \E n \in 0..Len(log) : Sofar(n) /\ (Waiting(n) \/ Filling(n))
<1>1. /\ Types /\ Told /\ delivered \in Seq(Entries)
      /\ \E n \in 0..Len(log) : Sofar(n) /\ (Waiting(n) \/ Filling(n))
  BY DEF LogInv, Types
<1> QED
  BY <1>1, ChunkLemma

(* After a step that TakeNext describes                                    *)
LEMMA TakenInv ==
  ASSUME Types, ~cancelled, UNCHANGED <<log, received, cancelled>>, header' = <<>>,
         NEW n \in 0..Len(log), n < Len(log),
         pc' \in {"parse", "loop"}, Told', delivered' \in Seq(Entries),
         \/ /\ entry' = NoEntry /\ Sofar(n + 1)' /\ pc' = "parse"
            /\ End(n + 1) <= received /\ chunk' = Bytes(End(n + 1), received)
         \/ /\ PartOf(entry', n + 1, received) /\ received < End(n + 1) /\ Sofar(n)'
            /\ chunk' = <<>>
  PROVE  LogInv'
<1>1. Len(log) \in Nat /\ n + 1 \in 0..Len(log) /\ H \in Nat /\ H > 0 /\ End(n + 1) \in Nat
  <2>1. log \in Logs
    BY DEF Types
  <2>2. Len(log) \in Nat /\ H \in Nat /\ H > 0
    BY <2>1, Ends
  <2>3. n + 1 \in 0..Len(log)
    BY <2>2
  <2> QED
    BY <2>1, <2>2, <2>3, Ends
<1>2. received \in Nat /\ received' = received
  BY ChunkLemma
<1>3. \A k : End(k)' = End(k)
  BY EndSame
<1>4. ASSUME NEW p \in 0..received, chunk' = Bytes(p, received), pc' = "loop" => chunk' = <<>>
      PROVE  Types'
  <2>1. received' \in 0..End(Len(log))' /\ log' \in Logs /\ cancelled' \in BOOLEAN
    BY <1>2, <1>3 DEF Types
  <2>2. \E q \in 0..received' : chunk' = Bytes(q, received')
    BY <1>2, <1>4
  <2>3. pc' \in {"loop", "receive"} => chunk' = <<>>
    BY <1>4
  <2> QED
    BY <2>1, <2>2, <2>3 DEF Types
<1>5. CASE /\ entry' = NoEntry /\ Sofar(n + 1)' /\ pc' = "parse"
           /\ End(n + 1) <= received /\ chunk' = Bytes(End(n + 1), received)
  <2>1. Len(chunk') = received - End(n + 1)
    BY <1>1, <1>2, <1>5, BytesType
  <2>2. Place' = End(n + 1)
    BY <1>1, <1>2, <2>1 DEF Place
  <2>3. Waiting(n + 1)'
    <3>1. Bytes(End(n + 1), End(n + 1)) = <<>>
      BY <1>1, NoBytes
    <3> QED
      BY <1>1, <1>3, <1>5, <2>2, <3>1 DEF Waiting
  <2>4. Types'
    <3>1. End(n + 1) \in 0..received
      BY <1>1, <1>2, <1>5
    <3> QED
      BY <1>4, <1>5, <3>1
  <2> QED
    BY <1>1, <1>5, <2>3, <2>4 DEF LogInv
<1>6. CASE /\ PartOf(entry', n + 1, received) /\ received < End(n + 1) /\ Sofar(n)'
           /\ chunk' = <<>>
  <2>1. Len(chunk') = 0
    BY <1>6, EmptySeq
  <2>2. Place' = received
    BY <1>2, <2>1 DEF Place
  <2>3. PartOf(entry, n + 1, Place)'
    BY <1>3, <1>6, <2>2 DEF PartOf
  <2>4. Filling(n)'
    BY <1>3, <1>6, <2>2, <2>3 DEF Filling
  <2>5. Types'
    <3>1. received \in 0..received /\ Bytes(received, received) = <<>>
      BY <1>2, NoBytes
    <3> QED
      BY <1>4, <1>6, <3>1
  <2>6. n \in 0..Len(log')
    OBVIOUS
  <2> QED
    BY <1>6, <2>4, <2>5, <2>6 DEF LogInv
<1> QED
  BY <1>5, <1>6

LEMMA ParsePartOfHeaderInv == LogInv /\ ParsePartOfHeader => LogInv'
<1> SUFFICES ASSUME LogInv, ParsePartOfHeader  PROVE LogInv'
  OBVIOUS
<1>1. /\ pc = "parse" /\ chunk # <<>> /\ ~cancelled /\ entry = NoEntry
      /\ Len(header) + Len(chunk) < H
      /\ \E len \in Garbage : entry' = Uninitialised(len)
      /\ header' = header \o chunk /\ chunk' = <<>> /\ pc' = "loop"
      /\ UNCHANGED <<log, received, delivered, cancelled>>
  BY DEF ParsePartOfHeader, H
<1>2. /\ Types /\ Told /\ log \in Logs /\ received \in Nat /\ delivered \in Seq(Entries)
      /\ chunk = Bytes(Place, received) /\ Len(chunk) = received - Place
      /\ Place \in Nat /\ Place < received /\ Place <= received
  BY <1>1, ParseFacts
<1>3. PICK n \in 0..Len(log) : Sofar(n) /\ Waiting(n)
  BY <1>1, <1>2, ParseFacts, NoEntryWaits
<1>4. End(n) \in Nat /\ H \in Nat
  BY <1>2, Ends
<1>5. header = Bytes(End(n), Place) /\ End(n) <= Place
  BY <1>3 DEF Waiting
<1>6. header' = Bytes(End(n), received)
  BY <1>1, <1>2, <1>4, <1>5, BytesConcat
<1>7. received < End(n) + H
  <2>1. Len(header) = Place - End(n)
    BY <1>2, <1>4, <1>5, BytesType
  <2> QED
    BY <1>1, <1>2, <1>4, <2>1
<1>8. Place' = received
  <2>1. Len(chunk') = 0
    BY <1>1, EmptySeq
  <2> QED
    BY <1>1, <1>2, <2>1 DEF Place
<1>9. \A k : End(k)' = End(k) /\ Times(k)' = Times(k)
  BY <1>1, EndSame, TimesSame
<1>10. Waiting(n)'
  <2>1. End(n) <= received
    BY <1>2, <1>4, <1>5
  <2> QED
    BY <1>1, <1>6, <1>7, <1>8, <1>9, <2>1 DEF Waiting
<1>11. Sofar(n)' /\ Told'
  BY <1>1, <1>2, <1>3, <1>9 DEF Sofar, Told
<1>12. Types'
  <2>1. received \in 0..received /\ Bytes(received, received) = <<>>
    BY <1>2, NoBytes
  <2> QED
    BY <1>1, <1>2, <1>9, <2>1 DEF Types
<1>13. n \in 0..Len(log')
  BY <1>1
<1> QED
  BY <1>10, <1>11, <1>12, <1>13 DEF LogInv

LEMMA ParseHeaderInv == LogInv /\ ParseHeader => LogInv'
<1> SUFFICES ASSUME LogInv, ParseHeader  PROVE LogInv'
  OBVIOUS
<1> DEFINE size == H - Len(header)
           bytes == header \o SubSeq(chunk, 1, size)
           rest == SubSeq(chunk, size + 1, Len(chunk))
<1>1. /\ pc = "parse" /\ chunk # <<>> /\ ~cancelled /\ entry = NoEntry
      /\ Len(header) + Len(chunk) >= H
      /\ TakeData(CreateEntry(bytes), rest)
      /\ header' = <<>> /\ UNCHANGED <<log, received, cancelled>>
  BY DEF ParseHeader, H
<1>2. /\ Types /\ Told /\ log \in Logs /\ received \in Nat /\ delivered \in Seq(Entries)
      /\ chunk = Bytes(Place, received) /\ Len(chunk) = received - Place
      /\ Place \in Nat /\ Place < received /\ Place <= received /\ received <= End(Len(log))
  BY <1>1, ParseFacts, ChunkLemma
<1>3. PICK n \in 0..Len(log) : Sofar(n) /\ Waiting(n)
  BY <1>1, <1>2, ParseFacts, NoEntryWaits
<1>4. /\ header = Bytes(End(n), Place) /\ End(n) <= Place /\ Place < End(n) + H
      /\ End(n) \in Nat /\ H \in Nat /\ H > 0 /\ Len(log) \in Nat
  BY <1>2, <1>3, Ends DEF Waiting
<1>5. n < Len(log) /\ n + 1 \in 1..Len(log) /\ n + 1 - 1 = n
  <2>1. n # Len(log)
    BY <1>2, <1>4
  <2> QED
    BY <1>4, <2>1
<1> DEFINE B == End(n) + H
<1>6. B \in Nat /\ End(n) <= B /\ Place < B /\ B - End(n) = H
  BY <1>4
<1>7. End(n + 1) \in Nat /\ B <= End(n + 1)
  <2>1. n + 1 \in 0..Len(log) /\ n < n + 1
    BY <1>4, <1>5
  <2>2. End(n + 1) \in Nat /\ End(n + 1) - End(n) >= H
    BY <1>2, <2>1, Ends
  <2> QED
    BY <1>4, <2>2
<1> HIDE DEF B
<1>8. size = B - Place /\ B <= received
  <2>1. Len(header) = Place - End(n)
    BY <1>2, <1>4, BytesType
  <2> QED
    BY <1>1, <1>2, <1>4, <2>1 DEF B
<1>9. SubSeq(chunk, 1, size) = Bytes(Place, B) /\ rest = Bytes(B, received)
  <2>1. ASSUME NEW m \in Nat, Place + m <= received
        PROVE  /\ SubSeq(Bytes(Place, received), 1, m) = Bytes(Place, Place + m)
               /\ SubSeq(Bytes(Place, received), m + 1, received - Place) = Bytes(Place + m, received)
    BY <1>2, <2>1, BytesSplit
  <2>2. B - Place \in Nat /\ Place + (B - Place) = B
    BY <1>2, <1>6
  <2> QED
    BY <1>2, <1>8, <2>1, <2>2
<1>10. bytes = Bytes(End(n), B)
  <2>1. Place <= B
    BY <1>2, <1>6
  <2>2. Bytes(End(n), Place) \o Bytes(Place, B) = Bytes(End(n), B)
    BY <1>2, <1>4, <1>6, <2>1, BytesConcat
  <2> QED
    BY <1>4, <1>9, <2>2
<1> DEFINE e == Created(n + 1, bytes)
<1>11. CreateEntry(bytes) = e
  <2>1. bytes[1] = End(n) + 1
    <3>1. 1 \in 1..B - End(n)
      BY <1>4, <1>6
    <3> QED
      <4>1. \A i \in 1..B - End(n) : Bytes(End(n), B)[i] = End(n) + i
        BY <1>4, <1>6, BytesType
      <4> QED
        BY <1>10, <3>1, <4>1
  <2> HIDE DEF bytes
  <2> QED
    BY <1>2, <1>5, <2>1, CreateLemma
<1> HIDE DEF bytes
<1>12. PartOf(e, n + 1, B)
  <2>1. bytes \in Seq(Int) /\ Bytes(B, B) = <<>> /\ <<>> \in Seq(Int)
    <3>1. Bytes(End(n), B) \in Seq(Int)
      BY <1>4, <1>6, BytesType
    <3>2. Bytes(B, B) = <<>>
      BY <1>6, NoBytes
    <3>3. <<>> \in Seq(Int)
      BY EmptySeq
    <3> QED
      BY <1>10, <3>1, <3>2, <3>3
  <2>2. End(n + 1) - End(n) - H \in Int
    BY <1>4, <1>7
  <2>3. /\ e \in Entries /\ e.header = bytes /\ e.data = <<>> /\ e.len = End(n + 1) - End(n) - H
        /\ e.room = e.len
    BY <1>5, <2>1, <2>2 DEF Created, Entries
  <2> HIDE DEF e
  <2> QED
    BY <1>5, <1>6, <1>7, <1>10, <2>1, <2>3 DEF PartOf, B
<1> HIDE DEF e, rest
<1>13. TakeData(e, Bytes(B, received))
  BY <1>1, <1>9, <1>11
<1>14. /\ pc' \in {"parse", "loop"} /\ Told' /\ delivered' \in Seq(Entries)
       /\ \/ /\ entry' = NoEntry /\ Sofar(n + 1)' /\ pc' = "parse"
             /\ End(n + 1) <= received /\ chunk' = Bytes(End(n + 1), received)
          \/ /\ PartOf(entry', n + 1, received) /\ received < End(n + 1) /\ Sofar(n)'
             /\ chunk' = <<>>
  BY <1>1, <1>2, <1>3, <1>5, <1>6, <1>8, <1>12, <1>13, TakeNext
<1> QED
  BY <1>1, <1>2, <1>5, <1>14, TakenInv

LEMMA ParseDataInv == LogInv /\ ParseData => LogInv'
<1> SUFFICES ASSUME LogInv, ParseData  PROVE LogInv'
  OBVIOUS
<1>1. /\ pc = "parse" /\ chunk # <<>> /\ ~cancelled /\ entry # NoEntry
      /\ TakeData(entry, chunk) /\ UNCHANGED <<log, received, header, cancelled>>
  BY DEF ParseData
<1>2. /\ Types /\ Told /\ log \in Logs /\ received \in Nat /\ delivered \in Seq(Entries)
      /\ chunk = Bytes(Place, received) /\ Len(chunk) = received - Place /\ chunk \in Seq(Int)
      /\ Place \in Nat /\ Place < received /\ Place <= received
  BY <1>1, ParseFacts
<1>3. PICK n \in 0..Len(log) : Sofar(n) /\ (Waiting(n) \/ Filling(n))
  BY <1>1, ParseFacts
<1>4. CASE Filling(n)
  <2>1. n < Len(log) /\ PartOf(entry, n + 1, Place) /\ header = <<>>
    BY <1>4 DEF Filling
  <2>2. TakeData(entry, Bytes(Place, received))
    BY <1>1, <1>2
  <2>3. /\ pc' \in {"parse", "loop"} /\ Told' /\ delivered' \in Seq(Entries)
        /\ \/ /\ entry' = NoEntry /\ Sofar(n + 1)' /\ pc' = "parse"
              /\ End(n + 1) <= received /\ chunk' = Bytes(End(n + 1), received)
           \/ /\ PartOf(entry', n + 1, received) /\ received < End(n + 1) /\ Sofar(n)'
              /\ chunk' = <<>>
    BY <1>1, <1>2, <1>3, <2>1, <2>2, TakeNext
  <2>4. header' = <<>>
    BY <1>1, <2>1
  <2> QED
    BY <1>1, <1>2, <2>1, <2>3, <2>4, TakenInv
<1>5. CASE ~Filling(n)
  <2>1. PICK len \in Garbage : entry = Uninitialised(len)
    BY <1>1, <1>2, <1>3, <1>5, NoEntryWaits
  <2>2. len \in Int /\ Len(chunk) > 0
    BY <1>2, LogAssumption
  <2>3. Waiting(n)
    BY <1>3, <1>5
  <2>4. CASE pc' = "undefined"
    <3>1. UNCHANGED <<chunk, entry, delivered>>
      BY <1>1, <2>4 DEF TakeData
    <3>2. Types'
      <4>1. End(Len(log))' = End(Len(log))
        BY <1>1, EndSame
      <4> QED
        BY <1>1, <1>2, <2>4, <3>1, <4>1 DEF Types
    <3> QED
      BY <2>4, <3>2 DEF LogInv
  <2>5. CASE pc' # "undefined"
    <3>1. pc' = "parse" /\ chunk' = chunk /\ entry' = NoEntry
      BY <1>1, <1>2, <2>1, <2>2, <2>5, TakeNothing
    <3>2. PICK e \in Entries : e.header = NoHeader /\ e.data = <<>> /\ delivered' = Append(delivered, e)
      BY <1>1, <1>2, <2>1, <2>2, <2>5, TakeNothing
    <3>3. Told' /\ Sofar(n)'
      BY <1>1, <1>2, <1>3, <3>2, DeliverNothing
    <3>4. \A k : End(k)' = End(k)
      BY <1>1, EndSame
    <3>5. Waiting(n)'
      BY <1>1, <2>3, <3>1, <3>4 DEF Waiting, Place
    <3>6. Types'
      <4>1. delivered' \in Seq(Entries)
        BY <1>2, <3>2, AppendProperties
      <4>2. pc' \notin {"loop", "receive"}
        BY <3>1
      <4> QED
        BY <1>1, <1>2, <3>1, <3>4, <4>1, <4>2 DEF Types
    <3>7. n \in 0..Len(log')
      BY <1>1
    <3> QED
      BY <3>3, <3>5, <3>6, <3>7 DEF LogInv
  <2> QED
    BY <2>4, <2>5
<1> QED
  BY <1>4, <1>5

LEMMA LogStep == LogInv /\ [Next]_vars => LogInv'
<1> SUFFICES ASSUME LogInv, [Next]_vars  PROVE LogInv'
  OBVIOUS
<1>1. cancelled \in BOOLEAN /\ (pc \in {"loop", "receive"} => chunk = <<>>)
  BY DEF LogInv, Types
<1>2. CASE Check
  <2>1. /\ UNCHANGED <<log, reading>> /\ cancelled' = cancelled /\ pc = "loop"
        /\ pc' \in {"returned", "receive"} /\ chunk = <<>>
    BY <1>1, <1>2 DEF Check
  <2> QED
    BY <2>1, CalmStep
<1>3. CASE ReceiveTimeout \/ ReceiveEnd
  <2>1. /\ UNCHANGED <<log, reading>> /\ cancelled' = cancelled /\ pc = "receive"
        /\ pc' \in {"returned", "loop"} /\ chunk = <<>>
    BY <1>1, <1>3 DEF ReceiveTimeout, ReceiveEnd
  <2> QED
    BY <2>1, CalmStep
<1>4. CASE Cancel \/ UNCHANGED vars
  <2>1. UNCHANGED <<log, reading>> /\ cancelled' \in {cancelled, TRUE} /\ pc' = pc
    BY <1>4 DEF Cancel, vars
  <2> QED
    BY <1>1, <2>1, CalmStep
<1>5. CASE ReceiveData
  BY <1>5, ReceiveDataInv
<1>6. CASE ParseEnds
  BY <1>6, ParseEndsInv
<1>7. CASE ParsePartOfHeader
  BY <1>7, ParsePartOfHeaderInv
<1>8. CASE ParseHeader
  BY <1>8, ParseHeaderInv
<1>9. CASE ParseData
  BY <1>9, ParseDataInv
<1> QED
  BY <1>2, <1>3, <1>4, <1>5, <1>6, <1>7, <1>8, <1>9 DEF Next, Run

(* What was read of the log is delivered, or in the header buffer or the   *)
(* current entry (LogReceiver::parseNewData).                              *)
THEOREM LogInvariant == Spec => []LogInv
<1> QED
  BY InitInv, LogStep, PTL DEF Spec

(* However the chunks are cut, the entries of the log reach the listener   *)
(* whole, each once, in order and at once, as long as no memory is         *)
(* destroyed (LogReceiver::parseNewData).                                  *)
THEOREM EntriesAreWhole == Spec => []EntriesWhole
<1>1. ASSUME LogInv  PROVE EntriesWhole
  <2> SUFFICES ASSUME pc # "undefined"  PROVE EntriesWhole
    BY DEF EntriesWhole
  <2>1. Told /\ Types
    BY <1>1 DEF LogInv
  <2>2. ASSUME ~cancelled, NEW k \in DOMAIN log, End(k) <= received - Len(chunk)
        PROVE  Times(k) # {}
    <3>1. PICK n \in 0..Len(log) : Sofar(n) /\ (Waiting(n) \/ Filling(n))
      BY <1>1, <2>2 DEF LogInv
    <3>2. /\ log \in Logs /\ Len(log) \in Nat /\ k \in 0..Len(log) /\ Place \in Nat
          /\ H \in Nat
      BY <2>1, ChunkLemma, Ends, LogAssumption
    <3>3. n < Len(log) => Place < End(n + 1)
      <4>1. CASE Filling(n)
        BY <4>1 DEF Filling
      <4>2. CASE Waiting(n) /\ n < Len(log)
        <5>1. n + 1 \in 0..Len(log) /\ n < n + 1
          BY <3>2, <4>2
        <5>2. End(n + 1) - End(n) >= H /\ End(n) \in Nat /\ End(n + 1) \in Nat
          BY <3>2, <5>1, Ends
        <5> QED
          BY <3>2, <4>2, <5>2 DEF Waiting
      <4> QED
        BY <3>1, <4>1, <4>2
    <3>4. ASSUME n + 1 <= k  PROVE FALSE
      <4>1. n + 1 \in 0..Len(log) /\ n < Len(log)
        BY <3>2, <3>4
      <4>2. n + 1 < k => End(k) - End(n + 1) >= H
        BY <3>2, <4>1, Ends
      <4>3. End(k) \in Nat /\ End(n + 1) \in Nat
        BY <3>2, <4>1, Ends
      <4>4. End(n + 1) <= End(k)
        BY <3>2, <3>4, <4>1, <4>2, <4>3
      <4>5. End(k) <= Place
        BY <2>2 DEF Place
      <4> QED
        BY <3>2, <3>3, <4>1, <4>3, <4>4, <4>5
    <3>5. k <= n
      BY <3>2, <3>4
    <3> QED
      BY <3>1, <3>5 DEF Sofar
  <2> QED
    BY <2>1, <2>2 DEF EntriesWhole, Told
<1> QED
  BY <1>1, LogInvariant, PTL
=============================================================================
