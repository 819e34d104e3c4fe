--------------------------- MODULE JdwpStream_proofs --------------------------
(***************************************************************************)
(* One client's JDWP connection, proved for any lengths of the buffers and *)
(* the packets, any number of requests, messages and faults, and however   *)
(* the stream is cut into reads.  In the order of the module:              *)
(*                                                                         *)
(*   the buffers: what each of ByteBuffers' operations does to the data;   *)
(*   streams of whole messages (AreMessages), what may be put behind       *)
(*             them and taken off their front;                             *)
(*   StreamInv, the inductive invariant;                                   *)
(*   the steps, by what they do: drop the client (Drops), turn the         *)
(*             reactor (Turns), send (Sends), read, take a message         *)
(*             (Takes), ask.                                               *)
(*                                                                         *)
(* No induction is needed: where one would count bytes, a set of positions *)
(* has a least element (Least).                                            *)
(***************************************************************************)
EXTENDS JdwpStream, SequenceTheorems, WellFoundedInduction, TLAPS

(* A set of naturals that is not empty has a least element.                *)
LEMMA Least ==
  ASSUME NEW S \in SUBSET Nat, S # {}
  PROVE  \E x \in S : \A y \in S : x <= y
<1> DEFINE R == OpToRel(<, Nat)
<1>1. IsWellFoundedOn(R, Nat)
  BY NatLessThanWellFounded
<1>2. \A a, b \in Nat : a < b => <<a, b>> \in R
  BY DEF OpToRel
<1> HIDE DEF R
<1>3. PICK x \in S : \A y \in S : ~(<<y, x>> \in R)
  BY <1>1, WFMin
<1>4. ASSUME NEW y \in S  PROVE x <= y
  <2>1. x \in Nat /\ y \in Nat /\ ~(y < x)
    BY <1>2, <1>3
  <2> QED
    BY <2>1
<1> QED
  BY <1>4

(* A function on 1..n is a sequence.                                       *)
LEMMA IntervalSeq ==
  ASSUME NEW S, NEW n \in Nat, NEW f \in [1..n -> S]
  PROVE  f \in Seq(S) /\ Len(f) = n
  OBVIOUS

(* Sequences that agree everywhere are equal.                              *)
LEMMA SameSeq ==
  ASSUME NEW S, NEW s \in Seq(S), NEW t \in Seq(S), Len(s) = Len(t),
         \A i \in 1..Len(s) : s[i] = t[i]
  PROVE  s = t
  BY SeqEqual

-----------------------------------------------------------------------------
(***************************************************************************)
(* The operations of a buffer.                                             *)
(***************************************************************************)

(* A buffer between two operations                                         *)
GoodBuffer(b) == b \in BufferType /\ b.limit = Capacity(b) /\ b.pos <= b.limit

(* How a buffer's position and limit are set                               *)
LEMMA Settings ==
  ASSUME NEW a, NEW p, NEW l, NEW x
  PROVE  LET b == [array |-> a, pos |-> p, limit |-> l]
         IN  /\ SetPosition(b, x) = [array |-> a, pos |-> x, limit |-> l]
             /\ SetLimit(b, x) = [array |-> a, pos |-> p, limit |-> x]
             /\ Flip(b) = [array |-> a, pos |-> 0, limit |-> p]
<1> DEFINE b == [array |-> a, pos |-> p, limit |-> l]
<1>1. b.pos = p /\ SetPosition(b, x) = [array |-> a, pos |-> x, limit |-> l]
  BY DEF SetPosition
<1>2. SetLimit(b, x) = [array |-> a, pos |-> p, limit |-> x]
  BY DEF SetLimit
<1>3. Flip(b) = [[b EXCEPT !.limit = p] EXCEPT !.pos = 0]
  BY DEF Flip
<1>4. [b EXCEPT !.limit = p] = [array |-> a, pos |-> p, limit |-> p]
  OBVIOUS
<1>5. [[array |-> a, pos |-> p, limit |-> p] EXCEPT !.pos = 0]
        = [array |-> a, pos |-> 0, limit |-> p]
  OBVIOUS
<1> QED
  BY <1>1, <1>2, <1>3, <1>4, <1>5

(* A new buffer is empty.                                                  *)
LEMMA NewBufferLemma ==
  ASSUME NEW n \in Nat
  PROVE  LET b == NewBuffer(n)
         IN  GoodBuffer(b) /\ Capacity(b) = n /\ Data(b) = <<>>
<1> DEFINE a == [i \in 1..n |-> NoByte]
<1>1. a \in Seq(Byte) /\ Len(a) = n
  BY IntervalSeq DEF NoByte, Byte
<1>2. SubSeq(a, 1, 0) = <<>>
  BY SubSeqEmpty
<1> QED
  BY <1>1, <1>2 DEF NewBuffer, GoodBuffer, BufferType, Capacity, Data

(* The data of a buffer are what is in front of its position.              *)
LEMMA DataLemma ==
  ASSUME NEW b, GoodBuffer(b)
  PROVE  /\ b.array \in Seq(Byte) /\ b.pos \in Nat /\ b.limit \in Nat /\ Len(b.array) = b.limit
         /\ Data(b) \in Seq(Byte) /\ Len(Data(b)) = b.pos
         /\ \A i \in 1..b.pos : Data(b)[i] = b.array[i]
<1>1. b.array \in Seq(Byte) /\ b.pos \in Nat /\ b.limit \in Nat /\ Len(b.array) = b.limit
      /\ b.pos <= b.limit
  BY DEF GoodBuffer, BufferType, Capacity
<1> DEFINE a == b.array  p == b.pos
<1>2. \A i \in 1..p : a[i] \in Byte
  BY <1>1, ElementOfSeq
<1>3. SubSeq(a, 1, p) \in Seq(Byte) /\ Len(SubSeq(a, 1, p)) = p
      /\ \A i \in 1..p : SubSeq(a, 1, p)[i] = a[i]
  <2> HIDE DEF a, p
  <2> p \in Nat
    BY <1>1 DEF p
  <2> QED
    BY <1>2, SubSeqProperties
<1> QED
  BY <1>1, <1>3 DEF Data

(* Bytes that fit are stored behind the data.                              *)
LEMMA PutLemma ==
  ASSUME NEW b, GoodBuffer(b), NEW bytes \in Seq(Byte), Len(bytes) <= Space(b)
  PROVE  LET c == PutBytes(b, bytes)
         IN  GoodBuffer(c) /\ Capacity(c) = Capacity(b) /\ Data(c) = Data(b) \o bytes
<1> DEFINE n == b.limit  p == b.pos  a == b.array  l == Len(bytes)
           a2 == [i \in 1..n |-> IF i - p \in 1..l THEN bytes[i - p] ELSE a[i]]
           c == [array |-> a2, pos |-> p + l, limit |-> n]
<1>1. a \in Seq(Byte) /\ p \in Nat /\ n \in Nat /\ Len(a) = n
  BY DataLemma
<1>2. l \in Nat /\ p + l <= n /\ DOMAIN bytes = 1..l /\ DOMAIN a = 1..n
  BY <1>1, LenProperties DEF Space
<1>3. \A i \in 1..n : a[i] \in Byte
  BY <1>1
<1>4. \A i \in 1..l : bytes[i] \in Byte
  OBVIOUS
<1>5. b = [array |-> a, pos |-> p, limit |-> n]
  BY DEF GoodBuffer, BufferType
<1> HIDE DEF n, p, a, l
<1>6. PutBytes(b, bytes) = c
  <2>1. b.array = a /\ b.pos = p
    BY DEF a, p
  <2>2. PutBytes(b, bytes) =
          [b EXCEPT !.array = [i \in DOMAIN a |->
                                 IF i - p \in DOMAIN bytes THEN bytes[i - p] ELSE a[i]],
                    !.pos = p + l]
    BY <2>1 DEF PutBytes, l
  <2> QED
    BY <1>2, <1>5, <2>2
<1>7. a2 \in [1..n -> Byte]
  BY <1>3, <1>4
<1> HIDE DEF a2
<1>8. a2 \in Seq(Byte) /\ Len(a2) = n
  BY <1>1, <1>7, IntervalSeq
<1>9. GoodBuffer(c) /\ Capacity(c) = n
  BY <1>1, <1>2, <1>8 DEF GoodBuffer, BufferType, Capacity
<1>10. Data(c) \in Seq(Byte) /\ Len(Data(c)) = p + l /\ \A i \in 1..p + l : Data(c)[i] = a2[i]
  BY <1>9, DataLemma
<1>11. Data(b) \in Seq(Byte) /\ Len(Data(b)) = p /\ \A i \in 1..p : Data(b)[i] = a[i]
  BY DataLemma DEF p, a
<1> DEFINE d == Data(b) \o bytes
<1>12. d \in Seq(Byte) /\ Len(d) = p + l
       /\ \A i \in 1..p + l : d[i] = IF i <= p THEN Data(b)[i] ELSE bytes[i - p]
  BY <1>11, ConcatProperties DEF l
<1> HIDE DEF c, d
<1>13. \A i \in 1..p + l : Data(c)[i] = d[i]
  <2> TAKE i \in 1..p + l
  <2>1. CASE i <= p
    <3>1. i \in 1..n /\ i \in 1..p /\ ~(i - p \in 1..l)
      BY <1>1, <1>2, <2>1
    <3> QED
      BY <1>10, <1>11, <1>12, <2>1, <3>1 DEF a2
  <2>2. CASE i > p
    <3>1. i \in 1..n /\ i - p \in 1..l /\ ~(i <= p)
      BY <1>1, <1>2, <2>2
    <3> QED
      BY <1>10, <1>12, <3>1 DEF a2
  <2> QED
    BY <1>1, <2>1, <2>2
<1>14. Data(c) = d
  BY <1>10, <1>12, <1>13, SameSeq
<1>15. Capacity(b) = n
  BY DEF GoodBuffer, n
<1> QED
  BY <1>6, <1>9, <1>14, <1>15 DEF d

(* Bytes that are consumed leave the front.                                *)
LEMMA ConsumeLemma ==
  ASSUME NEW b, GoodBuffer(b), NEW n \in Nat, n <= b.pos
  PROVE  LET c == Consume(b, n)
         IN  /\ GoodBuffer(c) /\ Capacity(c) = Capacity(b)
             /\ Len(Data(c)) = b.pos - n
             /\ \A i \in 1..b.pos - n : Data(c)[i] = Data(b)[i + n]
<1> DEFINE m == b.limit  p == b.pos  a == b.array
           a2 == [i \in 1..m |-> IF i <= p - n THEN a[i + n] ELSE NoByte]
           c == [array |-> a2, pos |-> p - n, limit |-> m]
<1>1. a \in Seq(Byte) /\ p \in Nat /\ m \in Nat /\ Len(a) = m /\ p <= m /\ DOMAIN a = 1..m
  BY DataLemma DEF GoodBuffer
<1>2. b = [array |-> a, pos |-> p, limit |-> m]
  BY DEF GoodBuffer, BufferType
<1>3. Consume(b, n) = c
  BY <1>1, <1>2 DEF Consume, Compact, SetPosition, Flip, Capacity
<1>4. \A i \in 1..m : a[i] \in Byte
  BY <1>1
<1>5. n <= p
  OBVIOUS
<1>6. Capacity(b) = m
  BY DEF GoodBuffer
<1>7. \A i \in 1..p : Data(b)[i] = a[i]
  BY DataLemma
<1> HIDE DEF m, p, a
<1>8. NoByte \in Byte
  BY DEF NoByte, Byte
<1>9. a2 \in [1..m -> Byte]
  <2> SUFFICES ASSUME NEW i \in 1..m, i <= p - n PROVE a[i + n] \in Byte
    BY <1>8
  <2>1. i + n \in 1..m
    BY <1>1, <1>5
  <2> QED
    BY <1>4, <2>1
<1> HIDE DEF a2
<1>10. a2 \in Seq(Byte) /\ Len(a2) = m
  BY <1>1, <1>9, IntervalSeq
<1>11. GoodBuffer(c) /\ Capacity(c) = m
  BY <1>1, <1>5, <1>10 DEF GoodBuffer, BufferType, Capacity
<1>12. Len(Data(c)) = p - n /\ \A i \in 1..p - n : Data(c)[i] = a2[i]
  BY <1>11, DataLemma
<1>13. \A i \in 1..p - n : a2[i] = Data(b)[i + n]
  <2> TAKE i \in 1..p - n
  <2>1. i \in 1..m /\ i <= p - n /\ i + n \in 1..p
    BY <1>1, <1>5
  <2> QED
    BY <1>7, <2>1 DEF a2
<1> QED
  BY <1>3, <1>6, <1>11, <1>12, <1>13 DEF p

(* Sending or moving n bytes leaves what consuming them leaves.            *)
LEMMA AfterLemma ==
  ASSUME NEW b, GoodBuffer(b), NEW n \in Nat, n <= b.pos
  PROVE  /\ AfterWrite(b, n) = Consume(b, n)
         /\ AfterMove(b, n) = Consume(b, n)
         /\ Written(b, n) = SubSeq(b.array, 1, n)
         /\ \A c : PutBuffer(c, Moved(b, n)) = PutBytes(c, SubSeq(b.array, 1, n))
<1> DEFINE m == b.limit  p == b.pos  a == b.array
           Buffer(x, y) == [array |-> a, pos |-> x, limit |-> y]
<1>1. b = Buffer(p, m)
  BY DEF GoodBuffer, BufferType
<1>2. b.pos = p /\ b.array = a
  OBVIOUS
<1> HIDE DEF m, p, a
<1>3. /\ \A x, y, z : SetPosition(Buffer(x, y), z) = Buffer(z, y)
         /\ SetLimit(Buffer(x, y), z) = Buffer(x, z)
      /\ \A x, y : Flip(Buffer(x, y)) = Buffer(0, x)
      /\ \A x, y : Buffer(x, y).limit = y /\ Buffer(x, y).array = a
  <2> HIDE DEF a
  <2>1. ASSUME NEW x, NEW y, NEW z
        PROVE  SetPosition(Buffer(x, y), z) = Buffer(z, y)
               /\ SetLimit(Buffer(x, y), z) = Buffer(x, z)
               /\ Flip(Buffer(x, y)) = Buffer(0, x)
    BY Settings
  <2>2. ASSUME NEW x, NEW y PROVE Buffer(x, y).limit = y /\ Buffer(x, y).array = a
    OBVIOUS
  <2> HIDE DEF Buffer
  <2>3. \A x, y, z : SetPosition(Buffer(x, y), z) = Buffer(z, y)
        /\ SetLimit(Buffer(x, y), z) = Buffer(x, z)
    BY <2>1
  <2>4. \A x, y : Flip(Buffer(x, y)) = Buffer(0, x)
    BY <2>1
  <2> QED
    BY <2>2, <2>3, <2>4
<1> HIDE DEF Buffer
<1>4. Consume(b, n) = Compact(Buffer(n, p))
  BY <1>1, <1>3 DEF Consume
<1>5. WriteLimited(b, n) = Buffer(0, n) /\ Flip(b).limit = p
  BY <1>1, <1>3 DEF WriteLimited
<1>6. Moved(b, n) = Buffer(0, n)
  BY <1>1, <1>3 DEF Moved
<1>7. AfterWrite(b, n) = Compact(Buffer(n, p))
  BY <1>3, <1>5 DEF AfterWrite
<1>8. AfterMove(b, n) = Compact(Buffer(n, p))
  BY <1>2, <1>3, <1>6 DEF AfterMove
<1>9. Written(b, n) = SubSeq(a, 1, n)
  BY <1>3, <1>5 DEF Written
<1>10. \A c : PutBuffer(c, Moved(b, n)) = PutBytes(c, SubSeq(a, 1, n))
  BY <1>3, <1>6 DEF PutBuffer
<1> QED
  BY <1>2, <1>4, <1>7, <1>8, <1>9, <1>10

(* A buffer that grows keeps its data.                                     *)
LEMMA GrownLemma ==
  ASSUME NEW b, GoodBuffer(b)
  PROVE  GoodBuffer(Grown(b)) /\ Capacity(Grown(b)) = 2 * Capacity(b) /\ Data(Grown(b)) = Data(b)
<1> DEFINE m == b.limit  p == b.pos  a == b.array
           e == NewBuffer(2 * m)
           f == PutBytes(e, a)
<1>1. a \in Seq(Byte) /\ p \in Nat /\ m \in Nat /\ Len(a) = m /\ p <= m /\ Capacity(b) = m
  BY DataLemma DEF GoodBuffer
<1>2. b = [array |-> a, pos |-> p, limit |-> m]
  BY DEF GoodBuffer, BufferType
<1>3. SubSeq(a, 1, m) = a
  BY <1>1, SubSeqFull
<1>4. Grown(b) = SetPosition(f, p)
  BY <1>2, <1>3 DEF Grown, PutBuffer, SetPosition
<1> HIDE DEF m, p, a
<1>5. GoodBuffer(e) /\ Capacity(e) = 2 * m /\ Data(e) = <<>>
  BY <1>1, NewBufferLemma
<1>6. Space(e) = 2 * m
  BY <1>1 DEF Space, NewBuffer
<1> HIDE DEF e
<1>7. GoodBuffer(f) /\ Capacity(f) = 2 * m /\ Data(f) = a
  <2>1. Len(a) <= Space(e)
    BY <1>1, <1>6
  <2>2. <<>> \o a = a
    BY <1>1, ConcatEmptySeq
  <2> QED
    BY <1>1, <1>5, <2>1, <2>2, PutLemma
<1> HIDE DEF f
<1>8. f.array \in Seq(Byte) /\ f.limit = 2 * m /\ Len(f.array) = 2 * m /\ f.pos = m
      /\ \A i \in 1..m : a[i] = f.array[i]
  BY <1>1, <1>7, DataLemma DEF GoodBuffer
<1>9. SetPosition(f, p) = [array |-> f.array, pos |-> p, limit |-> 2 * m]
  BY <1>7, <1>8 DEF SetPosition, GoodBuffer, BufferType
<1> DEFINE g == [array |-> f.array, pos |-> p, limit |-> 2 * m]
<1>10. GoodBuffer(g) /\ Capacity(g) = 2 * m
  BY <1>1, <1>8 DEF GoodBuffer, BufferType, Capacity
<1>11. Data(g) \in Seq(Byte) /\ Len(Data(g)) = p /\ \A i \in 1..p : Data(g)[i] = f.array[i]
  BY <1>10, DataLemma
<1>12. Data(b) \in Seq(Byte) /\ Len(Data(b)) = p /\ \A i \in 1..p : Data(b)[i] = a[i]
  BY DataLemma DEF p, a
<1> HIDE DEF g
<1>13. \A i \in 1..p : Data(g)[i] = Data(b)[i]
  <2> TAKE i \in 1..p
  <2>1. i \in 1..m
    BY <1>1
  <2> QED
    BY <1>8, <1>11, <1>12, <2>1
<1>14. Data(g) = Data(b)
  BY <1>11, <1>12, <1>13, SameSeq
<1> QED
  BY <1>1, <1>4, <1>9, <1>10, <1>14 DEF g

-----------------------------------------------------------------------------
(***************************************************************************)
(* Streams of whole messages.                                              *)
(***************************************************************************)

(* What the bytes of a message are.                                        *)
LEMMA BytesLemma ==
  ASSUME NEW k \in Nat, NEW n \in Nat
  PROVE  /\ Bytes(k, n) \in Seq(Byte) /\ Len(Bytes(k, n)) = n
         /\ \A i \in 1..n : Bytes(k, n)[i] = <<k, i>>
         /\ \A x : x \in ToSet(Bytes(k, n)) <=> \E i \in 1..n : x = <<k, i>>
<1>1. Bytes(k, n) \in [1..n -> Byte]
  BY DEF Bytes, Byte
<1>2. Bytes(k, n) \in Seq(Byte) /\ Len(Bytes(k, n)) = n
  BY <1>1, IntervalSeq
<1>3. DOMAIN Bytes(k, n) = 1..n /\ \A i \in 1..n : Bytes(k, n)[i] = <<k, i>>
  BY DEF Bytes
<1>4. \A x : x \in ToSet(Bytes(k, n)) <=> \E i \in 1..n : x = <<k, i>>
  BY <1>3 DEF ToSet
<1> QED
  BY <1>2, <1>3, <1>4

(* Byte x belongs to one of the messages ks of m.                          *)
IsOf(x, ks, m) == \E k \in ks : \E i \in 1..m[k].len : x = <<k, i>>

(* The bytes are in order, and none is there twice.                        *)
Sorted(s) == \A i, j \in DOMAIN s : i < j => Before(s[i], s[j])

(* AreMessages, byte by byte                                               *)
LEMMA ByteByByte ==
  ASSUME NEW s, NEW ks \in SUBSET Nat, NEW m, \A k \in ks : m[k].len \in Nat
  PROVE  AreMessages(s, ks, m) <=>
           /\ \A p \in DOMAIN s : IsOf(s[p], ks, m)
           /\ \A k \in ks : \A i \in 1..m[k].len : \E p \in DOMAIN s : s[p] = <<k, i>>
           /\ Sorted(s)
<1> DEFINE U == UNION {ToSet(Bytes(k, m[k].len)) : k \in ks}
<1>1. \A x : x \in U <=> IsOf(x, ks, m)
  <2> TAKE x
  <2>1. x \in U <=> \E k \in ks : x \in ToSet(Bytes(k, m[k].len))
    OBVIOUS
  <2>2. ASSUME NEW k \in ks
        PROVE  x \in ToSet(Bytes(k, m[k].len)) <=> \E i \in 1..m[k].len : x = <<k, i>>
    <3> DEFINE n == m[k].len
    <3>1. k \in Nat /\ n \in Nat
      OBVIOUS
    <3> HIDE DEF n, U
    <3>2. \A y : y \in ToSet(Bytes(k, n)) <=> \E i \in 1..n : y = <<k, i>>
      BY <3>1, BytesLemma
    <3> QED
      BY <3>2 DEF n
  <2> HIDE DEF U
  <2> QED
    BY <2>1, <2>2 DEF IsOf
<1>2. AreMessages(s, ks, m) <=> ToSet(s) = U /\ Sorted(s)
  BY DEF AreMessages, Sorted
<1> HIDE DEF U
<1>3. \A x : x \in ToSet(s) <=> \E p \in DOMAIN s : s[p] = x
  BY DEF ToSet
<1>4. ToSet(s) = U <=> \A x : (x \in ToSet(s) <=> x \in U)
  OBVIOUS
<1>5. ASSUME ToSet(s) = U
      PROVE  /\ \A p \in DOMAIN s : IsOf(s[p], ks, m)
             /\ \A k \in ks : \A i \in 1..m[k].len : \E p \in DOMAIN s : s[p] = <<k, i>>
  <2>1. \A k \in ks : \A i \in 1..m[k].len : IsOf(<<k, i>>, ks, m)
    BY DEF IsOf
  <2> QED
    BY <1>1, <1>3, <1>5, <2>1
<1>6. ASSUME \A p \in DOMAIN s : IsOf(s[p], ks, m),
             \A k \in ks : \A i \in 1..m[k].len : \E p \in DOMAIN s : s[p] = <<k, i>>
      PROVE  ToSet(s) = U
  <2> SUFFICES ASSUME NEW x PROVE x \in ToSet(s) <=> x \in U
    BY <1>4
  <2>1. ASSUME x \in ToSet(s) PROVE x \in U
    BY <1>1, <1>3, <1>6, <2>1
  <2>2. ASSUME x \in U PROVE x \in ToSet(s)
    <3>1. PICK k \in ks : \E i \in 1..m[k].len : x = <<k, i>>
      BY <1>1, <2>2 DEF IsOf
    <3>2. PICK i \in 1..m[k].len : x = <<k, i>>
      BY <3>1
    <3>3. PICK p \in DOMAIN s : s[p] = <<k, i>>
      BY <1>6
    <3> QED
      BY <1>3, <3>2, <3>3
  <2> QED
    BY <2>1, <2>2
<1> QED
  BY <1>2, <1>5, <1>6

(* Messages that are not among ks do not matter.                           *)
LEMMA SameMessages ==
  ASSUME NEW s, NEW ks \in SUBSET Nat, NEW m, NEW m2,
         \A k \in ks : m[k].len \in Nat /\ m2[k].len = m[k].len
  PROVE  AreMessages(s, ks, m2) <=> AreMessages(s, ks, m)
<1>1. \A k \in ks : m2[k].len \in Nat
  OBVIOUS
<1>2. \A x : IsOf(x, ks, m2) <=> IsOf(x, ks, m)
  BY DEF IsOf
<1>3. (\A k \in ks : \A i \in 1..m2[k].len : \E p \in DOMAIN s : s[p] = <<k, i>>)
      <=> (\A k \in ks : \A i \in 1..m[k].len : \E p \in DOMAIN s : s[p] = <<k, i>>)
  OBVIOUS
<1> QED
  BY <1>1, <1>2, <1>3, ByteByByte

(* No bytes are no messages.                                               *)
LEMMA NoMessages ==
  ASSUME NEW m
  PROVE  AreMessages(<<>>, {}, m)
<1>1. DOMAIN <<>> = {}
  OBVIOUS
<1>2. Sorted(<<>>)
  BY <1>1 DEF Sorted
<1> QED
  BY <1>1, <1>2, ByteByByte

(* The bytes of a later message may follow.                                *)
LEMMA OneMoreMessage ==
  ASSUME NEW s \in Seq(Byte), NEW ks \in SUBSET Nat, NEW m, \A j \in ks : m[j].len \in Nat,
         NEW k \in Nat, m[k].len \in Nat, \A j \in ks : j < k,
         AreMessages(s, ks, m)
  PROVE  AreMessages(s \o Bytes(k, m[k].len), ks \cup {k}, m)
<1> DEFINE n == m[k].len  l == Len(s)  t == s \o Bytes(k, n)  ls == ks \cup {k}
<1>1. l \in Nat /\ n \in Nat /\ DOMAIN s = 1..l
  BY LenProperties
<1>2. /\ \A p \in DOMAIN s : IsOf(s[p], ks, m)
      /\ \A j \in ks : \A i \in 1..m[j].len : \E p \in DOMAIN s : s[p] = <<j, i>>
      /\ Sorted(s)
  BY ByteByByte
<1>3. Bytes(k, n) \in Seq(Byte) /\ Len(Bytes(k, n)) = n
      /\ \A i \in 1..n : Bytes(k, n)[i] = <<k, i>>
  BY BytesLemma
<1>4. t \in Seq(Byte) /\ Len(t) = l + n
      /\ \A p \in 1..l + n : t[p] = IF p <= l THEN s[p] ELSE Bytes(k, n)[p - l]
  <2> DEFINE u == Bytes(k, n)
  <2>1. u \in Seq(Byte) /\ Len(u) = n
    BY <1>3
  <2> HIDE DEF u, n
  <2>2. /\ s \o u \in Seq(Byte) /\ Len(s \o u) = l + n
        /\ \A p \in 1..l + n : (s \o u)[p] = IF p <= l THEN s[p] ELSE u[p - l]
    BY <2>1, ConcatProperties
  <2> QED
    BY <2>2 DEF u
<1>5. DOMAIN t = 1..l + n
  BY <1>4, LenProperties
<1> HIDE DEF n, l, t, ls
<1>6. \A p \in 1..l : p \in 1..l + n /\ t[p] = s[p]
  BY <1>1, <1>4
<1>7. \A i \in 1..n : l + i \in 1..l + n /\ t[l + i] = <<k, i>>
  <2> TAKE i \in 1..n
  <2>1. l + i \in 1..l + n /\ ~(l + i <= l) /\ (l + i) - l = i
    BY <1>1
  <2> QED
    BY <1>3, <1>4, <2>1
<1>8. \A p \in 1..l + n : p \in 1..l \/ \E i \in 1..n : p = l + i
  <2> TAKE p \in 1..l + n
  <2>1. CASE p <= l
    BY <1>1, <2>1
  <2>2. CASE p > l
    <3>1. p - l \in 1..n /\ p = l + (p - l)
      BY <1>1, <2>2
    <3> QED
      BY <3>1
  <2> QED
    BY <1>1, <2>1, <2>2
<1>9. \A p \in DOMAIN t : IsOf(t[p], ls, m)
  <2>1. \A x : IsOf(x, ks, m) => IsOf(x, ls, m)
    BY DEF IsOf, ls
  <2>2. \A i \in 1..n : IsOf(<<k, i>>, ls, m)
    BY DEF IsOf, ls, n
  <2> QED
    BY <1>1, <1>2, <1>5, <1>6, <1>7, <1>8, <2>1, <2>2
<1>10. ASSUME NEW j \in ls, NEW i \in 1..m[j].len PROVE \E p \in DOMAIN t : t[p] = <<j, i>>
  <2>1. CASE j \in ks
    <3>1. PICK p \in DOMAIN s : s[p] = <<j, i>>
      BY <1>2, <2>1
    <3> QED
      BY <1>1, <1>5, <1>6, <3>1
  <2>2. CASE j = k
    <3>1. i \in 1..n
      BY <2>2 DEF n
    <3> QED
      BY <1>5, <1>7, <2>2, <3>1
  <2> QED
    BY <2>1, <2>2 DEF ls
<1>11. Sorted(t)
  <2> SUFFICES ASSUME NEW p \in 1..l + n, NEW q \in 1..l + n, p < q PROVE Before(t[p], t[q])
    BY <1>5 DEF Sorted
  <2>1. CASE p \in 1..l /\ q \in 1..l
    BY <1>1, <1>2, <1>6, <2>1 DEF Sorted
  <2>2. CASE p \in 1..l /\ q \notin 1..l
    <3>1. PICK i \in 1..n : q = l + i
      BY <1>8, <2>2
    <3>2. PICK j \in ks : \E x \in 1..m[j].len : s[p] = <<j, x>>
      BY <1>1, <1>2, <2>2 DEF IsOf
    <3>3. PICK x \in 1..m[j].len : s[p] = <<j, x>>
      BY <3>2
    <3>4. t[p] = <<j, x>> /\ t[q] = <<k, i>> /\ j < k
      BY <1>6, <1>7, <2>2, <3>1, <3>3
    <3> QED
      BY <3>4 DEF Before
  <2>3. CASE p \notin 1..l
    <3>1. PICK i \in 1..n : p = l + i
      BY <1>8, <2>3
    <3>2. q \notin 1..l
      BY <1>1, <3>1
    <3>3. PICK x \in 1..n : q = l + x
      BY <1>8, <3>2
    <3>4. i < x
      BY <1>1, <3>1, <3>3
    <3> QED
      BY <1>7, <3>1, <3>3, <3>4 DEF Before
  <2> QED
    BY <2>1, <2>2, <2>3
<1>12. \A j \in ls : m[j].len \in Nat
  BY DEF ls
<1>13. ls \in SUBSET Nat
  BY DEF ls
<1>14. AreMessages(t, ls, m)
  BY <1>9, <1>10, <1>11, <1>12, <1>13, ByteByByte
<1> QED
  BY <1>14 DEF t, ls, n

(* A stream of messages starts with the bytes of the first.                *)
LEMMA FirstMessage ==
  ASSUME NEW s \in Seq(Byte), NEW a \in Nat, NEW b \in Nat, a <= b, NEW m,
         \A k \in a..b : m[k].len \in Nat,
         AreMessages(s, a..b, m)
  PROVE  m[a].len <= Len(s) /\ \A i \in 1..m[a].len : s[i] = <<a, i>>
<1> DEFINE n == m[a].len  l == Len(s)
           Bad == {i \in 1..n : ~(i <= l /\ s[i] = <<a, i>>)}
<1>1. l \in Nat /\ n \in Nat /\ DOMAIN s = 1..l /\ a \in a..b
  BY LenProperties
<1>2. a..b \in SUBSET Nat
  OBVIOUS
<1>3. /\ \A p \in 1..l : IsOf(s[p], a..b, m)
      /\ \A k \in a..b : \A i \in 1..m[k].len : \E p \in 1..l : s[p] = <<k, i>>
      /\ Sorted(s)
  BY <1>1, <1>2, ByteByByte
<1> HIDE DEF l
<1>4. ASSUME Bad # {} PROVE FALSE
  <2>1. PICK i \in Bad : \A j \in Bad : i <= j
    <3>1. Bad \in SUBSET Nat
      OBVIOUS
    <3> HIDE DEF Bad
    <3> QED
      BY <1>4, <3>1, Least
  <2>2. i \in 1..n /\ i \in Nat /\ i >= 1 /\ ~(i <= l /\ s[i] = <<a, i>>)
    OBVIOUS
  <2>3. ASSUME NEW j \in 1..n, j < i PROVE j <= l /\ s[j] = <<a, j>>
    <3>1. j \notin Bad
      BY <2>1, <2>2, <2>3
    <3> QED
      BY <3>1
  <2> HIDE DEF Bad
  <2>4. PICK p \in 1..l : s[p] = <<a, i>>
    BY <1>1, <1>3, <2>2
  <2>5. ~(p < i)
    <3> SUFFICES ASSUME p < i PROVE FALSE
      OBVIOUS
    <3>1. p \in 1..n
      BY <1>1, <2>2
    <3>2. s[p] = <<a, p>>
      BY <2>3, <3>1
    <3> QED
      BY <2>2, <2>4, <3>2
  <2>6. i \in 1..l
    BY <1>1, <2>2, <2>5
  <2>7. p # i
    BY <2>2, <2>4, <2>6
  <2>8. i < p
    BY <1>1, <2>2, <2>5, <2>7
  <2>9. Before(s[i], <<a, i>>)
    BY <1>1, <1>3, <2>4, <2>6, <2>8 DEF Sorted
  <2>10. PICK k \in a..b : \E x \in 1..m[k].len : s[i] = <<k, x>>
    BY <1>3, <2>6 DEF IsOf
  <2>11. PICK x \in 1..m[k].len : s[i] = <<k, x>>
    BY <2>10
  <2>12. k < a \/ (k = a /\ x < i)
    BY <2>9, <2>11 DEF Before
  <2>13. k = a /\ x < i
    BY <2>12
  <2>14. x \in 1..n
    BY <2>11, <2>13
  <2>15. s[x] = <<a, x>> /\ x \in 1..l
    BY <1>1, <2>3, <2>13, <2>14
  <2>16. Before(s[x], s[i])
    BY <1>1, <1>3, <2>6, <2>13, <2>15 DEF Sorted
  <2> QED
    BY <2>11, <2>13, <2>14, <2>15, <2>16 DEF Before
<1>5. \A i \in 1..n : i <= l /\ s[i] = <<a, i>>
  BY <1>4
<1>6. n <= l
  <2>1. CASE n = 0
    BY <1>1, <2>1
  <2>2. CASE n > 0
    <3>1. n \in 1..n
      BY <1>1, <2>2
    <3> QED
      BY <1>5, <3>1
  <2> QED
    BY <1>1, <2>1, <2>2
<1> QED
  BY <1>5, <1>6 DEF l

(* What follows them are the others.                                       *)
LEMMA OtherMessages ==
  ASSUME NEW s \in Seq(Byte), NEW a \in Nat, NEW b \in Nat, a <= b, NEW m,
         \A k \in a..b : m[k].len \in Nat,
         AreMessages(s, a..b, m),
         NEW t \in Seq(Byte), Len(t) = Len(s) - m[a].len,
         \A p \in 1..Len(t) : t[p] = s[p + m[a].len]
  PROVE  AreMessages(t, a + 1..b, m)
<1> DEFINE n == m[a].len  l == Len(s)  r == Len(t)
<1>1. l \in Nat /\ n \in Nat /\ r \in Nat /\ r = l - n /\ DOMAIN s = 1..l /\ DOMAIN t = 1..r
      /\ a \in a..b
  BY LenProperties
<1>2. a..b \in SUBSET Nat /\ a + 1..b \in SUBSET a..b /\ a + 1..b \in SUBSET Nat
  OBVIOUS
<1> HIDE DEF l, r
<1>3. /\ \A p \in 1..l : IsOf(s[p], a..b, m)
      /\ \A k \in a..b : \A i \in 1..m[k].len : \E p \in 1..l : s[p] = <<k, i>>
      /\ Sorted(s)
  <2> DEFINE ks == a..b
  <2>1. ks \in SUBSET Nat /\ \A k \in ks : m[k].len \in Nat
    BY <1>2
  <2>2. AreMessages(s, ks, m)
    OBVIOUS
  <2> HIDE DEF ks
  <2>3. /\ \A p \in DOMAIN s : IsOf(s[p], ks, m)
        /\ \A k \in ks : \A i \in 1..m[k].len : \E p \in DOMAIN s : s[p] = <<k, i>>
        /\ Sorted(s)
    BY <2>1, <2>2, ByteByByte
  <2> QED
    BY <1>1, <2>3 DEF ks
<1>4. n <= l /\ \A i \in 1..n : s[i] = <<a, i>>
  BY FirstMessage DEF l
<1>5. \A p \in 1..r : t[p] = s[p + n] /\ p + n \in 1..l
  BY <1>1 DEF r
<1> HIDE DEF n
<1>6. \A p \in 1..r : IsOf(t[p], a + 1..b, m)
  <2> TAKE p \in 1..r
  <2>1. PICK k \in a..b : \E x \in 1..m[k].len : t[p] = <<k, x>>
    <3>1. IsOf(t[p], a..b, m)
      BY <1>3, <1>5
    <3> QED
      BY <3>1 DEF IsOf
  <2>2. PICK x \in 1..m[k].len : t[p] = <<k, x>>
    BY <2>1
  <2>3. k # a
    <3> SUFFICES ASSUME k = a PROVE FALSE
      OBVIOUS
    <3>1. x \in 1..n
      BY <2>2 DEF n
    <3>2. s[x] = <<a, x>> /\ x \in 1..l /\ x < p + n
      BY <1>1, <1>4, <3>1
    <3>3. Before(s[x], s[p + n])
      BY <1>1, <1>3, <1>5, <3>2 DEF Sorted
    <3>4. s[p + n] = <<a, x>>
      BY <1>5, <2>2
    <3> QED
      BY <3>1, <3>2, <3>3, <3>4 DEF Before
  <2>4. k \in a + 1..b
    BY <2>3
  <2> QED
    BY <2>2, <2>4 DEF IsOf
<1>7. ASSUME NEW k \in a + 1..b, NEW i \in 1..m[k].len PROVE \E p \in 1..r : t[p] = <<k, i>>
  <2>1. k \in a..b /\ k # a
    OBVIOUS
  <2>2. PICK p \in 1..l : s[p] = <<k, i>>
    BY <1>3, <2>1
  <2>3. p \notin 1..n
    BY <1>4, <2>1, <2>2
  <2>4. p - n \in 1..r /\ (p - n) + n = p
    BY <1>1, <2>3
  <2> QED
    BY <1>5, <2>2, <2>4
<1>8. Sorted(t)
  <2> SUFFICES ASSUME NEW p \in 1..r, NEW q \in 1..r, p < q PROVE Before(t[p], t[q])
    BY <1>1 DEF Sorted
  <2>1. p + n < q + n /\ p + n \in 1..l /\ q + n \in 1..l
    BY <1>1, <1>5
  <2> QED
    BY <1>1, <1>3, <1>5, <2>1 DEF Sorted
<1>9. AreMessages(t, a + 1..b, m)
  <2> DEFINE ks == a + 1..b
  <2>1. ks \in SUBSET Nat /\ \A k \in ks : m[k].len \in Nat
    BY <1>2
  <2>2. /\ \A p \in DOMAIN t : IsOf(t[p], ks, m)
        /\ \A k \in ks : \A i \in 1..m[k].len : \E p \in DOMAIN t : t[p] = <<k, i>>
    BY <1>1, <1>6, <1>7
  <2> HIDE DEF ks
  <2>3. AreMessages(t, ks, m)
    BY <1>8, <2>1, <2>2, ByteByByte
  <2> QED
    BY <2>3 DEF ks
<1> QED
  BY <1>9

-----------------------------------------------------------------------------
(***************************************************************************)
(* The invariant.                                                          *)
(***************************************************************************)

(* The answers to requests.                                                *)
AnswerKinds == {"reply", "empty", "error"}

(* The VM begins with a handshake, and goes on only if it was a good one.  *)
(* Its answers carry the ids of requests.                                  *)
SentOK ==
  /\ \A k \in DOMAIN sent :
       /\ sent[k].len > 0
       /\ sent[k].kind \in {"handshake", "bad"} <=> k = 1
       /\ k = 1 => sent[k].len = HANDSHAKE_LEN
       /\ sent[k].id # 0 <=> sent[k].kind \in AnswerKinds
  /\ Len(sent) > 1 => sent[1].kind = "handshake"

(* The VM has answered the request.                                        *)
Replied(id) == \E k \in DOMAIN sent : sent[k].id = id

(* Every request is answered at most once, and only after it was sent.     *)
OncePerRequest ==
  /\ \A j, k \in DOMAIN sent : sent[j].id = sent[k].id /\ sent[j].id # 0 => j = k
  /\ \A id \in vmRequests : ~Replied(id)
  /\ \A id \in AllRequests :
       id \in vmRequests \/ Replied(id) =>
         IF id = HELO THEN mConnState # "AWAIT_SHAKE" ELSE requests[id] = "sent"

(* The reactor looks for packets only while the channel is open; the       *)
(* handshake is the first message that is taken; nothing goes to a         *)
(* debugger before one is attached; and no message is taken that was not   *)
(* sent.                                                                   *)
Control ==
  /\ pc = "loop" => mChan
  /\ mConnState = "AWAIT_SHAKE" <=> log = <<>>
  /\ mChan /\ ~debugger.attached => debugger.got = <<>>
  /\ Len(log) <= Len(sent)

(* What becomes of a message of a kind                                     *)
What(kind) ==
  CASE kind = "handshake" -> "handshake"
    [] kind = "ddm" -> "handled"
    [] kind = "event" -> "forwarded"
    [] kind \in {"reply", "empty", "error"} -> "answered"

(* The messages that were taken off are the first that were sent, and each *)
(* went where its kind goes.                                               *)
LogInOrder ==
  \A k \in DOMAIN log :
    /\ log[k][1] = k
    /\ sent[k].kind \notin {"bad", "malformed"}
    /\ log[k][2] = What(sent[k].kind)

(* CLIENT_READY is broadcast once at most, and by the first message that   *)
(* counts; if its handler throws, it is not taken, but the client is gone. *)
ReadyInv ==
  /\ readyCount \in {0, 1}
  /\ mConnState \in {"AWAIT_SHAKE", "NEED_DDM_PKT"} => FirstData = {}
  /\ mChan /\ FirstData = {} => mConnState \in {"AWAIT_SHAKE", "NEED_DDM_PKT"}
  /\ ReadyOnce

(* Between two operations both buffers may be filled up to their end.      *)
BuffersOK == GoodBuffer(mReadBuffer) /\ GoodBuffer(debugger.preData)

(* The inductive invariant.                                                *)
StreamInv ==
  /\ TypeOK /\ BuffersOK /\ SentOK /\ OncePerRequest /\ Control /\ LogInOrder /\ ReadyInv
  /\ Framing /\ ForwardedWhole /\ OutstandingExact

-----------------------------------------------------------------------------
(* What the types say of the sequences and of the debugger's record.       *)
Messages == [kind : Kinds, id : AllRequests \cup {0}, len : Nat]

(* What may become of a message.                                           *)
Fates == {"handshake", "handled", "answered", "forwarded"}

(* What the types say of the sequences.                                    *)
LEMMA Facts ==
  ASSUME TypeOK
  PROVE  /\ sent \in Seq(Messages) /\ Len(sent) \in Nat /\ DOMAIN sent = 1..Len(sent)
         /\ \A k \in DOMAIN sent : sent[k] \in Messages /\ sent[k].len \in Nat
         /\ wire \in Seq(Byte) /\ Len(wire) \in Nat
         /\ log \in Seq(Nat \X Fates) /\ Len(log) \in Nat /\ DOMAIN log = 1..Len(log)
         /\ log = <<>> <=> Len(log) = 0
<1>1. sent \in Seq(Messages) /\ wire \in Seq(Byte) /\ log \in Seq(Nat \X Fates)
  BY DEF TypeOK, Messages, Fates
<1>2. Len(sent) \in Nat /\ DOMAIN sent = 1..Len(sent)
      /\ \A k \in DOMAIN sent : sent[k] \in Messages
  BY <1>1
<1>3. \A x \in Messages : x.len \in Nat
  BY DEF Messages
<1>4. Len(wire) \in Nat /\ Len(log) \in Nat /\ DOMAIN log = 1..Len(log)
  BY <1>1
<1>5. log = <<>> <=> Len(log) = 0
  BY <1>1, EmptySeq
<1> QED
  BY <1>1, <1>2, <1>3, <1>4, <1>5

(* What the assumption says of the constants.                              *)
LEMMA ConstantFacts ==
  /\ HANDSHAKE_LEN \in Nat /\ HANDSHAKE_LEN > 0 /\ JDWP_HEADER_LEN \in Nat /\ JDWP_HEADER_LEN > 0
  /\ INITIAL_BUF_SIZE \in Nat /\ INITIAL_BUF_SIZE > 0 /\ MAX_BUF_SIZE \in Nat
     /\ PRE_DATA_BUF_SIZE \in Nat
  /\ INITIAL_BUF_SIZE <= MAX_BUF_SIZE
  /\ \A n \in Lengths : n \in Nat /\ n > 0
  /\ HELO \notin Requests /\ 0 \notin AllRequests
  /\ MaxMessages \in Nat /\ MaxFaults \in Nat
<1>1. \A n \in Nat \ {0} : n > 0
  OBVIOUS
<1>2. JDWP_HEADER_LEN \in Nat /\ JDWP_HEADER_LEN > 0
  BY <1>1, JdwpAssumption
<1>3. \A n \in Lengths : n \in Nat /\ n > 0
  BY <1>2, JdwpAssumption
<1> QED
  BY <1>1, <1>2, <1>3, JdwpAssumption DEF AllRequests

(* The bytes at hand begin with those of the next message.                 *)
LEMMA NextMessage ==
  ASSUME TypeOK, BuffersOK, SentOK, Control, Framing, mChan, mReadBuffer.pos > 0
  PROVE  Foremost = Len(log) + 1 /\ Len(log) + 1 \in DOMAIN sent
<1> DEFINE s == Data(mReadBuffer) \o wire  d == Data(mReadBuffer)
           a == Len(log) + 1  b == Len(sent)
<1>1. d \in Seq(Byte) /\ Len(d) = mReadBuffer.pos /\ mReadBuffer.pos \in Nat
      /\ \A i \in 1..mReadBuffer.pos : d[i] = mReadBuffer.array[i]
  BY DataLemma DEF BuffersOK
<1>2. s \in Seq(Byte) /\ Len(s) >= 1 /\ s[1] = mReadBuffer.array[1]
  <2> HIDE DEF d
  <2>1. wire \in Seq(Byte) /\ Len(wire) \in Nat
    BY Facts
  <2>2. d \o wire \in Seq(Byte) /\ Len(d \o wire) = Len(d) + Len(wire)
        /\ \A i \in 1..Len(d) + Len(wire) :
             (d \o wire)[i] = IF i <= Len(d) THEN d[i] ELSE wire[i - Len(d)]
    BY <1>1, <2>1, ConcatProperties
  <2>3. 1 \in 1..Len(d) + Len(wire) /\ 1 <= Len(d) /\ 1 \in 1..mReadBuffer.pos
    BY <1>1, <2>1
  <2>4. (d \o wire)[1] = d[1] /\ d[1] = mReadBuffer.array[1]
    BY <1>1, <2>2, <2>3
  <2> QED
    BY <1>1, <2>1, <2>2, <2>4 DEF d
<1>3. a \in Nat /\ b \in Nat /\ a <= b + 1 /\ DOMAIN sent = 1..b /\ a >= 1
  BY Facts DEF Control
<1>4. AreMessages(s, a..b, sent)
  BY DEF Framing
<1>5. a..b \subseteq DOMAIN sent /\ a..b \in SUBSET Nat
  BY <1>3
<1>6. \A k \in a..b : sent[k].len \in Nat
  BY <1>5, Facts
<1> HIDE DEF s, a, b
<1>7. DOMAIN s = 1..Len(s) /\ 1 \in DOMAIN s
  BY <1>2, LenProperties
<1>8. IsOf(s[1], a..b, sent)
  <2> DEFINE ks == a..b
  <2>1. ks \in SUBSET Nat /\ (\A k \in ks : sent[k].len \in Nat) /\ AreMessages(s, ks, sent)
    BY <1>4, <1>5, <1>6
  <2> HIDE DEF ks
  <2>2. \A p \in DOMAIN s : IsOf(s[p], ks, sent)
    BY <2>1, ByteByByte
  <2> QED
    BY <1>7, <2>2 DEF ks
<1>9. a <= b
  <2>1. PICK k \in a..b : TRUE
    BY <1>8 DEF IsOf
  <2> QED
    BY <1>3, <2>1
<1>10. a \in DOMAIN sent
  BY <1>3, <1>9
<1>11. 1 \in 1..sent[a].len
  BY <1>10, Facts DEF SentOK
<1>12. s[1] = <<a, 1>>
  BY <1>2, <1>3, <1>4, <1>6, <1>9, <1>11, FirstMessage
<1> QED
  BY <1>2, <1>10, <1>12 DEF Foremost, a

(* If it is there as a whole, its bytes are at the front of the buffer, and*)
(* the bytes of the messages behind it are what is left.                   *)
LEMMA WholeMessage ==
  ASSUME TypeOK, BuffersOK, SentOK, Control, Framing, mChan,
         Len(log) + 1 \in DOMAIN sent, sent[Len(log) + 1].len <= mReadBuffer.pos
  PROVE  LET k == Len(log) + 1
             n == sent[k].len
             c == Consume(mReadBuffer, n)
         IN  /\ k \in Nat /\ n \in Nat
             /\ SubSeq(mReadBuffer.array, 1, n) = Bytes(k, n)
             /\ GoodBuffer(c) /\ Capacity(c) = Capacity(mReadBuffer)
             /\ AreMessages(Data(c) \o wire, k + 1..Len(sent), sent)
<1> DEFINE k == Len(log) + 1  n == sent[k].len  c == Consume(mReadBuffer, n)  b == Len(sent)
           d == Data(mReadBuffer)  s == d \o wire  e == Data(c)  t == e \o wire
           p == mReadBuffer.pos
           l == Len(wire)
<1>1. d \in Seq(Byte) /\ Len(d) = p /\ p \in Nat
      /\ mReadBuffer.array \in Seq(Byte) /\ p <= Len(mReadBuffer.array)
      /\ \A i \in 1..p : d[i] = mReadBuffer.array[i]
  BY DataLemma DEF BuffersOK, GoodBuffer
<1>2. k \in Nat /\ n \in Nat /\ b \in Nat /\ k <= b /\ n <= p /\ DOMAIN sent = 1..b /\ k >= 1
  BY Facts
<1>3. wire \in Seq(Byte) /\ l \in Nat
  BY Facts
<1>4. /\ GoodBuffer(c) /\ Capacity(c) = Capacity(mReadBuffer)
      /\ Len(e) = p - n /\ \A i \in 1..p - n : e[i] = d[i + n]
  BY <1>2, ConsumeLemma DEF BuffersOK
<1>5. e \in Seq(Byte)
  BY <1>4, DataLemma
<1>6. AreMessages(s, k..b, sent)
  BY DEF Framing
<1>7. \A j \in k..b : sent[j].len \in Nat
  BY <1>2, Facts
<1> HIDE DEF d, e, p, l, c
<1>8. /\ s \in Seq(Byte) /\ Len(s) = p + l
      /\ \A i \in 1..p + l : s[i] = IF i <= p THEN d[i] ELSE wire[i - p]
  BY <1>1, <1>3, ConcatProperties DEF l
<1>9. /\ t \in Seq(Byte) /\ Len(t) = p - n + l
      /\ \A i \in 1..p - n + l : t[i] = IF i <= p - n THEN e[i] ELSE wire[i - (p - n)]
  BY <1>3, <1>4, <1>5, ConcatProperties DEF l
<1> HIDE DEF s, t, k, b, n
<1>10. \A i \in 1..p - n + l : t[i] = s[i + n]
  <2> TAKE i \in 1..p - n + l
  <2>1. i + n \in 1..p + l /\ (i + n <= p <=> i <= p - n) /\ (i + n) - p = i - (p - n)
    BY <1>1, <1>2, <1>3
  <2>2. CASE i <= p - n
    <3>1. i \in 1..p - n
      BY <1>1, <1>2, <2>2
    <3> QED
      BY <1>4, <1>8, <1>9, <2>1, <2>2, <3>1
  <2>3. CASE ~(i <= p - n)
    BY <1>8, <1>9, <2>1, <2>3
  <2> QED
    BY <2>2, <2>3
<1>11. n <= Len(s) /\ \A i \in 1..n : s[i] = <<k, i>>
  BY <1>2, <1>6, <1>7, <1>8, FirstMessage DEF n
<1>12. Len(t) = Len(s) - n
  BY <1>1, <1>2, <1>3, <1>8, <1>9
<1>13. AreMessages(t, k + 1..b, sent)
  <2>1. \A i \in 1..Len(t) : t[i] = s[i + n]
    BY <1>9, <1>10
  <2> QED
    BY <1>2, <1>6, <1>7, <1>8, <1>9, <1>12, <2>1, OtherMessages DEF n
<1>14. SubSeq(mReadBuffer.array, 1, n) = Bytes(k, n)
  <2> DEFINE u == SubSeq(mReadBuffer.array, 1, n)
  <2>1. \A i \in 1..n : mReadBuffer.array[i] \in Byte
    BY <1>1, <1>2
  <2>2. u \in Seq(Byte) /\ Len(u) = n /\ \A i \in 1..n : u[i] = mReadBuffer.array[i]
    <3> HIDE DEF n
    <3> QED
      BY <1>2, <2>1, SubSeqProperties
  <2>3. Bytes(k, n) \in Seq(Byte) /\ Len(Bytes(k, n)) = n
        /\ \A i \in 1..n : Bytes(k, n)[i] = <<k, i>>
    BY <1>2, BytesLemma
  <2>4. \A i \in 1..n : u[i] = Bytes(k, n)[i]
    <3> TAKE i \in 1..n
    <3>1. i \in 1..p /\ i \in 1..p + l /\ i <= p
      BY <1>1, <1>2, <1>3
    <3> QED
      BY <1>1, <1>8, <1>11, <2>2, <2>3, <3>1
  <2> HIDE DEF u
  <2> QED
    BY <2>2, <2>3, <2>4, SameSeq DEF u
<1> QED
  BY <1>2, <1>4, <1>13, <1>14 DEF k, n, c, b, t, e

-----------------------------------------------------------------------------
(***************************************************************************)
(* The initial states, and the steps that take no message off the buffer.  *)
(***************************************************************************)

(* The invariant holds initially.                                          *)
LEMMA InitStreamInv == Init => StreamInv
<1> SUFFICES ASSUME Init PROVE StreamInv
  OBVIOUS
<1>1. /\ sent = <<>> /\ wire = <<>> /\ log = <<>> /\ vmRequests = {} /\ mOutstandingReqs = {}
      /\ Len(sent) = 0 /\ Len(log) = 0 /\ DOMAIN sent = {} /\ DOMAIN log = {}
      /\ sent \in Seq(Messages) /\ wire \in Seq(Byte) /\ log \in Seq(Nat \X Fates)
  BY DEF Init
<1>2. /\ GoodBuffer(mReadBuffer) /\ Capacity(mReadBuffer) = INITIAL_BUF_SIZE
      /\ Data(mReadBuffer) = <<>>
  BY ConstantFacts, NewBufferLemma DEF Init
<1>3. /\ GoodBuffer(debugger.preData) /\ Data(debugger.preData) = <<>>
      /\ debugger.attached = FALSE /\ debugger.got = <<>>
  BY ConstantFacts, NewBufferLemma DEF Init
<1>4. BuffersOK
  BY <1>2, <1>3 DEF BuffersOK
<1>5. TypeOK
  <2>1. mReadBuffer \in BufferType /\ debugger.preData \in BufferType
        /\ mReadBuffer.limit = Capacity(mReadBuffer) /\ mReadBuffer.pos <= mReadBuffer.limit
        /\ Capacity(mReadBuffer) <= MAX_BUF_SIZE
    BY <1>2, <1>3, ConstantFacts DEF GoodBuffer
  <2>2. requests \in [Requests -> {"new", "added", "sent", "failed", "dropped"}]
    BY DEF Init
  <2>3. debugger.got \in Seq(Byte)
    BY <1>3
  <2>4. sent \in Seq([kind : Kinds, id : AllRequests \cup {0}, len : Nat])
        /\ log \in Seq(Nat \X {"handshake", "handled", "answered", "forwarded"})
    BY <1>1 DEF Messages, Fates
  <2>5. {mChan, toReopen, undefined} \subseteq BOOLEAN /\ debugger.attached \in BOOLEAN
    BY <1>3 DEF Init
  <2>6. readyCount \in Nat /\ messages \in 0..MaxMessages /\ faults \in 0..MaxFaults
    BY ConstantFacts DEF Init
  <2>7. mConnState \in {"AWAIT_SHAKE", "NEED_DDM_PKT", "NOT_DDM", "READY"}
        /\ pc \in {"select", "loop"}
    BY DEF Init
  <2> QED
    BY <1>1, <2>1, <2>2, <2>3, <2>4, <2>5, <2>6, <2>7 DEF TypeOK
<1>6. SentOK /\ OncePerRequest
  BY <1>1 DEF SentOK, OncePerRequest, Replied
<1>7. Control
  BY <1>1, <1>3 DEF Control, Init
<1>8. LogInOrder
  BY <1>1 DEF LogInOrder
<1>9. ReadyInv
  <2>1. FirstData = {}
    BY <1>1 DEF FirstData
  <2> QED
    BY <2>1 DEF ReadyInv, ReadyOnce, Init
<1>10. AreMessages(<<>>, {}, sent) /\ <<>> \o <<>> = <<>>
  BY NoMessages
<1>11. Framing
  <2>1. Len(log) + 1..Len(sent) = {}
    BY <1>1
  <2> QED
    BY <1>1, <1>2, <1>10, <2>1 DEF Framing
<1>12. ForwardedWhole
  <2>1. Forwarded = {}
    BY <1>1 DEF Forwarded
  <2> QED
    BY <1>3, <1>10, <2>1 DEF ForwardedWhole
<1>13. OutstandingExact
  <2>1. \A id : ~Answered(id)
    BY <1>1 DEF Answered
  <2>2. \A id \in Requests : requests[id] = "new"
    BY DEF Init
  <2>3. mConnState = "AWAIT_SHAKE"
    BY DEF Init
  <2> QED
    BY <1>1, <2>1, <2>2, <2>3 DEF OutstandingExact
<1> QED
  BY <1>4, <1>5, <1>6, <1>7, <1>8, <1>9, <1>11, <1>12, <1>13 DEF StreamInv

(* What is said of the log and of the stream alone does not change when    *)
(* neither changes.                                                        *)
LEMMA SameLog ==
  ASSUME UNCHANGED <<sent, log>>
  PROVE  /\ SentOK' <=> SentOK
         /\ LogInOrder' <=> LogInOrder
         /\ FirstData' = FirstData
         /\ Forwarded' = Forwarded
         /\ \A id : Answered(id)' <=> Answered(id)
         /\ \A id : Replied(id)' <=> Replied(id)
<1>1. SentOK' <=> SentOK
  BY DEF SentOK
<1>2. LogInOrder' <=> LogInOrder
  BY DEF LogInOrder
<1>3. FirstData' = FirstData /\ Forwarded' = Forwarded
  BY DEF FirstData, Forwarded
<1>4. \A id : Answered(id)' <=> Answered(id)
  BY DEF Answered
<1>5. \A id : Replied(id)' <=> Replied(id)
  BY DEF Replied
<1> QED
  BY <1>1, <1>2, <1>3, <1>4, <1>5

(* A step that leaves the messages alone: what they are and what became of *)
(* them.                                                                   *)
Calm == UNCHANGED <<vmVars, streamVars, mConnState, readyCount, log>>

(* Such a step keeps most of the invariant.                                *)
LEMMA CalmInv ==
  ASSUME TypeOK, BuffersOK, SentOK, OncePerRequest, LogInOrder, ReadyInv, ForwardedWhole, Calm,
         UNCHANGED <<requests, mChan>>, debugger'.preData = debugger.preData,
         debugger'.got = debugger.got
  PROVE  /\ BuffersOK' /\ SentOK' /\ OncePerRequest' /\ LogInOrder' /\ ReadyInv' /\ ForwardedWhole'
<1>1. UNCHANGED <<sent, log, vmRequests, mReadBuffer, mConnState, readyCount>>
  BY DEF Calm, vmVars, streamVars
<1>2. SentOK' /\ LogInOrder' /\ FirstData' = FirstData /\ Forwarded' = Forwarded
      /\ \A id : Replied(id)' <=> Replied(id)
  BY <1>1, SameLog
<1>3. BuffersOK'
  BY <1>1 DEF BuffersOK
<1>4. OncePerRequest'
  BY <1>1, <1>2 DEF OncePerRequest
<1>5. ReadyInv'
  BY <1>1, <1>2 DEF ReadyInv, ReadyOnce
<1>6. ForwardedWhole'
  BY <1>1, <1>2 DEF ForwardedWhole
<1> QED
  BY <1>2, <1>3, <1>4, <1>5, <1>6

(* The client is dropped, by whichever step: the channel is closed.  A     *)
(* part of a packet may have been sent to the debugger, and the VM may     *)
(* have been seen.                                                         *)
Drops ==
  /\ UNCHANGED <<vmVars, streamVars, log, requests>>
  /\ UNCHANGED <<mConnState, readyCount>> \/ (mConnState # "AWAIT_SHAKE" /\ DdmSeen)
  /\ mChan' = FALSE /\ pc' = "select"
  /\ mOutstandingReqs' \in {{}, mOutstandingReqs}
  /\ debugger'.preData = debugger.preData /\ debugger'.got \in Seq(Byte)
  /\ debugger'.attached \in BOOLEAN
  /\ toReopen' = toReopen /\ undefined' \in BOOLEAN /\ faults' \in 0..MaxFaults

(* A fault leaves the count of the faults in its bounds.                   *)
LEMMA FaultLemma ==
  ASSUME TypeOK, NEW kind, Fault(kind)
  PROVE  faults' \in 0..MaxFaults
<1>1. faults \in 0..MaxFaults /\ faults < MaxFaults /\ faults' = faults + 1 /\ MaxFaults \in Nat
  BY ConstantFacts DEF TypeOK, Fault
<1> QED
  BY <1>1

(* The steps that drop the client.                                         *)
LEMMA DroppingSteps ==
  ASSUME TypeOK, R_ReadExceedsMax \/ R_ReadBeyondEnd \/ M_DropClient \/ R_BadPacket
                 \/ R_SaveOverflows \/ R_HandlerThrows
  PROVE  Drops
<1>1. debugger.attached \in BOOLEAN /\ faults \in 0..MaxFaults /\ undefined \in BOOLEAN
      /\ debugger.got \in Seq(Byte)
  BY DEF TypeOK
<1>2. ASSUME DropClient
      PROVE  /\ mChan' = FALSE /\ pc' = "select" /\ mOutstandingReqs' = {}
             /\ debugger'.preData = debugger.preData /\ debugger'.got = debugger.got
             /\ debugger'.attached \in BOOLEAN
  <2>1. debugger' = [debugger EXCEPT !.attached = FALSE]
    BY <1>2 DEF DropClient
  <2>2. debugger'.preData = debugger.preData /\ debugger'.got = debugger.got
    BY <2>1
  <2>3. debugger'.attached \in BOOLEAN
    BY <1>1, <2>1
  <2> QED
    BY <1>2, <2>2, <2>3 DEF DropClient, CloseClient
<1>3. CASE R_ReadExceedsMax
  BY <1>1, <1>2, <1>3 DEF R_ReadExceedsMax, Drops, stopVars
<1>4. CASE R_ReadBeyondEnd
  BY <1>1, <1>4 DEF R_ReadBeyondEnd, Drops
<1>5. CASE M_DropClient
  BY <1>1, <1>2, <1>5 DEF M_DropClient, Drops, stopVars
<1>6. CASE R_BadPacket
  BY <1>1, <1>2, <1>6 DEF R_BadPacket, Drops, stopVars
<1>7. CASE R_SaveOverflows
  BY <1>1, <1>2, <1>7 DEF R_SaveOverflows, Drops, stopVars
<1>8. CASE R_HandlerThrows
  <2>1. mConnState # "AWAIT_SHAKE" /\ faults' \in 0..MaxFaults
    BY <1>8, FaultLemma DEF R_HandlerThrows, PacketThere, InTraffic
  <2> QED
    BY <1>1, <1>2, <1>8, <2>1 DEF R_HandlerThrows, Drops, stopVars
<1> QED
  BY <1>3, <1>4, <1>5, <1>6, <1>7, <1>8

(* Dropping the client keeps the invariant.                                *)
LEMMA DropsInv ==
  ASSUME StreamInv, Drops
  PROVE  StreamInv'
<1> USE DEF StreamInv
<1>1. UNCHANGED <<sent, vmRequests, messages, wire, mReadBuffer, log, requests>>
  BY DEF Drops, vmVars, streamVars
<1>2. SentOK' /\ LogInOrder' /\ FirstData' = FirstData
      /\ \A id : Replied(id)' <=> Replied(id)
  BY <1>1, SameLog
<1>3. /\ mConnState' \in {"AWAIT_SHAKE", "NEED_DDM_PKT", "NOT_DDM", "READY"}
      /\ readyCount' \in Nat
      /\ mConnState' = "AWAIT_SHAKE" <=> mConnState = "AWAIT_SHAKE"
      /\ \/ mConnState' = mConnState /\ readyCount' = readyCount
         \/ mConnState = "NEED_DDM_PKT" /\ mConnState' = "READY"
            /\ readyCount' = readyCount + 1
  BY DEF Drops, DdmSeen, TypeOK
<1>4. BuffersOK'
  BY <1>1 DEF BuffersOK, Drops
<1>5. OncePerRequest'
  BY <1>1, <1>2, <1>3 DEF OncePerRequest
<1>6. ReadyInv'
  <2>1. mChan' = FALSE
    BY DEF Drops
  <2>2. CASE mConnState' = mConnState /\ readyCount' = readyCount
    BY <1>1, <1>2, <2>1, <2>2 DEF ReadyInv, ReadyOnce
  <2>3. CASE mConnState = "NEED_DDM_PKT" /\ mConnState' = "READY"
             /\ readyCount' = readyCount + 1
    <3>1. FirstData' = {} /\ readyCount' = 1
      BY <1>2, <2>3 DEF ReadyInv, ReadyOnce
    <3> QED
      BY <2>1, <2>3, <3>1 DEF ReadyInv, ReadyOnce
  <2> QED
    BY <1>3, <2>2, <2>3
<1>7. TypeOK'
  BY <1>1, <1>3 DEF TypeOK, Drops
<1>8. Control'
  BY <1>1, <1>3 DEF Control, Drops
<1>9. Framing' /\ ForwardedWhole' /\ OutstandingExact'
  BY DEF Framing, ForwardedWhole, OutstandingExact, Drops
<1> QED
  BY <1>2, <1>4, <1>5, <1>6, <1>7, <1>8, <1>9

(* Steps that only turn the reactor, or let a debugger in                  *)
Turns ==
  /\ Calm /\ UNCHANGED <<requests, mChan, mOutstandingReqs, undefined, faults>>
  /\ pc' \in {"select", pc} /\ toReopen' \in BOOLEAN
  /\ debugger'.preData = debugger.preData /\ debugger'.got = debugger.got
  /\ debugger'.attached \in {TRUE, debugger.attached}

(* The steps that do.                                                      *)
LEMMA TurningSteps ==
  ASSUME TypeOK, R_HandshakeNotYet \/ R_BadHandshake \/ R_NoPacket \/ R_Accept \/ UNCHANGED vars
  PROVE  Turns
<1>1. toReopen \in BOOLEAN
  BY DEF TypeOK
<1>2. CASE R_HandshakeNotYet
  BY <1>1, <1>2 DEF R_HandshakeNotYet, Turns, Calm, clientVars, stopVars
<1>3. CASE R_BadHandshake
  BY <1>1, <1>3 DEF R_BadHandshake, Turns, Calm, clientVars
<1>4. CASE R_NoPacket
  BY <1>1, <1>4 DEF R_NoPacket, Turns, Calm, clientVars, stopVars
<1>5. CASE R_Accept
  <2>1. debugger' = [debugger EXCEPT !.attached = TRUE]
    BY <1>5 DEF R_Accept
  <2>2. debugger'.preData = debugger.preData /\ debugger'.got = debugger.got
        /\ debugger'.attached \in {TRUE, debugger.attached}
    BY <2>1
  <2> QED
    BY <1>1, <1>5, <2>2 DEF R_Accept, Turns, Calm, clientVars, stopVars
<1>6. CASE UNCHANGED vars
  BY <1>1, <1>6 DEF vars, Turns, Calm, clientVars, stopVars
<1> QED
  BY <1>2, <1>3, <1>4, <1>5, <1>6

(* They keep the invariant.                                                *)
LEMMA TurnsInv ==
  ASSUME StreamInv, Turns
  PROVE  StreamInv'
<1> USE DEF StreamInv
<1>0. UNCHANGED <<sent, wire, log, mReadBuffer, mConnState, requests, mChan, mOutstandingReqs>>
  BY DEF Turns, Calm, vmVars, streamVars
<1>1. BuffersOK' /\ SentOK' /\ OncePerRequest' /\ LogInOrder' /\ ReadyInv' /\ ForwardedWhole'
  BY CalmInv DEF Turns
<1>2. TypeOK'
  BY DEF TypeOK, Turns, Calm, vmVars, streamVars
<1>3. Control'
  <2>1. ~debugger'.attached => ~debugger.attached
    BY DEF Turns
  <2>2. pc' = "loop" => pc = "loop"
    BY DEF Turns
  <2> QED
    BY <1>0, <2>1, <2>2 DEF Control, Turns
<1>4. Framing'
  BY <1>0 DEF Framing
<1>5. OutstandingExact'
  BY <1>0, SameLog DEF OutstandingExact
<1> QED
  BY <1>1, <1>2, <1>3, <1>4, <1>5

-----------------------------------------------------------------------------
(* The VM sends message m.                                                 *)
Sends(m) ==
  /\ mChan /\ VmSends(m)
  /\ m.len > 0
  /\ IF sent = <<>> THEN m.kind \in {"handshake", "bad"} /\ m.len = HANDSHAKE_LEN
     ELSE m.kind \notin {"handshake", "bad"} /\ sent[1].kind = "handshake"
  /\ m.id # 0 <=> m.kind \in AnswerKinds
  /\ IF m.id = 0 THEN vmRequests' = vmRequests
     ELSE m.id \in vmRequests /\ vmRequests' = vmRequests \ {m.id}
  /\ messages' \in 0..MaxMessages /\ faults' \in 0..MaxFaults
  /\ UNCHANGED <<mReadBuffer, clientVars, pc, log, requests, debugger, stopVars>>

(* Every step of the VM sends one message.                                 *)
LEMMA SendingSteps ==
  ASSUME TypeOK, Vm
  PROVE  \E m \in Messages : Sends(m)
<1>1. messages \in 0..MaxMessages /\ faults \in 0..MaxFaults /\ vmRequests \subseteq AllRequests
  BY DEF TypeOK
<1>2. CASE VmHandshake
  <2>1. \E kind \in {"handshake", "bad"} :
          VmSends(Message(kind, 0, HANDSHAKE_LEN)) /\ faults' \in 0..MaxFaults
    BY <1>1, <1>2, FaultLemma DEF VmHandshake
  <2>2. PICK kind \in {"handshake", "bad"} :
          VmSends(Message(kind, 0, HANDSHAKE_LEN)) /\ faults' \in 0..MaxFaults
    BY <2>1
  <2> DEFINE m == Message(kind, 0, HANDSHAKE_LEN)
  <2>3. m \in Messages /\ m.kind = kind /\ m.id = 0 /\ m.len = HANDSHAKE_LEN
    BY ConstantFacts DEF Messages, Message, Kinds
  <2> HIDE DEF m
  <2>4. Sends(m)
    BY <1>1, <1>2, <2>2, <2>3, ConstantFacts DEF VmHandshake, Sends, AnswerKinds, m
  <2> QED
    BY <2>3, <2>4
<1>3. CASE VmPacket
  <2>1. messages' \in 0..MaxMessages
    BY <1>1, <1>3, ConstantFacts DEF VmPacket
  <2>2. \E kind \in {"ddm", "event", "malformed"}, len \in Nat :
          VmSends(Message(kind, 0, len)) /\ len > 0 /\ faults' \in 0..MaxFaults
    BY <1>1, <1>3, FaultLemma, ConstantFacts DEF VmPacket
  <2>3. PICK kind \in {"ddm", "event", "malformed"}, len \in Nat :
          VmSends(Message(kind, 0, len)) /\ len > 0 /\ faults' \in 0..MaxFaults
    BY <2>2
  <2> DEFINE m == Message(kind, 0, len)
  <2>4. m \in Messages /\ m.kind = kind /\ m.id = 0 /\ m.len = len
    BY DEF Messages, Message, Kinds
  <2> HIDE DEF m
  <2>5. VmSends(m) /\ m.len > 0 /\ m.kind \notin {"handshake", "bad"} /\ m.kind \notin AnswerKinds
    BY <2>3, <2>4 DEF AnswerKinds, m
  <2>6. Sends(m)
    BY <1>3, <2>1, <2>3, <2>4, <2>5 DEF VmPacket, VmShaken, Sends
  <2> QED
    BY <2>4, <2>6
<1>4. ASSUME NEW id \in AllRequests, VmReply(id) PROVE \E m \in Messages : Sends(m)
  <2>1. \E kind \in AnswerKinds, len \in Nat : VmSends(Message(kind, id, len)) /\ len > 0
    BY <1>4, ConstantFacts DEF VmReply, AnswerKinds
  <2>2. PICK kind \in AnswerKinds, len \in Nat : VmSends(Message(kind, id, len)) /\ len > 0
    BY <2>1
  <2> DEFINE m == Message(kind, id, len)
  <2>3. m \in Messages /\ m.kind = kind /\ m.id = id /\ m.len = len
    BY DEF Messages, Message, Kinds, AnswerKinds
  <2> HIDE DEF m
  <2>4. VmSends(m) /\ m.len > 0 /\ m.kind \notin {"handshake", "bad"} /\ m.kind \in AnswerKinds
        /\ m.id # 0
    BY <2>2, <2>3, ConstantFacts DEF AnswerKinds, m
  <2>5. Sends(m)
    BY <1>1, <1>4, <2>3, <2>4 DEF VmReply, VmShaken, Sends
  <2> QED
    BY <2>3, <2>5
<1> QED
  BY <1>2, <1>3, <1>4 DEF Vm

(* A message is added behind those that were sent.                         *)
LEMMA SendsEffect ==
  ASSUME TypeOK, NEW m \in Messages, Sends(m)
  PROVE  LET n == Len(sent) + 1
         IN  /\ sent' \in Seq(Messages) /\ Len(sent') = n /\ DOMAIN sent' = 1..n
             /\ n \notin DOMAIN sent /\ n \in Nat /\ sent'[n] = m
             /\ \A k \in DOMAIN sent' : k \in DOMAIN sent \/ k = n
             /\ \A k \in DOMAIN sent : k \in DOMAIN sent' /\ sent'[k] = sent[k]
<1>1. sent \in Seq(Messages) /\ Len(sent) \in Nat /\ DOMAIN sent = 1..Len(sent)
  BY Facts
<1>2. sent' = Append(sent, m)
  BY DEF Sends, VmSends
<1>3. /\ sent' \in Seq(Messages) /\ Len(sent') = Len(sent) + 1 /\ sent'[Len(sent) + 1] = m
      /\ \A k \in 1..Len(sent) : sent'[k] = sent[k]
  BY <1>1, <1>2, AppendProperties
<1>4. DOMAIN sent' = 1..(Len(sent) + 1)
  BY <1>3, LenProperties
<1> QED
  BY <1>1, <1>3, <1>4

(* A message of the VM keeps the invariant.                                *)
LEMMA SendsInv ==
  ASSUME StreamInv, NEW m \in Messages, Sends(m)
  PROVE  StreamInv'
<1> USE DEF StreamInv
<1> DEFINE n == Len(sent) + 1
<1>1. /\ sent' \in Seq(Messages) /\ Len(sent') = n /\ DOMAIN sent' = 1..n
      /\ n \notin DOMAIN sent /\ n \in Nat /\ sent'[n] = m
      /\ \A k \in DOMAIN sent' : k \in DOMAIN sent \/ k = n
      /\ \A k \in DOMAIN sent : k \in DOMAIN sent' /\ sent'[k] = sent[k]
  BY SendsEffect
<1>2. /\ UNCHANGED <<mReadBuffer, log, requests, debugger, pc>>
      /\ UNCHANGED <<mConnState, mChan, mOutstandingReqs, readyCount, toReopen, undefined>>
      /\ mChan
  BY DEF Sends, clientVars, stopVars
<1>3. /\ Len(sent) \in Nat /\ DOMAIN sent = 1..Len(sent) /\ Len(log) \in Nat
         /\ DOMAIN log = 1..Len(log)
      /\ \A k \in DOMAIN sent : sent[k].len \in Nat
      /\ sent = <<>> <=> n = 1
  BY Facts, EmptySeq
<1>4. Len(log) <= Len(sent)
  BY DEF Control
<1>5. DOMAIN log \subseteq DOMAIN sent
  BY <1>3, <1>4
<1>6. m.kind \in Kinds /\ m.len \in Nat /\ m.id \in AllRequests \cup {0}
  BY DEF Messages
<1>7. vmRequests' \subseteq vmRequests
  BY DEF Sends
<1>8. wire' = wire \o Bytes(n, m.len) /\ wire' \in Seq(Byte)
  <2>1. Bytes(n, m.len) \in Seq(Byte)
    BY <1>1, <1>6, BytesLemma
  <2>2. wire \in Seq(Byte)
    BY Facts
  <2> QED
    BY <2>1, <2>2, ConcatProperties DEF Sends, VmSends
<1>9. TypeOK'
  <2>1. sent' \in Seq([kind : Kinds, id : AllRequests \cup {0}, len : Nat])
    BY <1>1 DEF Messages
  <2>2. messages' \in 0..MaxMessages /\ faults' \in 0..MaxFaults
    BY DEF Sends
  <2> QED
    BY <1>2, <1>7, <1>8, <2>1, <2>2 DEF TypeOK, Capacity
<1>10. BuffersOK'
  BY <1>2 DEF BuffersOK
<1>11. SentOK'
  <2>1. ASSUME NEW k \in DOMAIN sent'
        PROVE  /\ sent'[k].len > 0
               /\ sent'[k].kind \in {"handshake", "bad"} <=> k = 1
               /\ k = 1 => sent'[k].len = HANDSHAKE_LEN
               /\ sent'[k].id # 0 <=> sent'[k].kind \in AnswerKinds
    <3>1. CASE k \in DOMAIN sent
      BY <1>1, <3>1 DEF SentOK
    <3>2. CASE k = n
      BY <1>1, <1>3, <3>2 DEF Sends
    <3> QED
      BY <1>1, <3>1, <3>2
  <2>2. ASSUME Len(sent') > 1 PROVE sent'[1].kind = "handshake"
    <3>1. n # 1 /\ 1 \in DOMAIN sent
      BY <1>1, <1>3, <2>2
    <3> QED
      BY <1>1, <1>3, <3>1 DEF Sends
  <2> QED
    BY <2>1, <2>2 DEF SentOK
<1>12. \A id : Replied(id)' <=> Replied(id) \/ m.id = id
  BY <1>1 DEF Replied
<1>13. OncePerRequest'
  <2>1. m.id # 0 => m.id \in vmRequests /\ ~Replied(m.id) /\ m.id \notin vmRequests'
    BY DEF OncePerRequest, Sends
  <2>2. ASSUME NEW j \in DOMAIN sent', NEW k \in DOMAIN sent', sent'[j].id = sent'[k].id,
               sent'[j].id # 0
        PROVE  j = k
    <3>1. CASE j \in DOMAIN sent /\ k \in DOMAIN sent
      BY <1>1, <2>2, <3>1 DEF OncePerRequest
    <3>2. CASE j \in DOMAIN sent /\ k = n
      BY <1>1, <2>1, <2>2, <3>2 DEF Replied
    <3>3. CASE j = n /\ k \in DOMAIN sent
      BY <1>1, <2>1, <2>2, <3>3 DEF Replied
    <3> QED
      BY <1>1, <3>1, <3>2, <3>3
  <2>3. \A id \in vmRequests' : ~Replied(id)'
    <3>1. ASSUME NEW id \in vmRequests' PROVE ~Replied(id) /\ m.id # id
      <4>1. id \in vmRequests /\ id # 0
        BY <1>7, ConstantFacts DEF TypeOK
      <4> QED
        BY <2>1, <4>1 DEF OncePerRequest
    <3> QED
      BY <1>12, <3>1
  <2>4. ASSUME NEW id \in AllRequests, id \in vmRequests' \/ Replied(id)'
        PROVE  IF id = HELO THEN mConnState' # "AWAIT_SHAKE" ELSE requests'[id] = "sent"
    <3>1. id # 0
      BY ConstantFacts
    <3>2. id \in vmRequests \/ Replied(id)
      BY <1>7, <1>12, <2>1, <2>4, <3>1
    <3> QED
      BY <1>2, <3>2 DEF OncePerRequest
  <2> QED
    BY <2>2, <2>3, <2>4 DEF OncePerRequest
<1>14. Control'
  <2>1. Len(log') <= Len(sent')
    BY <1>1, <1>2, <1>3, <1>4
  <2> QED
    BY <1>2, <2>1 DEF Control
<1>15. LogInOrder'
  BY <1>1, <1>2, <1>5 DEF LogInOrder
<1>16. FirstData' = FirstData /\ FirstData \subseteq DOMAIN sent
  BY <1>1, <1>2, <1>5 DEF FirstData
<1>17. ReadyInv'
  <2>1. \A k \in FirstData : sent'[k].kind = sent[k].kind
    BY <1>1, <1>16
  <2> QED
    BY <1>2, <1>16, <2>1 DEF ReadyInv, ReadyOnce
<1>18. \A id : Answered(id)' <=> Answered(id)
  BY <1>1, <1>2, <1>5 DEF Answered
<1>19. OutstandingExact'
  BY <1>2, <1>18 DEF OutstandingExact
<1>20. ForwardedWhole'
  <2>1. Forwarded' = Forwarded /\ Forwarded \subseteq DOMAIN sent /\ Forwarded \in SUBSET Nat
    BY <1>2, <1>3, <1>5 DEF Forwarded
  <2>2. \A k \in Forwarded : sent[k].len \in Nat /\ sent'[k].len = sent[k].len
    BY <1>1, <1>3, <2>1
  <2> DEFINE s == Data(debugger.preData) \o debugger.got
  <2>3. AreMessages(s, Forwarded, sent)
    BY DEF ForwardedWhole, Sends
  <2> HIDE DEF s
  <2>4. AreMessages(s, Forwarded, sent')
    BY <2>1, <2>2, <2>3, SameMessages
  <2> QED
    BY <1>2, <2>1, <2>4 DEF ForwardedWhole, s
<1>21. Framing'
  <2> DEFINE d == Data(mReadBuffer)  s == d \o wire  ks == Len(log) + 1..Len(sent)
             u == Bytes(n, m.len)
  <2>1. ks \in SUBSET Nat /\ ks \subseteq DOMAIN sent /\ (\A k \in ks : k < n)
        /\ ks \cup {n} = Len(log) + 1..n
    BY <1>3, <1>4
  <2>2. AreMessages(s, ks, sent)
    BY <1>2 DEF Framing
  <2>3. d \in Seq(Byte) /\ wire \in Seq(Byte) /\ u \in Seq(Byte)
    BY <1>1, <1>6, Facts, DataLemma, BytesLemma DEF BuffersOK
  <2> HIDE DEF d, ks, u, n
  <2>4. s \in Seq(Byte) /\ d \o (wire \o u) = s \o u
    BY <2>3, ConcatProperties, ConcatAssociative
  <2> HIDE DEF s
  <2>5. \A k \in ks : sent[k].len \in Nat /\ sent'[k].len = sent[k].len /\ sent'[k].len \in Nat
    BY <1>1, <1>3, <2>1
  <2>6. AreMessages(s, ks, sent')
    BY <2>1, <2>2, <2>5, SameMessages
  <2>7. AreMessages(s \o u, ks \cup {n}, sent')
    BY <1>1, <1>6, <2>1, <2>4, <2>5, <2>6, OneMoreMessage DEF u
  <2>8. Data(mReadBuffer') \o wire' = s \o u
    BY <1>2, <1>8, <2>4 DEF d, u
  <2>9. Len(log') + 1..Len(sent') = ks \cup {n}
    BY <1>1, <1>2, <2>1
  <2> QED
    BY <2>7, <2>8, <2>9 DEF Framing
<1> QED
  BY <1>9, <1>10, <1>11, <1>13, <1>14, <1>15, <1>17, <1>19, <1>20, <1>21

-----------------------------------------------------------------------------
(* Bytes are read: what the buffer holds and what is still to be read are  *)
(* the same stream.                                                        *)
LEMMA ReadsInv ==
  ASSUME StreamInv, NEW n \in 1..Len(wire), R_Read(n)
  PROVE  StreamInv'
<1> USE DEF StreamInv
<1> DEFINE r == ReadInto(n)  d == Data(mReadBuffer)
           u == SubSeq(wire, 1, n)  w == SubSeq(wire, n + 1, Len(wire))
<1>1. /\ UNCHANGED <<sent, vmRequests, messages, mConnState, mChan, mOutstandingReqs, readyCount>>
      /\ UNCHANGED <<log, requests, debugger, toReopen, undefined, faults>>
      /\ mChan /\ pc' = "loop"
      /\ mReadBuffer' = PutBytes(r, u) /\ wire' = w /\ n <= Space(r)
  BY DEF R_Read, vmVars, clientVars, stopVars
<1>2. wire \in Seq(Byte) /\ Len(wire) \in Nat /\ \A i \in 1..Len(wire) : wire[i] \in Byte
  BY Facts
<1>3. u \in Seq(Byte) /\ Len(u) = n
  <2>1. \A i \in 1..n : wire[i] \in Byte
    BY <1>2
  <2> QED
    BY <2>1, SubSeqProperties
<1>4. w \in Seq(Byte)
  <2>1. \A i \in n + 1..Len(wire) : wire[i] \in Byte
    BY <1>2
  <2> QED
    BY <1>2, <2>1, SubSeqProperties
<1>5. u \o w = wire
  <2>1. u \o w = SubSeq(wire, 1, Len(wire))
    BY <1>2, ConcatAdjacentSubSeq
  <2> QED
    BY <1>2, <2>1, SubSeqFull
<1>6. GoodBuffer(r) /\ Data(r) = d /\ Capacity(r) <= MAX_BUF_SIZE
  <2>1. CASE MustGrow(n)
    <3>1. r = Grown(mReadBuffer) /\ MayGrow
      BY <2>1 DEF ReadInto, R_Read
    <3>2. GoodBuffer(r) /\ Capacity(r) = 2 * Capacity(mReadBuffer) /\ Data(r) = d
      BY <3>1, GrownLemma DEF BuffersOK
    <3>3. Capacity(mReadBuffer) = mReadBuffer.limit /\ mReadBuffer.limit \in Nat
          /\ mReadBuffer.limit * 2 <= MAX_BUF_SIZE
      BY <3>1, DataLemma DEF MayGrow, GoodBuffer, BuffersOK
    <3> QED
      BY <3>2, <3>3
  <2>2. CASE ~MustGrow(n)
    BY <2>2 DEF ReadInto, BuffersOK, TypeOK
  <2> QED
    BY <2>1, <2>2
<1> HIDE DEF r
<1>7. GoodBuffer(mReadBuffer') /\ Capacity(mReadBuffer') = Capacity(r)
      /\ Data(mReadBuffer') = d \o u
  <2>1. LET c == PutBytes(r, u)
        IN  GoodBuffer(c) /\ Capacity(c) = Capacity(r) /\ Data(c) = Data(r) \o u
    BY <1>1, <1>3, <1>6, PutLemma
  <2> QED
    BY <1>1, <1>6, <2>1
<1>8. Data(mReadBuffer') \o wire' = d \o wire
  <2>1. d \in Seq(Byte)
    BY DataLemma DEF BuffersOK
  <2> HIDE DEF d, u, w
  <2>2. (d \o u) \o w = d \o (u \o w)
    BY <1>3, <1>4, <2>1, ConcatAssociative
  <2> QED
    BY <1>1, <1>5, <1>7, <2>2
<1>9. BuffersOK'
  BY <1>1, <1>7 DEF BuffersOK
<1>10. TypeOK'
  <2>1. wire' \in Seq(Byte)
    BY <1>1, <1>4
  <2>2. mReadBuffer' \in BufferType /\ mReadBuffer'.limit = Capacity(mReadBuffer')
        /\ mReadBuffer'.pos <= mReadBuffer'.limit /\ Capacity(mReadBuffer') <= MAX_BUF_SIZE
    BY <1>6, <1>7 DEF GoodBuffer
  <2> HIDE DEF u, w, d
  <2> QED
    BY <1>1, <2>1, <2>2 DEF TypeOK
<1>11. Framing'
  BY <1>1, <1>8 DEF Framing
<1>12. SentOK' /\ LogInOrder' /\ FirstData' = FirstData /\ Forwarded' = Forwarded
       /\ (\A id : Replied(id)' <=> Replied(id)) /\ (\A id : Answered(id)' <=> Answered(id))
  BY <1>1, SameLog
<1>13. OncePerRequest'
  BY <1>1, <1>12 DEF OncePerRequest
<1>14. ReadyInv'
  BY <1>1, <1>12 DEF ReadyInv, ReadyOnce
<1>15. ForwardedWhole'
  BY <1>1, <1>12 DEF ForwardedWhole
<1>16. OutstandingExact'
  BY <1>1, <1>12 DEF OutstandingExact
<1>17. Control'
  BY <1>1 DEF Control
<1> QED
  BY <1>9, <1>10, <1>11, <1>12, <1>13, <1>14, <1>15, <1>16, <1>17

-----------------------------------------------------------------------------
(***************************************************************************)
(* Messages are taken off the buffer.                                      *)
(***************************************************************************)

(* The next message is whole and leaves the buffer; what becomes of it is  *)
(* what becomes of its kind.                                               *)
Takes(what) ==
  LET k == Len(log) + 1
  IN  /\ mChan /\ k \in DOMAIN sent /\ sent[k].len <= mReadBuffer.pos
      /\ mReadBuffer' = Consume(mReadBuffer, sent[k].len)
      /\ log' = Append(log, <<k, what>>)
      /\ sent[k].kind \notin {"bad", "malformed"} /\ what = What(sent[k].kind) /\ what \in Fates
      /\ mConnState = "AWAIT_SHAKE" <=> sent[k].kind = "handshake"
      /\ mConnState' # "AWAIT_SHAKE"
      /\ UNCHANGED <<sent, wire, messages, requests, toReopen, undefined>>

(* In what state the message is taken as what it is.                       *)
LEMMA PacketFacts ==
  ASSUME StreamInv, PacketThere
  PROVE  LET k == Len(log) + 1
         IN  /\ mChan /\ Foremost = k /\ k \in DOMAIN sent /\ k # 1
                /\ sent[k].len <= mReadBuffer.pos
             /\ sent[k].kind \in {"ddm", "event"} \cup AnswerKinds
             /\ mConnState \in {"NEED_DDM_PKT", "NOT_DDM", "READY"}
             /\ sent[k].kind \in AnswerKinds <=> sent[k].id # 0
             /\ sent[k].kind \in AnswerKinds => IsResponseToUs
<1> USE DEF StreamInv
<1> DEFINE k == Len(log) + 1
<1>1. mChan /\ mReadBuffer.pos > 0 /\ mConnState \in {"NEED_DDM_PKT", "NOT_DDM", "READY"}
      /\ pc = "loop"
  <2>1. mReadBuffer.pos \in Nat /\ mReadBuffer.pos >= JDWP_HEADER_LEN
    BY DataLemma DEF BuffersOK, PacketThere, HeaderThere
  <2>2. mReadBuffer.pos > 0
    BY <2>1, ConstantFacts
  <2> QED
    BY <2>2 DEF PacketThere, InTraffic, Control
<1>2. Foremost = k /\ k \in DOMAIN sent
  BY <1>1, NextMessage
<1>3. Len(log) \in Nat /\ Len(log) > 0 /\ DOMAIN log = 1..Len(log) /\ k # 1
  <2>1. Len(log) \in Nat /\ Len(log) # 0 /\ DOMAIN log = 1..Len(log)
    BY <1>1, Facts DEF Control
  <2> QED
    BY <2>1
<1>4. sent[k].kind \in Kinds /\ sent[k].id \in AllRequests \cup {0}
  BY <1>2, Facts DEF Messages
<1>5. sent[k].len <= mReadBuffer.pos /\ sent[k].kind # "malformed"
  <2>1. mReadBuffer.pos >= sent[k].len /\ sent[k].kind # "malformed"
    BY <1>2 DEF PacketThere, Malformed
  <2>2. mReadBuffer.pos \in Nat /\ sent[k].len \in Nat
    BY <1>2, Facts, DataLemma DEF BuffersOK
  <2> QED
    BY <2>1, <2>2
<1>6. sent[k].kind \notin {"handshake", "bad"} /\ (sent[k].kind \in AnswerKinds <=> sent[k].id # 0)
  BY <1>2, <1>3 DEF SentOK
<1> HIDE DEF k
<1>7. sent[k].kind \in {"ddm", "event"} \cup AnswerKinds
  BY <1>4, <1>5, <1>6 DEF Kinds, AnswerKinds
<1>8. ASSUME sent[k].kind \in AnswerKinds PROVE IsResponseToUs
  <2> DEFINE id == sent[k].id
  <2>1. id \in AllRequests /\ id # 0
    BY <1>4, <1>6, <1>8
  <2>2. Replied(id)
    BY <1>2 DEF Replied
  <2>3. ~Answered(id)
    <3> SUFFICES ASSUME NEW j \in DOMAIN log, sent[j].id = id PROVE FALSE
      BY DEF Answered
    <3>1. j \in DOMAIN sent /\ j # k
      <4>1. Len(log) <= Len(sent) /\ DOMAIN sent = 1..Len(sent) /\ Len(sent) \in Nat
        BY Facts DEF Control
      <4> QED
        BY <1>3, <4>1 DEF k
    <3> QED
      BY <1>2, <2>1, <3>1 DEF OncePerRequest
  <2> HIDE DEF id
  <2>4. id \in mOutstandingReqs
    <3>1. CASE id = HELO
      BY <1>1, <2>3, <3>1 DEF OutstandingExact
    <3>2. CASE id # HELO
      <4>1. id \in Requests /\ requests[id] = "sent"
        BY <2>1, <2>2, <3>2 DEF OncePerRequest, AllRequests
      <4> QED
        BY <1>1, <2>3, <4>1 DEF OutstandingExact
    <3> QED
      BY <3>1, <3>2
  <2> QED
    BY <1>2, <1>8, <2>4 DEF IsResponseToUs, AnswerKinds, id
<1> QED
  BY <1>1, <1>2, <1>3, <1>5, <1>6, <1>7, <1>8 DEF k

(* A packet that is there lies within the buffer, so that any first part   *)
(* of it can be sent.                                                      *)
LEMMA FailingForward ==
  ASSUME StreamInv, R_ForwardFails
  PROVE  Drops
<1> USE DEF StreamInv
<1>1. PICK n \in 0..sent[Foremost].len - 1 :
             debugger' = [debugger EXCEPT !.attached = FALSE,
                                          !.got = debugger.got \o Written(mReadBuffer, n)]
  BY DEF R_ForwardFails
<1>2. /\ Foremost \in DOMAIN sent /\ sent[Foremost].len <= mReadBuffer.pos
      /\ sent[Foremost].len \in Nat
  BY PacketFacts, Facts DEF R_ForwardFails, ForDebugger
<1>3. GoodBuffer(mReadBuffer)
  BY DEF BuffersOK
<1>10. mReadBuffer.array \in Seq(Byte) /\ mReadBuffer.pos \in Nat
       /\ mReadBuffer.pos <= Len(mReadBuffer.array)
  BY <1>3 DEF GoodBuffer, BufferType, Capacity
<1>4. n \in Nat /\ n <= mReadBuffer.pos
  BY <1>2, <1>10
<1>5. Written(mReadBuffer, n) \in Seq(Byte)
  <2>1. Written(mReadBuffer, n) = SubSeq(mReadBuffer.array, 1, n)
    BY <1>3, <1>4, AfterLemma
  <2>2. n <= Len(mReadBuffer.array) /\ Len(mReadBuffer.array) \in Nat
    BY <1>4, <1>10
  <2>3. \A i \in 1..n : i \in 1..Len(mReadBuffer.array)
    BY <1>4, <2>2
  <2> QED
    BY <1>4, <1>10, <2>1, <2>2, <2>3, SubSeqProperties
<1>6. debugger.got \in Seq(Byte) /\ faults' \in 0..MaxFaults /\ undefined \in BOOLEAN
  BY FaultLemma DEF TypeOK, R_ForwardFails
<1>7. debugger.got \o Written(mReadBuffer, n) \in Seq(Byte)
  BY <1>5, <1>6, ConcatProperties
<1>8. debugger'.preData = debugger.preData /\ debugger'.attached \in BOOLEAN
  BY <1>1
<1>9. debugger'.got \in Seq(Byte)
  BY <1>1, <1>6, <1>7
<1> QED
  BY <1>6, <1>8, <1>9 DEF R_ForwardFails, CloseClient, Drops, stopVars

(* The steps that take a message off the buffer.                           *)
LEMMA TakingSteps ==
  ASSUME StreamInv
  PROVE  /\ R_GoodHandshake => Takes("handshake")
         /\ R_Ddm => Takes("handled")
         /\ R_Reply => Takes("answered")
         /\ R_Save \/ R_Forward => Takes("forwarded")
<1> USE DEF StreamInv
<1> DEFINE k == Len(log) + 1
<1>1. ASSUME R_GoodHandshake PROVE Takes("handshake")
  <2>1. mChan /\ mReadBuffer.pos > 0 /\ mReadBuffer.pos \in Nat /\ mReadBuffer.pos >= HANDSHAKE_LEN
    <3>1. mReadBuffer.pos \in Nat /\ mReadBuffer.pos >= HANDSHAKE_LEN
      BY <1>1, DataLemma DEF BuffersOK, R_GoodHandshake, HandshakeThere
    <3>2. mReadBuffer.pos > 0
      BY <3>1, ConstantFacts
    <3> QED
      BY <1>1, <3>1, <3>2 DEF Control, R_GoodHandshake
  <2>2. Foremost = k /\ k \in DOMAIN sent
    BY <2>1, NextMessage
  <2>3. mConnState = "AWAIT_SHAKE" /\ k = 1
    <3>1. mConnState = "AWAIT_SHAKE" /\ Len(log) = 0
      BY <1>1, Facts DEF Control, R_GoodHandshake
    <3> QED
      BY <3>1
  <2>4. sent[k].len = HANDSHAKE_LEN /\ sent[k].kind = "handshake"
    BY <1>1, <2>2, <2>3 DEF SentOK, R_GoodHandshake, HandshakeGood
  <2>5. sent[k].len <= mReadBuffer.pos
    BY <2>1, <2>4, ConstantFacts
  <2>6. What("handshake") = "handshake"
    BY DEF What
  <2>7. /\ UNCHANGED <<sent, messages, wire, requests, toReopen, undefined>>
        /\ mReadBuffer' = Consume(mReadBuffer, HANDSHAKE_LEN)
        /\ log' = Append(log, <<Foremost, "handshake">>)
        /\ mConnState' = "NEED_DDM_PKT"
    BY <1>1 DEF R_GoodHandshake, TakenAs, stopVars
  <2> HIDE DEF k
  <2> QED
    BY <2>1, <2>2, <2>3, <2>4, <2>5, <2>6, <2>7 DEF Takes, Fates, k
<1>2. ASSUME PacketThere, NEW what \in Fates, what = What(sent[k].kind),
             mReadBuffer' = Consume(mReadBuffer, sent[k].len),
             log' = Append(log, <<k, what>>),
             mConnState' \in {"NEED_DDM_PKT", "NOT_DDM", "READY"},
             UNCHANGED <<sent, wire, messages, requests, toReopen, undefined>>
      PROVE  Takes(what)
  <2>1. /\ mChan /\ k \in DOMAIN sent /\ sent[k].len <= mReadBuffer.pos
        /\ sent[k].kind \in {"ddm", "event"} \cup AnswerKinds
        /\ mConnState \in {"NEED_DDM_PKT", "NOT_DDM", "READY"}
    BY <1>2, PacketFacts
  <2>2. sent[k].kind \notin {"bad", "malformed", "handshake"}
    BY <2>1 DEF AnswerKinds
  <2> HIDE DEF k
  <2> QED
    BY <1>2, <2>1, <2>2 DEF Takes, k
<1>3. PacketThere =>
        /\ Foremost = k /\ sent[k].kind \in {"ddm", "event"} \cup AnswerKinds
        /\ sent[k].kind \in AnswerKinds => IsResponseToUs
        /\ mConnState \in {"NEED_DDM_PKT", "NOT_DDM", "READY"}
  BY PacketFacts
<1>4. /\ What("ddm") = "handled" /\ What("event") = "forwarded"
      /\ \A kind \in AnswerKinds : What(kind) = "answered"
  BY DEF What, AnswerKinds
<1>5. DdmSeen /\ mConnState \in {"NEED_DDM_PKT", "NOT_DDM", "READY"}
        => mConnState' \in {"NEED_DDM_PKT", "NOT_DDM", "READY"}
  BY DEF DdmSeen
<1>6. PacketFailed /\ mConnState \in {"NEED_DDM_PKT", "NOT_DDM", "READY"}
        => mConnState' \in {"NEED_DDM_PKT", "NOT_DDM", "READY"}
  BY DEF PacketFailed
<1> HIDE DEF k
<1>7. ASSUME R_Ddm PROVE Takes("handled")
  <2>1. PacketThere /\ sent[k].kind = "ddm" /\ Foremost = k
    BY <1>3, <1>7 DEF R_Ddm
  <2>2. /\ mReadBuffer' = Consume(mReadBuffer, sent[k].len) /\ log' = Append(log, <<k, "handled">>)
        /\ UNCHANGED <<sent, wire, messages, requests, toReopen, undefined>>
    BY <1>7, <2>1 DEF R_Ddm, TakenAs, vmVars, stopVars
  <2>3. mConnState' \in {"NEED_DDM_PKT", "NOT_DDM", "READY"}
    BY <1>3, <1>5, <1>7, <2>1 DEF R_Ddm
  <2>4. "handled" \in Fates /\ "handled" = What(sent[k].kind)
    BY <1>4, <2>1 DEF Fates
  <2> QED
    BY <1>2, <2>1, <2>2, <2>3, <2>4
<1>8. ASSUME R_Reply PROVE Takes("answered")
  <2>1. PacketThere /\ sent[k].kind \in AnswerKinds /\ Foremost = k
    BY <1>3, <1>8 DEF R_Reply, IsResponseToUs, AnswerKinds
  <2>2. /\ mReadBuffer' = Consume(mReadBuffer, sent[k].len)
           /\ log' = Append(log, <<k, "answered">>)
        /\ UNCHANGED <<sent, wire, messages, requests, toReopen, undefined>>
    BY <1>8, <2>1 DEF R_Reply, TakenAs, vmVars, stopVars
  <2>3. mConnState' \in {"NEED_DDM_PKT", "NOT_DDM", "READY"}
    BY <1>3, <1>5, <1>6, <1>8, <2>1 DEF R_Reply
  <2>4. "answered" \in Fates /\ "answered" = What(sent[k].kind)
    BY <1>4, <2>1 DEF Fates
  <2> QED
    BY <1>2, <2>1, <2>2, <2>3, <2>4
<1>9. ASSUME R_Save \/ R_Forward PROVE Takes("forwarded")
  <2>1. ForDebugger /\ PacketThere
    BY <1>9 DEF R_Save, R_Forward, ForDebugger
  <2>2. Foremost = k /\ sent[k].kind = "event"
    BY <1>3, <2>1 DEF ForDebugger, AnswerKinds
  <2>3. sent[k].len \in Nat /\ sent[k].len <= mReadBuffer.pos
    BY <2>1, PacketFacts, Facts DEF k
  <2>4. /\ mReadBuffer' = Consume(mReadBuffer, sent[k].len)
           /\ log' = Append(log, <<k, "forwarded">>)
        /\ UNCHANGED <<sent, wire, messages, requests, toReopen, undefined, mConnState>>
    BY <1>9, <2>2, <2>3, AfterLemma DEF BuffersOK, R_Save, R_Forward, TakenAs, vmVars, stopVars,
       clientVars
  <2>5. "forwarded" \in Fates /\ "forwarded" = What(sent[k].kind)
    BY <1>4, <2>2 DEF Fates
  <2> QED
    BY <1>2, <1>3, <2>1, <2>4, <2>5
<1> QED
  BY <1>1, <1>7, <1>8, <1>9

(* What every message that is taken does to the buffer and to the log.     *)
LEMMA TakesEffect ==
  ASSUME StreamInv, NEW what, Takes(what)
  PROVE  LET k == Len(log) + 1
         IN  /\ k \in Nat /\ k \in DOMAIN sent /\ k \notin DOMAIN log
             /\ DOMAIN log \in SUBSET Nat /\ DOMAIN log \subseteq DOMAIN sent
             /\ log' \in Seq(Nat \X Fates) /\ Len(log') = k /\ DOMAIN log' = DOMAIN log \cup {k}
             /\ log'[k] = <<k, what>> /\ \A j \in DOMAIN log : log'[j] = log[j] /\ j < k
             /\ Len(log') <= Len(sent') /\ log' # <<>>
             /\ SubSeq(mReadBuffer.array, 1, sent[k].len) = Bytes(k, sent[k].len)
             /\ GoodBuffer(mReadBuffer') /\ Capacity(mReadBuffer') = Capacity(mReadBuffer)
             /\ SentOK' /\ LogInOrder' /\ Framing'
             /\ \A id : Answered(id)' <=> Answered(id) \/ sent[k].id = id
             /\ \A id : Replied(id)' <=> Replied(id)
             /\ sent[k].kind \in {"ddm", "reply", "error"} => FirstData' = FirstData \cup {k}
             /\ sent[k].kind \notin {"ddm", "reply", "error"} => FirstData' = FirstData
             /\ what = "forwarded" => Forwarded' = Forwarded \cup {k}
             /\ what # "forwarded" => Forwarded' = Forwarded
<1> USE DEF StreamInv
<1> DEFINE k == Len(log) + 1  n == sent[k].len  c == Consume(mReadBuffer, n)
<1>1. /\ mChan /\ k \in DOMAIN sent /\ n <= mReadBuffer.pos /\ mReadBuffer' = c
      /\ log' = Append(log, <<k, what>>) /\ what \in Fates
      /\ sent[k].kind \notin {"bad", "malformed"} /\ what = What(sent[k].kind)
      /\ sent' = sent /\ wire' = wire
  BY DEF Takes
<1>2. /\ Len(log) \in Nat /\ log \in Seq(Nat \X Fates) /\ DOMAIN log = 1..Len(log)
      /\ Len(sent) \in Nat /\ DOMAIN sent = 1..Len(sent) /\ Len(log) <= Len(sent)
  BY Facts DEF Control
<1>3. k \in Nat /\ k \notin DOMAIN log /\ DOMAIN log \subseteq DOMAIN sent /\ k <= Len(sent)
      /\ (\A j \in DOMAIN log : j < k) /\ DOMAIN log \in SUBSET Nat
  BY <1>1, <1>2
<1>4. <<k, what>> \in Nat \X Fates
  BY <1>1, <1>3
<1>5. /\ log' \in Seq(Nat \X Fates) /\ Len(log') = k /\ log'[k] = <<k, what>>
      /\ \A j \in 1..Len(log) : log'[j] = log[j]
  BY <1>1, <1>2, <1>4, AppendProperties
<1>6. DOMAIN log' = DOMAIN log \cup {k}
  <2>1. DOMAIN log' = 1..k
    BY <1>5, LenProperties
  <2> QED
    BY <1>2, <2>1
<1>7. /\ SubSeq(mReadBuffer.array, 1, n) = Bytes(k, n)
      /\ GoodBuffer(c) /\ Capacity(c) = Capacity(mReadBuffer)
      /\ AreMessages(Data(c) \o wire, k + 1..Len(sent), sent)
  BY <1>1, WholeMessage
<1> HIDE DEF k, n, c
<1>8. Framing'
  BY <1>1, <1>5, <1>7 DEF Framing
<1>9. SentOK'
  BY <1>1 DEF SentOK
<1>10. LogInOrder'
  <2> SUFFICES ASSUME NEW j \in DOMAIN log'
               PROVE  /\ log'[j][1] = j /\ sent[j].kind \notin {"bad", "malformed"}
                      /\ log'[j][2] = What(sent[j].kind)
    BY <1>1 DEF LogInOrder
  <2>1. CASE j \in DOMAIN log
    BY <1>2, <1>5, <2>1 DEF LogInOrder
  <2>2. CASE j = k
    BY <1>1, <1>5, <2>2
  <2> QED
    BY <1>6, <2>1, <2>2
<1>11. \A id : Answered(id)' <=> Answered(id) \/ sent[k].id = id
  BY <1>1, <1>6 DEF Answered
<1>12. \A id : Replied(id)' <=> Replied(id)
  BY <1>1 DEF Replied
<1>13. /\ sent[k].kind \in {"ddm", "reply", "error"} => FirstData' = FirstData \cup {k}
       /\ sent[k].kind \notin {"ddm", "reply", "error"} => FirstData' = FirstData
  BY <1>1, <1>6 DEF FirstData
<1>14. /\ what = "forwarded" => Forwarded' = Forwarded \cup {k}
       /\ what # "forwarded" => Forwarded' = Forwarded
  <2>1. \A j \in DOMAIN log : log'[j][2] = log[j][2]
    BY <1>2, <1>5
  <2>2. log'[k][2] = what
    BY <1>5
  <2> QED
    BY <1>3, <1>6, <2>1, <2>2 DEF Forwarded
<1>15. log' # <<>> /\ Len(log') <= Len(sent')
  BY <1>1, <1>2, <1>3, <1>5, <1>6
<1> QED
  BY <1>1, <1>2, <1>3, <1>5, <1>6, <1>7, <1>8, <1>9, <1>10, <1>11, <1>12, <1>13, <1>14,
     <1>15 DEF k, n, c

(* The first message with data settles what the client is taken for.       *)
LEMMA ReadyLemma ==
  ASSUME ReadyInv, mChan, mConnState \in {"NEED_DDM_PKT", "NOT_DDM", "READY"}, FirstData \in SUBSET Nat,
         NEW k \in Nat, \A j \in FirstData : j < k, FirstData' = FirstData \cup {k}, sent' = sent,
         \/ /\ mConnState = "NEED_DDM_PKT" /\ mConnState' = "READY"
            /\ readyCount' = readyCount + 1 /\ sent[k].kind # "error"
         \/ /\ mConnState = "NEED_DDM_PKT" /\ mConnState' = "NOT_DDM"
            /\ readyCount' = readyCount /\ sent[k].kind = "error"
         \/ mConnState # "NEED_DDM_PKT" /\ mConnState' = mConnState /\ readyCount' = readyCount
  PROVE  ReadyInv'
<1>1. FirstData' # {} /\ k \in FirstData'
  OBVIOUS
<1>2. ASSUME mConnState = "NEED_DDM_PKT" PROVE ReadyInv'
  <2>1. FirstData = {} /\ readyCount = 0
    BY <1>2 DEF ReadyInv, ReadyOnce
  <2>2. FirstData' = {k}
    BY <2>1
  <2>3. (\E i \in FirstData' : sent'[i].kind # "error" /\ \A j \in FirstData' : i <= j)
        <=> sent[k].kind # "error"
    BY <2>2
  <2>4. CASE mConnState' = "READY" /\ readyCount' = readyCount + 1 /\ sent[k].kind # "error"
    <3>1. readyCount' = 1
      BY <2>1, <2>4
    <3> QED
      BY <1>1, <2>3, <2>4, <3>1 DEF ReadyInv, ReadyOnce
  <2>5. CASE mConnState' = "NOT_DDM" /\ readyCount' = readyCount /\ sent[k].kind = "error"
    <3>1. readyCount' = 0
      BY <2>1, <2>5
    <3> QED
      BY <1>1, <2>3, <2>5, <3>1 DEF ReadyInv, ReadyOnce
  <2> QED
    BY <1>2, <2>4, <2>5
<1>3. ASSUME mConnState # "NEED_DDM_PKT" PROVE ReadyInv'
  <2>1. mConnState' = mConnState /\ readyCount' = readyCount /\ FirstData # {}
    BY <1>3 DEF ReadyInv
  <2>2. (\E i \in FirstData' : sent'[i].kind # "error" /\ \A j \in FirstData' : i <= j)
        <=> (\E i \in FirstData : sent[i].kind # "error" /\ \A j \in FirstData : i <= j)
    <3>1. PICK x \in FirstData : TRUE
      BY <2>1
    <3>2. x \in Nat /\ x < k /\ ~(k <= x)
      OBVIOUS
    <3>3. \A i \in FirstData : i <= k
      OBVIOUS
    <3>4. ASSUME NEW i \in FirstData', sent'[i].kind # "error", \A j \in FirstData' : i <= j
          PROVE  \E y \in FirstData : sent[y].kind # "error" /\ \A j \in FirstData : y <= j
      <4>1. i # k
        BY <3>2, <3>4
      <4> QED
        BY <3>4, <4>1
    <3>5. ASSUME NEW i \in FirstData, sent[i].kind # "error", \A j \in FirstData : i <= j
          PROVE  \E y \in FirstData' : sent'[y].kind # "error" /\ \A j \in FirstData' : y <= j
      BY <3>3, <3>5
    <3> QED
      BY <3>4, <3>5
  <2>3. ReadyOnce'
    BY <1>1, <2>1, <2>2 DEF ReadyInv, ReadyOnce
  <2> QED
    BY <1>1, <2>1, <2>3 DEF ReadyInv
<1> QED
  BY <1>2, <1>3

(* What taking a message keeps, whichever it is                            *)
LEMMA TakesKeeps ==
  ASSUME StreamInv, NEW what, Takes(what),
         vmRequests' \subseteq AllRequests, mOutstandingReqs' \subseteq AllRequests,
         mConnState' \in {"NEED_DDM_PKT", "NOT_DDM", "READY"}, mChan' \in BOOLEAN,
         GoodBuffer(debugger'.preData), debugger'.attached \in BOOLEAN,
         debugger'.got \in Seq(Byte),
         pc' \in {"select", "loop"}, readyCount' \in Nat, faults' \in 0..MaxFaults
  PROVE  TypeOK' /\ BuffersOK' /\ SentOK' /\ LogInOrder' /\ Framing'
<1> USE DEF StreamInv
<1>1. /\ log' \in Seq(Nat \X Fates) /\ GoodBuffer(mReadBuffer')
      /\ Capacity(mReadBuffer') = Capacity(mReadBuffer)
      /\ SentOK' /\ LogInOrder' /\ Framing'
  BY TakesEffect
<1>2. BuffersOK'
  BY <1>1 DEF BuffersOK
<1>3. /\ sent' \in Seq([kind : Kinds, id : AllRequests \cup {0}, len : Nat])
      /\ wire' \in Seq(Byte)
      /\ requests' \in [Requests -> {"new", "added", "sent", "failed", "dropped"}]
      /\ toReopen' \in BOOLEAN /\ undefined' \in BOOLEAN /\ messages' \in 0..MaxMessages
  BY DEF Takes, TypeOK
<1>4. /\ mReadBuffer' \in BufferType /\ debugger'.preData \in BufferType
      /\ mReadBuffer'.limit = Capacity(mReadBuffer') /\ mReadBuffer'.pos <= mReadBuffer'.limit
      /\ Capacity(mReadBuffer') <= MAX_BUF_SIZE
  BY <1>1 DEF GoodBuffer, TypeOK
<1>5. log' \in Seq(Nat \X {"handshake", "handled", "answered", "forwarded"})
  BY <1>1 DEF Fates
<1>6. {mChan', toReopen', undefined'} \subseteq BOOLEAN
  BY <1>3
<1>7. TypeOK'
  <2>1. mConnState' \in {"AWAIT_SHAKE", "NEED_DDM_PKT", "NOT_DDM", "READY"}
    OBVIOUS
  <2> QED
    BY <1>3, <1>4, <1>5, <1>6, <2>1 DEF TypeOK
<1> QED
  BY <1>1, <1>2, <1>7

(* The handshake keeps the invariant.                                      *)
LEMMA GoodHandshakeInv ==
  ASSUME StreamInv, R_GoodHandshake
  PROVE  StreamInv'
<1> USE DEF StreamInv
<1> DEFINE k == Len(log) + 1
<1>1. Takes("handshake")
  BY TakingSteps
<1>2. /\ k \in Nat /\ k \in DOMAIN sent /\ DOMAIN log \subseteq DOMAIN sent
         /\ Len(log') <= Len(sent') /\ log' # <<>>
      /\ \A id : Answered(id)' <=> Answered(id) \/ sent[k].id = id
      /\ \A id : Replied(id)' <=> Replied(id)
      /\ sent[k].kind \notin {"ddm", "reply", "error"} => FirstData' = FirstData
      /\ "handshake" # "forwarded" => Forwarded' = Forwarded
  BY <1>1, TakesEffect
<1>3. sent[k].kind = "handshake" /\ mConnState = "AWAIT_SHAKE" /\ mChan
  BY <1>1 DEF Takes, R_GoodHandshake
<1>4. sent[k].id = 0
  BY <1>2, <1>3 DEF SentOK, AnswerKinds
<1> HIDE DEF k
<1>5. /\ mConnState' = "NEED_DDM_PKT"
         /\ UNCHANGED <<sent, messages, wire, readyCount, requests, toReopen, undefined>>
      /\ debugger'.preData = debugger.preData /\ debugger'.got = debugger.got
      /\ debugger'.attached \in BOOLEAN
  <2>1. debugger.attached \in BOOLEAN
    BY DEF TypeOK
  <2>2. debugger' = debugger \/ debugger' = [debugger EXCEPT !.attached = FALSE]
    BY DEF R_GoodHandshake, DropClient
  <2>3. CASE debugger' = debugger
    BY <2>1, <2>3 DEF R_GoodHandshake, stopVars
  <2>4. CASE debugger' = [debugger EXCEPT !.attached = FALSE]
    <3>1. debugger'.preData = debugger.preData /\ debugger'.got = debugger.got
          /\ debugger'.attached \in {FALSE, debugger.attached}
      BY <2>4
    <3> QED
      BY <2>1, <3>1 DEF R_GoodHandshake, stopVars
  <2> QED
    BY <2>2, <2>3, <2>4
<1>6. HELO \in AllRequests /\ HELO # 0 /\ HELO \notin Requests
  BY ConstantFacts DEF AllRequests
<1>7. ~Replied(HELO) /\ ~Answered(HELO)
  <2>1. ~Replied(HELO)
    BY <1>3, <1>6 DEF OncePerRequest
  <2> QED
    BY <1>2, <2>1 DEF Replied, Answered
(* The two ways to go on: HELO is sent, or cannot be sent.                 *)
<1>8. \/ /\ mOutstandingReqs' = mOutstandingReqs \cup {HELO}
            /\ vmRequests' = vmRequests \cup {HELO}
         /\ mChan' = mChan /\ debugger' = debugger /\ pc' = pc /\ faults' = faults
      \/ /\ vmRequests' = vmRequests /\ mOutstandingReqs' = {} /\ mChan' = FALSE /\ pc' = "select"
         /\ Fault("send")
  BY DEF R_GoodHandshake, DropClient, CloseClient
<1>9. TypeOK' /\ BuffersOK' /\ SentOK' /\ LogInOrder' /\ Framing'
  <2>1. vmRequests' \subseteq AllRequests /\ mOutstandingReqs' \subseteq AllRequests
    BY <1>6, <1>8 DEF TypeOK
  <2>2. mChan' \in BOOLEAN /\ pc' \in {"select", "loop"} /\ readyCount' \in Nat
    BY <1>5, <1>8 DEF TypeOK
  <2>3. faults' \in 0..MaxFaults
    BY <1>8, FaultLemma DEF TypeOK
  <2>4. GoodBuffer(debugger'.preData) /\ debugger'.got \in Seq(Byte)
    BY <1>5 DEF BuffersOK, TypeOK
  <2> QED
    BY <1>1, <1>5, <2>1, <2>2, <2>3, <2>4, TakesKeeps
<1>10. OncePerRequest'
  <2>1. \A j, i \in DOMAIN sent' : sent'[j].id = sent'[i].id /\ sent'[j].id # 0 => j = i
    BY <1>5 DEF OncePerRequest
  <2>2. \A id \in vmRequests' : ~Replied(id)'
    BY <1>2, <1>7, <1>8 DEF OncePerRequest
  <2>3. ASSUME NEW id \in AllRequests, id \in vmRequests' \/ Replied(id)'
        PROVE  IF id = HELO THEN mConnState' # "AWAIT_SHAKE" ELSE requests'[id] = "sent"
    BY <1>2, <1>5, <1>8, <2>3 DEF OncePerRequest
  <2> QED
    BY <2>1, <2>2, <2>3 DEF OncePerRequest
<1>11. Control'
  <2>1. pc' = "loop" => mChan'
    BY <1>3, <1>8
  <2>2. mChan' /\ ~debugger'.attached => debugger'.got = <<>>
    BY <1>3, <1>8 DEF Control
  <2> QED
    BY <1>2, <1>5, <2>1, <2>2 DEF Control
<1>12. ReadyInv'
  <2>1. FirstData' = FirstData /\ FirstData = {}
    BY <1>2, <1>3 DEF ReadyInv
  <2> QED
    BY <1>3, <1>5, <2>1 DEF ReadyInv, ReadyOnce
<1>13. ForwardedWhole'
  BY <1>2, <1>3, <1>5 DEF ForwardedWhole
<1>14. OutstandingExact'
  <2> SUFFICES ASSUME mChan'
               PROVE  /\ \A id \in Requests :
                           id \in mOutstandingReqs' <=> requests'[id] \in {"added", "sent"}
                           /\ ~Answered(id)'
                      /\ HELO \in mOutstandingReqs' <=> mConnState' # "AWAIT_SHAKE"
                         /\ ~Answered(HELO)'
    BY DEF OutstandingExact
  <2>1. mOutstandingReqs' = mOutstandingReqs \cup {HELO}
    BY <1>8
  <2>2. \A id \in AllRequests : Answered(id)' <=> Answered(id)
    BY <1>2, <1>4, ConstantFacts
  <2>3. \A id \in Requests : id \in AllRequests /\ id # HELO
    BY <1>6 DEF AllRequests
  <2> QED
    BY <1>3, <1>5, <1>6, <1>7, <2>1, <2>2, <2>3 DEF OutstandingExact
<1> QED
  BY <1>9, <1>10, <1>11, <1>12, <1>13, <1>14

(* A packet taken in traffic keeps the invariant if the forwarded bytes,   *)
(* the outstanding requests and the state of the connection are kept       *)
(* accordingly.                                                            *)
LEMMA PacketTaken ==
  ASSUME StreamInv, PacketThere, NEW what, Takes(what), ReadyInv', ForwardedWhole',
         UNCHANGED <<vmRequests, mChan, pc, faults>>,
         mOutstandingReqs' = mOutstandingReqs \ {sent[Len(log) + 1].id},
         mConnState' \in {"NEED_DDM_PKT", "NOT_DDM", "READY"}, readyCount' \in Nat,
         GoodBuffer(debugger'.preData), debugger'.got \in Seq(Byte),
         debugger'.attached = debugger.attached,
         ~debugger.attached => debugger'.got = debugger.got
  PROVE  StreamInv'
<1> USE DEF StreamInv
<1> DEFINE k == Len(log) + 1
<1>1. /\ k \in Nat /\ k \in DOMAIN sent /\ DOMAIN log \subseteq DOMAIN sent
         /\ Len(log') <= Len(sent') /\ log' # <<>>
      /\ \A id : Answered(id)' <=> Answered(id) \/ sent[k].id = id
      /\ \A id : Replied(id)' <=> Replied(id)
  BY TakesEffect
<1>2. mChan /\ mConnState \in {"NEED_DDM_PKT", "NOT_DDM", "READY"}
  BY PacketFacts
<1>3. UNCHANGED <<sent, wire, messages, requests, toReopen, undefined>>
  BY DEF Takes
<1> HIDE DEF k
<1>4. TypeOK' /\ BuffersOK' /\ SentOK' /\ LogInOrder' /\ Framing'
  <2>1. vmRequests' \subseteq AllRequests /\ mOutstandingReqs' \subseteq AllRequests
    BY DEF TypeOK
  <2>2. mChan' \in BOOLEAN /\ debugger'.attached \in BOOLEAN /\ pc' \in {"select", "loop"}
        /\ faults' \in 0..MaxFaults
    BY DEF TypeOK
  <2> QED
    BY <2>1, <2>2, TakesKeeps
<1>5. OncePerRequest'
  BY <1>1, <1>2, <1>3 DEF OncePerRequest
<1>6. Control'
  BY <1>1, <1>2 DEF Control
<1>7. OutstandingExact'
  <2>1. /\ \A id \in Requests :
             id \in mOutstandingReqs <=> requests[id] \in {"added", "sent"} /\ ~Answered(id)
        /\ HELO \in mOutstandingReqs <=> ~Answered(HELO)
    BY <1>2 DEF OutstandingExact
  <2>2. \A id \in mOutstandingReqs : id # sent[k].id <=> id \in mOutstandingReqs'
    BY DEF k
  <2>3. mOutstandingReqs' \subseteq mOutstandingReqs
    OBVIOUS
  <2>4. HELO \in mOutstandingReqs' <=> mConnState' # "AWAIT_SHAKE" /\ ~Answered(HELO)'
    BY <1>1, <2>1, <2>2, <2>3
  <2>5. \A id \in Requests :
          id \in mOutstandingReqs' <=> requests'[id] \in {"added", "sent"} /\ ~Answered(id)'
    BY <1>1, <1>3, <2>1, <2>2, <2>3
  <2> QED
    BY <2>4, <2>5 DEF OutstandingExact
<1> QED
  BY <1>4, <1>5, <1>6, <1>7

(* The ids of requests are not 0, so that taking a message without one     *)
(* leaves the outstanding requests alone.                                  *)
LEMMA NoRequest ==
  ASSUME StreamInv
  PROVE  mOutstandingReqs = mOutstandingReqs \ {0}
  BY ConstantFacts DEF StreamInv, TypeOK

(* The messages that count for CLIENT_READY are among those taken before.  *)
LEMMA FirstDataFacts ==
  ASSUME StreamInv, NEW what, Takes(what)
  PROVE  FirstData \in SUBSET Nat /\ \A j \in FirstData : j < Len(log) + 1
<1>1. DOMAIN log \in SUBSET Nat /\ \A j \in DOMAIN log : j < Len(log) + 1
  BY TakesEffect
<1> QED
  BY <1>1 DEF FirstData

(* A DDM packet keeps the invariant.                                       *)
LEMMA DdmInv ==
  ASSUME StreamInv, R_Ddm
  PROVE  StreamInv'
<1> USE DEF StreamInv
<1> DEFINE k == Len(log) + 1
<1>1. Takes("handled") /\ PacketThere
  BY TakingSteps DEF R_Ddm
<1>2. /\ Foremost = k /\ mConnState \in {"NEED_DDM_PKT", "NOT_DDM", "READY"} /\ mChan
      /\ sent[k].kind \in AnswerKinds <=> sent[k].id # 0
  BY <1>1, PacketFacts
<1>3. sent[k].kind = "ddm" /\ sent[k].id = 0
  BY <1>2 DEF R_Ddm, AnswerKinds
<1>4. /\ k \in Nat /\ FirstData' = FirstData \cup {k} /\ Forwarded' = Forwarded
  <2>1. /\ k \in Nat /\ sent[k].kind \in {"ddm", "reply", "error"}
           => FirstData' = FirstData \cup {k}
        /\ "handled" # "forwarded" => Forwarded' = Forwarded
    BY <1>1, TakesEffect
  <2> QED
    BY <1>3, <2>1
<1>5. FirstData \in SUBSET Nat /\ \A j \in FirstData : j < k
  BY <1>1, FirstDataFacts
<1>6. UNCHANGED <<sent, vmRequests, mChan, pc, faults, mOutstandingReqs, debugger>>
  BY DEF R_Ddm, vmVars
<1> HIDE DEF k
<1>7. /\ mConnState' \in {"NEED_DDM_PKT", "NOT_DDM", "READY"} /\ readyCount' \in Nat
      /\ \/ mConnState = "NEED_DDM_PKT" /\ mConnState' = "READY" /\ readyCount' = readyCount + 1
         \/ mConnState # "NEED_DDM_PKT" /\ mConnState' = mConnState /\ readyCount' = readyCount
  BY <1>2 DEF R_Ddm, DdmSeen, TypeOK
<1>8. ReadyInv'
  BY <1>2, <1>3, <1>4, <1>5, <1>6, <1>7, ReadyLemma
<1>9. ForwardedWhole'
  BY <1>4, <1>6 DEF ForwardedWhole
<1>10. mOutstandingReqs' = mOutstandingReqs \ {sent[Len(log) + 1].id}
  BY <1>3, <1>6, NoRequest DEF k
<1>11. GoodBuffer(debugger'.preData) /\ debugger'.got \in Seq(Byte)
  BY <1>6 DEF BuffersOK, TypeOK
<1> QED
  BY <1>1, <1>6, <1>7, <1>8, <1>9, <1>10, <1>11, PacketTaken

(* The answer to a request keeps the invariant.                            *)
LEMMA ReplyInv ==
  ASSUME StreamInv, R_Reply
  PROVE  StreamInv'
<1> USE DEF StreamInv
<1> DEFINE k == Len(log) + 1
<1>1. Takes("answered") /\ PacketThere
  BY TakingSteps DEF R_Reply
<1>2. /\ Foremost = k /\ mConnState \in {"NEED_DDM_PKT", "NOT_DDM", "READY"} /\ mChan
  BY <1>1, PacketFacts
<1>3. /\ k \in Nat
      /\ "answered" # "forwarded" => Forwarded' = Forwarded
      /\ sent[k].kind \in {"ddm", "reply", "error"} => FirstData' = FirstData \cup {k}
      /\ sent[k].kind \notin {"ddm", "reply", "error"} => FirstData' = FirstData
  BY <1>1, TakesEffect
<1>4. FirstData \in SUBSET Nat /\ \A j \in FirstData : j < k
  BY <1>1, FirstDataFacts
<1>5. UNCHANGED <<sent, vmRequests, mChan, pc, faults, debugger>>
      /\ mOutstandingReqs' = mOutstandingReqs \ {sent[Foremost].id}
  BY DEF R_Reply, vmVars
<1>6. \/ sent[k].kind = "error" /\ PacketFailed
      \/ sent[k].kind = "empty" /\ UNCHANGED <<mConnState, readyCount>>
      \/ sent[k].kind = "reply" /\ DdmSeen
  BY <1>2 DEF R_Reply
<1> HIDE DEF k
<1>7. /\ mConnState' \in {"NEED_DDM_PKT", "NOT_DDM", "READY"} /\ readyCount' \in Nat
  BY <1>2, <1>6 DEF PacketFailed, DdmSeen, TypeOK
<1>8. ReadyInv'
  <2>1. CASE sent[k].kind = "error" /\ PacketFailed
    <3>1. \/ mConnState = "NEED_DDM_PKT" /\ mConnState' = "NOT_DDM" /\ readyCount' = readyCount
          \/ mConnState # "NEED_DDM_PKT" /\ mConnState' = mConnState /\ readyCount' = readyCount
      BY <2>1 DEF PacketFailed
    <3>2. FirstData' = FirstData \cup {k}
      BY <1>3, <2>1
    <3> QED
      BY <1>2, <1>3, <1>4, <1>5, <2>1, <3>1, <3>2, ReadyLemma
  <2>2. CASE sent[k].kind = "empty" /\ UNCHANGED <<mConnState, readyCount>>
    <3>1. FirstData' = FirstData
      BY <1>3, <2>2
    <3> QED
      BY <1>5, <2>2, <3>1 DEF ReadyInv, ReadyOnce
  <2>3. CASE sent[k].kind = "reply" /\ DdmSeen
    <3>1. \/ mConnState = "NEED_DDM_PKT" /\ mConnState' = "READY" /\ readyCount' = readyCount + 1
          \/ mConnState # "NEED_DDM_PKT" /\ mConnState' = mConnState /\ readyCount' = readyCount
      BY <2>3 DEF DdmSeen
    <3>2. FirstData' = FirstData \cup {k}
      BY <1>3, <2>3
    <3> QED
      BY <1>2, <1>3, <1>4, <1>5, <2>3, <3>1, <3>2, ReadyLemma
  <2> QED
    BY <1>6, <2>1, <2>2, <2>3
<1>9. ForwardedWhole'
  BY <1>3, <1>5 DEF ForwardedWhole
<1>10. mOutstandingReqs' = mOutstandingReqs \ {sent[Len(log) + 1].id}
  BY <1>2, <1>5 DEF k
<1>11. GoodBuffer(debugger'.preData) /\ debugger'.got \in Seq(Byte)
  BY <1>5 DEF BuffersOK, TypeOK
<1> QED
  BY <1>1, <1>5, <1>7, <1>8, <1>9, <1>10, <1>11, PacketTaken

(* What is forwarded: its bytes go behind those that were forwarded before.*)
LEMMA ForwardInv ==
  ASSUME StreamInv, R_Save \/ R_Forward
  PROVE  StreamInv'
<1> USE DEF StreamInv
<1> DEFINE k == Len(log) + 1  n == sent[k].len  d == Data(debugger.preData)  g == debugger.got
           u == Bytes(k, n)  s == d \o g
<1>1. Takes("forwarded") /\ PacketThere /\ ForDebugger
  BY TakingSteps DEF R_Save, R_Forward, ForDebugger
<1>2. /\ Foremost = k /\ mConnState \in {"NEED_DDM_PKT", "NOT_DDM", "READY"} /\ mChan
      /\ sent[k].kind \in AnswerKinds <=> sent[k].id # 0
      /\ sent[k].kind \in {"ddm", "event"} \cup AnswerKinds
      /\ sent[k].kind \in AnswerKinds => IsResponseToUs
      /\ k \in DOMAIN sent /\ n <= mReadBuffer.pos
  BY <1>1, PacketFacts
<1>3. sent[k].kind = "event" /\ sent[k].id = 0
  BY <1>1, <1>2 DEF ForDebugger, AnswerKinds
<1>4. /\ k \in Nat /\ FirstData' = FirstData /\ Forwarded' = Forwarded \cup {k}
      /\ DOMAIN log \in SUBSET Nat /\ DOMAIN log \subseteq DOMAIN sent
         /\ (\A j \in DOMAIN log : j < k)
      /\ SubSeq(mReadBuffer.array, 1, n) = u
  BY <1>1, <1>3, TakesEffect
<1>5. UNCHANGED <<sent, vmRequests, mChan, pc, faults, mOutstandingReqs, mConnState, readyCount>>
  BY DEF R_Save, R_Forward, vmVars, clientVars
<1>6. n \in Nat /\ \A j \in DOMAIN log : sent[j].len \in Nat
  BY <1>2, <1>4, Facts
<1>7. d \in Seq(Byte) /\ g \in Seq(Byte)
  BY DataLemma DEF BuffersOK, TypeOK
<1>8. u \in Seq(Byte) /\ Len(u) = n
  BY <1>4, <1>6, BytesLemma
<1>9. /\ Written(mReadBuffer, n) = u
      /\ \A c : PutBuffer(c, Moved(mReadBuffer, n)) = PutBytes(c, u)
  <2>1. GoodBuffer(mReadBuffer)
    BY DEF BuffersOK
  <2> QED
    BY <1>2, <1>4, <1>6, <2>1, AfterLemma
<1> HIDE DEF k, n, u, s
<1>10. /\ debugger'.attached = debugger.attached /\ GoodBuffer(debugger'.preData)
       /\ debugger'.got \in Seq(Byte) /\ (~debugger.attached => debugger'.got = g)
       /\ Data(debugger'.preData) \o debugger'.got = s \o u
  <2>1. CASE R_Save
    <3>1. n <= Space(debugger.preData) /\ ~debugger.attached
      BY <1>2, <2>1 DEF R_Save, n
    <3>2. debugger' = [debugger EXCEPT !.preData = PutBytes(debugger.preData, u)]
      BY <1>2, <1>9, <2>1 DEF R_Save, n
    <3>3. debugger'.attached = debugger.attached /\ debugger'.got = g
      BY <3>2
    <3>4. debugger'.preData = PutBytes(debugger.preData, u)
      <4>1. DOMAIN debugger' = DOMAIN debugger
        BY <3>2
      <4> QED
        BY <3>2 DEF TypeOK
    <3>5. LET c == PutBytes(debugger.preData, u)
          IN  GoodBuffer(c) /\ Capacity(c) = Capacity(debugger.preData) /\ Data(c) = d \o u
      BY <1>8, <3>1, PutLemma DEF BuffersOK
    <3>6. g = <<>>
      BY <1>2, <3>1 DEF Control
    <3> HIDE DEF d, g
    <3>7. (d \o u) \o g = s \o u
      BY <1>7, <1>8, <3>6, ConcatProperties, ConcatEmptySeq DEF s
    <3> QED
      BY <1>7, <3>3, <3>4, <3>5, <3>7
  <2>2. CASE R_Forward
    <3>1. debugger.attached
      BY <2>2 DEF R_Forward
    <3>2. debugger' = [debugger EXCEPT !.got = g \o u]
      BY <1>2, <1>9, <2>2 DEF R_Forward, n
    <3>3. debugger'.attached = debugger.attached /\ debugger'.preData = debugger.preData
      BY <3>2
    <3>4. debugger'.got = g \o u
      BY <3>2
    <3>5. GoodBuffer(debugger'.preData) /\ Data(debugger'.preData) = d
      BY <3>3 DEF BuffersOK
    <3> HIDE DEF d, g
    <3>6. g \o u \in Seq(Byte) /\ d \o (g \o u) = s \o u
      BY <1>7, <1>8, ConcatProperties, ConcatAssociative DEF s
    <3> QED
      BY <3>1, <3>3, <3>4, <3>5, <3>6
  <2> QED
    BY <2>1, <2>2
<1>11. ForwardedWhole'
  <2>1. Forwarded \in SUBSET Nat /\ (\A j \in Forwarded : sent[j].len \in Nat)
        /\ \A j \in Forwarded : j < k
    BY <1>4, <1>6 DEF Forwarded
  <2>2. AreMessages(s, Forwarded, sent)
    BY <1>2 DEF ForwardedWhole, s
  <2>3. s \in Seq(Byte)
    BY <1>7, ConcatProperties DEF s
  <2>4. AreMessages(s \o u, Forwarded \cup {k}, sent)
    BY <1>4, <1>6, <2>1, <2>2, <2>3, OneMoreMessage DEF u, n
  <2> QED
    BY <1>4, <1>5, <1>10, <2>4 DEF ForwardedWhole
<1>12. ReadyInv'
  BY <1>4, <1>5 DEF ReadyInv, ReadyOnce
<1>13. mOutstandingReqs' = mOutstandingReqs \ {sent[Len(log) + 1].id}
  BY <1>3, <1>5, NoRequest DEF k
<1>14. readyCount' \in Nat
  BY <1>5 DEF TypeOK
<1> QED
  BY <1>1, <1>2, <1>5, <1>10, <1>11, <1>12, <1>13, <1>14, PacketTaken

(* The threads of the application: they change what is outstanding.        *)
LEMMA AskInv ==
  ASSUME StreamInv, NEW id \in Requests, A_Thread(id)
  PROVE  StreamInv'
<1> USE DEF StreamInv
<1>1. /\ UNCHANGED <<sent, messages, wire, mReadBuffer, mConnState, mChan, readyCount, pc, log,
                     debugger, toReopen>>
      /\ \/ /\ requests[id] = "new" /\ UNCHANGED <<vmRequests, undefined, faults>>
            /\ \/ mChan /\ mOutstandingReqs' = mOutstandingReqs \cup {id}
                  /\ requests' = [requests EXCEPT ![id] = "added"]
               \/ ~mChan /\ mOutstandingReqs' = mOutstandingReqs
                  /\ requests' = [requests EXCEPT ![id] = "dropped"]
         \/ /\ requests[id] = "added" /\ mChan /\ UNCHANGED <<mOutstandingReqs, undefined, faults>>
            /\ requests' = [requests EXCEPT ![id] = "sent"] /\ vmRequests' = vmRequests \cup {id}
         \/ /\ requests[id] = "added" /\ mChan /\ Fault("send")
               /\ UNCHANGED <<vmRequests, undefined>>
            /\ requests' = [requests EXCEPT ![id] = "failed"]
               /\ mOutstandingReqs' = mOutstandingReqs \ {id}
         \/ /\ requests[id] = "added" /\ ~mChan /\ undefined' = TRUE
               /\ UNCHANGED <<vmRequests, mOutstandingReqs, faults>>
            /\ requests' = [requests EXCEPT ![id] = "failed"]
  <2>1. CASE A_AddRequestId(id)
    BY <2>1 DEF A_AddRequestId, vmVars, streamVars, stopVars
  <2>2. CASE A_Send(id)
    BY <2>2 DEF A_Send, streamVars, stopVars
  <2>3. CASE A_SendClosed(id)
    BY <2>3 DEF A_SendClosed, vmVars, streamVars, clientVars
  <2> QED
    BY <2>1, <2>2, <2>3 DEF A_Thread
<1>2. /\ requests' \in [Requests -> {"new", "added", "sent", "failed", "dropped"}]
      /\ \A r \in Requests : r # id => requests'[r] = requests[r]
      /\ requests'[id] \in {"added", "sent", "failed", "dropped"}
         /\ requests[id] \in {"new", "added"}
  BY <1>1 DEF TypeOK
<1>3. id \in AllRequests /\ id # HELO /\ id # 0
  BY ConstantFacts DEF AllRequests
<1>4. /\ SentOK' /\ LogInOrder' /\ FirstData' = FirstData /\ Forwarded' = Forwarded
      /\ \A r : Answered(r)' <=> Answered(r)
      /\ \A r : Replied(r)' <=> Replied(r)
  BY <1>1, SameLog
<1>5. ~Replied(id) /\ id \notin vmRequests
  BY <1>2, <1>3 DEF OncePerRequest
<1>6. ~Answered(id)
  BY <1>5, Facts DEF Control, Answered, Replied
<1>7. BuffersOK' /\ ReadyInv' /\ Framing' /\ ForwardedWhole' /\ Control'
  <2>1. BuffersOK' /\ Framing' /\ Control'
    BY <1>1 DEF BuffersOK, Framing, Control
  <2>2. ReadyInv'
    BY <1>1, <1>4 DEF ReadyInv, ReadyOnce
  <2>3. ForwardedWhole'
    BY <1>1, <1>4 DEF ForwardedWhole
  <2> QED
    BY <2>1, <2>2, <2>3
<1>8. TypeOK'
  <2>1. vmRequests' \subseteq AllRequests /\ mOutstandingReqs' \subseteq AllRequests
    BY <1>1, <1>3 DEF TypeOK
  <2>2. faults' \in 0..MaxFaults
    BY <1>1, FaultLemma DEF TypeOK
  <2>3. undefined' \in BOOLEAN
    BY <1>1 DEF TypeOK
  <2> QED
    BY <1>1, <1>2, <2>1, <2>2, <2>3 DEF TypeOK
<1>9. OncePerRequest'
  <2>1. \A j, k \in DOMAIN sent' : sent'[j].id = sent'[k].id /\ sent'[j].id # 0 => j = k
    BY <1>1 DEF OncePerRequest
  <2>2. \A r \in vmRequests' : ~Replied(r)'
    BY <1>1, <1>4, <1>5 DEF OncePerRequest
  <2>3. ASSUME NEW r \in AllRequests, r \in vmRequests' \/ Replied(r)'
        PROVE  IF r = HELO THEN mConnState' # "AWAIT_SHAKE" ELSE requests'[r] = "sent"
    <3>1. CASE r = id
      <4>1. id \in vmRequests'
        BY <1>4, <1>5, <2>3, <3>1
      <4>2. requests' = [requests EXCEPT ![id] = "sent"]
        BY <1>1, <1>5, <4>1
      <4> QED
        BY <1>3, <3>1, <4>2 DEF TypeOK
    <3>2. CASE r # id
      <4>1. r \in vmRequests \/ Replied(r)
        BY <1>1, <1>4, <2>3, <3>2
      <4>2. r # HELO => r \in Requests
        BY DEF AllRequests
      <4> QED
        BY <1>1, <1>2, <3>2, <4>1, <4>2 DEF OncePerRequest
    <3> QED
      BY <3>1, <3>2
  <2> QED
    BY <2>1, <2>2, <2>3 DEF OncePerRequest
<1>10. OutstandingExact'
  <2> SUFFICES ASSUME mChan'
               PROVE  /\ \A r \in Requests :
                           r \in mOutstandingReqs' <=> requests'[r] \in {"added", "sent"}
                           /\ ~Answered(r)'
                      /\ HELO \in mOutstandingReqs' <=> mConnState' # "AWAIT_SHAKE"
                         /\ ~Answered(HELO)'
    BY DEF OutstandingExact
  <2>1. mChan /\ mConnState' = mConnState
    BY <1>1
  <2>2. \A r : r # id => (r \in mOutstandingReqs' <=> r \in mOutstandingReqs)
    BY <1>1
  <2>3. id \in mOutstandingReqs' <=> requests'[id] \in {"added", "sent"}
    <3>1. requests[id] = "added" => id \in mOutstandingReqs
      BY <1>6, <2>1 DEF OutstandingExact
    <3> QED
      BY <1>1, <2>1, <3>1 DEF TypeOK
  <2>4. \A r \in Requests : r \in mOutstandingReqs' <=> requests'[r] \in {"added", "sent"}
        /\ ~Answered(r)'
    BY <1>2, <1>4, <1>6, <2>1, <2>2, <2>3 DEF OutstandingExact
  <2>5. HELO \in mOutstandingReqs' <=> mConnState' # "AWAIT_SHAKE" /\ ~Answered(HELO)'
    BY <1>3, <1>4, <2>1, <2>2 DEF OutstandingExact
  <2> QED
    BY <2>4, <2>5
<1> QED
  BY <1>4, <1>7, <1>8, <1>9, <1>10

(* Every step keeps the invariant.                                         *)
LEMMA NextStreamInv == StreamInv /\ [Next]_vars => StreamInv'
<1> SUFFICES ASSUME StreamInv, [Next]_vars PROVE StreamInv'
  OBVIOUS
<1>0. TypeOK
  BY DEF StreamInv
<1>1. CASE Vm
  BY <1>1, SendingSteps, SendsInv DEF StreamInv
<1>2. CASE \E n \in 1..Len(wire) : R_Read(n)
  BY <1>2, ReadsInv
<1>3. CASE R_ReadExceedsMax \/ R_ReadBeyondEnd \/ M_DropClient \/ R_BadPacket
           \/ R_SaveOverflows \/ R_HandlerThrows
  BY <1>0, <1>3, DroppingSteps, DropsInv
<1>10. CASE R_ForwardFails
  BY <1>10, FailingForward, DropsInv
<1>4. CASE R_HandshakeNotYet \/ R_BadHandshake \/ R_NoPacket \/ R_Accept \/ UNCHANGED vars
  BY <1>0, <1>4, TurningSteps, TurnsInv
<1>5. CASE R_GoodHandshake
  BY <1>5, GoodHandshakeInv
<1>6. CASE R_Ddm
  BY <1>6, DdmInv
<1>7. CASE R_Reply
  BY <1>7, ReplyInv
<1>8. CASE R_Save \/ R_Forward
  BY <1>8, ForwardInv
<1>9. CASE \E id \in Requests : A_Thread(id)
  BY <1>9, AskInv
<1> QED
  BY <1>1, <1>2, <1>3, <1>4, <1>5, <1>6, <1>7, <1>8, <1>9, <1>10
     DEF Next, R_Input, R_Loop

(* However the stream is cut into reads, and whatever fails: the invariant *)
(* holds.                                                                  *)
THEOREM StreamInvariant == Spec => []StreamInv
  BY InitStreamInv, NextStreamInv, PTL DEF Spec

(* TypeOK: in particular the read buffer never grows beyond MAX_BUF_SIZE,  *)
(* and its limit is its capacity between two operations.                   *)
THEOREM TypeCorrect == Spec => []TypeOK
<1>1. StreamInv => TypeOK
  BY DEF StreamInv
<1> QED
  BY <1>1, StreamInvariant, PTL

(* Framing: getJdwpPacket finds its promise kept.  The buffer starts with  *)
(* the first message that was not taken off, whatever was read, consumed,  *)
(* sent on or moved before, and however often the buffer grew.             *)
THEOREM FramingHolds == Spec => []Framing
<1>1. StreamInv => Framing
  BY DEF StreamInv
<1> QED
  BY <1>1, StreamInvariant, PTL

(* Dispatched: messages are taken off once each, in order, and go where    *)
(* they belong, the answers to the handlers of their requests; the         *)
(* handlers hear once that the client is ready.                            *)
THEOREM DispatchedRight == Spec => []Dispatched
<1>1. StreamInv => Dispatched
  BY DEF StreamInv, LogInOrder, ReadyInv, Dispatched, What
<1> QED
  BY <1>1, StreamInvariant, PTL

(* OutstandingExact: addRequestId and removeRequestId keep exactly the     *)
(* requests that were sent, or are about to be, and not answered, although *)
(* the answer may arrive before the thread that sends is back.             *)
THEOREM OutstandingIsExact == Spec => []OutstandingExact
<1>1. StreamInv => OutstandingExact
  BY DEF StreamInv
<1> QED
  BY <1>1, StreamInvariant, PTL

(* ForwardedWhole: while the client lives, what was forwarded is whole,    *)
(* byte for byte, each packet once and in order, in the buffer of saved    *)
(* packets and then with the debugger, whenever one attaches.  Whether     *)
(* what was saved is ever sent is another question (it is not).            *)
THEOREM ForwardedStaysWhole == Spec => []ForwardedWhole
<1>1. StreamInv => ForwardedWhole
  BY DEF StreamInv
<1> QED
  BY <1>1, StreamInvariant, PTL
===============================================================================
