-------------------------- MODULE SyncService_proofs --------------------------
(***************************************************************************)
(* The sync service, proved for any trees of files, any selections, any    *)
(* size of the buffer, any number of operations and faults, and whatever   *)
(* sizes the device cuts a file into.  In the order of the module:         *)
(*                                                                         *)
(*   what may be under way between the client and the device: the rest     *)
(*             of a push that was refused (Behind), a request (Queued), a  *)
(*             push (Pushed), an answer (FramesFrom), what a header says   *)
(*             (Announced); what a step of either does to these;           *)
(*   TypeInv, the types, and that every step keeps them;                   *)
(*   TalkInv, which says for each step of the client what is under way,    *)
(*             and that every step keeps it; SyncInv, which is both;       *)
(*   WholeInv, which says how much of each file has been transferred, and  *)
(*             that the walk over the entries forgets none;                *)
(*   the sums that the totals are (SumOf), and what a tree weighs (Weighs);*)
(*   ProgressInv, which says that what was announced is what has been      *)
(*             reported and what is left to report.                        *)
(*                                                                         *)
(* An answer is described by the set of the positions at which its frames  *)
(* begin, so that no recursion and no induction is needed for the talk.    *)
(* The sums do need induction, over the places of a sequence, and the      *)
(* weights, from the directories that have none in them; both are for one  *)
(* set, of the places or the directories where what is claimed fails.      *)
(***************************************************************************)
EXTENDS SyncService, SequenceTheorems, NaturalsInduction, WellFoundedInduction, TLAPS

(* What the assumption says.                                               *)
LEMMA Assumed ==
  /\ SYNC_DATA_MAX \in Nat /\ SYNC_DATA_MAX > 2
  /\ MaxOps \in Nat /\ MaxFaults \in Nat /\ MaxContent \in Nat
  /\ Kids \in [Dir -> Seq(Entry)] /\ Selections \subseteq Seq(Entry)
  /\ File \cap Dir = {} /\ File \cap Other = {} /\ Dir \cap Other = {} /\ Directory \notin Entry
  BY SyncAssumption DEF Directory

(* The identifiers are different, and are not numbers.                     *)
LEMMA Ids ==
  /\ Id("DATA") # Id("DONE") /\ Id("DATA") # Id("FAIL") /\ Id("DATA") # Id("OKAY")
  /\ Id("DONE") # Id("FAIL") /\ Id("FAIL") # Id("OKAY") /\ Id("STAT") # Id("DONE")
  /\ \A n \in Nat : Num(n) # Id("DONE") /\ Numbers(Num(n)) = {n}
  /\ \A m, n \in Nat : Num(m) = Num(n) => m = n
  BY DEF Id, Num, Numbers

-----------------------------------------------------------------------------
(* What the client and the device have of each other.  *)

(* d skips the first k of the requests us, the rest of a push it refused.  *)
Behind(d, us, k) ==
  /\ k = 0 => d.state = "idle"
  /\ k > 0 => /\ d.state = "receiving" /\ d.failed
              /\ us[k].name = "DONE" /\ \A i \in 1..k - 1 : us[i].name = "DATA"

(* The n words of ws behind the i-th are those of c behind the p-th.       *)
Matches(ws, i, c, p, n) == p + n <= Len(c) /\ \A j \in 1..n : ws[i + j] = c[p + j]

(* Nothing is to be read, and nothing to be answered.                      *)
Quiet(d, us, ws) == ws = <<>> /\ Behind(d, us, Len(us))

(* The last request is a name for f, which has not been taken.             *)
Queued(d, us, ws, name, f) ==
  /\ us # <<>> /\ Behind(d, us, Len(us) - 1) /\ ws = <<>>
  /\ us[Len(us)].name = name /\ us[Len(us)].file = f

(* The requests behind the k-th, up to the n-th, carry the words of c from *)
(* one place to another.                                                   *)
Carries(us, k, n, c, from, to) ==
  \E at \in [Nat -> Nat] :
    /\ at[k] = from /\ at[n] = to
    /\ \A i \in k + 1..n :
         /\ us[i].name = "DATA" /\ at[i] = at[i - 1] + Len(us[i].data)
         /\ Matches(us[i].data, 0, c, at[i - 1], Len(us[i].data))

(* The first n of the requests are of a push of f without its end, in      *)
(* which the words of c are sent up to a place; what the device has of     *)
(* them is in its tree t.                                                  *)
Pushed(d, us, ws, n, f, c, t, to) ==
  \/ /\ ws = <<>>
     /\ \E k \in 0..n - 1 : /\ Behind(d, us, k) /\ us[k + 1].name = "SEND" /\ us[k + 1].file = f
                            /\ Carries(us, k + 1, n, c, 0, to)
  \/ /\ d.state = "receiving" /\ d.failed /\ ws = Failure
     /\ \A i \in 1..n : us[i].name = "DATA"
  \/ /\ d.state = "receiving" /\ ~d.failed /\ ws = <<>> /\ d.file = f /\ f \in DOMAIN t
     /\ Matches(t[f], 0, c, 0, Len(t[f])) /\ Carries(us, 0, n, c, Len(t[f]), to)

(* The answer ends with the words behind the i-th.                         *)
LastAt(ws, i) ==
  \/ Len(ws) = i + 2 /\ ws[i + 1] = Id("DONE")
  \/ Len(ws) = i + 3 /\ ws[i + 1] = Id("FAIL") /\ ws[i + 2] = Num(1)
  \/ Len(ws) = i + 2 /\ ws[i + 1] = Id("DATA") /\ ws[i + 2] = Num(SYNC_DATA_MAX + 1)

(* The i-th word ends the answer so far, or a whole chunk of c behind its  *)
(* p-th word or the end is behind it.                                      *)
FrameAt(d, ws, c, i, p, at) ==
  \/ i = Len(ws) /\ d.state = "sending" /\ d.pos = p
  \/ d.state = "idle" /\ LastAt(ws, i) /\ (ws[i + 1] = Id("DONE") => p = Len(c))
  \/ \E n \in 1..SYNC_DATA_MAX :
       /\ p + n \in at[i + 2 + n] /\ i + 2 + n <= Len(ws)
       /\ ws[i + 1] = Id("DATA") /\ ws[i + 2] = Num(n) /\ Matches(ws, i + 2, c, p, n)

(* The words behind the k-th are the chunks of what c has behind the p-th  *)
(* word, and their end unless the device is still sending.                 *)
FramesFrom(d, ws, c, k, p) ==
  \E at \in [Nat -> SUBSET Nat] :
    p \in at[k] /\ \A i \in Nat : \A q \in at[i] : FrameAt(d, ws, c, i, q, at)

(* What a header announces is what there is of c behind its p-th word.     *)
Announced(d, ws, header, c, p) ==
  \/ \E n \in 1..SYNC_DATA_MAX :
       /\ header[1] = Id("DATA") /\ header[2] = Num(n)
       /\ Matches(ws, 0, c, p, n) /\ FramesFrom(d, ws, c, n, p + n)
  \/ header[1] = Id("DONE") /\ d.state = "idle" /\ ws = <<>> /\ p = Len(c)
  \/ header[1] = Id("FAIL") /\ header[2] = Num(1) /\ d.state = "idle" /\ Len(ws) = 1
  \/ /\ header[1] = Id("DATA") /\ header[2] = Num(SYNC_DATA_MAX + 1)
     /\ d.state = "idle" /\ ws = <<>>

-----------------------------------------------------------------------------
(* Another request is behind what is skipped.                              *)
LEMMA BehindAppend ==
  ASSUME NEW S, NEW us \in Seq(S), NEW r \in S, NEW d, NEW k \in 0..Len(us), Behind(d, us, k)
  PROVE  Behind(d, Append(us, r), k)
<1>1. \A i \in 1..Len(us) : Append(us, r)[i] = us[i]
  BY AppendProperties
<1>2. Len(us) \in Nat
  BY LenProperties
<1>3. ASSUME k > 0
      PROVE  Append(us, r)[k].name = "DONE" /\ \A i \in 1..k - 1 : Append(us, r)[i].name = "DATA"
  <2>1. k \in 1..Len(us) /\ \A i \in 1..k - 1 : i \in 1..Len(us)
    BY <1>2, <1>3
  <2> QED
    BY <1>1, <1>3, <2>1 DEF Behind
<1> QED
  BY <1>3 DEF Behind

(* A request behind what is skipped.                                       *)
LEMMA QueuedAppend ==
  ASSUME NEW S, NEW us \in Seq(S), NEW r \in S, NEW d, NEW ws, Quiet(d, us, ws)
  PROVE  Queued(d, Append(us, r), ws, r.name, r.file)
<1>1. Len(us) \in Nat /\ Len(Append(us, r)) = Len(us) + 1 /\ Append(us, r)[Len(us) + 1] = r
  BY AppendProperties, LenProperties
<1>2. Behind(d, Append(us, r), Len(us))
  BY <1>1, BehindAppend DEF Quiet
<1>3. Append(us, r) # <<>>
  BY <1>1, EmptySeq
<1>4. Len(Append(us, r)) - 1 = Len(us)
  BY <1>1
<1>5. /\ Append(us, r)[Len(Append(us, r))].name = r.name
      /\ Append(us, r)[Len(Append(us, r))].file = r.file
  BY <1>1
<1> QED
  BY <1>2, <1>3, <1>4, <1>5 DEF Queued, Quiet

(* Nothing is carried by no requests.                                      *)
LEMMA CarriesNone ==
  ASSUME NEW us, NEW k \in Nat, NEW c, NEW p \in Nat
  PROVE  /\ Carries(us, k, k, c, p, p)
         /\ \A q : Carries(us, k, k, c, p, q) => q = p
<1>1. /\ [i \in Nat |-> p] \in [Nat -> Nat] /\ [i \in Nat |-> p][k] = p
      /\ k + 1..k = {}
  OBVIOUS
<1>2. Carries(us, k, k, c, p, p)
  BY <1>1 DEF Carries
<1> QED
  BY <1>2 DEF Carries

(* One place is set.                                                       *)
LEMMA PlaceSet ==
  ASSUME NEW at \in [Nat -> Nat], NEW l \in Nat, NEW q \in Nat
  PROVE  /\ [at EXCEPT ![l] = q] \in [Nat -> Nat] /\ [at EXCEPT ![l] = q][l] = q
         /\ \A i \in Nat : i # l => [at EXCEPT ![l] = q][i] = at[i]
  OBVIOUS

(* Another chunk, or a request behind what is carried.                     *)
LEMMA CarriesAppend ==
  ASSUME NEW S, NEW us \in Seq(S), NEW r \in S, NEW c, NEW from, NEW to \in Nat,
         NEW k \in 0..Len(us), Carries(us, k, Len(us), c, from, to)
  PROVE  /\ Carries(Append(us, r), k, Len(us), c, from, to)
         /\ r.name = "DATA" /\ Len(r.data) \in Nat /\ Matches(r.data, 0, c, to, Len(r.data)) =>
              Carries(Append(us, r), k, Len(Append(us, r)), c, from, to + Len(r.data))
<1> DEFINE vs == Append(us, r)  n == Len(us)  m == Len(r.data)
<1>1. n \in Nat /\ Len(vs) = n + 1 /\ vs[n + 1] = r /\ \A i \in 1..n : vs[i] = us[i]
  BY AppendProperties, LenProperties
<1>2. k \in Nat /\ k <= n
  BY <1>1
<1> HIDE DEF vs
<1>3. PICK at \in [Nat -> Nat] :
        /\ at[k] = from /\ at[n] = to
        /\ \A i \in k + 1..n :
             /\ us[i].name = "DATA" /\ at[i] = at[i - 1] + Len(us[i].data)
             /\ Matches(us[i].data, 0, c, at[i - 1], Len(us[i].data))
  BY DEF Carries
<1> HIDE DEF n
<1>4. \A i \in k + 1..n : vs[i] = us[i]
  <2>1. \A i \in k + 1..n : i \in 1..n
    BY <1>1, <1>2
  <2> QED
    BY <1>1, <2>1
<1>5. Carries(vs, k, n, c, from, to)
  <2>1. \A i \in k + 1..n :
          /\ vs[i].name = "DATA" /\ at[i] = at[i - 1] + Len(vs[i].data)
          /\ Matches(vs[i].data, 0, c, at[i - 1], Len(vs[i].data))
    BY <1>3, <1>4
  <2> QED
    BY <1>3, <2>1 DEF Carries
<1>6. ASSUME r.name = "DATA", m \in Nat, Matches(r.data, 0, c, to, m)
      PROVE  Carries(vs, k, n + 1, c, from, to + m)
  <2> DEFINE bt == [at EXCEPT ![n + 1] = to + m]
  <2>1. /\ bt \in [Nat -> Nat] /\ bt[n + 1] = to + m
        /\ \A i \in Nat : i <= n => bt[i] = at[i]
    <3> DEFINE l == n + 1  q == to + m
    <3>1. q \in Nat /\ l \in Nat /\ \A i \in Nat : i <= n => i # l
      <4>1. m \in Nat /\ n \in Nat
        BY <1>1, <1>6
      <4> HIDE DEF m
      <4>2. l \in Nat /\ \A i \in Nat : i <= n => i # l
        BY <4>1
      <4>3. q \in Nat
        BY <4>1
      <4> QED
        BY <4>2, <4>3
    <3> HIDE DEF l, q
    <3>2. at \in [Nat -> Nat]
      BY <1>3
    <3>3. bt = [at EXCEPT ![l] = q]
      BY DEF bt, l, q
    <3> HIDE DEF bt
    <3>4. bt \in [Nat -> Nat] /\ bt[l] = q /\ \A i \in Nat : i <= n => bt[i] = at[i]
      BY <3>1, <3>2, <3>3, PlaceSet
    <3> QED
      BY <3>4 DEF l, q
  <2> HIDE DEF bt
  <2>2. bt[k] = from /\ bt[n] = to
    BY <1>1, <1>2, <1>3, <2>1
  <2>3. ASSUME NEW i \in k + 1..n + 1
        PROVE  /\ vs[i].name = "DATA" /\ bt[i] = bt[i - 1] + Len(vs[i].data)
               /\ Matches(vs[i].data, 0, c, bt[i - 1], Len(vs[i].data))
    <3>1. CASE i = n + 1
      <4>1. i - 1 = n
        BY <1>1, <3>1
      <4>2. vs[i] = r /\ bt[i] = to + m /\ bt[i - 1] = to
        BY <1>1, <2>1, <2>2, <3>1, <4>1
      <4> QED
        BY <1>6, <4>2
    <3>2. CASE i # n + 1
      <4>1. i \in k + 1..n /\ i \in Nat /\ i - 1 \in Nat /\ i <= n /\ i - 1 <= n
        BY <1>1, <1>2, <3>2
      <4>2. vs[i] = us[i] /\ bt[i] = at[i] /\ bt[i - 1] = at[i - 1]
        BY <1>4, <2>1, <4>1
      <4> QED
        BY <1>3, <4>1, <4>2
    <3> QED
      BY <3>1, <3>2
  <2> QED
    BY <2>1, <2>2, <2>3 DEF Carries
<1> QED
  BY <1>1, <1>5, <1>6 DEF vs, n

(* A request is taken: one in front of what is carried, or the first that  *)
(* carries.                                                                *)
LEMMA CarriesTail ==
  ASSUME NEW S, NEW us \in Seq(S), us # <<>>, NEW k \in Nat, NEW n \in k..Len(us), n >= 1,
         NEW c, NEW from, NEW to, Carries(us, k, n, c, from, to)
  PROVE  /\ k >= 1 => Carries(Tail(us), k - 1, n - 1, c, from, to)
         /\ k = 0 => /\ Head(us).name = "DATA"
                     /\ Matches(Head(us).data, 0, c, from, Len(Head(us).data))
                     /\ Carries(Tail(us), 0, n - 1, c, from + Len(Head(us).data), to)
<1> DEFINE vs == Tail(us)
<1>1. Len(us) \in Nat /\ Head(us) = us[1] /\ \A i \in 1..Len(us) - 1 : vs[i] = us[i + 1]
  BY HeadTailProperties, LenProperties
<1> HIDE DEF vs
<1>2. n \in Nat /\ n >= 1 /\ n <= Len(us) /\ k <= n
  BY <1>1
<1>3. PICK at \in [Nat -> Nat] :
        /\ at[k] = from /\ at[n] = to
        /\ \A i \in k + 1..n :
             /\ us[i].name = "DATA" /\ at[i] = at[i - 1] + Len(us[i].data)
             /\ Matches(us[i].data, 0, c, at[i - 1], Len(us[i].data))
  BY DEF Carries
<1> DEFINE bt == [i \in Nat |-> at[i + 1]]
<1>4. bt \in [Nat -> Nat] /\ \A i \in Nat : bt[i] = at[i + 1]
  <2>1. ASSUME NEW i \in Nat  PROVE i + 1 \in Nat /\ at[i + 1] \in Nat
    <3> DEFINE l == i + 1
    <3>1. l \in Nat
      OBVIOUS
    <3> HIDE DEF l
    <3>2. at[l] \in Nat
      BY <3>1
    <3> QED
      BY <3>1, <3>2 DEF l
  <2> QED
    BY <2>1
<1> HIDE DEF bt
<1>5. ASSUME NEW j \in Nat, j <= n - 1, j >= k - 1
      PROVE  Carries(vs, j, n - 1, c, at[j + 1], to)
  <2>1. bt[j] = at[j + 1] /\ bt[n - 1] = to
    <3>1. n - 1 \in Nat /\ n - 1 + 1 = n
      BY <1>2
    <3>2. bt[n - 1] = at[n - 1 + 1]
      BY <1>4, <3>1
    <3> QED
      BY <1>3, <1>4, <3>1, <3>2
  <2>2. ASSUME NEW i \in j + 1..n - 1
        PROVE  /\ vs[i].name = "DATA" /\ bt[i] = bt[i - 1] + Len(vs[i].data)
               /\ Matches(vs[i].data, 0, c, bt[i - 1], Len(vs[i].data))
    <3>1. /\ i \in Nat /\ i - 1 \in Nat /\ i - 1 + 1 = i /\ i \in 1..Len(us) - 1
          /\ i + 1 \in k + 1..n /\ i + 1 - 1 = i
      <4>1. i \in Nat /\ i >= j + 1 /\ i <= n - 1 /\ i >= 1 /\ i >= k
        BY <1>2, <1>5
      <4> QED
        BY <1>1, <1>2, <4>1
    <3>2. vs[i] = us[i + 1] /\ bt[i] = at[i + 1]
      BY <1>1, <1>4, <3>1
    <3>3. bt[i - 1] = at[i]
      <4>1. bt[i - 1] = at[i - 1 + 1]
        BY <1>4, <3>1
      <4> QED
        BY <3>1, <4>1
    <3>4. /\ us[i + 1].name = "DATA" /\ at[i + 1] = at[i] + Len(us[i + 1].data)
          /\ Matches(us[i + 1].data, 0, c, at[i], Len(us[i + 1].data))
      <4> DEFINE l == i + 1
      <4>1. l \in k + 1..n /\ l - 1 = i
        BY <3>1
      <4> HIDE DEF l
      <4>2. /\ us[l].name = "DATA" /\ at[l] = at[l - 1] + Len(us[l].data)
            /\ Matches(us[l].data, 0, c, at[l - 1], Len(us[l].data))
        BY <1>3, <4>1
      <4>3. /\ us[l].name = "DATA" /\ at[l] = at[i] + Len(us[l].data)
            /\ Matches(us[l].data, 0, c, at[i], Len(us[l].data))
        BY <4>1, <4>2
      <4> QED
        BY <4>3 DEF l
    <3> QED
      BY <3>2, <3>3, <3>4
  <2> QED
    BY <1>4, <2>1, <2>2 DEF Carries
<1>6. ASSUME k >= 1  PROVE Carries(vs, k - 1, n - 1, c, from, to)
  <2>1. k - 1 \in Nat /\ k - 1 <= n - 1 /\ k - 1 >= k - 1 /\ k - 1 + 1 = k
    BY <1>2, <1>6
  <2>2. Carries(vs, k - 1, n - 1, c, at[k - 1 + 1], to)
    BY <1>5, <2>1
  <2> QED
    BY <1>3, <2>1, <2>2
<1>7. ASSUME k = 0
      PROVE  /\ us[1].name = "DATA" /\ Matches(us[1].data, 0, c, from, Len(us[1].data))
             /\ Carries(vs, 0, n - 1, c, from + Len(us[1].data), to)
  <2>1. 1 \in k + 1..n /\ 1 - 1 = 0 /\ 0 <= n - 1 /\ 0 >= k - 1 /\ 0 + 1 = 1
    BY <1>2, <1>7
  <2>2. /\ us[1].name = "DATA" /\ at[1] = at[1 - 1] + Len(us[1].data)
        /\ Matches(us[1].data, 0, c, at[1 - 1], Len(us[1].data))
    BY <1>3, <2>1
  <2>3. at[0] = from
    BY <1>3, <1>7
  <2>4. Carries(vs, 0, n - 1, c, at[0 + 1], to)
    BY <1>5, <2>1
  <2> QED
    BY <2>1, <2>2, <2>3, <2>4
<1> QED
  BY <1>1, <1>6, <1>7 DEF vs

(* The first request of a push.                                            *)
LEMMA PushedSend ==
  ASSUME NEW S, NEW us \in Seq(S), NEW r \in S, NEW d, NEW ws, Quiet(d, us, ws), r.name = "SEND",
         NEW c, NEW t
  PROVE  Pushed(d, Append(us, r), ws, Len(Append(us, r)), r.file, c, t, 0)
<1>1. Len(us) \in Nat /\ Len(Append(us, r)) = Len(us) + 1 /\ Append(us, r)[Len(us) + 1] = r
  BY AppendProperties, LenProperties
<1>2. Behind(d, Append(us, r), Len(us))
  BY <1>1, BehindAppend DEF Quiet
<1> DEFINE vs == Append(us, r)  k == Len(us)
<1>3. /\ k \in 0..Len(vs) - 1 /\ Behind(d, vs, k)
      /\ vs[k + 1].name = "SEND" /\ vs[k + 1].file = r.file
  BY <1>1, <1>2
<1>4. k + 1 = Len(vs) /\ k + 1 \in Nat
  BY <1>1
<1> HIDE DEF vs, k
<1>5. Carries(vs, k + 1, k + 1, c, 0, 0)
  BY <1>4, CarriesNone
<1>6. ws = <<>>
  BY DEF Quiet
<1>7. Pushed(d, vs, ws, Len(vs), r.file, c, t, 0)
  BY <1>3, <1>4, <1>5, <1>6 DEF Pushed
<1> QED
  BY <1>7 DEF vs

(* What is behind the first n requests does not matter.                    *)
LEMMA PushedAppend ==
  ASSUME NEW S, NEW us \in Seq(S), NEW r \in S, NEW d, NEW ws, NEW f, NEW c, NEW t, NEW p \in Nat,
         Pushed(d, us, ws, Len(us), f, c, t, p)
  PROVE  /\ Pushed(d, Append(us, r), ws, Len(us), f, c, t, p)
         /\ r.name = "DATA" /\ Len(r.data) \in Nat /\ Matches(r.data, 0, c, p, Len(r.data)) =>
              Pushed(d, Append(us, r), ws, Len(Append(us, r)), f, c, t, p + Len(r.data))
<1> DEFINE vs == Append(us, r)  n == Len(us)  m == Len(r.data)
           more == r.name = "DATA" /\ m \in Nat /\ Matches(r.data, 0, c, p, m)
<1>1. n \in Nat /\ Len(vs) = n + 1 /\ vs[n + 1] = r /\ \A i \in 1..n : vs[i] = us[i]
  BY AppendProperties, LenProperties
<1>2. \A k \in 0..n : Behind(d, us, k) => Behind(d, vs, k)
  BY BehindAppend
<1>3. ASSUME NEW k \in 0..n, NEW from, Carries(us, k, n, c, from, p)
      PROVE  Carries(vs, k, n, c, from, p) /\ (more => Carries(vs, k, n + 1, c, from, p + m))
  <2>1. Carries(us, k, Len(us), c, from, p)
    BY <1>3
  <2>2. /\ Carries(Append(us, r), k, Len(us), c, from, p)
        /\ r.name = "DATA" /\ Len(r.data) \in Nat /\ Matches(r.data, 0, c, p, Len(r.data)) =>
             Carries(Append(us, r), k, Len(Append(us, r)), c, from, p + Len(r.data))
    BY <2>1, CarriesAppend
  <2> QED
    BY <1>1, <2>2
<1> HIDE DEF vs, more, m
<1>4. ASSUME ws = <<>>, NEW k \in 0..n - 1, Behind(d, us, k), us[k + 1].name = "SEND",
             us[k + 1].file = f, Carries(us, k + 1, n, c, 0, p)
      PROVE  /\ Pushed(d, vs, ws, n, f, c, t, p)
             /\ more => Pushed(d, vs, ws, n + 1, f, c, t, p + m)
  <2> HIDE DEF n
  <2>1. k + 1 \in 1..n /\ k + 1 \in 0..n /\ k \in 0..n /\ k \in 0..n + 1 - 1
    BY <1>1
  <2>2. Behind(d, vs, k) /\ vs[k + 1] = us[k + 1]
    BY <1>1, <1>2, <1>4, <2>1
  <2>3. Carries(vs, k + 1, n, c, 0, p) /\ (more => Carries(vs, k + 1, n + 1, c, 0, p + m))
    BY <1>3, <1>4, <2>1
  <2>4. Pushed(d, vs, ws, n, f, c, t, p)
    <3>1. \E j \in 0..n - 1 : /\ Behind(d, vs, j) /\ vs[j + 1].name = "SEND"
                              /\ vs[j + 1].file = f /\ Carries(vs, j + 1, n, c, 0, p)
      BY <1>4, <2>2, <2>3
    <3> QED
      BY <1>4, <3>1 DEF Pushed
  <2>5. ASSUME more  PROVE Pushed(d, vs, ws, n + 1, f, c, t, p + m)
    <3>1. Carries(vs, k + 1, n + 1, c, 0, p + m)
      BY <2>3, <2>5
    <3> DEFINE l == n + 1  q == p + m
    <3>5. Carries(vs, k + 1, l, c, 0, q)
      BY <3>1
    <3>6. k \in 0..l - 1
      BY <1>1, <2>1
    <3>2. k \in 0..l - 1 /\ Carries(vs, k + 1, l, c, 0, q)
      BY <3>5, <3>6
    <3> HIDE DEF l, q
    <3>3. \E j \in 0..l - 1 : /\ Behind(d, vs, j) /\ vs[j + 1].name = "SEND"
                              /\ vs[j + 1].file = f /\ Carries(vs, j + 1, l, c, 0, q)
      BY <1>4, <2>2, <3>2
    <3>4. Pushed(d, vs, ws, l, f, c, t, q)
      BY <1>4, <3>3 DEF Pushed
    <3> QED
      BY <3>4 DEF l, q
  <2> QED
    BY <2>4, <2>5
<1>5. CASE /\ d.state = "receiving" /\ d.failed /\ ws = Failure
           /\ \A i \in 1..n : us[i].name = "DATA"
  <2> HIDE DEF n
  <2>1. \A i \in 1..n : vs[i].name = "DATA"
    BY <1>1, <1>5
  <2>2. more => \A i \in 1..n + 1 : vs[i].name = "DATA"
    <3>1. \A i \in 1..n + 1 : i \in 1..n \/ i = n + 1
      BY <1>1
    <3> QED
      BY <1>1, <2>1, <3>1 DEF more
  <2> QED
    BY <1>1, <1>5, <2>1, <2>2 DEF Pushed, vs, n, m, more
<1>6. CASE /\ d.state = "receiving" /\ ~d.failed /\ ws = <<>> /\ d.file = f /\ f \in DOMAIN t
           /\ Matches(t[f], 0, c, 0, Len(t[f])) /\ Carries(us, 0, n, c, Len(t[f]), p)
  <2> HIDE DEF n
  <2>1. 0 \in 0..n
    BY <1>1
  <2>2. /\ Carries(vs, 0, n, c, Len(t[f]), p)
        /\ more => Carries(vs, 0, n + 1, c, Len(t[f]), p + m)
    BY <1>3, <1>6, <2>1
  <2> QED
    BY <1>1, <1>6, <2>2 DEF Pushed, vs, n, m, more
<1> QED
  BY <1>1, <1>4, <1>5, <1>6 DEF Pushed, vs, n, m, more

(* The device takes what it skips.                                         *)
LEMMA BehindTail ==
  ASSUME NEW S, NEW us \in Seq(S), us # <<>>, NEW d, NEW e, NEW k \in 1..Len(us), Behind(d, us, k),
         e.failed = d.failed, e.state = IF Head(us).name = "DONE" THEN "idle" ELSE d.state
  PROVE  Behind(e, Tail(us), k - 1) /\ Head(us).name \in {"DATA", "DONE"}
<1> DEFINE vs == Tail(us)
<1>1. Len(us) \in Nat /\ Len(vs) = Len(us) - 1 /\ Head(us) = us[1]
      /\ \A i \in 1..Len(us) - 1 : vs[i] = us[i + 1]
  BY HeadTailProperties, LenProperties
<1>2. k \in Nat /\ k >= 1 /\ k <= Len(us)
  BY <1>1
<1>3. /\ d.state = "receiving" /\ d.failed
      /\ us[k].name = "DONE" /\ \A i \in 1..k - 1 : us[i].name = "DATA"
  BY <1>2 DEF Behind
<1> HIDE DEF vs
<1>4. CASE k = 1
  <2>1. e.state = "idle" /\ Head(us).name = "DONE"
    BY <1>1, <1>3, <1>4
  <2> QED
    BY <1>4, <2>1 DEF Behind, vs
<1>5. CASE k > 1
  <2>1. 1 \in 1..k - 1
    BY <1>2, <1>5
  <2>2. Head(us).name = "DATA"
    BY <1>1, <1>3, <2>1
  <2>3. e.state = "receiving" /\ e.failed
    BY <1>3, <2>2
  <2>4. k - 1 \in 1..Len(us) - 1 /\ k - 1 + 1 = k /\ k - 1 > 0
    BY <1>1, <1>2, <1>5
  <2>5. vs[k - 1].name = "DONE"
    BY <1>1, <1>3, <2>4
  <2>6. ASSUME NEW i \in 1..k - 1 - 1  PROVE vs[i].name = "DATA"
    <3>1. i \in 1..Len(us) - 1 /\ i + 1 \in 1..k - 1
      BY <1>1, <1>2, <1>5
    <3> QED
      BY <1>1, <1>3, <3>1
  <2>7. ~(k - 1 = 0)
    BY <2>4
  <2> QED
    BY <2>2, <2>3, <2>4, <2>5, <2>6, <2>7 DEF Behind, vs
<1> QED
  BY <1>2, <1>4, <1>5

(* What is left of a sequence behind its first j elements.                 *)
LEMMA DropSeq ==
  ASSUME NEW S, NEW ws \in Seq(S), NEW j \in 0..Len(ws)
  PROVE  LET vs == SubSeq(ws, j + 1, Len(ws))
         IN  /\ vs \in Seq(S) /\ Len(vs) = Len(ws) - j
             /\ \A i \in 1..Len(ws) - j : vs[i] = ws[i + j]
<1> DEFINE n == Len(ws)  vs == SubSeq(ws, j + 1, n)
<1>1. n \in Nat /\ \A i \in 1..n : ws[i] \in S
  BY LenProperties, ElementOfSeq
<1> HIDE DEF n
<1>2. j \in Nat /\ j <= n
  BY <1>1 DEF n
<1>3. j + 1 \in Int /\ n \in Int /\ \A i \in j + 1..n : ws[i] \in S
  BY <1>1, <1>2
<1>4. /\ vs \in Seq(S)
      /\ Len(vs) = IF j + 1 <= n THEN n - (j + 1) + 1 ELSE 0
      /\ \A i \in 1..n - (j + 1) + 1 : vs[i] = ws[j + 1 + i - 1]
  BY <1>3, SubSeqProperties
<1> HIDE DEF vs
<1>5. Len(vs) = n - j
  BY <1>1, <1>2, <1>4
<1>6. ASSUME NEW i \in 1..n - j  PROVE vs[i] = ws[i + j]
  <2>1. i \in 1..n - (j + 1) + 1 /\ j + 1 + i - 1 = i + j
    BY <1>1, <1>2
  <2> QED
    BY <1>4, <2>1
<1> QED
  BY <1>4, <1>5, <1>6 DEF vs, n

(* The first j elements of a sequence.                                     *)
LEMMA TakeSeq ==
  ASSUME NEW S, NEW ws \in Seq(S), NEW j \in 0..Len(ws)
  PROVE  LET vs == SubSeq(ws, 1, j)
         IN  vs \in Seq(S) /\ Len(vs) = j /\ \A i \in 1..j : vs[i] = ws[i]
<1> DEFINE n == Len(ws)  vs == SubSeq(ws, 1, j)
<1>1. n \in Nat /\ \A i \in 1..n : ws[i] \in S
  BY LenProperties, ElementOfSeq
<1> HIDE DEF n
<1>2. j \in Nat /\ j <= n
  BY <1>1 DEF n
<1>3. 1 \in Int /\ j \in Int /\ \A i \in 1..j : ws[i] \in S
  BY <1>1, <1>2
<1>4. /\ vs \in Seq(S)
      /\ Len(vs) = IF 1 <= j THEN j - 1 + 1 ELSE 0
      /\ \A i \in 1..j - 1 + 1 : vs[i] = ws[1 + i - 1]
  BY <1>3, SubSeqProperties
<1> HIDE DEF vs
<1>5. Len(vs) = j
  BY <1>2, <1>4
<1>6. ASSUME NEW i \in 1..j  PROVE vs[i] = ws[i]
  <2>1. i \in 1..j - 1 + 1 /\ 1 + i - 1 = i
    BY <1>2
  <2> QED
    BY <1>4, <2>1
<1> QED
  BY <1>4, <1>5, <1>6 DEF vs

(* n elements behind the p-th.                                             *)
LEMMA SliceSeq ==
  ASSUME NEW S, NEW c \in Seq(S), NEW p \in Nat, NEW n \in Nat, p + n <= Len(c)
  PROVE  LET part == SubSeq(c, p + 1, p + n)
         IN  part \in Seq(S) /\ Len(part) = n /\ Matches(part, 0, c, p, n)
<1> DEFINE a == p + 1  b == p + n  part == SubSeq(c, a, b)
<1>1. Len(c) \in Nat /\ \A i \in 1..Len(c) : c[i] \in S
  BY LenProperties, ElementOfSeq
<1>2. a \in Int /\ b \in Int /\ \A i \in a..b : i \in 1..Len(c)
  BY <1>1
<1>3. \A i \in a..b : c[i] \in S
  BY <1>1, <1>2
<1>4. /\ n = 0 => ~(a <= b)
      /\ n > 0 => a <= b /\ b - a + 1 = n
      /\ \A i \in 1..n : i \in 1..b - a + 1 /\ a + i - 1 = p + i /\ 0 + i = i
  OBVIOUS
<1> HIDE DEF a, b
<1>5. /\ part \in Seq(S) /\ Len(part) = IF a <= b THEN b - a + 1 ELSE 0
      /\ \A i \in 1..b - a + 1 : part[i] = c[a + i - 1]
  BY <1>2, <1>3, SubSeqProperties
<1> HIDE DEF part
<1>6. Len(part) = n
  BY <1>4, <1>5
<1>7. \A i \in 1..n : part[0 + i] = c[p + i]
  BY <1>4, <1>5
<1>8. Matches(part, 0, c, p, n)
  BY <1>7 DEF Matches
<1> QED
  BY <1>5, <1>6, <1>8 DEF part, a, b

-----------------------------------------------------------------------------
(* Words are read.                                                         *)
LEMMA FramesDrop ==
  ASSUME NEW S, NEW ws \in Seq(S), NEW d, NEW c, NEW j \in 0..Len(ws), NEW k \in Nat, k >= j,
         NEW p, FramesFrom(d, ws, c, k, p)
  PROVE  FramesFrom(d, SubSeq(ws, j + 1, Len(ws)), c, k - j, p)
<1> DEFINE vs == SubSeq(ws, j + 1, Len(ws))
<1>1. PICK at \in [Nat -> SUBSET Nat] :
        p \in at[k] /\ \A i \in Nat : \A q \in at[i] : FrameAt(d, ws, c, i, q, at)
  BY DEF FramesFrom
<1> DEFINE bt == [i \in Nat |-> at[i + j]]
<1>2. Len(ws) \in Nat /\ j \in Nat /\ j <= Len(ws)
  BY LenProperties
<1>3. Len(vs) = Len(ws) - j /\ \A i \in 1..Len(vs) : vs[i] = ws[i + j]
  BY DropSeq
<1> HIDE DEF vs
<1>4. /\ k - j \in Nat /\ k - j + j = k /\ bt \in [Nat -> SUBSET Nat]
      /\ \A i \in Nat : i + j \in Nat /\ bt[i] = at[i + j]
  BY <1>1, <1>2
<1> HIDE DEF bt
<1>5. ASSUME NEW i \in Nat, NEW q \in bt[i]
      PROVE  FrameAt(d, vs, c, i, q, bt)
  <2> DEFINE m == i + j
  <2>1. m \in Nat /\ q \in at[m] /\ q \in Nat /\ m = i + j
    BY <1>1, <1>4
  <2> HIDE DEF m
  <2>2. CASE m = Len(ws) /\ d.state = "sending" /\ d.pos = q
    <3>1. i = Len(vs)
      <4>1. Len(vs) = Len(ws) - j
        BY <1>3
      <4> QED
        BY <1>2, <2>1, <2>2, <4>1
    <3> QED
      BY <2>2, <3>1 DEF FrameAt
  <2>3. CASE d.state = "idle" /\ LastAt(ws, m) /\ (ws[m + 1] = Id("DONE") => q = Len(c))
    <3>1. Len(ws) >= m + 2
      BY <1>2, <2>1, <2>3 DEF LastAt
    <3>2. i + 1 \in 1..Len(vs) /\ i + 2 \in 1..Len(vs) /\ i + 1 + j = m + 1 /\ i + 2 + j = m + 2
      <4>1. Len(vs) = Len(ws) - j
        BY <1>3
      <4> QED
        BY <1>2, <2>1, <3>1, <4>1
    <3>3. vs[i + 1] = ws[m + 1] /\ vs[i + 2] = ws[m + 2]
      BY <1>3, <3>2
    <3>4. (Len(ws) = m + 2 => Len(vs) = i + 2) /\ (Len(ws) = m + 3 => Len(vs) = i + 3)
      <4>1. Len(vs) = Len(ws) - j
        BY <1>3
      <4> QED
        BY <1>2, <2>1, <4>1
    <3>5. LastAt(vs, i)
      BY <2>3, <3>3, <3>4 DEF LastAt
    <3> QED
      BY <2>3, <3>3, <3>5 DEF FrameAt
  <2>4. ASSUME NEW n \in 1..SYNC_DATA_MAX,
               q + n \in at[m + 2 + n], m + 2 + n <= Len(ws),
               ws[m + 1] = Id("DATA"), ws[m + 2] = Num(n), Matches(ws, m + 2, c, q, n)
        PROVE  FrameAt(d, vs, c, i, q, bt)
    <3>1. n \in Nat /\ n >= 1
      BY Assumed
    <3>2. i + 2 + n \in Nat /\ i + 2 + n + j = m + 2 + n /\ i + 2 + n <= Len(vs)
      <4>1. Len(vs) = Len(ws) - j
        BY <1>3
      <4>2. i + 2 + n \in Nat /\ i + 2 + n + j = m + 2 + n
        BY <1>2, <2>1, <3>1
      <4>3. i + 2 + n + j <= Len(ws)
        BY <2>4, <4>2
      <4> QED
        BY <1>2, <4>1, <4>2, <4>3
    <3>3. bt[i + 2 + n] = at[m + 2 + n]
      <4> DEFINE l == i + 2 + n
      <4>1. l \in Nat /\ l + j = m + 2 + n
        BY <3>2
      <4> HIDE DEF l
      <4>2. bt[l] = at[l + j]
        BY <1>4, <4>1
      <4>3. bt[l] = at[m + 2 + n]
        BY <4>1, <4>2
      <4> QED
        BY <4>3 DEF l
    <3>4. i + 1 \in 1..Len(vs) /\ i + 2 \in 1..Len(vs) /\ i + 1 + j = m + 1 /\ i + 2 + j = m + 2
      <4>1. Len(vs) = Len(ws) - j
        BY <1>3
      <4> QED
        BY <1>2, <2>1, <2>4, <3>1, <4>1
    <3>5. vs[i + 1] = ws[m + 1] /\ vs[i + 2] = ws[m + 2]
      BY <1>3, <3>4
    <3>6. ASSUME NEW l \in 1..n  PROVE vs[i + 2 + l] = ws[m + 2 + l]
      <4>1. i + 2 + l \in 1..Len(vs) /\ i + 2 + l + j = m + 2 + l
        BY <1>2, <2>1, <3>1, <3>2
      <4> QED
        BY <1>3, <4>1
    <3>7. Matches(vs, i + 2, c, q, n)
      BY <2>4, <3>6 DEF Matches
    <3> QED
      BY <2>4, <3>2, <3>3, <3>5, <3>7 DEF FrameAt
  <2>5. FrameAt(d, ws, c, m, q, at)
    BY <1>1, <2>1
  <2> QED
    BY <2>2, <2>3, <2>4, <2>5 DEF FrameAt
<1>6. p \in bt[k - j]
  BY <1>1, <1>4
<1> QED
  BY <1>4, <1>5, <1>6 DEF FramesFrom, vs

-----------------------------------------------------------------------------
(* A sequence behind another.                                              *)
LEMMA ConcatSeq ==
  ASSUME NEW S, NEW ws \in Seq(S), NEW more \in Seq(S)
  PROVE  /\ ws \o more \in Seq(S) /\ Len(ws \o more) = Len(ws) + Len(more)
         /\ \A j \in 1..Len(ws) : (ws \o more)[j] = ws[j]
         /\ \A j \in 1..Len(more) : (ws \o more)[Len(ws) + j] = more[j]
<1> DEFINE vs == ws \o more  l == Len(ws)  m == Len(more)
<1>1. vs \in Seq(S) /\ Len(vs) = l + m
      /\ \A j \in 1..l + m : vs[j] = IF j <= l THEN ws[j] ELSE more[j - l]
  BY ConcatProperties
<1>2. l \in Nat /\ m \in Nat
  BY LenProperties
<1> HIDE DEF vs, l, m
<1>3. ASSUME NEW j \in 1..m  PROVE vs[l + j] = more[j]
  <2> DEFINE k == l + j
  <2>1. k \in 1..l + m /\ ~(k <= l) /\ k - l = j
    BY <1>2
  <2> HIDE DEF k
  <2>2. vs[k] = more[k - l]
    BY <1>1, <2>1
  <2>3. vs[k] = more[j]
    BY <2>1, <2>2
  <2> QED
    BY <2>3 DEF k
<1>4. ASSUME NEW j \in 1..l  PROVE vs[j] = ws[j]
  <2>1. j \in 1..l + m /\ j <= l
    BY <1>2
  <2> QED
    BY <1>1, <2>1
<1> QED
  BY <1>1, <1>3, <1>4 DEF vs, l, m

(* The beginning of a frame, whatever comes behind it.                     *)
LEMMA WholeFrame ==
  ASSUME NEW S, NEW ws \in Seq(S), NEW more \in Seq(S), NEW d, NEW e, NEW c, NEW i \in Nat,
         NEW p \in Nat, NEW at \in [Nat -> SUBSET Nat], NEW bt \in [Nat -> SUBSET Nat],
         \A k \in Nat : at[k] \subseteq bt[k],
         d.state # "idle", FrameAt(d, ws, c, i, p, at), ~(i = Len(ws) /\ d.state = "sending")
  PROVE  FrameAt(e, ws \o more, c, i, p, bt)
<1> DEFINE vs == ws \o more
<1>1. Len(ws) \in Nat /\ Len(more) \in Nat /\ Len(vs) = Len(ws) + Len(more)
      /\ \A j \in 1..Len(ws) : vs[j] = ws[j]
  BY ConcatProperties, LenProperties
<1> HIDE DEF vs
<1>2. PICK n \in 1..SYNC_DATA_MAX :
        /\ p + n \in at[i + 2 + n] /\ i + 2 + n <= Len(ws)
        /\ ws[i + 1] = Id("DATA") /\ ws[i + 2] = Num(n) /\ Matches(ws, i + 2, c, p, n)
  BY DEF FrameAt
<1>3. n \in Nat
  BY Assumed
<1>4. i + 1 \in 1..Len(ws) /\ i + 2 \in 1..Len(ws)
  BY <1>1, <1>2, <1>3
<1>5. i + 2 + n \in Nat /\ i + 2 + n <= Len(vs)
  BY <1>1, <1>2, <1>3
<1>6. p + n \in bt[i + 2 + n]
  BY <1>2, <1>5
<1>7. vs[i + 1] = Id("DATA") /\ vs[i + 2] = Num(n)
  BY <1>1, <1>2, <1>4
<1>8. \A j \in 1..n : vs[i + 2 + j] = ws[i + 2 + j]
  <2>1. SUFFICES ASSUME NEW j \in 1..n  PROVE vs[i + 2 + j] = ws[i + 2 + j]
    OBVIOUS
  <2> DEFINE k == i + 2 + j
  <2>2. k \in 1..Len(ws)
    BY <1>1, <1>2, <1>3
  <2> HIDE DEF k
  <2>3. vs[k] = ws[k]
    BY <1>1, <2>2
  <2> QED
    BY <2>3 DEF k
<1>9. Matches(vs, i + 2, c, p, n)
  BY <1>2, <1>8 DEF Matches
<1> QED
  BY <1>5, <1>6, <1>7, <1>9 DEF FrameAt, vs

(* Another chunk.                                                          *)
LEMMA FramesGrow ==
  ASSUME NEW S, NEW ws \in Seq(S), NEW content \in Seq(S), NEW d, NEW e, NEW c, NEW k \in Nat,
         NEW p \in Nat, Id("DATA") \in S, Num(Len(content)) \in S,
         Len(content) \in 1..SYNC_DATA_MAX, d.state = "sending", e.state = "sending",
         d.pos \in Nat, e.pos = d.pos + Len(content),
         Matches(content, 0, c, d.pos, Len(content)), FramesFrom(d, ws, c, k, p)
  PROVE  FramesFrom(e, ws \o (<<Id("DATA"), Num(Len(content))>> \o content), c, k, p)
<1> DEFINE n == Len(content)  more == <<Id("DATA"), Num(n)>> \o content  vs == ws \o more
           l == Len(ws)  r == d.pos
<1>1. PICK at \in [Nat -> SUBSET Nat] :
        p \in at[k] /\ \A i \in Nat : \A q \in at[i] : FrameAt(d, ws, c, i, q, at)
  BY DEF FramesFrom
<1> DEFINE bt == [at EXCEPT ![l + 2 + n] = @ \cup {r + n}]
<1>2. l \in Nat /\ n \in Nat /\ n \in 1..SYNC_DATA_MAX /\ r \in Nat
  BY LenProperties
<1>3. <<Id("DATA"), Num(n)>> \in Seq(S) /\ Len(<<Id("DATA"), Num(n)>>) = 2
  OBVIOUS
<1>4. Matches(content, 0, c, r, n)
  OBVIOUS
<1> HIDE DEF n, r
<1>5. /\ more \in Seq(S) /\ Len(more) = 2 + n /\ more[1] = Id("DATA") /\ more[2] = Num(n)
      /\ \A j \in 1..n : more[2 + j] = content[j]
  <2>1. more \in Seq(S) /\ Len(more) = 2 + n
    BY <1>2, <1>3, ConcatProperties DEF n
  <2>2. \A j \in 1..2 : more[j] = <<Id("DATA"), Num(n)>>[j]
    BY <1>3, ConcatProperties
  <2>3. \A j \in 1..n : more[2 + j] = content[j]
    <3> DEFINE head == <<Id("DATA"), Num(n)>>
    <3>1. head \in Seq(S)
      BY <1>3
    <3>2. Len(head) = 2
      BY <1>3
    <3> HIDE DEF head
    <3>3. \A j \in 1..Len(content) : (head \o content)[Len(head) + j] = content[j]
      <4> HIDE DEF more, vs, l, bt
      <4>1. content \in Seq(S)
        OBVIOUS
      <4> QED
        BY <3>1, <4>1, ConcatSeq
    <3>4. n = Len(content)
      BY DEF n
    <3>5. \A j \in 1..n : (head \o content)[2 + j] = content[j]
      BY <3>2, <3>3, <3>4
    <3> QED
      BY <3>5 DEF head
  <2>4. 1 \in 1..2 /\ 2 \in 1..2
    OBVIOUS
  <2>5. more[1] = Id("DATA") /\ more[2] = Num(n)
    <3> HIDE DEF more
    <3> QED
      BY <2>2, <2>4
  <2> HIDE DEF more
  <2> QED
    BY <2>1, <2>3, <2>5
<1> HIDE DEF more
<1>6. /\ Len(vs) = l + 2 + n /\ vs[l + 1] = Id("DATA") /\ vs[l + 2] = Num(n)
      /\ \A j \in 1..n : vs[l + 2 + j] = content[j]
  <2>1. Len(vs) = l + Len(more) /\ \A j \in 1..Len(more) : vs[l + j] = more[j]
    <3> SUFFICES /\ Len(ws \o more) = Len(ws) + Len(more)
                 /\ \A j \in 1..Len(more) : (ws \o more)[Len(ws) + j] = more[j]
      OBVIOUS
    <3>1. more \in Seq(S)
      BY <1>5
    <3> HIDE DEF bt, vs
    <3> QED
      BY <3>1, ConcatSeq
  <2> HIDE DEF vs
  <2>2. 1 \in 1..Len(more) /\ 2 \in 1..Len(more)
    BY <1>2, <1>5
  <2>3. ASSUME NEW j \in 1..n  PROVE vs[l + 2 + j] = content[j]
    <3>1. 2 + j \in 1..Len(more) /\ l + 2 + j = l + (2 + j)
      BY <1>2, <1>5
    <3> QED
      BY <1>5, <2>1, <3>1
  <2> QED
    BY <1>2, <1>5, <2>1, <2>2, <2>3
<1>7. /\ bt \in [Nat -> SUBSET Nat] /\ p \in bt[k] /\ \A i \in Nat : at[i] \subseteq bt[i]
      /\ r + n \in bt[l + 2 + n]
      /\ \A i \in Nat : \A q \in bt[i] : q \in at[i] \/ (i = l + 2 + n /\ q = r + n)
  <2> HIDE DEF l
  <2>1. l + 2 + n \in Nat /\ r + n \in Nat
    BY <1>2
  <2> QED
    BY <1>1, <2>1
<1>8. e.state = "sending" /\ e.pos = r + n /\ d.state = "sending" /\ d.pos = r
  BY DEF r, n
<1>9. ASSUME NEW i \in Nat, NEW q \in bt[i]  PROVE FrameAt(e, vs, c, i, q, bt)
  <2>1. CASE i = l + 2 + n /\ q = r + n
    BY <1>6, <1>8, <2>1 DEF FrameAt
  <2>2. CASE q \in at[i] /\ i = l
    <3>1. FrameAt(d, ws, c, i, q, at)
      BY <1>1, <2>2
    <3>2. q = r
      <4>1. ~(d.state = "idle")
        BY <1>8
      <4>2. \A m \in 1..SYNC_DATA_MAX : ~(i + 2 + m <= Len(ws))
        BY <1>2, <2>2, Assumed
      <4> QED
        BY <1>8, <3>1, <4>1, <4>2 DEF FrameAt
    <3>3. Matches(vs, i + 2, c, q, n)
      <4>1. \A j \in 1..n : 0 + j = j
        OBVIOUS
      <4>2. r + n <= Len(c) /\ \A j \in 1..n : vs[l + 2 + j] = c[r + j]
        BY <1>4, <1>6, <4>1 DEF Matches
      <4> HIDE DEF vs, l, bt
      <4> QED
        BY <2>2, <3>2, <4>2 DEF Matches
    <3> HIDE DEF bt, vs, l
    <3>4. /\ q + n \in bt[i + 2 + n] /\ i + 2 + n <= Len(vs)
          /\ vs[i + 1] = Id("DATA") /\ vs[i + 2] = Num(n)
      BY <1>2, <1>6, <1>7, <2>2, <3>2
    <3> QED
      BY <1>2, <3>3, <3>4 DEF FrameAt
  <2>3. CASE q \in at[i] /\ i # l
    <3>1. FrameAt(d, ws, c, i, q, at) /\ ~(i = Len(ws) /\ d.state = "sending")
          /\ d.state # "idle" /\ q \in Nat
      BY <1>1, <1>8, <2>3
    <3> HIDE DEF bt
    <3> QED
      BY <1>5, <1>7, <3>1, WholeFrame
  <2> QED
    BY <1>7, <2>1, <2>2, <2>3
<1>10. FramesFrom(e, vs, c, k, p)
  <2> HIDE DEF bt, vs
  <2> QED
    BY <1>7, <1>9 DEF FramesFrom
<1> QED
  BY <1>10 DEF vs, more, n

(* The end of the answer, or a failure on the way.                         *)
LEMMA FramesEnd ==
  ASSUME NEW S, NEW ws \in Seq(S), NEW last \in Seq(S), NEW d, NEW e, NEW c, NEW k \in Nat, NEW p,
         LastAt(last, 0), last[1] = Id("DONE") => d.pos = Len(c),
         d.state = "sending", e.state = "idle", FramesFrom(d, ws, c, k, p)
  PROVE  FramesFrom(e, ws \o last, c, k, p)
<1> DEFINE vs == ws \o last  l == Len(ws)
<1>1. PICK at \in [Nat -> SUBSET Nat] :
        p \in at[k] /\ \A i \in Nat : \A q \in at[i] : FrameAt(d, ws, c, i, q, at)
  BY DEF FramesFrom
<1>2. l \in Nat
  BY LenProperties
<1>3. Len(last) \in {2, 3}
  BY DEF LastAt
<1>4. Len(vs) = l + Len(last) /\ vs[l + 1] = last[1] /\ vs[l + 2] = last[2]
  <2>1. Len(vs) = l + Len(last) /\ \A j \in 1..Len(last) : vs[l + j] = last[j]
    BY ConcatSeq
  <2>2. 1 \in 1..Len(last) /\ 2 \in 1..Len(last)
    <3> DEFINE m == Len(last)
    <3>1. m = 2 \/ m = 3
      BY <1>3
    <3> HIDE DEF m
    <3>2. 1 \in 1..m /\ 2 \in 1..m
      BY <3>1
    <3> QED
      BY <3>2 DEF m
  <2> HIDE DEF vs, l
  <2> QED
    BY <2>1, <2>2
<1>5. LastAt(vs, l)
  <2> HIDE DEF vs, l
  <2>1. last[0 + 1] = last[1] /\ last[0 + 2] = last[2] /\ 0 + 2 = 2 /\ 0 + 3 = 3
    OBVIOUS
  <2>2. (Len(last) = 2 => Len(vs) = l + 2) /\ (Len(last) = 3 => Len(vs) = l + 3)
    BY <1>4
  <2> QED
    BY <1>4, <2>1, <2>2 DEF LastAt
<1>6. ASSUME NEW i \in Nat, NEW q \in at[i]  PROVE FrameAt(e, vs, c, i, q, at)
  <2>1. FrameAt(d, ws, c, i, q, at) /\ q \in Nat /\ d.state # "idle"
    BY <1>1
  <2>2. CASE i = l
    <3>1. \A m \in 1..SYNC_DATA_MAX : ~(i + 2 + m <= Len(ws))
      BY <1>2, <2>2, Assumed
    <3>2. d.pos = q
      BY <2>1, <3>1 DEF FrameAt
    <3>3. vs[i + 1] = Id("DONE") => q = Len(c)
      BY <1>4, <2>2, <3>2
    <3> HIDE DEF vs, l
    <3> QED
      BY <1>5, <2>2, <3>3 DEF FrameAt
  <2>3. CASE i # l
    <3>1. ~(i = Len(ws) /\ d.state = "sending")
      BY <2>3
    <3> QED
      BY <2>1, <3>1, WholeFrame
  <2> QED
    BY <2>2, <2>3
<1> HIDE DEF vs
<1> QED
  BY <1>1, <1>6 DEF FramesFrom, vs

(* The answer begins.                                                      *)
LEMMA FramesBegin ==
  ASSUME NEW d, NEW c
  PROVE  /\ d.state = "sending" /\ d.pos = 0 => FramesFrom(d, <<>>, c, 0, 0)
         /\ d.state = "idle" => FramesFrom(d, Failure, c, 0, 0)
<1> DEFINE at == [i \in Nat |-> IF i = 0 THEN {0} ELSE {}]
<1>1. at \in [Nat -> SUBSET Nat] /\ 0 \in at[0] /\ \A i \in Nat : \A q \in at[i] : i = 0 /\ q = 0
  OBVIOUS
<1> HIDE DEF at
<1>2. ASSUME d.state = "sending", d.pos = 0  PROVE FramesFrom(d, <<>>, c, 0, 0)
  <2>1. FrameAt(d, <<>>, c, 0, 0, at)
    BY <1>2 DEF FrameAt
  <2> QED
    BY <1>1, <2>1 DEF FramesFrom
<1>3. ASSUME d.state = "idle"  PROVE FramesFrom(d, Failure, c, 0, 0)
  <2>1. LastAt(Failure, 0) /\ Failure[0 + 1] # Id("DONE")
    BY Ids DEF LastAt, Failure
  <2>2. FrameAt(d, Failure, c, 0, 0, at)
    BY <1>3, <2>1 DEF FrameAt
  <2> QED
    BY <1>1, <2>2 DEF FramesFrom
<1> QED
  BY <1>2, <1>3

(* The device is sending as long as the answer is not all there.           *)
LEMMA FramesLong ==
  ASSUME NEW S, NEW ws \in Seq(S), NEW d, NEW c, NEW k \in Nat, NEW p, FramesFrom(d, ws, c, k, p)
  PROVE  /\ k <= Len(ws)
         /\ d.state # "sending" \/ Len(ws) # k => k + 2 <= Len(ws)
<1>1. PICK at \in [Nat -> SUBSET Nat] : FrameAt(d, ws, c, k, p, at)
  BY DEF FramesFrom
<1>2. Len(ws) \in Nat
  BY LenProperties
<1>3. CASE d.state = "idle" /\ LastAt(ws, k)
  <2>1. k + 2 <= Len(ws)
    BY <1>2, <1>3 DEF LastAt
  <2> QED
    BY <1>2, <2>1
<1>4. ASSUME NEW n \in 1..SYNC_DATA_MAX, k + 2 + n <= Len(ws)
      PROVE  k + 2 <= Len(ws) /\ k <= Len(ws)
  BY <1>2, <1>4, Assumed
<1>5. CASE k = Len(ws) /\ d.state = "sending"
  BY <1>2, <1>5
<1> QED
  BY <1>1, <1>2, <1>3, <1>4, <1>5 DEF FrameAt

(* A header is read.                                                       *)
LEMMA FramesHead ==
  ASSUME NEW S, NEW ws \in Seq(S), NEW d, NEW c, NEW p \in Nat, Len(ws) >= 2,
         FramesFrom(d, ws, c, 0, p)
  PROVE  Announced(d, SubSeq(ws, 3, Len(ws)), ws, c, p)
<1> DEFINE vs == SubSeq(ws, 3, Len(ws))
<1>1. PICK at \in [Nat -> SUBSET Nat] :
        p \in at[0] /\ \A i \in Nat : \A q \in at[i] : FrameAt(d, ws, c, i, q, at)
  BY DEF FramesFrom
<1>2. Len(ws) \in Nat /\ 2 \in 0..Len(ws)
  BY LenProperties
<1>3. 2 + 1 = 3 /\ 0 + 1 = 1 /\ 0 + 2 = 2 /\ 0 + 3 = 3
  OBVIOUS
<1>4. vs \in Seq(S) /\ Len(vs) = Len(ws) - 2 /\ \A i \in 1..Len(ws) - 2 : vs[i] = ws[i + 2]
  <2> DEFINE j == 2  us == SubSeq(ws, j + 1, Len(ws))
  <2>1. j \in 0..Len(ws) /\ j = 2 /\ vs = us
    BY <1>2, <1>3
  <2> HIDE DEF j
  <2>2. /\ us \in Seq(S) /\ Len(us) = Len(ws) - j
        /\ \A i \in 1..Len(ws) - j : us[i] = ws[i + j]
    BY <2>1, DropSeq
  <2> QED
    BY <2>1, <2>2
<1>5. CASE d.state = "idle" /\ LastAt(ws, 0) /\ (ws[0 + 1] = Id("DONE") => p = Len(c))
  <2> HIDE DEF vs
  <2>1. CASE Len(ws) = 2
    <3>1. Len(vs) = 0
      BY <1>4, <2>1
    <3>2. vs = <<>>
      BY <1>4, <3>1, EmptySeq
    <3>3. \/ ws[1] = Id("DONE") /\ p = Len(c)
          \/ ws[1] = Id("DATA") /\ ws[2] = Num(SYNC_DATA_MAX + 1)
      BY <1>3, <1>5, <2>1 DEF LastAt
    <3>4. Announced(d, vs, ws, c, p)
      BY <1>5, <3>2, <3>3 DEF Announced
    <3> QED
      BY <3>4 DEF vs
  <2>2. CASE Len(ws) = 3
    <3>1. Len(vs) = 1
      BY <1>4, <2>2
    <3>2. ws[1] = Id("FAIL") /\ ws[2] = Num(1)
      BY <1>3, <1>5, <2>2 DEF LastAt
    <3>3. Announced(d, vs, ws, c, p)
      BY <1>5, <3>1, <3>2 DEF Announced
    <3> QED
      BY <3>3 DEF vs
  <2> QED
    BY <1>5, <2>1, <2>2, <1>3 DEF LastAt
<1>6. ASSUME NEW n \in 1..SYNC_DATA_MAX, p + n \in at[0 + 2 + n], 0 + 2 + n <= Len(ws),
             ws[0 + 1] = Id("DATA"), ws[0 + 2] = Num(n), Matches(ws, 0 + 2, c, p, n)
      PROVE  Announced(d, SubSeq(ws, 3, Len(ws)), ws, c, p)
  <2>1. n \in Nat
    BY Assumed
  <2>2. 2 + n \in Nat /\ 2 + n >= 2 /\ 2 + n - 2 = n /\ p + n \in at[2 + n] /\ 2 + n <= Len(ws)
    BY <1>6, <2>1
  <2>3. FramesFrom(d, ws, c, 2 + n, p + n)
    BY <1>1, <2>2 DEF FramesFrom
  <2>4. FramesFrom(d, SubSeq(ws, 2 + 1, Len(ws)), c, 2 + n - 2, p + n)
    <3> DEFINE k == 2 + n
    <3>1. k \in Nat /\ k >= 2 /\ FramesFrom(d, ws, c, k, p + n)
      BY <2>2, <2>3
    <3> HIDE DEF k
    <3>2. FramesFrom(d, SubSeq(ws, 2 + 1, Len(ws)), c, k - 2, p + n)
      BY <1>2, <3>1, FramesDrop
    <3> QED
      BY <3>2 DEF k
  <2>5. FramesFrom(d, vs, c, n, p + n)
    BY <1>3, <2>2, <2>4
  <2>6. Matches(vs, 0, c, p, n)
    <3> HIDE DEF vs
    <3>1. ASSUME NEW j \in 1..n  PROVE vs[0 + j] = c[p + j]
      <4>1. j \in 1..Len(ws) - 2 /\ 0 + j = j /\ j + 2 = 0 + 2 + j
        BY <1>2, <2>1, <2>2
      <4>2. ws[0 + 2 + j] = c[p + j]
        BY <1>6 DEF Matches
      <4> QED
        BY <1>4, <4>1, <4>2
    <3>2. p + n <= Len(c)
      BY <1>6 DEF Matches
    <3> QED
      BY <3>1, <3>2 DEF Matches
  <2> HIDE DEF vs
  <2>7. ws[1] = Id("DATA") /\ ws[2] = Num(n)
    BY <1>3, <1>6
  <2>8. Announced(d, vs, ws, c, p)
    BY <2>5, <2>6, <2>7 DEF Announced
  <2> QED
    BY <2>8 DEF vs
<1>7. ~(0 = Len(ws))
  BY <1>2
<1>8. FrameAt(d, ws, c, 0, p, at)
  BY <1>1
<1> QED
  BY <1>5, <1>6, <1>7, <1>8 DEF FrameAt

-----------------------------------------------------------------------------
(* A tree of files.                                                        *)
IsTree(t) == DOMAIN t \subseteq File /\ \A f \in DOMAIN t : t[f] \in Seq(Words)

(* The requests there are.                                                 *)
Requests == [name : {"STAT", "RECV", "SEND", "DATA", "DONE"}, file : File, data : Seq(Words)]

(* The values of device.                                                   *)
Devices == [link : {"up", "gone", "stalled"}, state : {"idle", "sending", "receiving"},
            file : File \cup {"none"}, pos : Nat, failed : BOOLEAN]

(* The fields of an operation.                                             *)
OpFields == {"kind", "args", "pc", "result", "todo", "file", "header", "data", "len", "pos",
             "eof", "before"}

(* The steps of a pull of one file.                                        *)
Pulling == {"mode", "answer", "create", "transfer", "data", "next"}

(* The operation o is at a step at which it can be, with the local files   *)
(* h.                                                                      *)
OpOK(o, h) ==
  /\ DOMAIN o = OpFields
  /\ o.kind \in {"pull", "pullPath", "push"} /\ o.pc \in Steps
  /\ o.result \in Errors \cup {"none", "ok"}
  /\ o.todo \in Seq(Entry \cup {Directory}) /\ o.file \in File \cup {"none"}
  /\ o.header \in Seq(Words) /\ Len(o.header) = 2
  /\ o.data \in Seq(Words) /\ Len(o.data) \in {0, SYNC_DATA_MAX}
  /\ o.len \in Nat /\ o.pos \in Nat
  /\ o.pc \in Pulling \cup {"request"} => o.file \in File
  /\ o.pc \in Pulling => o.kind # "push"
  /\ o.kind = "push" => o.header[1] # Id("DONE")
  /\ o.kind = "push" /\ o.pc = "request" => o.file \in DOMAIN h
  /\ o.pc \in {"chunk", "result"} => o.kind = "push"
  /\ o.pc \in {"answer", "create"} => o.pos = 0
  /\ o.pc \in {"chunk", "transfer", "data", "next"} =>
       o.file \in DOMAIN h /\ o.pos <= Len(h[o.file])
  /\ o.pc \in {"answer", "create", "transfer", "data", "next"} => Len(o.data) = SYNC_DATA_MAX
  /\ o.pc \in {"data", "next"} => o.len <= SYNC_DATA_MAX

(* The variables but the operation have their types; the device has the    *)
(* file it sends.                                                          *)
WorldOK ==
  /\ channel \in {"closed", "open"} /\ buffered \in BOOLEAN
  /\ stream \in {"inStep", "interrupted", "late"}
  /\ ops \in 0..MaxOps /\ faults \in 0..MaxFaults
  /\ IsTree(host) /\ IsTree(files)
  /\ up \in Seq(Requests) /\ down \in Seq(Words)
  /\ device \in Devices
  /\ device.state = "sending" =>
       device.file \in DOMAIN files /\ device.pos <= Len(files[device.file])
  /\ channel = "closed" => op.pc = "idle"

(* The types of all the variables.                                         *)
TypeInv == WorldOK /\ OpOK(op, host)

-----------------------------------------------------------------------------
(* The words that there are.                                               *)
LEMMA WordKinds ==
  /\ \A name \in {"DATA", "DONE", "FAIL", "OKAY", "STAT"} : Id(name) \in Words
  /\ \A n \in Nat : Num(n) \in Words
  /\ Junk \in Words /\ <<"message", 1>> \in Words
  /\ Content \subseteq Words
  BY DEF Words, Num

(* A word that is read as a number is one.                                 *)
LEMMA NumbersType ==
  ASSUME NEW word \in Words
  PROVE  Numbers(word) \subseteq Nat
<1>1. CASE word[1] = "number"
  <2>1. word \notin Content
    BY <1>1, SyncAssumption
  <2>2. word \in {"number"} \X Nat
    BY <1>1, <2>1 DEF Words, Id, Junk
  <2> QED
    BY <1>1, <2>2 DEF Numbers
<1>2. CASE word[1] # "number"
  BY <1>2, Assumed DEF Numbers
<1> QED
  BY <1>1, <1>2

(* Zeros are words.                                                        *)
LEMMA ZerosType ==
  ASSUME NEW n \in Nat
  PROVE  Zeros(n) \in Seq(Words) /\ Len(Zeros(n)) = n /\ \A i \in 1..n : Zeros(n)[i] = Num(0)
<1>1. Num(0) \in Words
  BY WordKinds
<1>2. Zeros(n) = [i \in 1..n |-> Num(0)]
  BY DEF Zeros
<1> QED
  BY <1>1, <1>2

(* What a read receives.                                                   *)
LEMMA ReceivedType ==
  ASSUME down \in Seq(Words), NEW old \in Seq(Words), NEW n \in 0..Len(old)
  PROVE  /\ Received(n, old) \in Seq(Words) /\ Len(Received(n, old)) = Len(old)
         /\ Len(down) >= n => \A i \in 1..n : Received(n, old)[i] = down[i]
<1> DEFINE rest == SubSeq(old, n + 1, Len(old))
           start == [i \in 1..n |-> IF i <= Len(down) THEN down[i] ELSE Junk]
<1>1. rest \in Seq(Words) /\ Len(rest) = Len(old) - n
  BY DropSeq
<1>2. Len(old) \in Nat /\ Len(down) \in Nat /\ n \in Nat /\ n <= Len(old)
  BY LenProperties
<1> HIDE DEF rest
<1>3. CASE Len(down) >= n
  <2>1. n \in 0..Len(down)
    BY <1>2, <1>3
  <2> DEFINE first == SubSeq(down, 1, n)
  <2>2. first \in Seq(Words) /\ Len(first) = n /\ \A i \in 1..n : first[i] = down[i]
    BY <2>1, TakeSeq
  <2>3. Received(n, old) = first \o rest
    BY <1>3 DEF Received, rest
  <2> HIDE DEF first
  <2>4. first \o rest \in Seq(Words) /\ Len(first \o rest) = n + Len(rest)
        /\ \A i \in 1..n : (first \o rest)[i] = first[i]
    BY <1>1, <2>2, ConcatSeq
  <2> QED
    BY <1>1, <1>2, <2>2, <2>3, <2>4
<1>4. CASE ~(Len(down) >= n) /\ down = <<>>
  BY <1>4 DEF Received
<1>5. CASE ~(Len(down) >= n) /\ down # <<>>
  <2>1. Received(n, old) = start \o rest
    BY <1>5 DEF Received, rest
  <2>2. \A i \in 1..n : start[i] \in Words
    <3>1. \A i \in 1..n : i <= Len(down) => down[i] \in Words
      BY <1>2, ElementOfSeq
    <3> QED
      BY <3>1, WordKinds
  <2>3. start \in [1..n -> Words]
    BY <2>2
  <2> HIDE DEF start
  <2>4. start \in Seq(Words) /\ Len(start) = n
    BY <1>2, <2>3
  <2>5. start \o rest \in Seq(Words) /\ Len(start \o rest) = n + Len(rest)
    BY <1>1, <2>4, ConcatSeq
  <2> QED
    BY <1>1, <1>2, <1>5, <2>1, <2>5
<1> QED
  BY <1>3, <1>4, <1>5

(* What a read leaves: in step, there was enough to read, and it is gone.  *)
LEMMA ReadType ==
  ASSUME WorldOK, NEW n \in Nat, Read(n)
  PROVE  /\ down' \in Seq(Words) /\ stream' \in {"inStep", "interrupted", "late"}
         /\ faults' \in 0..MaxFaults
         /\ stream' = "inStep" =>
              stream = "inStep" /\ Len(down) >= n /\ down' = SubSeq(down, n + 1, Len(down))
<1>1. down \in Seq(Words) /\ faults \in 0..MaxFaults /\ Len(down) \in Nat
      /\ stream \in {"inStep", "interrupted", "late"}
  BY LenProperties DEF WorldOK
<1>2. CASE Len(down) >= n
  <2>1. n \in 0..Len(down)
    BY <1>1, <1>2
  <2>2. SubSeq(down, n + 1, Len(down)) \in Seq(Words)
    BY <1>1, <2>1, DropSeq
  <2>3. down' = SubSeq(down, n + 1, Len(down)) /\ stream' = stream /\ faults' = faults
    BY <1>2 DEF Read
  <2> QED
    BY <1>1, <1>2, <2>2, <2>3
<1>3. CASE ~(Len(down) >= n)
  <2>1. down' = <<>> /\ stream' \in {"late", "interrupted"}
    BY <1>3 DEF Read
  <2>2. faults' = faults \/ (faults < MaxFaults /\ faults' = faults + 1)
    BY <1>3 DEF Read, Fault
  <2>3. faults' \in 0..MaxFaults
    BY <1>1, <2>2, Assumed
  <2> QED
    BY <2>1, <2>3
<1> QED
  BY <1>2, <1>3

(* A fault leaves the count of the faults in its bounds.                   *)
LEMMA FaultType ==
  ASSUME WorldOK, NEW kind, Fault(kind)
  PROVE  faults' \in 0..MaxFaults
<1>1. faults \in 0..MaxFaults /\ faults < MaxFaults /\ faults' = faults + 1
  BY DEF WorldOK, Fault
<1> QED
  BY <1>1, Assumed

(* Requests are requests.                                                  *)
LEMMA RequestType ==
  ASSUME NEW f \in File, NEW name \in {"STAT", "RECV", "SEND", "DATA", "DONE"}
  PROVE  Request(name, f) \in Requests /\ Request(name, f).name = name
  BY DEF Request, Requests

-----------------------------------------------------------------------------
(* A new operation, field by field.                                        *)
LEMMA OpMade ==
  ASSUME NEW h, NEW o, DOMAIN o = OpFields,
         o.kind \in {"pull", "pullPath", "push"},
         o.pc \in {"idle", "entries", "request", "mode"},
         o.result \in Errors \cup {"none", "ok"}, o.todo \in Seq(Entry \cup {Directory}),
         o.file \in File \cup {"none"},
         o.header = Zeros(2), o.data = <<>>, o.len = 0, o.pos = 0, o.eof = FALSE,
         o.pc \in {"request", "mode"} => o.file \in File,
         o.pc = "mode" => o.kind # "push",
         o.kind = "push" /\ o.pc = "request" => o.file \in DOMAIN h
  PROVE  OpOK(o, h)
<1>1. Zeros(2) \in Seq(Words) /\ Len(Zeros(2)) = 2 /\ Zeros(2)[1] = Num(0)
  <2>1. 2 \in Nat /\ 1 \in 1..2
    OBVIOUS
  <2> QED
    BY <2>1, ZerosType
<1>2. Zeros(2)[1] # Id("DONE")
  BY <1>1, Ids
<1>5. <<>> \in Seq(Words) /\ Len(<<>>) = 0
  OBVIOUS
<1>6. o.pc \in Steps
      /\ o.pc \notin {"chunk", "result", "answer", "create", "transfer", "data", "next"}
  BY DEF Steps
<1> QED
  BY <1>1, <1>2, <1>5, <1>6 DEF OpOK, Pulling

(* An operation between its steps.                                         *)
LEMMA OpWaiting ==
  ASSUME NEW h, NEW kind \in {"pull", "push"}, NEW args \in Seq(Entry)
  PROVE  LET o == NewOp(kind, args, "entries") IN OpOK(o, h) /\ o.pc = "entries"
<1> DEFINE n == NewOp(kind, args, "entries")
<1>1. /\ DOMAIN n = OpFields
      /\ n.kind = kind /\ n.pc = "entries" /\ n.result = "none" /\ n.todo = args
      /\ n.file = "none" /\ n.header = Zeros(2) /\ n.data = <<>> /\ n.len = 0
      /\ n.pos = 0 /\ n.eof = FALSE
  BY DEF NewOp, OpFields
<1>2. args \in Seq(Entry \cup {Directory})
  OBVIOUS
<1> HIDE DEF n
<1>3. OpOK(n, h)
  BY <1>1, <1>2, OpMade
<1> QED
  BY <1>1, <1>3 DEF n

(* An operation that is refused before it begins.                          *)
LEMMA OpRefused ==
  ASSUME NEW h, NEW kind \in {"pull", "push"}, NEW args \in Seq(Entry), NEW error \in Errors
  PROVE  LET o == [NewOp(kind, args, "idle") EXCEPT !.result = error]
         IN  OpOK(o, h) /\ o.pc = "idle"
<1> DEFINE n == NewOp(kind, args, "idle")  o == [n EXCEPT !.result = error]
<1>1. /\ DOMAIN n = OpFields
      /\ n.kind = kind /\ n.pc = "idle" /\ n.todo = args
      /\ n.file = "none" /\ n.header = Zeros(2) /\ n.data = <<>> /\ n.len = 0
      /\ n.pos = 0 /\ n.eof = FALSE
  BY DEF NewOp, OpFields
<1>2. args \in Seq(Entry \cup {Directory})
  OBVIOUS
<1> HIDE DEF n
<1>3. /\ DOMAIN o = OpFields
      /\ o.kind = kind /\ o.pc = "idle" /\ o.result = error /\ o.todo = args
      /\ o.file = "none" /\ o.header = Zeros(2) /\ o.data = <<>> /\ o.len = 0
      /\ o.pos = 0 /\ o.eof = FALSE
  BY <1>1 DEF OpFields
<1> HIDE DEF o
<1>4. OpOK(o, h)
  BY <1>2, <1>3, OpMade
<1> QED
  BY <1>3, <1>4 DEF o, n

(* An operation on one file.                                               *)
LEMMA OpOnFile ==
  ASSUME NEW h, NEW kind \in {"pull", "pullPath", "push"}, NEW args \in Seq(Entry),
         NEW pc \in {"request", "mode"}, NEW f \in File,
         pc = "mode" => kind # "push", kind = "push" => f \in DOMAIN h
  PROVE  LET o == [NewOp(kind, args, pc) EXCEPT !.todo = <<>>, !.file = f]
         IN  OpOK(o, h) /\ o.pc = pc
<1> DEFINE n == NewOp(kind, args, pc)  o == [n EXCEPT !.todo = <<>>, !.file = f]
<1>1. /\ DOMAIN n = OpFields
      /\ n.kind = kind /\ n.pc = pc /\ n.result = "none"
      /\ n.header = Zeros(2) /\ n.data = <<>> /\ n.len = 0
      /\ n.pos = 0 /\ n.eof = FALSE
  BY DEF NewOp, OpFields
<1>2. <<>> \in Seq(Entry \cup {Directory})
  OBVIOUS
<1> HIDE DEF n
<1>3. /\ DOMAIN o = OpFields
      /\ o.kind = kind /\ o.pc = pc /\ o.result = "none" /\ o.todo = <<>>
      /\ o.file = f /\ o.header = Zeros(2) /\ o.data = <<>> /\ o.len = 0
      /\ o.pos = 0 /\ o.eof = FALSE
  BY <1>1 DEF OpFields
<1> HIDE DEF o
<1>4. OpOK(o, h)
  BY <1>2, <1>3, OpMade
<1> QED
  BY <1>3, <1>4 DEF o, n

(* The end of the operation.                                               *)
LEMMA OpEnded ==
  ASSUME NEW h, OpOK(op, host), NEW result \in Errors \cup {"ok"}
  PROVE  LET o == Ended(result) IN OpOK(o, h) /\ o.pc = "idle"
<1> DEFINE n == NewOp(op.kind, op.args, "idle")
           o == [n EXCEPT !.result = result, !.todo = <<>>, !.before = op.before]
<1>1. /\ DOMAIN n = OpFields
      /\ n.kind = op.kind /\ n.pc = "idle" /\ n.result = "none" /\ n.todo = op.args
      /\ n.file = "none" /\ n.header = Zeros(2) /\ n.data = <<>> /\ n.len = 0
      /\ n.pos = 0 /\ n.eof = FALSE
  BY DEF NewOp, OpFields
<1>2. op.kind \in {"pull", "pullPath", "push"} /\ <<>> \in Seq(Entry \cup {Directory})
  BY DEF OpOK
<1> HIDE DEF n
<1>3. /\ DOMAIN o = OpFields
      /\ o.kind = op.kind /\ o.pc = "idle" /\ o.result = result /\ o.todo = <<>>
      /\ o.file = "none" /\ o.header = Zeros(2) /\ o.data = <<>> /\ o.len = 0
      /\ o.pos = 0 /\ o.eof = FALSE
  BY <1>1 DEF OpFields
<1> HIDE DEF o
<1>4. OpOK(o, h)
  BY <1>2, <1>3, OpMade
<1> QED
  BY <1>3, <1>4 DEF o, n, Ended

-----------------------------------------------------------------------------
(* The parts of an operation that Goto leaves.                             *)
OpData(o) ==
  /\ DOMAIN o = OpFields
  /\ o.kind \in {"pull", "pullPath", "push"} /\ o.pc \in Steps
  /\ o.result \in Errors \cup {"none", "ok"}
  /\ o.todo \in Seq(Entry \cup {Directory}) /\ o.file \in File \cup {"none"}
  /\ o.header \in Seq(Words) /\ Len(o.header) = 2
  /\ o.data \in Seq(Words) /\ Len(o.data) \in {0, SYNC_DATA_MAX}
  /\ o.len \in Nat /\ o.pos \in Nat

(* Another step, with the same data.                                       *)
LEMMA OpGoto ==
  ASSUME NEW g, OpOK(op, host), NEW pc \in Steps, Goto(pc),
         pc \in Pulling \cup {"request"} => op.file \in File /\ op.kind # "push",
         pc \notin {"answer", "create", "chunk", "data", "next"},
         pc = "result" => op.kind = "push",
         pc = "transfer" => /\ Len(op.data) = SYNC_DATA_MAX
                            /\ op.file \in DOMAIN g /\ op.pos <= Len(g[op.file])
  PROVE  OpOK(op', g) /\ op'.pc = pc /\ op'.header = op.header /\ op'.len = op.len
<1>1. OpData(op)
  BY DEF OpOK, OpData
<1>2. op' = [op EXCEPT !.pc = pc]
  BY DEF Goto
<1>3. /\ op'.kind = op.kind /\ op'.pc = pc /\ op'.file = op.file /\ op'.header = op.header
      /\ op'.len = op.len /\ op'.data = op.data /\ op'.pos = op.pos
  BY <1>1, <1>2 DEF OpData, OpFields
<1>4. OpData(op')
  BY <1>1, <1>2 DEF OpData, OpFields
<1>5. op.kind = "push" => op.header[1] # Id("DONE")
  BY DEF OpOK
<1> QED
  BY <1>3, <1>4, <1>5 DEF OpOK, OpData, Pulling

(* The walk goes on.                                                       *)
LEMMA OpWalk ==
  ASSUME OpOK(op, host), op.pc = "entries", NEW todo \in Seq(Entry \cup {Directory}),
         NEW f \in File, op.kind = "push" => f \in DOMAIN host
  PROVE  /\ LET o == [op EXCEPT !.todo = todo] IN OpOK(o, host) /\ o.pc = "entries"
         /\ LET o == [op EXCEPT !.todo = todo, !.file = f, !.pc = "request"]
            IN  OpOK(o, host) /\ o.pc = "request"
<1>1. OpData(op)
  BY DEF OpOK, OpData
<1>2. op.kind = "push" => op.header[1] # Id("DONE")
  BY DEF OpOK
<1> DEFINE o == [op EXCEPT !.todo = todo]
           p == [op EXCEPT !.todo = todo, !.file = f, !.pc = "request"]
<1>3. OpData(o) /\ o.pc = "entries" /\ o.kind = op.kind /\ o.header = op.header
  BY <1>1 DEF OpData, OpFields
<1>4. OpData(p) /\ p.pc = "request" /\ p.kind = op.kind /\ p.header = op.header /\ p.file = f
  <2>1. "request" \in Steps
    BY DEF Steps
  <2> QED
    BY <1>1, <2>1 DEF OpData, OpFields
<1> HIDE DEF o, p
<1>5. OpOK(o, host)
  BY <1>2, <1>3 DEF OpOK, OpData, Pulling
<1>6. OpOK(p, host)
  BY <1>2, <1>4 DEF OpOK, OpData, Pulling
<1> QED
  BY <1>3, <1>4, <1>5, <1>6 DEF o, p

(* A failure: the message is to be read, or not.                           *)
LEMMA OpFailed ==
  ASSUME NEW h, OpOK(op, host), NEW header \in Seq(Words), Len(header) = 2, Failed(header)
  PROVE  /\ OpOK(op', h)
         /\ \/ op'.pc = "idle"
            \/ /\ op'.pc = "message" /\ Is(header, "FAIL")
               /\ op'.len \in Numbers(header[2]) /\ op'.len > 0
         /\ Is(header, "FAIL") /\ header[2] = Num(1) => op'.pc = "message" /\ op'.len = 1
<1>1. OpData(op)
  BY DEF OpOK, OpData
<1>2. PICK n \in Numbers(header[2]) :
        IF Is(header, "FAIL") /\ n > 0
        THEN op' = [op EXCEPT !.pc = "message", !.len = n, !.header = header]
        ELSE Throw("TRANSFER_PROTOCOL_ERROR")
  BY DEF Failed
<1>3. 1 \in 1..2 /\ 2 \in 1..2
  OBVIOUS
<1>4. header[1] \in Words /\ header[2] \in Words
  BY <1>3, ElementOfSeq
<1>5. n \in Nat
  BY <1>4, NumbersType
<1>6. header[2] = Num(1) => n = 1
  BY Ids
<1>7. CASE Is(header, "FAIL") /\ n > 0
  <2>1. op' = [op EXCEPT !.pc = "message", !.len = n, !.header = header]
    BY <1>2, <1>7
  <2>2. "message" \in Steps
    BY DEF Steps
  <2>3. op'.pc = "message" /\ op'.len = n /\ op'.header = header /\ op'.kind = op.kind
    BY <1>1, <2>1 DEF OpData, OpFields
  <2>4. OpData(op')
    BY <1>1, <1>5, <2>1, <2>2 DEF OpData, OpFields
  <2>5. header[1] # Id("DONE")
    BY <1>7, Ids DEF Is
  <2>6. OpOK(op', h)
    BY <2>3, <2>4, <2>5 DEF OpOK, OpData, Pulling
  <2> QED
    BY <1>5, <1>6, <1>7, <2>3, <2>6
<1>8. CASE ~(Is(header, "FAIL") /\ n > 0)
  <2>1. op' = Ended("TRANSFER_PROTOCOL_ERROR")
    BY <1>2, <1>8 DEF Throw
  <2>2. "TRANSFER_PROTOCOL_ERROR" \in Errors
    BY DEF Errors
  <2>3. OpOK(op', h) /\ op'.pc = "idle"
    BY <2>1, <2>2, OpEnded
  <2> QED
    BY <1>6, <1>8, <2>3
<1> QED
  BY <1>7, <1>8

(* The request has been sent.                                              *)
LEMMA OpRequested ==
  ASSUME OpOK(op, host), op.pc = "request", IsTree(host)
  PROVE  /\ op.kind # "push" =>
              LET o == [op EXCEPT !.pc = "answer", !.header = Zeros(2), !.pos = 0,
                                  !.data = Zeros(SYNC_DATA_MAX)]
              IN  OpOK(o, host) /\ o.pc = "answer"
         /\ op.kind = "push" =>
              LET o == [op EXCEPT !.pc = "chunk", !.pos = 0, !.eof = FALSE]
              IN  OpOK(o, host) /\ o.pc = "chunk"
<1>1. OpData(op) /\ op.file \in File /\ (op.kind = "push" => op.file \in DOMAIN host)
      /\ (op.kind = "push" => op.header[1] # Id("DONE"))
  BY DEF OpOK, OpData
<1>2. Zeros(2) \in Seq(Words) /\ Len(Zeros(2)) = 2
  BY ZerosType
<1>3. Zeros(SYNC_DATA_MAX) \in Seq(Words) /\ Len(Zeros(SYNC_DATA_MAX)) = SYNC_DATA_MAX
  BY ZerosType, Assumed
<1>4. "answer" \in Steps /\ "chunk" \in Steps
  BY DEF Steps
<1>5. ASSUME op.kind # "push"
      PROVE  LET o == [op EXCEPT !.pc = "answer", !.header = Zeros(2), !.pos = 0,
                                 !.data = Zeros(SYNC_DATA_MAX)]
             IN  OpOK(o, host) /\ o.pc = "answer"
  <2> DEFINE o == [op EXCEPT !.pc = "answer", !.header = Zeros(2), !.pos = 0,
                             !.data = Zeros(SYNC_DATA_MAX)]
  <2>1. /\ o.kind = op.kind /\ o.pc = "answer" /\ o.file = op.file /\ o.header = Zeros(2)
        /\ o.data = Zeros(SYNC_DATA_MAX) /\ o.pos = 0
    BY <1>1 DEF OpData, OpFields
  <2>2. OpData(o)
    BY <1>1, <1>2, <1>3, <1>4 DEF OpData, OpFields
  <2> HIDE DEF o
  <2>3. OpOK(o, host)
    BY <1>1, <1>3, <1>5, <2>1, <2>2 DEF OpOK, OpData, Pulling
  <2> QED
    BY <2>1, <2>3 DEF o
<1>6. ASSUME op.kind = "push"
      PROVE  LET o == [op EXCEPT !.pc = "chunk", !.pos = 0, !.eof = FALSE]
             IN  OpOK(o, host) /\ o.pc = "chunk"
  <2> DEFINE o == [op EXCEPT !.pc = "chunk", !.pos = 0, !.eof = FALSE]
  <2>1. /\ o.kind = "push" /\ o.pc = "chunk" /\ o.file = op.file /\ o.header = op.header
        /\ o.pos = 0
    BY <1>1, <1>6 DEF OpData, OpFields
  <2>2. OpData(o)
    BY <1>1, <1>4 DEF OpData, OpFields
  <2> HIDE DEF o
  <2>3. host[op.file] \in Seq(Words)
    BY <1>1, <1>6 DEF IsTree
  <2>4. 0 <= Len(host[op.file])
    BY <2>3, LenProperties
  <2>5. OpOK(o, host)
    BY <1>1, <1>6, <2>1, <2>2, <2>4 DEF OpOK, OpData, Pulling
  <2> QED
    BY <2>1, <2>5 DEF o
<1> QED
  BY <1>5, <1>6

(* A header has been read.                                                 *)
LEMMA OpAnswered ==
  ASSUME OpOK(op, host), op.pc = "answer",
         NEW header \in Seq(Words), Len(header) = 2
  PROVE  LET o == [op EXCEPT !.header = header, !.pc = "create"]
         IN  OpOK(o, host) /\ o.pc = "create" /\ o.header = header
<1> DEFINE o == [op EXCEPT !.header = header, !.pc = "create"]
<1>1. OpData(op) /\ op.file \in File /\ op.kind # "push" /\ Len(op.data) = SYNC_DATA_MAX
  BY DEF OpOK, OpData, Pulling
<1>2. op.pos = 0
  BY DEF OpOK
<1>3. "create" \in Steps
  BY Assumed DEF Steps
<1>4. /\ o.kind = op.kind /\ o.pc = "create" /\ o.file = op.file
      /\ o.header = header /\ o.data = op.data /\ o.pos = op.pos
  BY <1>1 DEF OpData, OpFields
<1>5. OpData(o)
  BY <1>1, <1>3 DEF OpData, OpFields
<1> HIDE DEF o
<1>6. OpOK(o, host)
  BY <1>1, <1>2, <1>3, <1>4, <1>5 DEF OpOK, OpData, Pulling
<1> QED
  BY <1>4, <1>6 DEF o

(* It announces data.                                                      *)
LEMMA OpChecked ==
  ASSUME OpOK(op, host), op.pc = "transfer",
         NEW n \in 0..SYNC_DATA_MAX
  PROVE  LET o == [op EXCEPT !.len = n, !.pc = "data"]
         IN  OpOK(o, host) /\ o.pc = "data" /\ o.len = n
<1> DEFINE o == [op EXCEPT !.len = n, !.pc = "data"]
<1>1. OpData(op) /\ op.file \in File /\ op.kind # "push" /\ Len(op.data) = SYNC_DATA_MAX
  BY DEF OpOK, OpData, Pulling
<1>2. /\ op.pc = "data" => op.len <= SYNC_DATA_MAX
      /\ op.file \in DOMAIN host /\ op.pos <= Len(host[op.file])
  BY DEF OpOK
<1>3. "data" \in Steps /\ n \in Nat /\ n <= SYNC_DATA_MAX
  BY Assumed DEF Steps
<1>4. /\ o.kind = op.kind /\ o.pc = "data" /\ o.file = op.file
      /\ o.len = n /\ o.data = op.data /\ o.pos = op.pos
  BY <1>1 DEF OpData, OpFields
<1>5. OpData(o)
  BY <1>1, <1>3 DEF OpData, OpFields
<1> HIDE DEF o
<1>6. OpOK(o, host)
  BY <1>1, <1>2, <1>3, <1>4, <1>5 DEF OpOK, OpData, Pulling
<1> QED
  BY <1>4, <1>6 DEF o

(* The data have been read.                                                *)
LEMMA OpReceived ==
  ASSUME OpOK(op, host), op.pc = "data",
         NEW data \in Seq(Words), Len(data) = SYNC_DATA_MAX
  PROVE  LET o == [op EXCEPT !.data = data, !.pc = "next"]
         IN  OpOK(o, host) /\ o.pc = "next"
<1> DEFINE o == [op EXCEPT !.data = data, !.pc = "next"]
<1>1. OpData(op) /\ op.file \in File /\ op.kind # "push" /\ Len(op.data) = SYNC_DATA_MAX
  BY DEF OpOK, OpData, Pulling
<1>2. /\ op.pc = "data" => op.len <= SYNC_DATA_MAX
      /\ op.file \in DOMAIN host /\ op.pos <= Len(host[op.file])
  BY DEF OpOK
<1>3. "next" \in Steps
  BY Assumed DEF Steps
<1>4. /\ o.kind = op.kind /\ o.pc = "next" /\ o.file = op.file
      /\ o.len = op.len /\ o.data = data /\ o.pos = op.pos
  BY <1>1 DEF OpData, OpFields
<1>5. OpData(o)
  BY <1>1, <1>3 DEF OpData, OpFields
<1> HIDE DEF o
<1>6. OpOK(o, host)
  BY <1>1, <1>2, <1>3, <1>4, <1>5 DEF OpOK, OpData, Pulling
<1> QED
  BY <1>4, <1>6 DEF o

(* Another chunk has been sent.                                            *)
LEMMA OpChunk ==
  ASSUME OpOK(op, host), IsTree(host), op.pc = "chunk"
  PROVE  /\ ReadCount \in Nat /\ op.pos + ReadCount <= Len(host[op.file])
         /\ host[op.file] \in Seq(Words)
         /\ LET o == [op EXCEPT !.pos = @ + ReadCount, !.eof = Rest < CHUNK]
            IN  OpOK(o, host) /\ o.pc = "chunk"
<1>1. OpData(op)
  BY DEF OpOK, OpData
<1>2. op.kind = "push" /\ op.file \in DOMAIN host /\ op.pos <= Len(host[op.file])
      /\ op.header[1] # Id("DONE")
  BY DEF OpOK
<1> DEFINE l == Len(host[op.file])
<1>3. host[op.file] \in Seq(Words) /\ l \in Nat /\ op.pos \in Nat
  BY <1>1, <1>2, LenProperties DEF IsTree, OpData
<1>4. Rest = l - op.pos
  BY <1>2 DEF Rest, Size
<1> HIDE DEF l
<1>5. ReadCount \in Nat /\ op.pos + ReadCount <= l
  <2>1. CHUNK \in Nat
    BY Assumed DEF CHUNK
  <2>2. Rest \in Nat
    BY <1>2, <1>3, <1>4 DEF l
  <2>3. ReadCount \in Nat /\ ReadCount <= Rest
    BY <2>1, <2>2 DEF ReadCount
  <2> QED
    BY <1>3, <1>4, <2>2, <2>3
<1> DEFINE o == [op EXCEPT !.pos = op.pos + ReadCount, !.eof = Rest < CHUNK]
<1>6. op.pos + ReadCount \in Nat
  BY <1>3, <1>5
<1>7. /\ o.kind = op.kind /\ o.pc = "chunk" /\ o.file = op.file /\ o.header = op.header
      /\ o.pos = op.pos + ReadCount
  BY <1>1 DEF OpData, OpFields
<1>8. OpData(o)
  BY <1>1, <1>6 DEF OpData, OpFields
<1> HIDE DEF o
<1>9. OpOK(o, host)
  BY <1>2, <1>5, <1>7, <1>8 DEF OpOK, OpData, Pulling, l
<1> QED
  BY <1>3, <1>5, <1>7, <1>9 DEF o, l

-----------------------------------------------------------------------------
(* The values of stream.                                                   *)
Streams == {"inStep", "interrupted", "late"}

(* A step of the client that leaves what the device has, and the local     *)
(* files, of their types.                                                  *)
LEMMA ClientWorld ==
  ASSUME TypeInv, UNCHANGED <<channel, deviceVars, ops>>, op.pc # "idle",
         buffered' \in BOOLEAN, stream' \in Streams, faults' \in 0..MaxFaults,
         IsTree(host'), up' \in Seq(Requests), down' \in Seq(Words)
  PROVE  WorldOK'
<1>1. channel = "open"
  BY DEF TypeInv, WorldOK
<1> QED
  BY <1>1 DEF TypeInv, WorldOK, deviceVars, Streams

(* The types that a step which writes keeps.                               *)
LEMMA WriteType ==
  ASSUME WorldOK, NEW r \in Requests, NEW ACTION Then, Write(r, Then)
  PROVE  /\ up' \in Seq(Requests) /\ stream' \in Streams /\ faults' \in 0..MaxFaults
         /\ Then \/ (Throw("IO") /\ buffered' = buffered /\ device.link = "gone")
         /\ stream' = "inStep" =>
              /\ stream = "inStep"
              /\ \/ Then /\ up' = Append(up, r)
                 \/ Throw("IO") /\ up' = up /\ device.link = "gone"
<1>1. up \in Seq(Requests) /\ stream \in Streams /\ faults \in 0..MaxFaults
  BY DEF WorldOK, Streams
<1>2. Append(up, r) \in Seq(Requests)
  BY <1>1, AppendProperties
<1>3. CASE up' = Append(up, r) /\ Then /\ UNCHANGED <<stream, faults>>
  BY <1>1, <1>2, <1>3
<1>4. CASE UNCHANGED up /\ stream' = "late" /\ Then /\ Fault("slow")
  BY <1>1, <1>4, FaultType DEF Streams
<1>5. CASE device.link = "gone" /\ Throw("IO")
           /\ UNCHANGED <<up, monitor, buffered, stream, faults>>
  BY <1>1, <1>5
<1> QED
  BY <1>3, <1>4, <1>5 DEF Write

(* An exception ends the operation.                                        *)
LEMMA ThrowType ==
  ASSUME OpOK(op, host), NEW error \in Errors, Throw(error), NEW h
  PROVE  OpOK(op', h) /\ op'.pc = "idle"
  BY OpEnded DEF Throw

(* The names of the steps are steps.                                       *)
LEMMA StepNames ==
  /\ {"entries", "request", "create", "transfer", "message", "undefined", "spinning", "result"}
       \subseteq Steps
  /\ {"CANCELED", "FILE_WRITE_ERROR", "BUFFER_OVERRUN", "IO", "NO_REMOTE_OBJECT",
      "REMOTE_PATH_LENGTH", "TRANSFER_PROTOCOL_ERROR"} \subseteq Errors
  BY DEF Steps, Errors

-----------------------------------------------------------------------------
(* The steps of the client keep the types.                                 *)
LEMMA NextEntryType ==
  ASSUME TypeInv, C_NextEntry
  PROVE  TypeInv' /\ op'.pc \in {"idle", "entries", "request"}
<1>1. OpOK(op, host) /\ WorldOK /\ op.pc = "entries" /\ op.todo \in Seq(Entry \cup {Directory})
  BY DEF TypeInv, OpOK, C_NextEntry
<1>2. UNCHANGED <<channel, buffered, host, up, down, deviceVars, stream, ops, faults>>
  BY DEF C_NextEntry
<1>3. WorldOK'
  BY <1>1, <1>2, ClientWorld DEF WorldOK, Streams, TypeInv
<1>4. CASE op.todo = <<>>
  <2>1. op' = Ended("ok")
    BY <1>1, <1>4 DEF C_NextEntry, Finish
  <2>2. OpOK(op', host') /\ op'.pc = "idle"
    BY <1>1, <2>1, OpEnded
  <2> QED
    BY <1>3, <2>2 DEF TypeInv
<1>5. CASE op.todo # <<>>
  <2> DEFINE e == Head(op.todo)  rest == Tail(op.todo)
  <2>1. rest \in Seq(Entry \cup {Directory}) /\ e \in Entry \cup {Directory}
    BY <1>1, <1>5, HeadTailProperties
  <2>2. \/ op' = [op EXCEPT !.todo = rest]
        \/ Throw("CANCELED")
        \/ e \in Dir /\ op' = [op EXCEPT !.todo = Kids[e] \o <<Directory>> \o rest]
        \/ /\ e \in File /\ ~Skipped(e)
           /\ op' = [op EXCEPT !.todo = rest, !.file = e, !.pc = "request"]
    BY <1>5 DEF C_NextEntry
  <2> HIDE DEF e, rest
  <2>3. CASE op' = [op EXCEPT !.todo = rest] 
    <3>1. op'.pc = "entries" /\ OpData(op') /\ op'.kind = op.kind /\ op'.header = op.header
      BY <1>1, <2>1, <2>3 DEF OpOK, OpData, OpFields
    <3>2. OpOK(op', host')
      BY <1>1, <3>1 DEF OpOK, OpData, Pulling
    <3> QED
      BY <1>3, <3>1, <3>2 DEF TypeInv
  <2>4. CASE Throw("CANCELED")
    <3>1. OpOK(op', host') /\ op'.pc = "idle"
      BY <1>1, <2>4, ThrowType, StepNames
    <3> QED
      BY <1>3, <3>1 DEF TypeInv
  <2>5. CASE e \in Dir /\ op' = [op EXCEPT !.todo = Kids[e] \o <<Directory>> \o rest]
    <3> DEFINE all == Kids[e] \o <<Directory>> \o rest
    <3>1. Kids[e] \in Seq(Entry \cup {Directory}) /\ <<Directory>> \in Seq(Entry \cup {Directory})
      <4>1. Kids[e] \in Seq(Entry)
        BY <2>5, Assumed
      <4> QED
        BY <4>1
    <3>2. all \in Seq(Entry \cup {Directory})
      BY <2>1, <3>1, ConcatProperties
    <3> HIDE DEF all
    <3>3. op' = [op EXCEPT !.todo = all]
      BY <2>5 DEF all
    <3>4. op'.pc = "entries" /\ OpData(op') /\ op'.kind = op.kind /\ op'.header = op.header
      BY <1>1, <3>2, <3>3 DEF OpOK, OpData, OpFields
    <3>5. OpOK(op', host')
      BY <1>1, <3>4 DEF OpOK, OpData, Pulling
    <3> QED
      BY <1>3, <3>4, <3>5 DEF TypeInv
  <2>6. CASE /\ e \in File /\ ~Skipped(e)
             /\ op' = [op EXCEPT !.todo = rest, !.file = e, !.pc = "request"]
    <3>1. op.kind = "push" => e \in DOMAIN host
      BY <2>6 DEF Skipped
    <3>2. OpOK(op', host) /\ op'.pc = "request"
      BY <1>1, <2>1, <2>6, <3>1, OpWalk
    <3> QED
      BY <1>2, <1>3, <3>2 DEF TypeInv
  <2> QED
    BY <2>2, <2>3, <2>4, <2>5, <2>6
<1> QED
  BY <1>4, <1>5

(* The request, which needs the file it is about.                          *)
LEMMA RequestStepType ==
  ASSUME TypeInv, C_Request
  PROVE  TypeInv'
<1>1. OpOK(op, host) /\ WorldOK /\ op.pc = "request" /\ op.file \in File /\ IsTree(host)
  BY DEF TypeInv, OpOK, C_Request, WorldOK
<1>2. \/ UNCHANGED <<channel, monitor, host, down, deviceVars, ops>>
      \/ UNCHANGED <<channel, host, down, deviceVars, ops>>
  BY DEF C_Request
<1>3. CASE Throw("REMOTE_PATH_LENGTH") /\ UNCHANGED <<up, buffered, stream, faults>>
  <2>1. OpOK(op', host')
    BY <1>1, <1>3, ThrowType, StepNames
  <2>2. WorldOK'
    BY <1>1, <1>2, <1>3, ClientWorld DEF WorldOK, Streams, TypeInv
  <2> QED
    BY <2>1, <2>2 DEF TypeInv
<1>4. CASE /\ op.kind # "push"
           /\ Write(Request("RECV", op.file),
                    op' = [op EXCEPT !.pc = "answer", !.header = Zeros(2), !.pos = 0,
                                     !.data = Zeros(SYNC_DATA_MAX)])
           /\ UNCHANGED buffered
  <2>1. Request("RECV", op.file) \in Requests
    BY <1>1, RequestType
  <2>2. /\ up' \in Seq(Requests) /\ stream' \in Streams /\ faults' \in 0..MaxFaults
        /\ \/ op' = [op EXCEPT !.pc = "answer", !.header = Zeros(2), !.pos = 0,
                               !.data = Zeros(SYNC_DATA_MAX)]
           \/ Throw("IO")
    BY <1>1, <1>4, <2>1, WriteType
  <2>3. OpOK(op', host')
    <3>1. host' = host
      BY <1>2
    <3> QED
      BY <1>1, <1>4, <2>2, <3>1, OpRequested, ThrowType, StepNames
  <2>4. WorldOK'
    BY <1>1, <1>2, <1>4, <2>2, ClientWorld DEF WorldOK, TypeInv
  <2> QED
    BY <2>3, <2>4 DEF TypeInv
<1>5. CASE /\ op.kind = "push"
           /\ Write(Request("SEND", op.file),
                    /\ op' = [op EXCEPT !.pc = "chunk", !.pos = 0, !.eof = FALSE]
                    /\ buffered' = TRUE)
  <2>1. Request("SEND", op.file) \in Requests
    BY <1>1, RequestType
  <2>2. /\ up' \in Seq(Requests) /\ stream' \in Streams /\ faults' \in 0..MaxFaults
        /\ \/ op' = [op EXCEPT !.pc = "chunk", !.pos = 0, !.eof = FALSE] /\ buffered' = TRUE
           \/ Throw("IO") /\ buffered' = buffered
    BY <1>1, <1>5, <2>1, WriteType
  <2>3. OpOK(op', host')
    <3>1. host' = host
      BY <1>2
    <3> QED
      BY <1>1, <1>5, <2>2, <3>1, OpRequested, ThrowType, StepNames
  <2>4. buffered' \in BOOLEAN
    BY <1>1, <2>2 DEF WorldOK
  <2>5. WorldOK'
    BY <1>1, <1>2, <2>2, <2>4, ClientWorld DEF WorldOK, TypeInv
  <2> QED
    BY <2>3, <2>5 DEF TypeInv
<1> QED
  BY <1>3, <1>4, <1>5 DEF C_Request

(* The answer to a pull of a path.                                         *)
LEMMA ReadModeType ==
  ASSUME TypeInv, C_ReadMode
  PROVE  TypeInv' /\ op'.pc \in {"idle", "request"}
<1>1. OpOK(op, host) /\ WorldOK /\ op.pc = "mode" /\ op.file \in File /\ op.kind # "push"
  BY DEF TypeInv, OpOK, C_ReadMode, Pulling
<1>2. down' \in Seq(Words) /\ stream' \in Streams /\ faults' \in 0..MaxFaults
  BY <1>1, ReadType DEF C_ReadMode, Streams
<1>3. UNCHANGED <<channel, buffered, host, up, deviceVars, ops>>
  BY DEF C_ReadMode
<1>4. WorldOK'
  BY <1>1, <1>2, <1>3, ClientWorld DEF WorldOK, TypeInv
<1>5. Throw("NO_REMOTE_OBJECT") \/ Goto("request")
  BY DEF C_ReadMode
<1>6. OpOK(op', host') /\ op'.pc \in {"idle", "request"}
  BY <1>1, <1>5, ThrowType, OpGoto, StepNames
<1> QED
  BY <1>4, <1>6 DEF TypeInv

(* The first header of a file.                                             *)
LEMMA ReadAnswerType ==
  ASSUME TypeInv, C_ReadAnswer
  PROVE  TypeInv'
<1>1. OpOK(op, host) /\ WorldOK /\ op.pc = "answer" /\ op.header \in Seq(Words)
      /\ Len(op.header) = 2
  BY DEF TypeInv, OpOK, C_ReadAnswer
<1>2. down' \in Seq(Words) /\ stream' \in Streams /\ faults' \in 0..MaxFaults
  BY <1>1, ReadType DEF C_ReadAnswer, Streams
<1>3. UNCHANGED <<channel, buffered, host, up, deviceVars, ops>>
  BY DEF C_ReadAnswer
<1>4. WorldOK'
  BY <1>1, <1>2, <1>3, ClientWorld DEF WorldOK, TypeInv
<1> DEFINE header == Received(2, op.header)
<1>5. header \in Seq(Words) /\ Len(header) = 2
  <2>1. 2 \in 0..Len(op.header)
    BY <1>1
  <2> QED
    BY <1>1, <2>1, ReceivedType DEF WorldOK
<1>6. op' = [op EXCEPT !.header = header, !.pc = "create"] \/ Failed(header)
  BY DEF C_ReadAnswer
<1> HIDE DEF header
<1>7. CASE op' = [op EXCEPT !.header = header, !.pc = "create"]
  <2>1. OpOK(op', host')
    BY <1>1, <1>3, <1>5, <1>7, OpAnswered
  <2> QED
    BY <1>4, <2>1 DEF TypeInv
<1>8. CASE Failed(header)
  <2>1. OpOK(op', host')
    BY <1>1, <1>5, <1>8, OpFailed
  <2> QED
    BY <1>4, <2>1 DEF TypeInv
<1> QED
  BY <1>6, <1>7, <1>8

-----------------------------------------------------------------------------
(* What is written to a file no farther than behind its end keeps its *)
(* content a sequence of words, which reaches beyond them.                 *)
LEMMA OverwrittenType ==
  ASSUME NEW content \in Seq(Words), NEW words \in Seq(Words), NEW pos \in 0..Len(content)
  PROVE  /\ Overwritten(content, pos, words) \in Seq(Words)
         /\ Capped(pos + Len(words)) <= Len(Overwritten(content, pos, words))
<1> DEFINE end == Capped(pos + Len(words))
           l == IF end > Len(content) THEN end ELSE Len(content)
           f == [i \in 1..l |-> IF i \in pos + 1..end THEN words[i - pos] ELSE content[i]]
<1>1. Len(content) \in Nat /\ Len(words) \in Nat /\ pos \in Nat /\ pos <= Len(content)
  BY LenProperties
<1>2. end \in Nat /\ end <= pos + Len(words)
  BY <1>1, Assumed DEF Capped
<1>3. Overwritten(content, pos, words) = f
  BY DEF Overwritten
<1> HIDE DEF end
<1>4. l \in Nat /\ end <= l
      /\ ((l = end /\ end > Len(content)) \/ (l = Len(content) /\ end <= Len(content)))
  BY <1>1, <1>2
<1> HIDE DEF l
<1>5. ASSUME NEW i \in 1..l
      PROVE  (IF i \in pos + 1..end THEN words[i - pos] ELSE content[i]) \in Words
  <2>1. CASE i \in pos + 1..end
    <3>1. i - pos \in 1..Len(words)
      BY <1>1, <1>2, <1>4, <2>1
    <3>2. words[i - pos] \in Words
      BY <3>1, ElementOfSeq
    <3> QED
      BY <2>1, <3>2
  <2>2. CASE i \notin pos + 1..end
    <3>1. i \in 1..Len(content)
      BY <1>1, <1>2, <1>4, <2>2
    <3>2. content[i] \in Words
      BY <3>1, ElementOfSeq
    <3> QED
      BY <2>2, <3>2
  <2> QED
    BY <2>1, <2>2
<1>6. f \in Seq(Words) /\ Len(f) = l
  <2>1. f \in [1..l -> Words]
    BY <1>5
  <2> HIDE DEF f
  <2> QED
    BY <1>4, <2>1
<1> HIDE DEF f
<1> QED
  BY <1>3, <1>4, <1>6 DEF end

(* A local file that is created is there.                                  *)
LEMMA CreateType ==
  ASSUME TypeInv, C_Create
  PROVE  TypeInv' /\ (op'.pc = "idle" \/ (op'.pc = "transfer" /\ op'.header = op.header))
<1>1. OpOK(op, host) /\ WorldOK /\ op.pc = "create" /\ op.file \in File /\ op.kind # "push"
      /\ Len(op.data) = SYNC_DATA_MAX /\ IsTree(host)
  BY DEF TypeInv, OpOK, C_Create, Pulling, WorldOK
<1>2. UNCHANGED <<channel, buffered, monitor, up, down, deviceVars, ops>>
  BY DEF C_Create
<1>3. CASE host' = [f \in DOMAIN host \cup {op.file} |->
                     IF f \in DOMAIN host THEN host[f] ELSE <<>>]
           /\ Goto("transfer") /\ UNCHANGED <<stream, faults>>
  <2>1. OpOK(op', host') /\ op'.pc = "transfer" /\ op'.header = op.header
    <3>1. op.pos = 0 /\ op.file \in DOMAIN host'
      BY <1>1, <1>3 DEF OpOK
    <3>2. host'[op.file] \in Seq(Words)
      BY <1>1, <1>3 DEF IsTree
    <3>3. op.pos <= Len(host'[op.file])
      BY <3>1, <3>2, LenProperties
    <3>4. Goto("transfer")
      BY <1>3
    <3> QED
      BY <1>1, <3>1, <3>3, <3>4, OpGoto, StepNames
  <2>2. IsTree(host')
    <3>1. <<>> \in Seq(Words)
      OBVIOUS
    <3>2. /\ DOMAIN host' = DOMAIN host \cup {op.file}
          /\ \A f \in DOMAIN host' :
               host'[f] = IF f \in DOMAIN host THEN host[f] ELSE <<>>
      BY <1>3
    <3> QED
      BY <1>1, <3>1, <3>2 DEF IsTree
  <2>3. WorldOK'
    BY <1>1, <1>2, <1>3, <2>2, ClientWorld DEF WorldOK, Streams, TypeInv
  <2> QED
    BY <2>1, <2>3 DEF TypeInv
<1>4. CASE Fault("write") /\ Throw("FILE_WRITE_ERROR") /\ Interrupted /\ UNCHANGED host
  <2>1. OpOK(op', host') /\ op'.pc = "idle"
    BY <1>1, <1>4, ThrowType, StepNames
  <2>2. faults' \in 0..MaxFaults
    BY <1>1, <1>4, FaultType
  <2>3. stream' \in Streams
    BY <1>1, <1>4 DEF Interrupted, Streams, WorldOK
  <2>4. WorldOK'
    BY <1>1, <1>2, <1>4, <2>2, <2>3, ClientWorld DEF WorldOK, TypeInv
  <2> QED
    BY <2>1, <2>4 DEF TypeInv
<1> QED
  BY <1>3, <1>4 DEF C_Create

(* A header is looked at.                                                  *)
LEMMA CheckHeaderType ==
  ASSUME TypeInv, C_CheckHeader
  PROVE  TypeInv'
<1>1. OpOK(op, host) /\ WorldOK /\ op.pc = "transfer" /\ op.header \in Seq(Words)
      /\ Len(op.header) = 2
  BY DEF TypeInv, OpOK, C_CheckHeader
<1>2. UNCHANGED <<channel, buffered, monitor, host, up, down, deviceVars, ops, faults>>
  BY DEF C_CheckHeader
<1>3. Interrupted \/ stream' = stream
  BY DEF C_CheckHeader
<1>4. stream' \in Streams
  BY <1>1, <1>3 DEF Interrupted, Streams, WorldOK
<1>5. WorldOK'
  BY <1>1, <1>2, <1>4, ClientWorld DEF WorldOK, TypeInv
<1>6. PICK n \in Numbers(op.header[2]) \cup {0} :
        \/ Throw("CANCELED") \/ Throw("BUFFER_OVERRUN") \/ Goto("entries") \/ Failed(op.header)
        \/ ~(n > SYNC_DATA_MAX) /\ op' = [op EXCEPT !.len = n, !.pc = "data"]
  BY DEF C_CheckHeader, FileDone
<1>7. n \in Nat
  <2>1. 2 \in 1..2
    OBVIOUS
  <2>2. op.header[2] \in Words
    BY <1>1, <2>1, ElementOfSeq
  <2> QED
    BY <2>2, NumbersType
<1>8. CASE Throw("CANCELED") \/ Throw("BUFFER_OVERRUN")
  <2>1. OpOK(op', host')
    BY <1>1, <1>8, ThrowType, StepNames
  <2> QED
    BY <1>5, <2>1 DEF TypeInv
<1>9. CASE Goto("entries")
  <2>1. OpOK(op', host')
    BY <1>1, <1>9, OpGoto, StepNames DEF Pulling
  <2> QED
    BY <1>5, <2>1 DEF TypeInv
<1>10. CASE Failed(op.header)
  <2>1. OpOK(op', host')
    BY <1>1, <1>10, OpFailed
  <2> QED
    BY <1>5, <2>1 DEF TypeInv
<1>11. CASE ~(n > SYNC_DATA_MAX) /\ op' = [op EXCEPT !.len = n, !.pc = "data"]
  <2>1. n \in 0..SYNC_DATA_MAX
    BY <1>7, <1>11, Assumed
  <2>2. OpOK(op', host')
    BY <1>1, <1>2, <1>11, <2>1, OpChecked
  <2> QED
    BY <1>5, <2>2 DEF TypeInv
<1> QED
  BY <1>6, <1>8, <1>9, <1>10, <1>11

(* The data fit into the buffer.                                           *)
LEMMA ReadDataType ==
  ASSUME TypeInv, C_ReadData
  PROVE  TypeInv' /\ op'.pc = "next" /\ op.len \in 0..SYNC_DATA_MAX
<1>1. OpOK(op, host) /\ WorldOK /\ op.pc = "data" /\ op.data \in Seq(Words)
      /\ Len(op.data) = SYNC_DATA_MAX /\ op.len \in Nat /\ op.len <= SYNC_DATA_MAX
      /\ op.header \in Seq(Words) /\ Len(op.header) = 2
  BY DEF TypeInv, OpOK, C_ReadData
<1>2. op.len \in 0..SYNC_DATA_MAX
  BY <1>1, Assumed
<1>3. down' \in Seq(Words) /\ stream' \in Streams /\ faults' \in 0..MaxFaults
  BY <1>1, ReadType DEF C_ReadData, Streams
<1>4. UNCHANGED <<channel, buffered, monitor, host, up, deviceVars, ops>>
  BY DEF C_ReadData
<1>5. WorldOK'
  BY <1>1, <1>3, <1>4, ClientWorld DEF WorldOK, TypeInv
<1> DEFINE data == Received(op.len, op.data)
<1>6. data \in Seq(Words) /\ Len(data) = SYNC_DATA_MAX
  BY <1>1, <1>2, ReceivedType DEF WorldOK
<1>7. op' = [op EXCEPT !.data = data, !.pc = "next"]
  BY DEF C_ReadData
<1> HIDE DEF data
<1>9. OpOK(op', host') /\ op'.pc = "next"
  BY <1>1, <1>4, <1>6, <1>7, OpReceived
<1> QED
  BY <1>2, <1>5, <1>9 DEF TypeInv

(* What is written begins in the file, or at its end.                      *)
LEMMA ReadNextType ==
  ASSUME TypeInv, C_ReadNext
  PROVE  TypeInv' /\ op'.pc = "transfer" /\ op'.header = Received(2, op.header)
<1>1. OpOK(op, host) /\ WorldOK /\ op.pc = "next" /\ op.data \in Seq(Words)
      /\ Len(op.data) = SYNC_DATA_MAX /\ op.len \in Nat /\ op.len <= SYNC_DATA_MAX
      /\ op.header \in Seq(Words) /\ Len(op.header) = 2 /\ op.pos \in Nat /\ IsTree(host)
      /\ op.file \in DOMAIN host /\ op.pos <= Len(host[op.file]) /\ host[op.file] \in Seq(Words)
  BY DEF IsTree, TypeInv, OpOK, C_ReadNext, WorldOK
<1>2. op.len \in 0..SYNC_DATA_MAX
  BY <1>1, Assumed
<1>3. down' \in Seq(Words) /\ stream' \in Streams /\ faults' \in 0..MaxFaults
  BY <1>1, ReadType DEF C_ReadNext, Streams
<1>4. UNCHANGED <<channel, buffered, up, deviceVars, ops>>
  BY DEF C_ReadNext
<1> DEFINE words == SubSeq(op.data, 1, op.len)  pos == Capped(op.pos + op.len)
           header == Received(2, op.header)
<1>5. words \in Seq(Words) /\ Len(words) = op.len
  BY <1>1, <1>2, TakeSeq
<1>6. pos \in Nat
  BY <1>1, Assumed DEF Capped
<1>7. header \in Seq(Words) /\ Len(header) = 2
  <2>1. 2 \in 0..Len(op.header)
    BY <1>1
  <2> QED
    BY <1>1, <2>1, ReceivedType DEF WorldOK
<1>8. /\ op' = [op EXCEPT !.header = header, !.pc = "transfer", !.pos = pos]
      /\ host' = [host EXCEPT ![op.file] = Overwritten(host[op.file], op.pos, words)]
  BY DEF C_ReadNext
<1> HIDE DEF words, pos, header
<1>9. /\ IsTree(host') /\ op.file \in DOMAIN host'
      /\ Capped(op.pos + op.len) <= Len(host'[op.file])
  <2> DEFINE content == Overwritten(host[op.file], op.pos, words)
  <2>1. op.pos \in 0..Len(host[op.file])
    BY <1>1, LenProperties
  <2>2. content \in Seq(Words) /\ Capped(op.pos + op.len) <= Len(content)
    BY <1>1, <1>5, <2>1, OverwrittenType
  <2> HIDE DEF content
  <2>3. host' = [host EXCEPT ![op.file] = content]
    BY <1>8 DEF content
  <2> QED
    BY <1>1, <2>2, <2>3 DEF IsTree
<1>10. WorldOK'
  BY <1>1, <1>3, <1>4, <1>9, ClientWorld DEF WorldOK, TypeInv
<1>11. OpOK(op', host') /\ op'.pc = "transfer" /\ op'.header = header
  <2>1. pos <= Len(host'[op.file])
    BY <1>9 DEF pos
  <2>2. OpData(op) /\ op.file \in File /\ op.kind # "push" /\ "transfer" \in Steps
    BY <1>1, StepNames DEF OpOK, OpData, Pulling
  <2>3. /\ op'.kind = op.kind /\ op'.pc = "transfer" /\ op'.file = op.file
        /\ op'.header = header /\ op'.data = op.data /\ op'.pos = pos
    BY <1>8, <2>2 DEF OpData, OpFields
  <2>4. OpData(op')
    BY <1>6, <1>7, <1>8, <2>2 DEF OpData, OpFields
  <2>5. OpOK(op', host')
    BY <1>1, <1>9, <2>1, <2>2, <2>3, <2>4 DEF OpOK, OpData, Pulling
  <2> QED
    BY <2>3, <2>5
<1> QED
  BY <1>10, <1>11 DEF TypeInv, header

(* A chunk begins in the file, or at its end.                              *)
LEMMA SendChunkType ==
  ASSUME TypeInv, C_SendChunk
  PROVE  TypeInv' /\ Chunk \in Requests /\ Chunk.name = "DATA"
<1>1. OpOK(op, host) /\ WorldOK /\ op.pc = "chunk" /\ IsTree(host) /\ op.file \in File
      /\ op.pos \in Nat
  BY DEF TypeInv, OpOK, C_SendChunk, WorldOK, IsTree
<1>2. UNCHANGED <<channel, host, down, deviceVars, ops>> /\ buffered' = buffered
  BY DEF C_SendChunk, Write
<1>3. /\ ReadCount \in Nat /\ op.pos + ReadCount <= Len(host[op.file])
      /\ host[op.file] \in Seq(Words)
  BY <1>1, OpChunk
<1>4. Chunk \in Requests /\ Chunk.name = "DATA"
  <2> DEFINE r == Request("DATA", op.file)
             data == SubSeq(host[op.file], op.pos + 1, op.pos + ReadCount)
  <2>1. data \in Seq(Words)
    <3>1. Len(host[op.file]) \in Nat /\ \A i \in 1..Len(host[op.file]) : host[op.file][i] \in Words
      BY <1>3, LenProperties, ElementOfSeq
    <3> DEFINE m == op.pos + 1  n == op.pos + ReadCount  s == host[op.file]
    <3>2. m \in Int /\ n \in Int /\ \A i \in m..n : i \in 1..Len(s)
      BY <1>1, <1>3, <3>1
    <3> HIDE DEF m, n, s
    <3>3. \A i \in m..n : s[i] \in Words
      BY <3>1, <3>2 DEF s
    <3>4. SubSeq(s, m, n) \in Seq(Words)
      BY <3>2, <3>3, SubSeqProperties
    <3> QED
      BY <3>4 DEF m, n, s
  <2>2. r \in Requests /\ r.name = "DATA"
    BY <1>1, RequestType
  <2>3. Chunk = [r EXCEPT !.data = data]
    BY DEF Chunk
  <2> HIDE DEF r, data
  <2> QED
    BY <2>1, <2>2, <2>3 DEF Requests
<1>5. CASE Throw("CANCELED") /\ Interrupted /\ UNCHANGED <<up, monitor, buffered, faults>>
  <2>1. OpOK(op', host')
    BY <1>1, <1>5, ThrowType, StepNames
  <2>2. stream' \in Streams
    BY <1>1, <1>5 DEF Interrupted, Streams, WorldOK
  <2>3. WorldOK'
    BY <1>1, <1>2, <1>5, <2>2, ClientWorld DEF WorldOK, TypeInv
  <2> QED
    BY <1>4, <2>1, <2>3 DEF TypeInv
<1>6. CASE Write(Chunk, /\ op' = [op EXCEPT !.pos = @ + ReadCount, !.eof = Rest < CHUNK]
                        /\ Advance(ReadCount))
  <2>1. /\ up' \in Seq(Requests) /\ stream' \in Streams /\ faults' \in 0..MaxFaults
        /\ \/ op' = [op EXCEPT !.pos = @ + ReadCount, !.eof = Rest < CHUNK]
           \/ Throw("IO")
    BY <1>1, <1>4, <1>6, WriteType
  <2>2. OpOK(op', host')
    <3>1. host' = host
      BY <1>2
    <3> QED
      BY <1>1, <2>1, <3>1, OpChunk, ThrowType, StepNames
  <2>3. WorldOK'
    BY <1>1, <1>2, <2>1, ClientWorld DEF WorldOK, TypeInv
  <2> QED
    BY <1>4, <2>2, <2>3 DEF TypeInv
<1> QED
  BY <1>5, <1>6 DEF C_SendChunk

(* The end of a push.                                                      *)
LEMMA SendDoneType ==
  ASSUME TypeInv, C_SendDone
  PROVE  TypeInv' /\ Request("DONE", op.file) \in Requests
<1>1. OpOK(op, host) /\ WorldOK /\ op.pc = "chunk" /\ op.file \in File /\ op.kind = "push"
  BY DEF TypeInv, OpOK, C_SendDone, WorldOK, IsTree
<1>2. UNCHANGED <<channel, buffered, monitor, host, down, deviceVars, ops>>
  BY DEF C_SendDone
<1>3. Request("DONE", op.file) \in Requests
  BY <1>1, RequestType
<1>4. /\ up' \in Seq(Requests) /\ stream' \in Streams /\ faults' \in 0..MaxFaults
      /\ Goto("result") \/ Throw("IO")
  BY <1>1, <1>3, WriteType DEF C_SendDone
<1>5. OpOK(op', host')
  BY <1>1, <1>4, OpGoto, ThrowType, StepNames DEF Pulling
<1>6. WorldOK'
  BY <1>1, <1>2, <1>4, ClientWorld DEF WorldOK, TypeInv
<1> QED
  BY <1>3, <1>5, <1>6 DEF TypeInv

(* The answer to a push.                                                   *)
LEMMA ReadResultType ==
  ASSUME TypeInv, C_ReadResult
  PROVE  TypeInv'
<1>1. OpOK(op, host) /\ WorldOK /\ op.pc = "result"
  BY DEF TypeInv, OpOK, C_ReadResult
<1>2. down' \in Seq(Words) /\ stream' \in Streams /\ faults' \in 0..MaxFaults
  BY <1>1, ReadType DEF C_ReadResult, Streams
<1>3. UNCHANGED <<channel, buffered, monitor, host, up, deviceVars, ops>>
  BY DEF C_ReadResult
<1>4. WorldOK'
  BY <1>1, <1>2, <1>3, ClientWorld DEF WorldOK, TypeInv
<1> DEFINE result == Received(2, Zeros(2))
<1>5. result \in Seq(Words) /\ Len(result) = 2
  <2>1. Zeros(2) \in Seq(Words) /\ Len(Zeros(2)) = 2
    BY ZerosType
  <2>2. 2 \in 0..Len(Zeros(2))
    <3> DEFINE l == Len(Zeros(2))
    <3>1. l = 2
      BY <2>1
    <3> HIDE DEF l
    <3>2. 2 \in 0..l
      BY <3>1
    <3> QED
      BY <3>2 DEF l
  <2> QED
    BY <1>1, <2>1, <2>2, ReceivedType DEF WorldOK
<1>6. Goto("entries") \/ Failed(result)
  BY DEF C_ReadResult, FileDone
<1> HIDE DEF result
<1>7. OpOK(op', host')
  BY <1>1, <1>5, <1>6, OpGoto, OpFailed, StepNames DEF Pulling
<1> QED
  BY <1>4, <1>7 DEF TypeInv

(* The message of a failure.                                               *)
LEMMA ReadMessageType ==
  ASSUME TypeInv, C_ReadMessage
  PROVE  TypeInv' /\ op'.pc \in {"idle", "undefined"}
<1>1. OpOK(op, host) /\ WorldOK /\ op.pc = "message" /\ op.len \in Nat
  BY DEF TypeInv, OpOK, C_ReadMessage
<1>2. down' \in Seq(Words) /\ stream' \in Streams /\ faults' \in 0..MaxFaults
  BY <1>1, ReadType DEF C_ReadMessage, Streams
<1>3. UNCHANGED <<channel, buffered, monitor, host, up, deviceVars, ops>>
  BY DEF C_ReadMessage
<1>4. WorldOK'
  BY <1>1, <1>2, <1>3, ClientWorld DEF WorldOK, TypeInv
<1>5. Throw("TRANSFER_PROTOCOL_ERROR") \/ Goto("undefined")
  BY DEF C_ReadMessage, MessageRead
<1>6. OpOK(op', host') /\ op'.pc \in {"idle", "undefined"}
  BY <1>1, <1>5, OpGoto, ThrowType, StepNames DEF Pulling
<1> QED
  BY <1>4, <1>6 DEF TypeInv

(* A read that goes on for ever, or a reset.                               *)
LEMMA ReadsOnType ==
  ASSUME TypeInv, C_ReadsOn
  PROVE  TypeInv' /\ device.link = "gone"
<1>1. OpOK(op, host) /\ WorldOK /\ Len(down) < Needed /\ device.link = "gone"
  BY DEF TypeInv, C_ReadsOn
<1>2. UNCHANGED <<channel, buffered, monitor, host, up, down, deviceVars, stream, ops, faults>>
  BY DEF C_ReadsOn
<1>3. op.pc # "idle"
  BY <1>1, LenProperties DEF Needed, WorldOK
<1>4. WorldOK'
  BY <1>1, <1>2, <1>3, ClientWorld DEF WorldOK, Streams, TypeInv
<1>5. Throw("IO") \/ Goto("spinning")
  BY DEF C_ReadsOn
<1>6. OpOK(op', host')
  BY <1>1, <1>5, OpGoto, ThrowType, StepNames DEF Pulling
<1> QED
  BY <1>1, <1>4, <1>6 DEF TypeInv

(* Every step of the client keeps the types.                               *)
LEMMA ClientType ==
  ASSUME TypeInv, Client
  PROVE  TypeInv'
  BY NextEntryType, RequestStepType, ReadModeType, ReadAnswerType, CreateType, CheckHeaderType,
     ReadDataType, ReadNextType, SendChunkType, SendDoneType, ReadResultType, ReadMessageType,
     ReadsOnType DEF Client

-----------------------------------------------------------------------------
(* The initial values have their types.                                    *)
LEMMA InitType ==
  ASSUME Init
  PROVE  TypeInv
<1>1. IsTree(host) /\ IsTree(files)
  <2>1. Content \subseteq Words
    BY WordKinds
  <2>2. \A s : s \in Seq(Content) => s \in Seq(Words)
    BY <2>1
  <2> QED
    BY <2>2, SyncAssumption DEF Init, IsTree
<1>2. device \in Devices /\ device.state = "idle"
  BY DEF Init, Devices
<1>3. up \in Seq(Requests) /\ down \in Seq(Words)
  BY DEF Init
<1>4. WorldOK
  <2>1. op.pc = "idle"
    BY DEF Init, NewOp
  <2> QED
    <3>1. 0 \in 0..MaxOps /\ 0 \in 0..MaxFaults
      BY Assumed
    <3>2. /\ channel = "closed" /\ buffered = FALSE /\ stream = "inStep" /\ ops = 0 /\ faults = 0
      BY DEF Init
    <3> QED
      BY <1>1, <1>2, <1>3, <2>1, <3>1, <3>2 DEF WorldOK
<1>5. OpOK(op, host)
  <2> DEFINE n == NewOp("pull", <<>>, "idle")
  <2>1. /\ DOMAIN n = OpFields
        /\ n.kind = "pull" /\ n.pc = "idle" /\ n.result = "none" /\ n.todo = <<>>
        /\ n.file = "none" /\ n.header = Zeros(2) /\ n.data = <<>> /\ n.len = 0
        /\ n.pos = 0 /\ n.eof = FALSE
    BY DEF NewOp, OpFields
  <2>2. op = [n EXCEPT !.before = OnHost]
    BY DEF Init
  <2> HIDE DEF n
  <2>3. /\ DOMAIN op = OpFields
        /\ op.kind = "pull" /\ op.pc = "idle" /\ op.result = "none" /\ op.todo = <<>>
        /\ op.file = "none" /\ op.header = Zeros(2) /\ op.data = <<>> /\ op.len = 0
        /\ op.pos = 0 /\ op.eof = FALSE
    BY <2>1, <2>2 DEF OpFields
  <2>4. op.todo \in Seq(Entry \cup {Directory})
    BY <2>3
  <2> QED
    BY <2>3, <2>4, OpMade
<1> QED
  BY <1>4, <1>5 DEF TypeInv

-----------------------------------------------------------------------------
(* A connection that is opened.                                            *)
LEMMA OpenType ==
  ASSUME TypeInv, U_Open
  PROVE  TypeInv' /\ op'.pc = "idle"
<1>1. WorldOK
  BY DEF TypeInv
<1>2. /\ channel' \in {"closed", "open"} /\ buffered' = FALSE /\ up' = <<>> /\ down' = <<>>
      /\ stream' = "inStep" /\ host' = host /\ files' = files /\ ops' = ops
      /\ op' = NewOp("pull", <<>>, "idle")
      /\ device' = [device EXCEPT !.link = "up", !.state = "idle"]
  BY <1>1 DEF U_Open, WorldOK
<1>3. faults' \in 0..MaxFaults
  BY <1>1, FaultType DEF U_Open, WorldOK
<1>4. device' \in Devices /\ device'.state = "idle"
  BY <1>1, <1>2 DEF WorldOK, Devices
<1>5. op'.pc = "idle"
  BY <1>2 DEF NewOp
<1>6. up' \in Seq(Requests) /\ down' \in Seq(Words)
  BY <1>2
<1>7. WorldOK'
  BY <1>1, <1>2, <1>3, <1>4, <1>5, <1>6 DEF WorldOK
<1>8. OpOK(op', host')
  <2> DEFINE n == NewOp("pull", <<>>, "idle")
  <2>1. /\ DOMAIN n = OpFields
        /\ n.kind = "pull" /\ n.pc = "idle" /\ n.result = "none" /\ n.todo = <<>>
        /\ n.file = "none" /\ n.header = Zeros(2) /\ n.data = <<>> /\ n.len = 0
        /\ n.pos = 0 /\ n.eof = FALSE
    BY DEF NewOp, OpFields
  <2>2. op' = n /\ <<>> \in Seq(Entry \cup {Directory})
    BY <1>2
  <2> HIDE DEF n
  <2>3. OpOK(n, host')
    BY <2>1, <2>2, OpMade
  <2> QED
    BY <2>2, <2>3
<1> QED
  BY <1>5, <1>7, <1>8 DEF TypeInv

(* A request of the application leaves all but its operation.              *)
LEMMA AskWorld ==
  ASSUME TypeInv, channel = "open", channel' = channel, ops < MaxOps, ops' = ops + 1,
         UNCHANGED <<buffered, host, down, deviceVars>>,
         up' \in Seq(Requests), stream' \in Streams, faults' \in 0..MaxFaults
  PROVE  WorldOK'
<1>1. ops' \in 0..MaxOps
  BY Assumed DEF TypeInv, WorldOK
<1> QED
  BY <1>1 DEF TypeInv, WorldOK, deviceVars, Streams

(* The same of Asked.                                                      *)
LEMMA AskedWorld ==
  ASSUME TypeInv, Asked
  PROVE  WorldOK' /\ host' = host
<1>1. up' \in Seq(Requests) /\ stream' \in Streams /\ faults' \in 0..MaxFaults
  BY DEF Asked, TypeInv, WorldOK, Streams
<1> QED
  BY <1>1, AskWorld DEF Asked

(* A list of entries is pulled.                                            *)
LEMMA PullType ==
  ASSUME TypeInv, NEW es \in Selections, U_Pull(es)
  PROVE  TypeInv' /\ op'.pc \in {"idle", "entries"}
<1>1. WorldOK' /\ host' = host
  BY AskedWorld DEF U_Pull
<1>2. es \in Seq(Entry)
  BY Assumed
<1>3. PICK error \in {"NO_DIR_TARGET", "TARGET_IS_FILE"} :
        \/ op' = NewOp("pull", es, "entries")
        \/ op' = [NewOp("pull", es, "idle") EXCEPT !.result = error]
  BY DEF U_Pull
<1>4. error \in Errors
  BY DEF Errors
<1>5. CASE op' = NewOp("pull", es, "entries")
  <2>1. OpOK(op', host') /\ op'.pc = "entries"
    BY <1>2, <1>4, <1>5, OpWaiting
  <2> QED
    BY <1>1, <2>1 DEF TypeInv
<1>6. CASE op' = [NewOp("pull", es, "idle") EXCEPT !.result = error]
  <2>1. OpOK(op', host') /\ op'.pc = "idle"
    BY <1>2, <1>4, <1>6, OpRefused
  <2> QED
    BY <1>1, <2>1 DEF TypeInv
<1> QED
  BY <1>3, <1>5, <1>6

(* A list of entries is pushed.                                            *)
LEMMA PushType ==
  ASSUME TypeInv, NEW es \in Selections, U_Push(es)
  PROVE  TypeInv' /\ op'.pc \in {"idle", "entries"}
<1>1. WorldOK' /\ host' = host
  BY AskedWorld DEF U_Push
<1>2. es \in Seq(Entry)
  BY Assumed
<1>3. \/ op' = NewOp("push", es, "entries")
      \/ op' = [NewOp("push", es, "idle") EXCEPT !.result = "REMOTE_IS_FILE"]
  BY DEF U_Push
<1>4. "REMOTE_IS_FILE" \in Errors
  BY DEF Errors
<1>5. CASE op' = NewOp("push", es, "entries")
  <2>1. OpOK(op', host') /\ op'.pc = "entries"
    BY <1>2, <1>4, <1>5, OpWaiting
  <2> QED
    BY <1>1, <2>1 DEF TypeInv
<1>6. CASE op' = [NewOp("push", es, "idle") EXCEPT !.result = "REMOTE_IS_FILE"]
  <2>1. OpOK(op', host') /\ op'.pc = "idle"
    BY <1>2, <1>4, <1>6, OpRefused
  <2> QED
    BY <1>1, <2>1 DEF TypeInv
<1> QED
  BY <1>3, <1>5, <1>6

(* A file entry is pulled.                                                 *)
LEMMA PullEntryType ==
  ASSUME TypeInv, NEW f \in File, U_PullEntry(f)
  PROVE  TypeInv' /\ op'.pc = "request"
<1>1. WorldOK' /\ host' = host
  BY AskedWorld DEF U_PullEntry
<1>2. <<f>> \in Seq(Entry)
  BY DEF Entry
<1>3. op' = [NewOp("pull", <<f>>, "request") EXCEPT !.todo = <<>>, !.file = f]
  BY DEF U_PullEntry
<1>4. OpOK(op', host') /\ op'.pc = "request"
  <2> DEFINE o == [NewOp("pull", <<f>>, "request") EXCEPT !.todo = <<>>, !.file = f]
  <2>1. OpOK(o, host') /\ o.pc = "request"
    <3>1. "pull" \in {"pull", "pullPath", "push"} /\ "pull" # "push"
          /\ "request" \in {"request", "mode"} /\ "request" # "mode"
      OBVIOUS
    <3> QED
      BY <1>2, <3>1, OpOnFile, ZenonT(30)
  <2> HIDE DEF o
  <2> QED
    BY <1>3, <2>1 DEF o
<1> QED
  BY <1>1, <1>4 DEF TypeInv

(* A path is pulled.                                                       *)
LEMMA PullPathType ==
  ASSUME TypeInv, NEW f \in File, U_PullPath(f)
  PROVE  TypeInv' /\ Request("STAT", f) \in Requests
<1>1. Request("STAT", f) \in Requests /\ WorldOK /\ OpOK(op, host)
  BY RequestType DEF TypeInv
<1>2. /\ channel = "open" /\ ops < MaxOps /\ ops' = ops + 1
      /\ UNCHANGED <<channel, buffered, host, down, deviceVars>>
  BY DEF U_PullPath
<1>3. /\ up' \in Seq(Requests) /\ stream' \in Streams /\ faults' \in 0..MaxFaults
      /\ \/ op' = [NewOp("pullPath", <<f>>, "mode") EXCEPT !.todo = <<>>, !.file = f]
         \/ Throw("IO")
  BY <1>1, WriteType DEF U_PullPath
<1>4. WorldOK'
  BY <1>2, <1>3, AskWorld
<1>5. CASE op' = [NewOp("pullPath", <<f>>, "mode") EXCEPT !.todo = <<>>, !.file = f]
  <2>1. <<f>> \in Seq(Entry)
    BY DEF Entry
  <2>2. OpOK(op', host')
    BY <1>5, <2>1, OpOnFile
  <2> QED
    BY <1>1, <1>4, <2>2 DEF TypeInv
<1>6. CASE Throw("IO")
  <2>1. OpOK(op', host')
    BY <1>1, <1>6, ThrowType, StepNames
  <2> QED
    BY <1>1, <1>4, <2>1 DEF TypeInv
<1> QED
  BY <1>3, <1>5, <1>6

(* A file is pushed.                                                       *)
LEMMA PushFileType ==
  ASSUME TypeInv, NEW e \in Entry, U_PushFile(e)
  PROVE  TypeInv' /\ op'.pc \in {"idle", "request"}
<1>1. WorldOK' /\ host' = host
  BY AskedWorld DEF U_PushFile
<1>2. <<e>> \in Seq(Entry)
  OBVIOUS
<1>3. CASE e \in DOMAIN host
  <2>1. e \in File
    BY <1>3 DEF TypeInv, WorldOK, IsTree
  <2>2. op' = [NewOp("push", <<e>>, "request") EXCEPT !.todo = <<>>, !.file = e]
    BY <1>3 DEF U_PushFile
  <2>3. OpOK(op', host') /\ op'.pc = "request"
    <3> DEFINE n == NewOp("push", <<e>>, "request")
    <3>1. /\ DOMAIN n = OpFields
          /\ n.kind = "push" /\ n.pc = "request" /\ n.result = "none"
          /\ n.header = Zeros(2) /\ n.data = <<>> /\ n.len = 0
          /\ n.pos = 0 /\ n.eof = FALSE
      BY DEF NewOp, OpFields
    <3>2. op' = [n EXCEPT !.todo = <<>>, !.file = e]
      BY <2>2
    <3> HIDE DEF n
    <3>3. /\ DOMAIN op' = OpFields
          /\ op'.kind = "push" /\ op'.pc = "request" /\ op'.result = "none"
          /\ op'.header = Zeros(2) /\ op'.data = <<>> /\ op'.len = 0
          /\ op'.pos = 0 /\ op'.eof = FALSE /\ op'.todo = <<>> /\ op'.file = e
      BY <3>1, <3>2 DEF OpFields
    <3>4. e \in DOMAIN host' /\ op'.todo \in Seq(Entry \cup {Directory})
      BY <1>1, <1>3, <3>3
    <3> QED
      BY <2>1, <3>3, <3>4, OpMade
  <2> QED
    BY <1>1, <2>3 DEF TypeInv
<1>4. CASE e \notin DOMAIN host
  <2>1. PICK error \in {"LOCAL_IS_DIRECTORY", "NO_LOCAL_FILE"} :
          op' = [NewOp("push", <<e>>, "idle") EXCEPT !.result = error]
    BY <1>4 DEF U_PushFile
  <2>2. error \in Errors
    BY DEF Errors
  <2>3. OpOK(op', host') /\ op'.pc = "idle"
    BY <1>2, <2>1, <2>2, OpRefused
  <2> QED
    BY <1>1, <2>3 DEF TypeInv
<1> QED
  BY <1>3, <1>4

(* The connection is dropped.                                              *)
LEMMA DropType ==
  ASSUME TypeInv, U_Drop
  PROVE  TypeInv'
<1>1. WorldOK'
  BY DEF TypeInv, WorldOK, U_Drop, deviceVars
<1> QED
  BY <1>1 DEF TypeInv, U_Drop

(* The user cancels.                                                       *)
LEMMA CancelType ==
  ASSUME TypeInv, U_Cancel
  PROVE  TypeInv'
<1>1. WorldOK'
  BY DEF TypeInv, WorldOK, U_Cancel, deviceVars
<1> QED
  BY <1>1 DEF TypeInv, U_Cancel

-----------------------------------------------------------------------------
(* A step of the device.                                                   *)
LEMMA DeviceWorld ==
  ASSUME TypeInv, UNCHANGED <<hostVars, stream, ops>>, faults' \in 0..MaxFaults,
         IsTree(files'), up' \in Seq(Requests), down' \in Seq(Words), device' \in Devices,
         device'.state = "sending" =>
           device'.file \in DOMAIN files' /\ device'.pos <= Len(files'[device'.file])
  PROVE  TypeInv'
<1>1. WorldOK'
  BY DEF TypeInv, WorldOK, hostVars
<1> QED
  BY <1>1 DEF TypeInv, hostVars

(* What the device says is words.                                          *)
LEMMA SaysType ==
  ASSUME WorldOK, NEW words \in Seq(Words), Says(words)
  PROVE  down' \in Seq(Words)
  BY ConcatProperties DEF WorldOK, Says

(* Its failures are words.                                                 *)
LEMMA FailureType == Failure \in Seq(Words) /\ Len(Failure) = 3
<1>1. Id("FAIL") \in Words /\ Num(1) \in Words /\ <<"message", 1>> \in Words
  BY WordKinds
<1> QED
  BY <1>1 DEF Failure

(* The connection breaks.                                                  *)
LEMMA BreaksType ==
  ASSUME TypeInv, D_Breaks
  PROVE  TypeInv' /\ device'.link # "up"
<1>1. WorldOK
  BY DEF TypeInv
<1>2. PICK link \in {"gone", "stalled"} : device' = [device EXCEPT !.link = link]
  BY DEF D_Breaks
<1>3. device' \in Devices /\ device'.state = device.state /\ device'.file = device.file
      /\ device'.pos = device.pos /\ device'.link = link
  BY <1>1, <1>2 DEF WorldOK, Devices
<1>4. faults' \in 0..MaxFaults
  BY <1>1, FaultType DEF D_Breaks
<1>5. UNCHANGED <<hostVars, up, down, files, stream, ops>>
  BY DEF D_Breaks
<1> QED
  BY <1>1, <1>3, <1>4, <1>5, DeviceWorld DEF WorldOK

(* What the device sends of a file.                                        *)
LEMMA SendForms ==
  ASSUME TypeInv, D_Send
  PROVE  /\ TypeInv' /\ up' = up /\ device.link = "up" /\ device.state = "sending"
         /\ device'.link = "up" /\ files' = files /\ device.pos \in Nat
         /\ \/ \E part \in Seq(Words) :
                 /\ Len(part) \in 1..SYNC_DATA_MAX /\ device'.state = "sending"
                 /\ device'.file = device.file /\ device'.pos = device.pos + Len(part)
                 /\ Matches(part, 0, files[device.file], device.pos, Len(part))
                 /\ down' = down \o (<<Id("DATA"), Num(Len(part))>> \o part)
            \/ \E last \in Seq(Words) :
                 /\ LastAt(last, 0) /\ device'.state = "idle" /\ down' = down \o last
                 /\ last[1] = Id("DONE") => device.pos = Len(files[device.file])
<1>1. WorldOK /\ device \in Devices /\ device.state = "sending" /\ device.link = "up"
      /\ device.file \in DOMAIN files /\ device.pos <= Len(files[device.file])
      /\ IsTree(files) /\ device.pos \in Nat
  BY DEF TypeInv, WorldOK, D_Send, Devices
<1> DEFINE content == files[device.file]  l == Len(content)
<1>2. content \in Seq(Words) /\ l \in Nat
  BY <1>1, LenProperties DEF IsTree
<1>3. UNCHANGED <<hostVars, up, files, stream, ops>>
  BY DEF D_Send
<1>4. faults' \in 0..MaxFaults
  BY <1>1, FaultType DEF D_Send, WorldOK
<1>5. ASSUME NEW n \in 1..SYNC_DATA_MAX, device.pos + n <= l,
             Says(<<Id("DATA"), Num(n)>> \o SubSeq(content, device.pos + 1, device.pos + n)),
             device' = [device EXCEPT !.pos = @ + n]
      PROVE  /\ TypeInv' /\ device'.link = "up" /\ device'.state = "sending"
             /\ \E part \in Seq(Words) :
                  /\ Len(part) \in 1..SYNC_DATA_MAX
                  /\ device'.file = device.file /\ device'.pos = device.pos + Len(part)
                  /\ Matches(part, 0, content, device.pos, Len(part))
                  /\ down' = down \o (<<Id("DATA"), Num(Len(part))>> \o part)
  <2> DEFINE part == SubSeq(content, device.pos + 1, device.pos + n)
             words == <<Id("DATA"), Num(n)>> \o part
  <2>1. n \in Nat /\ n >= 1 /\ n <= SYNC_DATA_MAX
    BY Assumed
  <2>2. part \in Seq(Words) /\ Len(part) = n /\ Matches(part, 0, content, device.pos, n)
    <3> HIDE DEF content
    <3> QED
      BY <1>1, <1>2, <1>5, <2>1, SliceSeq
  <2>3. words \in Seq(Words)
    <3>1. Id("DATA") \in Words /\ Num(n) \in Words
      BY <2>1, WordKinds
    <3>2. <<Id("DATA"), Num(n)>> \in Seq(Words)
      BY <3>1
    <3> HIDE DEF part
    <3> QED
      BY <2>2, <3>2, ConcatProperties
  <2>4. Says(words)
    BY <1>5
  <2>5. down' \in Seq(Words)
    <3> HIDE DEF words
    <3> QED
      BY <1>1, <2>3, <2>4, SaysType
  <2>6. /\ device' \in Devices /\ device'.state = "sending" /\ device'.link = "up"
        /\ device'.file = device.file /\ device'.pos = device.pos + n
    <3>1. device.pos + n \in Nat
      BY <1>1, <2>1
    <3> QED
      BY <1>1, <1>5, <3>1 DEF Devices
  <2>7. TypeInv'
    <3>1. up' \in Seq(Requests) /\ files' = files
      BY <1>1, <1>3 DEF WorldOK
    <3>2. device'.file \in DOMAIN files' /\ device'.pos <= Len(files'[device'.file])
      BY <1>1, <1>5, <2>6, <3>1
    <3> QED
      BY <1>1, <1>3, <1>4, <2>5, <2>6, <3>1, <3>2, DeviceWorld
  <2>8. down' = down \o (<<Id("DATA"), Num(Len(part))>> \o part)
    <3>1. down' = down \o words
      BY <2>4 DEF Says
    <3> HIDE DEF part
    <3> QED
      BY <2>2, <3>1
  <2>9. Len(part) \in 1..SYNC_DATA_MAX
    BY <2>2
  <2> HIDE DEF part
  <2> QED
    BY <2>2, <2>6, <2>7, <2>8, <2>9
<1>6. ASSUME NEW last \in Seq(Words), LastAt(last, 0), Says(last),
             device' = [device EXCEPT !.state = "idle"],
             last[1] = Id("DONE") => device.pos = l
      PROVE  /\ TypeInv' /\ device'.link = "up" /\ device'.state = "idle"
             /\ down' = down \o last
  <2>1. device' \in Devices /\ device'.state = "idle" /\ device'.link = "up"
    BY <1>1, <1>6 DEF Devices
  <2>2. down' \in Seq(Words)
    BY <1>1, <1>6, SaysType
  <2>3. TypeInv'
    BY <1>1, <1>3, <1>4, <2>1, <2>2, DeviceWorld DEF WorldOK
  <2> QED
    BY <1>6, <2>1, <2>3 DEF Says
<1>7. /\ <<Id("DONE"), Num(0)>> \in Seq(Words) /\ LastAt(<<Id("DONE"), Num(0)>>, 0)
      /\ Failure \in Seq(Words) /\ LastAt(Failure, 0)
      /\ <<Id("DATA"), Num(SYNC_DATA_MAX + 1)>> \in Seq(Words)
      /\ LastAt(<<Id("DATA"), Num(SYNC_DATA_MAX + 1)>>, 0)
  <2>1. /\ Id("DONE") \in Words /\ Num(0) \in Words /\ Id("DATA") \in Words
        /\ Num(SYNC_DATA_MAX + 1) \in Words
    <3>1. SYNC_DATA_MAX + 1 \in Nat
      BY Assumed
    <3> QED
      BY <3>1, WordKinds
  <2>2. LastAt(<<Id("DONE"), Num(0)>>, 0)
    BY DEF LastAt
  <2>3. LastAt(<<Id("DATA"), Num(SYNC_DATA_MAX + 1)>>, 0)
    BY DEF LastAt
  <2>4. LastAt(Failure, 0)
    BY DEF LastAt, Failure
  <2> QED
    BY <2>1, <2>2, <2>3, <2>4, FailureType
<1>8. \/ \E n \in 1..SYNC_DATA_MAX :
           /\ device.pos + n <= l
           /\ Says(<<Id("DATA"), Num(n)>> \o SubSeq(content, device.pos + 1, device.pos + n))
           /\ device' = [device EXCEPT !.pos = @ + n]
      \/ \E last \in {<<Id("DONE"), Num(0)>>, Failure, <<Id("DATA"), Num(SYNC_DATA_MAX + 1)>>} :
           /\ Says(last) /\ device' = [device EXCEPT !.state = "idle"]
           /\ last[1] = Id("DONE") => device.pos = l
  <2>1. Failure[1] = Id("FAIL")
    BY DEF Failure
  <2>2. /\ Failure[1] # Id("DONE")
        /\ <<Id("DATA"), Num(SYNC_DATA_MAX + 1)>>[1] # Id("DONE")
    BY <2>1, Ids
  <2> QED
    BY <2>2 DEF D_Send
<1> HIDE DEF content, l
<1>9. CASE \E n \in 1..SYNC_DATA_MAX :
             /\ device.pos + n <= l
             /\ Says(<<Id("DATA"), Num(n)>> \o SubSeq(content, device.pos + 1, device.pos + n))
             /\ device' = [device EXCEPT !.pos = @ + n]
  BY <1>1, <1>3, <1>5, <1>9 DEF content
<1>10. CASE \E last \in {<<Id("DONE"), Num(0)>>, Failure, <<Id("DATA"), Num(SYNC_DATA_MAX + 1)>>} :
             /\ Says(last) /\ device' = [device EXCEPT !.state = "idle"]
             /\ last[1] = Id("DONE") => device.pos = l
  BY <1>1, <1>3, <1>6, <1>7, <1>10 DEF content, l
<1> QED
  BY <1>8, <1>9, <1>10

(* What the device makes of a request.                                     *)
TakeForms ==
  LET r == Head(up) IN
  \/ device.state = "idle" /\ r.name \notin {"STAT", "RECV", "SEND"}
  \/ device.state = "receiving" /\ r.name \notin {"DATA", "DONE"}
  \/ /\ device.state = "idle" /\ r.name = "STAT" /\ device' = device /\ files' = files
     /\ \E words \in Seq(Words) : Len(words) = 4 /\ down' = down \o words
  \/ /\ device.state = "idle" /\ r.name = "RECV" /\ files' = files
     /\ \/ /\ device'.state = "sending" /\ device'.file = r.file /\ device'.pos = 0
           /\ r.file \in DOMAIN files /\ down' = down
        \/ device' = device /\ down' = down \o Failure
  \/ /\ device.state = "idle" /\ r.name = "SEND" /\ device'.state = "receiving"
     /\ \/ /\ ~device'.failed /\ device'.file = r.file /\ down' = down
           /\ DOMAIN files' = DOMAIN files \cup {r.file} /\ files'[r.file] = <<>>
           /\ \A g \in DOMAIN files : g # r.file => files'[g] = files[g]
        \/ device'.failed /\ down' = down \o Failure /\ files' = files
  \/ /\ device.state = "receiving" /\ r.name = "DATA" /\ device' = device /\ down' = down
     /\ device.failed => files' = files
     /\ ~device.failed =>
          /\ DOMAIN files' = DOMAIN files
          /\ device.file \in DOMAIN files =>
               files'[device.file] = files[device.file] \o r.data
          /\ \A g \in DOMAIN files : g # device.file => files'[g] = files[g]
  \/ /\ device.state = "receiving" /\ r.name = "DONE" /\ device'.state = "idle"
     /\ device'.failed = device.failed /\ files' = files
     /\ device.failed => down' = down
     /\ ~device.failed => down' = down \o <<Id("OKAY"), Num(0)>>

(* The steps keep the types.                                               *)
LEMMA TakeType ==
  ASSUME TypeInv, D_Take
  PROVE  /\ TypeInv' /\ TakeForms /\ device.link = "up" /\ up # <<>> /\ up' = Tail(up)
         /\ Head(up) \in Requests
<1> DEFINE r == Head(up)
<1>1. WorldOK /\ device \in Devices /\ up # <<>> /\ up' = Tail(up) /\ device.link = "up"
      /\ IsTree(files) /\ up \in Seq(Requests) /\ down \in Seq(Words) /\ faults \in 0..MaxFaults
  BY DEF TypeInv, WorldOK, D_Take
<1>2. r \in Requests /\ up' \in Seq(Requests)
  BY <1>1, HeadTailProperties
<1>3. UNCHANGED <<hostVars, stream, ops>>
  BY DEF D_Take
<1>4. r.file \in File /\ r.data \in Seq(Words)
  BY <1>2 DEF Requests
<1>5. Failure \in Seq(Words)
  BY FailureType
<1> HIDE DEF r
<1>6. ASSUME HangsUp, faults' = faults
      PROVE  TypeInv'
  <2>1. device' \in Devices /\ device'.state = device.state /\ device'.link = "gone"
        /\ device'.file = device.file /\ device'.pos = device.pos /\ files' = files
    BY <1>1, <1>6 DEF HangsUp, Devices
  <2>2. down' \in Seq(Words)
    BY <1>1, <1>5, <1>6, SaysType DEF HangsUp
  <2> QED
    BY <1>1, <1>2, <1>3, <1>6, <2>1, <2>2, DeviceWorld DEF WorldOK
<1>7. CASE device.state = "idle" /\ D_Answer(r)
  <2>1. CASE r.name = "STAT"
    <3> DEFINE words == <<Id("STAT"), Num(IF r.file \in DOMAIN files THEN 1 ELSE 0),
                          Num(Size(files, r.file)), Num(0)>>
    <3>1. Says(words) /\ UNCHANGED <<deviceVars, faults>>
      BY <1>7, <2>1 DEF D_Answer
    <3>2. Size(files, r.file) \in Nat
      <4>1. r.file \in DOMAIN files => files[r.file] \in Seq(Words)
        BY <1>1 DEF IsTree
      <4>2. r.file \in DOMAIN files => Len(files[r.file]) \in Nat
        BY <4>1, LenProperties
      <4> QED
        BY <4>2 DEF Size
    <3>3. /\ Id("STAT") \in Words /\ Num(IF r.file \in DOMAIN files THEN 1 ELSE 0) \in Words
          /\ Num(Size(files, r.file)) \in Words /\ Num(0) \in Words
      BY <3>2, WordKinds
    <3>4. words \in Seq(Words) /\ Len(words) = 4
      BY <3>3
    <3> HIDE DEF words
    <3>5. down' \in Seq(Words) /\ down' = down \o words
      BY <1>1, <3>1, <3>4, SaysType DEF Says
    <3>6. device' = device /\ files' = files /\ faults' = faults
      BY <3>1 DEF deviceVars
    <3>7. TypeInv'
      BY <1>1, <1>2, <1>3, <1>7, <3>5, <3>6, DeviceWorld
    <3> QED
      BY <1>1, <1>2, <1>7, <2>1, <3>4, <3>5, <3>6, <3>7 DEF TakeForms, r
  <2>2. CASE r.name = "RECV"
    <3>1. CASE /\ r.file \in DOMAIN files
               /\ device' = [device EXCEPT !.state = "sending", !.file = r.file, !.pos = 0]
               /\ UNCHANGED <<down, files, faults>>
      <4>1. device' \in Devices /\ device'.state = "sending" /\ device'.file = r.file
            /\ device'.pos = 0
        BY <1>1, <1>4, <3>1 DEF Devices
      <4>2. files[r.file] \in Seq(Words)
        BY <1>1, <3>1 DEF IsTree
      <4>3. 0 <= Len(files[r.file])
        BY <4>2, LenProperties
      <4>4. TypeInv'
        BY <1>1, <1>2, <1>3, <3>1, <4>1, <4>3, DeviceWorld
      <4>5. TakeForms
        BY <1>7, <2>2, <3>1, <4>1 DEF TakeForms, r
      <4> QED
        BY <1>1, <1>2, <4>4, <4>5 DEF r
    <3>2. CASE /\ IF r.file \in DOMAIN files THEN Fault("refuse") ELSE UNCHANGED faults
               /\ Says(Failure) /\ UNCHANGED deviceVars
      <4>1. faults' \in 0..MaxFaults
        BY <1>1, <3>2, FaultType
      <4>2. down' \in Seq(Words) /\ down' = down \o Failure
        BY <1>1, <1>5, <3>2, SaysType DEF Says
      <4>3. device' = device /\ files' = files
        BY <3>2 DEF deviceVars
      <4>4. TypeInv'
        BY <1>1, <1>2, <1>3, <1>7, <4>1, <4>2, <4>3, DeviceWorld
      <4> QED
        BY <1>1, <1>2, <1>7, <2>2, <4>2, <4>3, <4>4 DEF TakeForms, r
    <3> QED
      BY <1>7, <2>2, <3>1, <3>2 DEF D_Answer
  <2>3. CASE r.name = "SEND"
    <3>1. CASE /\ device' = [device EXCEPT !.state = "receiving", !.file = r.file,
                                           !.failed = FALSE]
               /\ files' = [g \in DOMAIN files \cup {r.file} |->
                              IF g = r.file THEN <<>> ELSE files[g]]
               /\ UNCHANGED <<down, faults>>
      <4>1. device' \in Devices /\ device'.state = "receiving" /\ ~device'.failed
        BY <1>1, <1>4, <3>1 DEF Devices
      <4>2. IsTree(files')
        <5>1. <<>> \in Seq(Words)
          OBVIOUS
        <5>2. /\ DOMAIN files' = DOMAIN files \cup {r.file}
              /\ \A g \in DOMAIN files' :
                   IF g = r.file THEN files'[g] = <<>> ELSE files'[g] = files[g]
          BY <3>1
        <5> QED
          BY <1>1, <1>4, <5>1, <5>2 DEF IsTree
      <4>3. TypeInv'
        BY <1>1, <1>2, <1>3, <3>1, <4>1, <4>2, DeviceWorld
      <4>4. /\ DOMAIN files' = DOMAIN files \cup {r.file} /\ files'[r.file] = <<>>
            /\ \A g \in DOMAIN files : g # r.file => files'[g] = files[g]
        BY <3>1
      <4>5. device'.file = r.file
        BY <1>1, <3>1 DEF Devices
      <4>6. TakeForms
        BY <1>7, <2>3, <3>1, <4>1, <4>4, <4>5 DEF TakeForms, r
      <4> QED
        BY <1>1, <1>2, <4>3, <4>6 DEF r
    <3>2. CASE /\ Fault("refuse")
               /\ device' = [device EXCEPT !.state = "receiving", !.file = r.file, !.failed = TRUE]
               /\ Says(Failure) /\ UNCHANGED files
      <4>1. faults' \in 0..MaxFaults
        BY <1>1, <3>2, FaultType
      <4>2. down' \in Seq(Words) /\ down' = down \o Failure
        BY <1>1, <1>5, <3>2, SaysType DEF Says
      <4>3. device' \in Devices /\ device'.state = "receiving" /\ device'.failed
        BY <1>1, <1>4, <3>2 DEF Devices
      <4>4. TypeInv'
        BY <1>1, <1>2, <1>3, <3>2, <4>1, <4>2, <4>3, DeviceWorld
      <4> QED
        BY <1>1, <1>2, <1>7, <2>3, <3>2, <4>2, <4>3, <4>4 DEF TakeForms, r
    <3> QED
      BY <1>7, <2>3, <3>1, <3>2 DEF D_Answer
  <2>4. CASE r.name \notin {"STAT", "RECV", "SEND"}
    <3>1. HangsUp /\ UNCHANGED faults
      BY <1>7, <2>4 DEF D_Answer
    <3> QED
      BY <1>1, <1>2, <1>6, <1>7, <2>4, <3>1 DEF TakeForms, r
  <2> QED
    BY <2>1, <2>2, <2>3, <2>4
<1>8. CASE device.state = "receiving" /\ r.name = "DATA"
  <2>1. /\ files' = IF device.failed THEN files
                    ELSE [files EXCEPT ![device.file] = @ \o r.data]
        /\ UNCHANGED <<device, down>> /\ UNCHANGED faults
    BY <1>8 DEF D_Take, r
  <2>2. IsTree(files')
    <3>1. device.file \in DOMAIN files => files[device.file] \o r.data \in Seq(Words)
      BY <1>1, <1>4, ConcatProperties DEF IsTree
    <3>2. DOMAIN files' = DOMAIN files
      BY <2>1
    <3>3. \A f \in DOMAIN files :
            \/ files'[f] = files[f]
            \/ f = device.file /\ files'[f] = files[device.file] \o r.data
      BY <2>1
    <3>4. ASSUME NEW f \in DOMAIN files  PROVE files'[f] \in Seq(Words)
      <4>1. files[f] \in Seq(Words)
        BY <1>1 DEF IsTree
      <4> QED
        BY <3>1, <3>3, <4>1
    <3> QED
      BY <1>1, <3>2, <3>4 DEF IsTree
  <2>3. TypeInv'
    BY <1>1, <1>2, <1>3, <1>8, <2>1, <2>2, DeviceWorld
  <2>4. /\ device.failed => files' = files
        /\ ~device.failed =>
             /\ DOMAIN files' = DOMAIN files
             /\ device.file \in DOMAIN files =>
                  files'[device.file] = files[device.file] \o r.data
             /\ \A g \in DOMAIN files : g # device.file => files'[g] = files[g]
    BY <2>1
  <2>5. TakeForms
    BY <1>8, <2>1, <2>4 DEF TakeForms, r
  <2> QED
    BY <1>1, <1>2, <2>3, <2>5 DEF r
<1>9. CASE device.state = "receiving" /\ r.name = "DONE"
  <2>1. /\ device' = [device EXCEPT !.state = "idle"]
        /\ device.failed => down' = down
        /\ ~device.failed => Says(<<Id("OKAY"), Num(0)>>)
        /\ UNCHANGED files /\ UNCHANGED faults
    BY <1>9 DEF D_Take, r
  <2>2. device' \in Devices /\ device'.state = "idle" /\ device'.failed = device.failed
    BY <1>1, <2>1 DEF Devices
  <2>3. Id("OKAY") \in Words /\ Num(0) \in Words
    BY WordKinds
  <2>4. <<Id("OKAY"), Num(0)>> \in Seq(Words)
    BY <2>3
  <2>5. down' \in Seq(Words) /\ (~device.failed => down' = down \o <<Id("OKAY"), Num(0)>>)
    BY <1>1, <2>1, <2>4, SaysType DEF Says
  <2>6. TypeInv'
    BY <1>1, <1>2, <1>3, <2>1, <2>2, <2>5, DeviceWorld
  <2> QED
    BY <1>1, <1>2, <1>9, <2>1, <2>2, <2>5, <2>6 DEF TakeForms, r
<1>10. CASE device.state = "receiving" /\ r.name \notin {"DATA", "DONE"}
  <2>1. HangsUp /\ UNCHANGED faults
    BY <1>10 DEF D_Take, r
  <2> QED
    BY <1>1, <1>2, <1>6, <1>10, <2>1 DEF TakeForms, r
<1> QED
  BY <1>7, <1>8, <1>9, <1>10 DEF D_Take, r

-----------------------------------------------------------------------------

(* What the client and the device have of each other, at each of the       *)
(* client's steps: c is the file that is pulled, of which p words have     *)
(* been read.                                                              *)
Heading(o, d, ws, c) == \E p \in Nat : o.pos = Capped(p) /\ Announced(d, ws, o.header, c, p)

Reading(o, d, ws, c) ==
  \E p \in Nat : /\ o.pos = Capped(p) /\ Matches(ws, 0, c, p, o.len)
                 /\ FramesFrom(d, ws, c, o.len, p + o.len)

HasRead(o, d, ws, c) ==
  \E p \in Nat : /\ o.pos = Capped(p) /\ Matches(o.data, 0, c, p, o.len)
                 /\ FramesFrom(d, ws, c, 0, p + o.len)

(* The answer to a request for f, whose tree is t.                         *)
Answers(d, us, ws, f, t) ==
  us = <<>> /\ FramesFrom(d, ws, t[f], 0, 0) /\ (f \notin DOMAIN t => ws = Failure)

(* The end of a push of f, which is c, has not been taken, or answered.    *)
Concluding(d, us, ws, f, c, t) ==
  \/ /\ us # <<>> /\ us[Len(us)].name = "DONE"
     /\ Pushed(d, us, ws, Len(us) - 1, f, c, t, Len(c))
  \/ /\ us = <<>> /\ d.state = "idle"
     /\ ws = Failure \/ (ws = <<Id("OKAY"), Num(0)>> /\ f \in DOMAIN t /\ t[f] = c)

Talk(o, d, us, ws, t, h) ==
  /\ o.pc \in {"idle", "entries", "request"} => Quiet(d, us, ws)
  /\ o.pc = "mode" => \/ Queued(d, us, ws, "STAT", o.file)
                      \/ us = <<>> /\ d.state = "idle" /\ Len(ws) = 4
  /\ o.pc = "answer" => Queued(d, us, ws, "RECV", o.file) \/ Answers(d, us, ws, o.file, t)
  /\ o.pc \in {"answer", "create", "transfer", "data", "next"} /\ d.state = "sending" =>
       d.file = o.file
  /\ o.pc \in {"create", "transfer", "data", "next"} => us = <<>> /\ o.file \in DOMAIN t
  /\ o.pc \in {"create", "transfer"} => Heading(o, d, ws, t[o.file])
  /\ o.pc = "data" => Reading(o, d, ws, t[o.file])
  /\ o.pc = "next" => HasRead(o, d, ws, t[o.file])
  /\ o.pc = "chunk" => /\ Pushed(d, us, ws, Len(us), o.file, h[o.file], t, o.pos)
                       /\ o.eof => o.pos = Len(h[o.file])
  /\ o.pc = "result" => o.file \in DOMAIN h /\ Concluding(d, us, ws, o.file, h[o.file], t)
  /\ o.pc = "message" => o.len = 1 /\ Len(ws) = 1 /\ Behind(d, us, Len(us))

Talking == Talk(op, device, up, down, files, host)

(* The connection is gone, and what there is to read of it can make no     *)
(* transfer succeed.                                                       *)
Lost ==
  /\ device.link = "gone" /\ op.pc \notin {"create", "transfer", "data", "next"}
  /\ \A i \in 1..Len(down) : down[i] \notin {Id("DATA"), Id("DONE"), Id("OKAY")}

(* Nothing was interrupted or late, and not all is lost.                   *)
InTouch == stream = "inStep" /\ ~Lost

(* Then the two are in step.                                               *)
TalkInv == InTouch => Talking

(* What the steps of a transfer leave of an operation.                     *)
SameJob(o, p) ==
  p.kind = o.kind /\ p.args = o.args /\ p.before = o.before /\ p.file = o.file /\ p.todo = o.todo

(* The inductive invariant of the talk.                                    *)
SyncInv == TypeInv /\ TalkInv

-----------------------------------------------------------------------------
(* An empty connection.                                                    *)
LEMMA QuietEmpty ==
  ASSUME NEW d, NEW us, NEW ws, us = <<>>, ws = <<>>, d.state = "idle"
  PROVE  Quiet(d, us, ws)
  BY DEF Quiet, Behind

(* Nothing is left.                                                        *)
LEMMA EmptyDown ==
  ASSUME NEW ws \in Seq(Words), Len(ws) = 0
  PROVE  ws = <<>>
  BY EmptySeq

(* What is left when as much is read as there is.                          *)
LEMMA ReadAll ==
  ASSUME NEW ws \in Seq(Words), NEW n \in Nat, Len(ws) = n
  PROVE  SubSeq(ws, n + 1, Len(ws)) = <<>>
<1>1. n \in 0..Len(ws) /\ Len(ws) - n = 0
  OBVIOUS
<1>2. SubSeq(ws, n + 1, Len(ws)) \in Seq(Words) /\ Len(SubSeq(ws, n + 1, Len(ws))) = Len(ws) - n
  BY <1>1, DropSeq
<1> QED
  BY <1>1, <1>2, EmptyDown

(* Only the link of the device does not matter.                            *)
LEMMA TalkLink ==
  ASSUME NEW o, NEW d, NEW e, NEW us, NEW ws, NEW t, NEW h, e.state = d.state, e.file = d.file,
         e.pos = d.pos, e.failed = d.failed, Talk(o, d, us, ws, t, h)
  PROVE  Talk(o, e, us, ws, t, h)
<1>1. \A k : Behind(d, us, k) => Behind(e, us, k)
  BY DEF Behind
<1>2. \A c, k, p : FramesFrom(d, ws, c, k, p) => FramesFrom(e, ws, c, k, p)
  <2>1. \A c, i, p, at : FrameAt(d, ws, c, i, p, at) => FrameAt(e, ws, c, i, p, at)
    BY DEF FrameAt
  <2>2. ASSUME NEW c, NEW k, NEW p, FramesFrom(d, ws, c, k, p)
        PROVE  FramesFrom(e, ws, c, k, p)
    <3>1. PICK at \in [Nat -> SUBSET Nat] :
            p \in at[k] /\ \A i \in Nat : \A q \in at[i] : FrameAt(d, ws, c, i, q, at)
      BY <2>2 DEF FramesFrom
    <3>2. \A i \in Nat : \A q \in at[i] : FrameAt(e, ws, c, i, q, at)
      BY <2>1, <3>1
    <3> QED
      BY <3>1, <3>2 DEF FramesFrom
  <2> QED
    BY <2>2
<1>3. \A header, c, p : Announced(d, ws, header, c, p) => Announced(e, ws, header, c, p)
  BY <1>2 DEF Announced
<1>4. \A n, f, c, p : Pushed(d, us, ws, n, f, c, t, p) => Pushed(e, us, ws, n, f, c, t, p)
  <2>1. ASSUME NEW n, NEW f, NEW c, NEW p, Pushed(d, us, ws, n, f, c, t, p)
        PROVE  Pushed(e, us, ws, n, f, c, t, p)
    BY <1>1, <2>1 DEF Pushed
  <2> QED
    BY <2>1
<1>5. /\ Quiet(d, us, ws) => Quiet(e, us, ws)
      /\ \A name, f : Queued(d, us, ws, name, f) => Queued(e, us, ws, name, f)
      /\ \A f : Answers(d, us, ws, f, t) => Answers(e, us, ws, f, t)
      /\ \A c : /\ Heading(o, d, ws, c) => Heading(o, e, ws, c)
                /\ Reading(o, d, ws, c) => Reading(o, e, ws, c)
                /\ HasRead(o, d, ws, c) => HasRead(o, e, ws, c)
      /\ \A f, c : Concluding(d, us, ws, f, c, t) => Concluding(e, us, ws, f, c, t)
  <2>1. Quiet(d, us, ws) => Quiet(e, us, ws)
    BY <1>1 DEF Quiet
  <2>2. \A name, f : Queued(d, us, ws, name, f) => Queued(e, us, ws, name, f)
    BY <1>1 DEF Queued
  <2>3. \A f : Answers(d, us, ws, f, t) => Answers(e, us, ws, f, t)
    BY <1>2 DEF Answers
  <2>4. \A c : Heading(o, d, ws, c) => Heading(o, e, ws, c)
    BY <1>3 DEF Heading
  <2>5. \A c : Reading(o, d, ws, c) => Reading(o, e, ws, c)
    BY <1>2 DEF Reading
  <2>6. \A c : HasRead(o, d, ws, c) => HasRead(o, e, ws, c)
    BY <1>2 DEF HasRead
  <2>7. \A f, c : Concluding(d, us, ws, f, c, t) => Concluding(e, us, ws, f, c, t)
    BY <1>4 DEF Concluding
  <2> QED
    BY <2>1, <2>2, <2>3, <2>4, <2>5, <2>6, <2>7
<1> QED
  BY <1>1, <1>4, <1>5 DEF Talk

(* What is under way of a push that has not been concluded makes no        *)
(* transfer succeed.                                                       *)
LEMMA NoSuccess ==
  ASSUME NEW ws, ws = <<>> \/ ws = Failure
  PROVE  \A i \in 1..Len(ws) : ws[i] \notin {Id("DATA"), Id("DONE"), Id("OKAY")}
<1>1. CASE ws = <<>>
  <2>1. Len(ws) = 0
    BY <1>1
  <2> QED
    BY <2>1
<1>2. CASE ws = Failure
  <2>1. Len(ws) = 3 /\ ws[1] = Id("FAIL") /\ ws[2] = Num(1) /\ ws[3] = <<"message", 1>>
    BY <1>2 DEF Failure
  <2>2. /\ Id("FAIL") \notin {Id("DATA"), Id("DONE"), Id("OKAY")}
        /\ Num(1) \notin {Id("DATA"), Id("DONE"), Id("OKAY")}
        /\ <<"message", 1>> \notin {Id("DATA"), Id("DONE"), Id("OKAY")}
    BY DEF Id, Num
  <2>3. ASSUME NEW i \in 1..3  PROVE i = 1 \/ i = 2 \/ i = 3
    OBVIOUS
  <2> QED
    BY <2>1, <2>2, <2>3
<1> QED
  BY <1>1, <1>2

(* What is lost stays lost.                                                *)
LEMMA LostStays ==
  ASSUME TypeInv, Client, stream' = "inStep", Lost
  PROVE  Lost'
<1>1. /\ OpOK(op, host) /\ WorldOK /\ DOMAIN op = OpFields /\ down \in Seq(Words)
      /\ device.link = "gone" /\ op.pc \notin {"create", "transfer", "data", "next"}
      /\ \A i \in 1..Len(down) : down[i] \notin {Id("DATA"), Id("DONE"), Id("OKAY")}
  BY DEF TypeInv, WorldOK, OpOK, Lost
<1>2. device' = device
  BY DEF Client, C_NextEntry, C_Request, C_ReadMode, C_ReadAnswer, C_Create, C_CheckHeader,
         C_ReadData, C_ReadNext, C_SendChunk, C_SendDone, C_ReadResult, C_ReadMessage, C_ReadsOn,
         deviceVars
(* Words are only taken from what there is to read *)
<1>3. ASSUME NEW n \in Nat, Read(n)
      PROVE  /\ Len(down) >= n
             /\ \A i \in 1..Len(down') : down'[i] \notin {Id("DATA"), Id("DONE"), Id("OKAY")}
  <2>1. Len(down) >= n /\ down' = SubSeq(down, n + 1, Len(down))
    BY <1>1, <1>3, ReadType
  <2>2. n \in 0..Len(down) /\ Len(down) \in Nat
    BY <1>1, <2>1, LenProperties
  <2>3. Len(down') = Len(down) - n /\ \A i \in 1..Len(down) - n : down'[i] = down[i + n]
    BY <1>1, <2>1, <2>2, DropSeq
  <2>4. ASSUME NEW i \in 1..Len(down')
        PROVE  down'[i] \notin {Id("DATA"), Id("DONE"), Id("OKAY")}
    <3>1. i \in 1..Len(down) - n /\ i + n \in 1..Len(down)
      BY <2>2, <2>3
    <3> QED
      BY <1>1, <2>3, <3>1
  <2> QED
    BY <2>1, <2>4
<1>4. CASE C_NextEntry
  <2>1. op'.pc \in {"idle", "entries", "request"} /\ down' = down
    BY <1>4, NextEntryType DEF C_NextEntry
  <2> QED
    BY <1>1, <1>2, <2>1 DEF Lost
<1>5. CASE C_Request \/ C_SendChunk \/ C_SendDone \/ C_ReadsOn
  <2>1. down' = down
    BY <1>5 DEF C_Request, C_SendChunk, C_SendDone, C_ReadsOn
  <2>2. op'.pc \notin {"create", "transfer", "data", "next"}
    <3>1. \/ \E error : Throw(error)
          \/ \E pc \in {"result", "spinning"} : Goto(pc)
          \/ op' = [op EXCEPT !.pc = "answer", !.header = Zeros(2), !.pos = 0,
                              !.data = Zeros(SYNC_DATA_MAX)]
          \/ op' = [op EXCEPT !.pc = "chunk", !.pos = 0, !.eof = FALSE]
          \/ /\ op' = [op EXCEPT !.pos = @ + ReadCount, !.eof = Rest < CHUNK]
             /\ op.pc = "chunk"
      BY <1>5 DEF C_Request, C_SendChunk, C_SendDone, C_ReadsOn, Write
    <3>2. ASSUME NEW error, Throw(error)  PROVE op'.pc = "idle"
      BY <3>2 DEF Throw, Ended, NewOp
    <3> QED
      BY <1>1, <3>1, <3>2 DEF Goto, OpFields
  <2> QED
    BY <1>1, <1>2, <2>1, <2>2 DEF Lost
<1>6. CASE C_ReadMode
  <2>1. op'.pc \in {"idle", "request"} /\ Read(4)
    BY <1>6, ReadModeType DEF C_ReadMode
  <2> QED
    BY <1>1, <1>2, <1>3, <2>1 DEF Lost
<1>7. CASE C_ReadMessage
  <2>1. op'.pc \in {"idle", "undefined"} /\ Read(op.len) /\ op.len \in Nat
    BY <1>1, <1>7, ReadMessageType DEF C_ReadMessage, OpOK
  <2> QED
    BY <1>1, <1>2, <1>3, <2>1 DEF Lost
<1>8. CASE C_ReadResult
  <2>1. Read(2) /\ 2 \in Nat
    BY <1>8 DEF C_ReadResult
  <2>2. op'.pc \in {"entries", "idle", "message"}
    <3> DEFINE result == Received(2, Zeros(2))
    <3>1. Goto("entries") \/ Failed(result)
      BY <1>8 DEF C_ReadResult, FileDone
    <3>2. ASSUME Failed(result)  PROVE op'.pc \in {"idle", "message"}
      BY <1>1, <3>2 DEF Failed, Throw, Ended, NewOp, OpFields
    <3> QED
      BY <1>1, <3>1, <3>2 DEF Goto, OpFields
  <2> QED
    BY <1>1, <1>2, <1>3, <2>1, <2>2 DEF Lost
<1>9. CASE C_ReadAnswer
  <2>1. Read(2) /\ 2 \in Nat /\ Len(op.header) = 2 /\ op.header \in Seq(Words)
    BY <1>1, <1>9 DEF C_ReadAnswer, OpOK
  <2> DEFINE header == Received(2, op.header)
  <2>2. header[1] \notin {Id("DATA"), Id("DONE")}
    <3>1. Len(down) >= 2 /\ 2 \in 0..Len(op.header) /\ 1 \in 1..2 /\ Len(down) \in Nat
      BY <1>1, <1>3, <2>1, LenProperties
    <3>2. 1 \in 1..Len(down)
      BY <3>1
    <3>3. header[1] = down[1]
      BY <1>1, <2>1, <3>1, ReceivedType
    <3> QED
      BY <1>1, <3>2, <3>3
  <2>3. Failed(header)
    BY <1>9, <2>2 DEF C_ReadAnswer, Is
  <2>4. op'.pc \in {"idle", "message"}
    BY <1>1, <2>3 DEF Failed, Throw, Ended, NewOp, OpFields
  <2> QED
    BY <1>1, <1>2, <1>3, <2>1, <2>4 DEF Lost
<1>10. ~C_Create /\ ~C_CheckHeader /\ ~C_ReadData /\ ~C_ReadNext
  BY <1>1 DEF C_Create, C_CheckHeader, C_ReadData, C_ReadNext
<1> QED
  BY <1>4, <1>5, <1>6, <1>7, <1>8, <1>9, <1>10 DEF Client

-----------------------------------------------------------------------------
(* The walk says nothing.                                                  *)
LEMMA NextEntryTalk ==
  ASSUME SyncInv, Talking, C_NextEntry
  PROVE  Talking'
<1>1. op'.pc \in {"idle", "entries", "request"}
  BY NextEntryType DEF SyncInv
<1>2. UNCHANGED <<up, down, device>> /\ op.pc = "entries"
  BY DEF C_NextEntry, deviceVars
<1>3. Quiet(device', up', down')
  BY <1>2 DEF Talking, Talk
<1> QED
  BY <1>1, <1>3 DEF Talking, Talk

(* A request is put behind what the device skips.                          *)
LEMMA RequestTalk ==
  ASSUME SyncInv, Talking, InTouch', C_Request
  PROVE  Talking'
<1>1. /\ OpOK(op, host) /\ WorldOK /\ op.pc = "request" /\ op.file \in File /\ IsTree(host)
      /\ up \in Seq(Requests) /\ DOMAIN op = OpFields
      /\ op.kind = "push" => op.file \in DOMAIN host
  BY DEF SyncInv, TypeInv, OpOK, C_Request, WorldOK
<1>2. down' = down /\ device' = device /\ files' = files /\ host' = host
  BY DEF C_Request, deviceVars
<1>3. Quiet(device, up, down) /\ device.state # "sending"
  BY <1>1 DEF Talking, Talk, Quiet, Behind
<1>4. ASSUME op'.pc = "idle", up' = up
      PROVE  Talking'
  BY <1>2, <1>3, <1>4 DEF Talking, Talk
<1>5. CASE Throw("REMOTE_PATH_LENGTH") /\ UNCHANGED <<up, buffered, stream, faults>>
  <2>1. op'.pc = "idle"
    BY <1>1, <1>5, ThrowType, StepNames
  <2> QED
    BY <1>4, <1>5, <2>1
<1>6. CASE /\ op.kind # "push"
           /\ Write(Request("RECV", op.file),
                    op' = [op EXCEPT !.pc = "answer", !.header = Zeros(2), !.pos = 0,
                                     !.data = Zeros(SYNC_DATA_MAX)])
  <2> DEFINE r == Request("RECV", op.file)
  <2>1. r \in Requests /\ r.name = "RECV" /\ r.file = op.file
    BY <1>1, RequestType DEF Request
  <2>2. \/ /\ up' = Append(up, r)
           /\ op' = [op EXCEPT !.pc = "answer", !.header = Zeros(2), !.pos = 0,
                               !.data = Zeros(SYNC_DATA_MAX)]
        \/ Throw("IO") /\ up' = up
    BY <1>1, <1>6, <2>1, WriteType DEF InTouch
  <2> HIDE DEF r
  <2>3. CASE Throw("IO") /\ up' = up
    BY <1>1, <1>4, <2>3, ThrowType, StepNames
  <2>4. CASE /\ up' = Append(up, r)
             /\ op' = [op EXCEPT !.pc = "answer", !.header = Zeros(2), !.pos = 0,
                                 !.data = Zeros(SYNC_DATA_MAX)]
    <3>1. op'.pc = "answer" /\ op'.file = op.file
      BY <1>1, <2>4 DEF OpFields
    <3>2. Queued(device, Append(up, r), down, r.name, r.file)
      BY <1>1, <1>3, <2>1, QueuedAppend
    <3>3. Queued(device', up', down', "RECV", op'.file)
      BY <1>2, <2>1, <2>4, <3>1, <3>2
    <3>4. device'.state # "sending"
      BY <1>2, <1>3
    <3> QED
      BY <3>1, <3>3, <3>4 DEF Talking, Talk
  <2> QED
    BY <2>2, <2>3, <2>4
<1>7. CASE /\ op.kind = "push"
           /\ Write(Request("SEND", op.file),
                    /\ op' = [op EXCEPT !.pc = "chunk", !.pos = 0, !.eof = FALSE]
                    /\ buffered' = TRUE)
  <2> DEFINE r == Request("SEND", op.file)
  <2>1. r \in Requests /\ r.name = "SEND" /\ r.file = op.file
    BY <1>1, RequestType DEF Request
  <2>2. \/ /\ up' = Append(up, r)
           /\ op' = [op EXCEPT !.pc = "chunk", !.pos = 0, !.eof = FALSE]
        \/ Throw("IO") /\ up' = up
    BY <1>1, <1>7, <2>1, WriteType DEF InTouch
  <2> HIDE DEF r
  <2>3. CASE Throw("IO") /\ up' = up
    BY <1>1, <1>4, <2>3, ThrowType, StepNames
  <2>4. CASE up' = Append(up, r) /\ op' = [op EXCEPT !.pc = "chunk", !.pos = 0, !.eof = FALSE]
    <3>1. op'.pc = "chunk" /\ op'.file = op.file /\ op'.pos = 0 /\ op'.eof = FALSE
      BY <1>1, <2>4 DEF OpFields
    <3> DEFINE c == host[op.file]
    <3>2. Pushed(device, Append(up, r), down, Len(Append(up, r)), r.file, c, files, 0)
      <4> HIDE DEF c
      <4> QED
        BY <1>1, <1>3, <2>1, PushedSend
    <3>3. Pushed(device', up', down', Len(up'), op'.file, host'[op'.file], files', op'.pos)
      BY <1>2, <2>1, <2>4, <3>1, <3>2
    <3> QED
      BY <3>1, <3>3 DEF Talking, Talk
  <2> QED
    BY <2>2, <2>3, <2>4
<1> QED
  BY <1>5, <1>6, <1>7 DEF C_Request

(* A read that leaves the connection in step has got what it asked for.    *)
LEMMA ReadTalk ==
  ASSUME SyncInv, stream' = "inStep", NEW n \in Nat, Read(n),
         UNCHANGED <<up, deviceVars>>
  PROVE  /\ down \in Seq(Words) /\ Len(down) >= n /\ n \in 0..Len(down)
         /\ device' = device /\ up' = up /\ down' = SubSeq(down, n + 1, Len(down))
         /\ files' = files
<1>1. WorldOK /\ down \in Seq(Words)
  BY DEF SyncInv, TypeInv, WorldOK
<1>2. /\ stream = "inStep" /\ Len(down) >= n /\ down' = SubSeq(down, n + 1, Len(down))
  BY <1>1, ReadType
<1>3. n \in 0..Len(down)
  BY <1>1, <1>2, LenProperties
<1> QED
  BY <1>1, <1>2, <1>3 DEF deviceVars

(* The mode is all there was to read.                                      *)
LEMMA ReadModeTalk ==
  ASSUME SyncInv, Talking, InTouch', C_ReadMode
  PROVE  Talking'
<1>1. op'.pc \in {"idle", "request"}
  BY ReadModeType DEF SyncInv
<1>2. /\ down \in Seq(Words) /\ Len(down) >= 4
      /\ device' = device /\ up' = up /\ down' = SubSeq(down, 4 + 1, Len(down))
  BY ReadTalk DEF C_ReadMode, InTouch
<1>3. down # <<>>
  BY <1>2
<1>4. up = <<>> /\ device.state = "idle" /\ Len(down) = 4
  BY <1>2, <1>3 DEF Talking, Talk, Queued, C_ReadMode
<1>5. down' = <<>>
  BY <1>2, <1>4, ReadAll
<1>6. Quiet(device', up', down')
  BY <1>2, <1>4, <1>5, QuietEmpty
<1> QED
  BY <1>1, <1>6 DEF Talking, Talk

(* The first header announces what is there, or a failure.                 *)
LEMMA ReadAnswerTalk ==
  ASSUME SyncInv, Talking, InTouch', C_ReadAnswer
  PROVE  Talking'
<1>1. /\ OpOK(op, host) /\ op.pc = "answer" /\ op.header \in Seq(Words) /\ Len(op.header) = 2
      /\ op.pos = 0 /\ DOMAIN op = OpFields
  BY DEF SyncInv, TypeInv, OpOK, C_ReadAnswer
<1>2. /\ down \in Seq(Words) /\ Len(down) >= 2 /\ files' = files
      /\ device' = device /\ up' = up /\ down' = SubSeq(down, 2 + 1, Len(down))
  BY ReadTalk DEF C_ReadAnswer, InTouch
<1>3. down # <<>>
  BY <1>2
<1> DEFINE c == files[op.file]
<1>4. /\ up = <<>> /\ FramesFrom(device, down, c, 0, 0)
      /\ op.file \notin DOMAIN files => down = Failure
      /\ device.state = "sending" => device.file = op.file
  BY <1>1, <1>2, <1>3 DEF Talking, Talk, Queued, Answers
<1> HIDE DEF c
<1> DEFINE header == Received(2, op.header)
<1>5. /\ header \in Seq(Words) /\ Len(header) = 2
      /\ header[1] = down[1] /\ header[2] = down[2]
  <2>1. 2 \in 0..Len(op.header) /\ 1 \in 1..2 /\ 2 \in 1..2
    BY <1>1
  <2> QED
    BY <1>1, <1>2, <2>1, ReceivedType
<1>6. Announced(device, down', down, c, 0)
  <2>1. 2 + 1 = 3 /\ 0 \in Nat
    OBVIOUS
  <2> QED
    BY <1>2, <1>4, <2>1, FramesHead
<1>7. Announced(device, down', header, c, 0)
  <2> HIDE DEF header
  <2> QED
    BY <1>5, <1>6 DEF Announced
<1>8. /\ Is(header, "DATA") \/ Is(header, "DONE") =>
           op' = [op EXCEPT !.header = header, !.pc = "create"]
      /\ ~(Is(header, "DATA") \/ Is(header, "DONE")) => Failed(header)
  BY DEF C_ReadAnswer
<1> HIDE DEF header
<1>9. CASE Is(header, "DATA") \/ Is(header, "DONE")
  <2>1. op' = [op EXCEPT !.header = header, !.pc = "create"]
    BY <1>8, <1>9
  <2>2. op'.pc = "create" /\ op'.header = header /\ op'.file = op.file /\ op'.pos = 0
    BY <1>1, <2>1 DEF OpFields
  <2>3. op.file \in DOMAIN files
    <3>1. Failure[1] = Id("FAIL")
      BY DEF Failure
    <3>2. down # Failure
      BY <1>5, <1>9, <3>1, Ids DEF Is
    <3> QED
      BY <1>4, <3>2
  <2>4. Heading(op', device', down', c)
    <3>1. Capped(0) = 0 /\ 0 \in Nat
      BY Assumed DEF Capped
    <3> QED
      BY <1>2, <1>7, <2>2, <3>1 DEF Heading
  <2> QED
    BY <1>2, <1>4, <2>2, <2>3, <2>4 DEF Talking, Talk, c
<1>10. CASE ~(Is(header, "DATA") \/ Is(header, "DONE"))
  <2>1. header[1] = Id("FAIL") /\ header[2] = Num(1) /\ device.state = "idle" /\ Len(down') = 1
    BY <1>7, <1>10 DEF Announced, Is
  <2>2. op'.pc = "message" /\ op'.len = 1
    BY <1>1, <1>5, <1>8, <1>10, <2>1, OpFailed DEF Is
  <2>3. Behind(device', up', Len(up'))
    BY <1>2, <1>4, <2>1 DEF Behind
  <2> QED
    BY <2>1, <2>2, <2>3 DEF Talking, Talk
<1> QED
  BY <1>9, <1>10

(* The file is created, or the pull is interrupted: then only its end has  *)
(* been read.                                                              *)
LEMMA CreateTalk ==
  ASSUME SyncInv, Talking, InTouch', C_Create
  PROVE  Talking'
<1>1. op.pc = "create" /\ DOMAIN op = OpFields
  BY DEF SyncInv, TypeInv, OpOK, C_Create
<1>2. UNCHANGED <<up, down, device, files>>
  BY DEF C_Create, deviceVars
<1>3. /\ up = <<>> /\ op.file \in DOMAIN files /\ Heading(op, device, down, files[op.file])
      /\ device.state = "sending" => device.file = op.file
  BY <1>1 DEF Talking, Talk
<1>4. CASE Goto("transfer")
  <2>1. op'.pc = "transfer" /\ op'.header = op.header /\ op'.file = op.file /\ op'.pos = op.pos
    BY <1>1, <1>4 DEF Goto, OpFields
  <2>2. Heading(op', device', down', files'[op'.file])
    BY <1>2, <1>3, <2>1 DEF Heading
  <2> QED
    BY <1>2, <1>3, <2>1, <2>2 DEF Talking, Talk
<1>5. CASE Throw("FILE_WRITE_ERROR") /\ Interrupted
  <2>1. Is(op.header, "DONE")
    BY <1>5 DEF Interrupted, InTouch
  <2>2. device.state = "idle" /\ down = <<>>
    BY <1>3, <2>1, Ids DEF Is, Announced, Heading
  <2>3. Quiet(device', up', down')
    BY <1>2, <1>3, <2>2, QuietEmpty
  <2>4. op'.pc = "idle"
    BY <1>5, ThrowType, StepNames DEF SyncInv, TypeInv
  <2> QED
    BY <2>3, <2>4 DEF Talking, Talk
<1> QED
  BY <1>4, <1>5 DEF C_Create

(* The header announces data, the end or a failure.                        *)
LEMMA CheckHeaderTalk ==
  ASSUME SyncInv, Talking, InTouch', C_CheckHeader
  PROVE  Talking'
<1>1. /\ OpOK(op, host) /\ op.pc = "transfer" /\ op.header \in Seq(Words) /\ Len(op.header) = 2
      /\ DOMAIN op = OpFields
  BY DEF SyncInv, TypeInv, OpOK, C_CheckHeader
<1>2. UNCHANGED <<up, down, device, files>>
  BY DEF C_CheckHeader, deviceVars
<1> DEFINE c == files[op.file]
<1>3. /\ up = <<>> /\ op.file \in DOMAIN files /\ Heading(op, device, down, c)
      /\ device.state = "sending" => device.file = op.file
  BY <1>1 DEF Talking, Talk
<1> HIDE DEF c
<1>4. PICK p \in Nat : op.pos = Capped(p) /\ Announced(device, down, op.header, c, p)
  BY <1>3 DEF Heading
<1>5. CASE Is(op.header, "DONE")
  <2>1. device.state = "idle" /\ down = <<>>
    BY <1>4, <1>5, Ids DEF Is, Announced
  <2>2. op'.pc \in {"idle", "entries"}
    <3>1. Throw("CANCELED") \/ Goto("entries")
      BY <1>5 DEF C_CheckHeader, FileDone
    <3> QED
      BY <1>1, <3>1, ThrowType, OpGoto, StepNames DEF Pulling
  <2>3. Quiet(device', up', down')
    BY <1>2, <1>3, <2>1, QuietEmpty
  <2> QED
    BY <2>2, <2>3 DEF Talking, Talk
<1>6. CASE ~Is(op.header, "DONE")
  <2>1. ~Interrupted
    BY <1>6 DEF Interrupted, InTouch
  <2>2. \/ ~Is(op.header, "DATA") /\ Failed(op.header)
        \/ /\ Is(op.header, "DATA")
           /\ \E n \in Numbers(op.header[2]) :
                ~(n > SYNC_DATA_MAX) /\ op' = [op EXCEPT !.len = n, !.pc = "data"]
    BY <1>6, <2>1 DEF C_CheckHeader
  <2>3. CASE ~Is(op.header, "DATA") /\ Failed(op.header)
    <3>1. op.header[1] = Id("FAIL") /\ op.header[2] = Num(1) /\ device.state = "idle"
          /\ Len(down) = 1
      BY <1>4, <1>6, <2>3 DEF Announced, Is
    <3>2. op'.pc = "message" /\ op'.len = 1
      BY <1>1, <2>3, <3>1, OpFailed DEF Is
    <3>3. Behind(device', up', Len(up'))
      BY <1>2, <1>3, <3>1 DEF Behind
    <3> QED
      BY <1>2, <3>1, <3>2, <3>3 DEF Talking, Talk
  <2>4. ASSUME Is(op.header, "DATA"), NEW n \in Numbers(op.header[2]), ~(n > SYNC_DATA_MAX),
               op' = [op EXCEPT !.len = n, !.pc = "data"]
        PROVE  Talking'
    <3>1. \/ \E m \in 1..SYNC_DATA_MAX :
               /\ op.header[2] = Num(m) /\ Matches(down, 0, c, p, m)
               /\ FramesFrom(device, down, c, m, p + m)
          \/ op.header[2] = Num(SYNC_DATA_MAX + 1)
      BY <1>4, <2>4, Ids DEF Is, Announced
    <3>2. op.header[2] # Num(SYNC_DATA_MAX + 1)
      <4>1. SYNC_DATA_MAX + 1 \in Nat /\ SYNC_DATA_MAX + 1 > SYNC_DATA_MAX
        BY Assumed
      <4> QED
        BY <2>4, <4>1, Ids
    <3>3. PICK m \in 1..SYNC_DATA_MAX :
            /\ op.header[2] = Num(m) /\ Matches(down, 0, c, p, m)
            /\ FramesFrom(device, down, c, m, p + m)
      BY <3>1, <3>2
    <3>4. m \in Nat
      BY Assumed
    <3>5. n = m
      BY <2>4, <3>3, <3>4, Ids
    <3>6. op'.pc = "data" /\ op'.len = m /\ op'.file = op.file /\ op'.pos = op.pos
      BY <1>1, <2>4, <3>5 DEF OpFields
    <3>7. Reading(op', device', down', c)
      BY <1>2, <1>4, <3>3, <3>6 DEF Reading
    <3> QED
      BY <1>2, <1>3, <3>6, <3>7 DEF Talking, Talk, c
  <2> QED
    BY <2>2, <2>3, <2>4
<1> QED
  BY <1>5, <1>6

-----------------------------------------------------------------------------
(* The data are read: a frame follows.                                     *)
LEMMA ReadDataTalk ==
  ASSUME SyncInv, Talking, InTouch', C_ReadData
  PROVE  Talking'
<1>1. /\ op.pc = "data" /\ op.len \in Nat /\ DOMAIN op = OpFields
      /\ op.data \in Seq(Words) /\ op.len \in 0..Len(op.data)
  <2>1. /\ op.pc = "data" /\ op.len \in Nat /\ DOMAIN op = OpFields /\ op.data \in Seq(Words)
        /\ Len(op.data) = SYNC_DATA_MAX /\ op.len <= SYNC_DATA_MAX
    BY DEF SyncInv, C_ReadData, TypeInv, OpOK
  <2> QED
    BY <2>1, Assumed
<1>2. /\ down \in Seq(Words) /\ op.len \in 0..Len(down) /\ files' = files /\ Len(down) >= op.len
      /\ device' = device /\ up' = up /\ down' = SubSeq(down, op.len + 1, Len(down))
  BY <1>1, ReadTalk DEF C_ReadData, InTouch
<1> DEFINE c == files[op.file]  data == Received(op.len, op.data)
<1>3. /\ up = <<>> /\ op.file \in DOMAIN files /\ Reading(op, device, down, c)
      /\ device.state = "sending" => device.file = op.file
  BY <1>1 DEF Talking, Talk
<1>4. \A i \in 1..op.len : data[i] = down[i]
  BY <1>1, <1>2, ReceivedType
<1>5. op' = [op EXCEPT !.data = data, !.pc = "next"]
  BY DEF C_ReadData
<1> HIDE DEF c, data
<1>6. op'.pc = "next" /\ op'.data = data /\ op'.len = op.len /\ op'.file = op.file
      /\ op'.pos = op.pos
  BY <1>1, <1>5 DEF OpFields
<1>7. PICK p \in Nat :
        /\ op.pos = Capped(p) /\ Matches(down, 0, c, p, op.len)
        /\ FramesFrom(device, down, c, op.len, p + op.len)
  BY <1>3 DEF Reading
<1>8. FramesFrom(device, down', c, 0, p + op.len)
  <2>1. FramesFrom(device, down', c, op.len - op.len, p + op.len)
    <3> DEFINE q == p + op.len  k == op.len
    <3>1. k \in Nat /\ k >= k /\ k \in 0..Len(down) /\ FramesFrom(device, down, c, k, q)
      BY <1>1, <1>2, <1>7
    <3> HIDE DEF q, k
    <3>2. FramesFrom(device, SubSeq(down, k + 1, Len(down)), c, k - k, q)
      BY <1>2, <3>1, FramesDrop
    <3> QED
      BY <1>2, <3>2 DEF q, k
  <2>2. op.len - op.len = 0
    BY <1>1
  <2> QED
    BY <2>1, <2>2
<1>9. Matches(data, 0, c, p, op.len)
  <2>1. \A i \in 1..op.len : 0 + i = i
    OBVIOUS
  <2> QED
    BY <1>4, <1>7, <2>1 DEF Matches
<1>10. HasRead(op', device', down', c)
  BY <1>2, <1>6, <1>7, <1>8, <1>9 DEF HasRead
<1> QED
  BY <1>2, <1>3, <1>6, <1>10 DEF Talking, Talk, c

(* Places beyond the bound are the bound.                                  *)
LEMMA CappedAdd ==
  ASSUME NEW p \in Nat, NEW n \in Nat
  PROVE  /\ Capped(p) \in Nat /\ Capped(p) <= MaxContent /\ Capped(p) <= p
         /\ Capped(p) <= Capped(p + n) /\ Capped(Capped(p) + n) = Capped(p + n)
         /\ Capped(p) < MaxContent => Capped(p) = p
  BY Assumed DEF Capped

(* The next header is read.                                                *)
LEMMA ReadNextTalk ==
  ASSUME SyncInv, Talking, InTouch', C_ReadNext
  PROVE  Talking'
<1>1. /\ OpOK(op, host) /\ op.pc = "next" /\ op.header \in Seq(Words) /\ Len(op.header) = 2
      /\ DOMAIN op = OpFields /\ op.len \in Nat
  BY DEF SyncInv, TypeInv, OpOK, C_ReadNext
<1>2. /\ down \in Seq(Words) /\ Len(down) >= 2 /\ files' = files
      /\ device' = device /\ up' = up /\ down' = SubSeq(down, 2 + 1, Len(down))
  BY ReadTalk DEF C_ReadNext, InTouch
<1> DEFINE c == files[op.file]  header == Received(2, op.header)  pos == Capped(op.pos + op.len)
<1>3. /\ up = <<>> /\ op.file \in DOMAIN files /\ HasRead(op, device, down, c)
      /\ device.state = "sending" => device.file = op.file
  BY <1>1 DEF Talking, Talk
<1>4. header[1] = down[1] /\ header[2] = down[2]
  <2>1. 2 \in 0..Len(op.header) /\ 1 \in 1..2 /\ 2 \in 1..2
    BY <1>1
  <2> QED
    BY <1>1, <1>2, <2>1, ReceivedType
<1>5. op' = [op EXCEPT !.header = header, !.pc = "transfer", !.pos = pos]
  BY DEF C_ReadNext
<1> HIDE DEF c, header, pos
<1>6. op'.pc = "transfer" /\ op'.header = header /\ op'.file = op.file /\ op'.pos = pos
  BY <1>1, <1>5 DEF OpFields
<1>7. PICK p \in Nat :
        op.pos = Capped(p) /\ FramesFrom(device, down, c, 0, p + op.len)
  BY <1>3 DEF HasRead
<1> DEFINE q == p + op.len
<1>8. q \in Nat /\ pos = Capped(q) /\ FramesFrom(device, down, c, 0, q)
  <2>1. q \in Nat
    BY <1>1
  <2>2. Capped(Capped(p) + op.len) = Capped(p + op.len)
    BY <1>1, CappedAdd
  <2>3. pos = Capped(q)
    BY <1>7, <2>2 DEF pos
  <2> QED
    BY <1>7, <2>1, <2>3
<1> HIDE DEF q
<1>9. Announced(device, down', down, c, q)
  <2>1. 2 + 1 = 3
    OBVIOUS
  <2> QED
    BY <1>2, <1>8, <2>1, FramesHead
<1>10. Announced(device, down', header, c, q)
  BY <1>4, <1>9 DEF Announced
<1>11. Heading(op', device', down', c)
  BY <1>2, <1>6, <1>8, <1>10 DEF Heading
<1> QED
  BY <1>2, <1>3, <1>6, <1>11 DEF Talking, Talk, c

(* A connection on which an operation fails, with nothing that could be    *)
(* taken for a success under way, is lost.                                 *)
LEMMA GoneLost ==
  ASSUME device'.link = "gone", op'.pc \in {"idle", "spinning"}, down' = <<>> \/ down' = Failure
  PROVE  Lost'
<1>1. \A i \in 1..Len(down') : down'[i] \notin {Id("DATA"), Id("DONE"), Id("OKAY")}
  BY NoSuccess
<1> QED
  BY <1>1 DEF Lost

(* A chunk of the file that is pushed.                                     *)
LEMMA SendChunkTalk ==
  ASSUME SyncInv, Talking, InTouch', C_SendChunk
  PROVE  Talking'
<1>1. /\ OpOK(op, host) /\ WorldOK /\ op.pc = "chunk" /\ IsTree(host) /\ up \in Seq(Requests)
      /\ op.header[1] # Id("DONE") /\ Chunk \in Requests /\ Chunk.name = "DATA"
      /\ DOMAIN op = OpFields
  BY SendChunkType DEF SyncInv, TypeInv, OpOK, C_SendChunk, WorldOK
<1>2. UNCHANGED <<down, device, files, host>>
  BY DEF C_SendChunk, deviceVars
<1>3. ~(monitor.canceled /\ Interrupted)
  BY <1>1 DEF Interrupted, InTouch, Is
<1>4. Write(Chunk, /\ op' = [op EXCEPT !.pos = @ + ReadCount, !.eof = Rest < CHUNK]
                   /\ Advance(ReadCount))
  BY <1>3 DEF C_SendChunk
<1> DEFINE c == host[op.file]
<1>5. Pushed(device, up, down, Len(up), op.file, c, files, op.pos)
  BY <1>1 DEF Talking, Talk
<1>6. down = <<>> \/ down = Failure
  BY <1>5 DEF Pushed
<1>7. ASSUME Throw("IO"), device.link = "gone"
      PROVE  FALSE
  <2>1. op'.pc = "idle"
    BY <1>1, <1>7, ThrowType, StepNames
  <2>2. Lost'
    BY <1>2, <1>6, <1>7, <2>1, GoneLost
  <2> QED
    BY <2>2 DEF InTouch
<1>8. /\ up' = Append(up, Chunk)
      /\ op' = [op EXCEPT !.pos = @ + ReadCount, !.eof = Rest < CHUNK]
  BY <1>1, <1>4, <1>7, WriteType DEF InTouch
<1>9. /\ ReadCount \in Nat /\ op.pos + ReadCount <= Len(c) /\ c \in Seq(Words) /\ op.pos \in Nat
  BY <1>1, OpChunk DEF OpOK
<1>10. Len(Chunk.data) = ReadCount /\ Matches(Chunk.data, 0, c, op.pos, ReadCount)
  <2> DEFINE r == Request("DATA", op.file)  part == SubSeq(c, op.pos + 1, op.pos + ReadCount)
  <2>1. Len(part) = ReadCount /\ Matches(part, 0, c, op.pos, ReadCount)
    <3> HIDE DEF c
    <3> QED
      BY <1>9, SliceSeq
  <2>2. Chunk = [r EXCEPT !.data = part]
    BY DEF Chunk
  <2>3. "data" \in DOMAIN r
    BY DEF Request
  <2> HIDE DEF part, r
  <2>4. Chunk.data = part
    BY <2>2, <2>3
  <2> QED
    BY <2>1, <2>4
<1>11. op'.pc = "chunk" /\ op'.file = op.file /\ op'.pos = op.pos + ReadCount
       /\ op'.eof = (Rest < CHUNK)
  BY <1>1, <1>8 DEF OpFields
<1>12. Pushed(device, up', down, Len(up'), op.file, c, files, op.pos + ReadCount)
  <2> DEFINE n == ReadCount  r == Chunk
  <2>1. /\ Len(r.data) = n /\ n \in Nat /\ Matches(r.data, 0, c, op.pos, n)
        /\ r \in Requests /\ r.name = "DATA" /\ up' = Append(up, r)
    BY <1>1, <1>8, <1>9, <1>10
  <2> HIDE DEF n, r, c
  <2>2. Matches(r.data, 0, c, op.pos, Len(r.data)) /\ Len(r.data) \in Nat
    BY <2>1
  <2>3. Pushed(device, Append(up, r), down, Len(Append(up, r)), op.file, c, files,
               op.pos + Len(r.data))
    BY <1>1, <1>5, <1>9, <2>1, <2>2, PushedAppend
  <2> QED
    BY <2>1, <2>3 DEF n
<1>13. Pushed(device', up', down', Len(up'), op'.file, host'[op'.file], files', op'.pos)
  BY <1>2, <1>11, <1>12
<1>14. op'.eof => op'.pos = Len(host'[op'.file])
  <2>1. op.file \in DOMAIN host /\ Len(c) \in Nat /\ op.pos \in Nat
    BY <1>1, <1>9, LenProperties DEF OpOK
  <2>2. Rest < CHUNK => op.pos + ReadCount = Len(c)
    BY <2>1 DEF Rest, ReadCount, Size
  <2> QED
    BY <1>2, <1>11, <2>2
<1> QED
  BY <1>11, <1>13, <1>14 DEF Talking, Talk

(* The end of a push.                                                      *)
LEMMA SendDoneTalk ==
  ASSUME SyncInv, Talking, InTouch', C_SendDone
  PROVE  Talking'
<1> DEFINE r == Request("DONE", op.file)
<1>1. OpOK(op, host) /\ WorldOK /\ op.pc = "chunk" /\ up \in Seq(Requests) /\ op.kind = "push"
      /\ r \in Requests /\ op.file \in DOMAIN host /\ op.pos \in Nat /\ op.eof
      /\ DOMAIN op = OpFields
  BY SendDoneType DEF SyncInv, TypeInv, OpOK, C_SendDone, WorldOK
<1>2. UNCHANGED <<down, device, files, host>> /\ r.name = "DONE"
  BY DEF C_SendDone, deviceVars, Request
<1> DEFINE c == host[op.file]
<1>3. Pushed(device, up, down, Len(up), op.file, c, files, op.pos) /\ op.pos = Len(c)
  BY <1>1 DEF Talking, Talk
<1>4. down = <<>> \/ down = Failure
  BY <1>3 DEF Pushed
<1>5. ASSUME Throw("IO"), device.link = "gone"
      PROVE  FALSE
  <2>1. op'.pc = "idle"
    BY <1>1, <1>5, ThrowType, StepNames
  <2>2. Lost'
    BY <1>2, <1>4, <1>5, <2>1, GoneLost
  <2> QED
    BY <2>2 DEF InTouch
<1>6. up' = Append(up, r) /\ Goto("result")
  BY <1>1, <1>5, WriteType DEF InTouch, C_SendDone
<1>7. op'.pc = "result" /\ op'.file = op.file
  BY <1>1, <1>6 DEF Goto, OpFields
<1> HIDE DEF r, c
<1>8. Pushed(device, Append(up, r), down, Len(up), op.file, c, files, op.pos)
  BY <1>1, <1>3, PushedAppend
<1>9. Len(up) \in Nat /\ Len(Append(up, r)) = Len(up) + 1 /\ Append(up, r)[Len(up) + 1] = r
  BY <1>1, AppendProperties, LenProperties
<1>10. up' # <<>>
  BY <1>6, <1>9
<1>11. Len(up') - 1 = Len(up) /\ up'[Len(up')] = r
  BY <1>6, <1>9
<1>12. Pushed(device', up', down', Len(up') - 1, op.file, c, files', Len(c))
  BY <1>2, <1>3, <1>6, <1>8, <1>11
<1>13. Concluding(device', up', down', op.file, c, files')
  BY <1>2, <1>10, <1>11, <1>12 DEF Concluding
<1>14. op'.file \in DOMAIN host' /\ c = host'[op'.file]
  BY <1>1, <1>2, <1>7 DEF c
<1>15. Concluding(device', up', down', op'.file, host'[op'.file], files')
  BY <1>7, <1>13, <1>14
<1> QED
  BY <1>7, <1>14, <1>15 DEF Talking, Talk

(* The answer to a push is its success, or the failure of its first        *)
(* request.                                                                *)
LEMMA ResultRead ==
  ASSUME NEW d, NEW us \in Seq(Requests), NEW ws, ws # <<>>, NEW f, NEW c, NEW t,
         Concluding(d, us, ws, f, c, t)
  PROVE  \/ ws = Failure /\ Behind(d, us, Len(us))
         \/ /\ ws = <<Id("OKAY"), Num(0)>> /\ us = <<>> /\ d.state = "idle"
            /\ f \in DOMAIN t /\ t[f] = c
<1>1. CASE us = <<>> /\ d.state = "idle" /\ ws = Failure
  <2>1. Len(us) = 0
    BY <1>1
  <2> QED
    BY <1>1, <2>1 DEF Behind
<1>2. CASE us # <<>> /\ us[Len(us)].name = "DONE"
           /\ Pushed(d, us, ws, Len(us) - 1, f, c, t, Len(c))
  <2>1. /\ d.state = "receiving" /\ \A i \in 1..Len(us) - 1 : us[i].name = "DATA"
        /\ d.failed /\ ws = Failure
    BY <1>2 DEF Pushed
  <2>2. Len(us) > 0
    <3>1. Len(us) \in Nat /\ Len(us) # 0
      BY <1>2, EmptySeq, LenProperties
    <3> QED
      BY <3>1
  <2>3. Behind(d, us, Len(us))
    BY <1>2, <2>1, <2>2 DEF Behind
  <2> QED
    BY <2>1, <2>3
<1>3. CASE /\ us = <<>> /\ d.state = "idle"
           /\ ws = <<Id("OKAY"), Num(0)>> /\ f \in DOMAIN t /\ t[f] = c
  BY <1>3
<1> QED
  BY <1>1, <1>2, <1>3 DEF Concluding

LEMMA ReadResultTalk ==
  ASSUME SyncInv, Talking, stream' = "inStep", C_ReadResult
  PROVE  /\ Talking'
         /\ op'.pc = "entries" => op.file \in DOMAIN files /\ files[op.file] = host[op.file]
<1>1. OpOK(op, host) /\ op.pc = "result" /\ up \in Seq(Requests)
  BY DEF SyncInv, TypeInv, OpOK, C_ReadResult, WorldOK
<1>2. /\ down \in Seq(Words) /\ Len(down) >= 2 /\ 2 \in 0..Len(down)
      /\ device' = device /\ up' = up /\ down' = SubSeq(down, 2 + 1, Len(down))
  BY ReadTalk DEF C_ReadResult
<1> DEFINE result == Received(2, Zeros(2))
<1>3. /\ result \in Seq(Words) /\ Len(result) = 2
      /\ result[1] = down[1] /\ result[2] = down[2]
  <2>1. Zeros(2) \in Seq(Words) /\ Len(Zeros(2)) = 2
    BY ZerosType
  <2> DEFINE l == Len(Zeros(2))
  <2>2. 2 \in 0..l /\ 1 \in 1..2 /\ 2 \in 1..2
    <3>1. l = 2
      BY <2>1
    <3> HIDE DEF l
    <3> QED
      BY <3>1
  <2> QED
    BY <1>2, <2>1, <2>2, ReceivedType
<1>4. /\ Is(result, "OKAY") => Goto("entries")
      /\ ~Is(result, "OKAY") => Failed(result)
  BY DEF C_ReadResult, FileDone
<1> HIDE DEF result
<1>5. \/ down = Failure /\ Behind(device, up, Len(up))
      \/ /\ down = <<Id("OKAY"), Num(0)>> /\ up = <<>> /\ device.state = "idle"
         /\ op.file \in DOMAIN files /\ files[op.file] = host[op.file]
  <2>1. down # <<>>
    BY <1>2
  <2>2. Concluding(device, up, down, op.file, host[op.file], files)
    BY <1>1 DEF Talking, Talk
  <2> QED
    BY <1>1, <2>1, <2>2, ResultRead
<1>6. CASE down = Failure /\ Behind(device, up, Len(up))
  <2>1. Len(down) = 3 /\ down[1] = Id("FAIL") /\ down[2] = Num(1)
    BY <1>6 DEF Failure
  <2>2. Is(result, "FAIL") /\ ~Is(result, "OKAY") /\ result[2] = Num(1)
    BY <1>3, <2>1, Ids DEF Is
  <2>3. op'.pc = "message" /\ op'.len = 1
    BY <1>1, <1>3, <1>4, <2>2, OpFailed
  <2>4. Len(down') = 1
    <3>1. Len(down') = Len(down) - 2
      BY <1>2, DropSeq
    <3> QED
      BY <2>1, <3>1
  <2>5. Talking'
    BY <1>2, <1>6, <2>3, <2>4 DEF Talking, Talk
  <2> QED
    BY <2>3, <2>5
<1>7. CASE /\ down = <<Id("OKAY"), Num(0)>> /\ up = <<>> /\ device.state = "idle"
           /\ op.file \in DOMAIN files /\ files[op.file] = host[op.file]
  <2>1. Len(down) = 2 /\ down[1] = Id("OKAY")
    BY <1>7
  <2>2. Is(result, "OKAY")
    BY <1>3, <2>1 DEF Is
  <2>3. op'.pc = "entries"
    BY <1>1, <1>4, <2>2, OpGoto, StepNames DEF Pulling
  <2>4. down' = <<>>
    BY <1>2, <2>1, ReadAll
  <2>5. Quiet(device', up', down')
    BY <1>2, <1>7, <2>4, QuietEmpty
  <2>6. Talking'
    BY <2>3, <2>5 DEF Talking, Talk
  <2> QED
    BY <1>7, <2>6
<1> QED
  BY <1>5, <1>6, <1>7

(* The message of a failure is all there was to read.                      *)
LEMMA ReadMessageTalk ==
  ASSUME SyncInv, Talking, InTouch', C_ReadMessage
  PROVE  Talking'
<1>1. op.pc = "message" /\ op.len \in Nat /\ op'.pc \in {"idle", "undefined"}
  BY ReadMessageType DEF SyncInv, TypeInv, OpOK, C_ReadMessage
<1>2. /\ down \in Seq(Words)
      /\ device' = device /\ up' = up /\ down' = SubSeq(down, op.len + 1, Len(down))
  BY <1>1, ReadTalk DEF C_ReadMessage, InTouch
<1>3. op.len = 1 /\ Len(down) = 1 /\ Behind(device, up, Len(up))
  BY <1>1 DEF Talking, Talk
<1>4. down' = <<>>
  BY <1>1, <1>2, <1>3, ReadAll
<1>5. Quiet(device', up', down')
  BY <1>2, <1>3, <1>4 DEF Quiet
<1> QED
  BY <1>1, <1>5 DEF Talking, Talk

(* A client that is in step and finds too little waits for an answer that  *)
(* has not begun.                                                          *)
LEMMA TooLittle ==
  ASSUME SyncInv, Talking, Len(down) < Needed
  PROVE  /\ op.pc \in {"mode", "answer", "data", "next", "result"}
         /\ up # <<>> \/ device.state = "sending"
         /\ down = <<>> \/ down = Failure
         /\ op.pc \in {"data", "next"} => device.state = "sending"
<1>1. /\ down \in Seq(Words) /\ Len(down) \in Nat /\ op.pc \in Steps /\ op.len \in Nat
      /\ up \in Seq(Requests)
  BY LenProperties DEF SyncInv, TypeInv, WorldOK, OpOK
<1>2. CASE op.pc = "mode"
  <2>1. Needed = 4
    BY <1>2 DEF Needed
  <2> DEFINE l == Len(down)
  <2>2. l # 4
    <3>1. l \in Nat /\ l < 4
      BY <1>1, <2>1
    <3> HIDE DEF l
    <3> QED
      BY <3>1
  <2>3. Queued(device, up, down, "STAT", op.file)
    BY <1>2, <2>2 DEF Talking, Talk
  <2> QED
    BY <1>2, <2>3 DEF Queued
<1>3. CASE op.pc \in {"answer", "next"}
  <2>1. Needed = 2
    BY <1>3 DEF Needed
  <2>2. ASSUME NEW c, NEW p, FramesFrom(device, down, c, 0, p)
        PROVE  device.state = "sending" /\ down = <<>>
    <3>1. device.state # "sending" \/ Len(down) # 0 => 0 + 2 <= Len(down)
      BY <1>1, <2>2, FramesLong
    <3>2. device.state = "sending" /\ Len(down) = 0
      BY <1>1, <2>1, <3>1
    <3> QED
      BY <1>1, <3>2, EmptyDown
  <2>3. CASE op.pc = "answer" /\ Queued(device, up, down, "RECV", op.file)
    BY <2>3 DEF Queued
  <2>4. CASE op.pc = "answer" /\ Answers(device, up, down, op.file, files)
    BY <2>2, <2>4 DEF Answers
  <2>5. CASE op.pc = "next"
    <3>1. HasRead(op, device, down, files[op.file])
      BY <2>5 DEF Talking, Talk
    <3> QED
      BY <2>2, <2>5, <3>1 DEF HasRead
  <2> QED
    BY <1>3, <2>3, <2>4, <2>5 DEF Talking, Talk
<1>4. op.pc # "data"
  <2>1. SUFFICES ASSUME op.pc = "data"  PROVE FALSE
    OBVIOUS
  <2>2. Needed = op.len
    BY <2>1 DEF Needed
  <2>3. Reading(op, device, down, files[op.file])
    BY <2>1 DEF Talking, Talk
  <2>4. PICK p \in Nat : FramesFrom(device, down, files[op.file], op.len, p + op.len)
    BY <2>3 DEF Reading
  <2>5. op.len <= Len(down)
    BY <1>1, <2>4, FramesLong
  <2> QED
    BY <1>1, <2>2, <2>5
<1>5. op.pc # "message"
  <2>1. SUFFICES ASSUME op.pc = "message"  PROVE FALSE
    OBVIOUS
  <2>2. Needed = 1 /\ Len(down) = 1
    BY <2>1 DEF Talking, Talk, Needed
  <2> QED
    BY <2>2
<1>6. CASE op.pc = "result"
  <2>1. Needed = 2
    BY <1>6 DEF Needed
  <2>2. Concluding(device, up, down, op.file, host[op.file], files)
    BY <1>6 DEF Talking, Talk
  <2> DEFINE l == Len(down)
  <2>3. l # 3 /\ l # 2
    <3>1. l \in Nat /\ l < 2
      BY <1>1, <2>1
    <3> HIDE DEF l
    <3> QED
      BY <3>1
  <2>4. down # Failure
    BY <2>3, FailureType
  <2>5. down # <<Id("OKAY"), Num(0)>>
    <3>1. Len(<<Id("OKAY"), Num(0)>>) = 2
      OBVIOUS
    <3> QED
      BY <2>3, <3>1
  <2>6. up # <<>> /\ Pushed(device, up, down, Len(up) - 1, op.file, host[op.file], files,
                            Len(host[op.file]))
    BY <2>2, <2>4, <2>5 DEF Concluding
  <2>7. down = <<>> \/ down = Failure
    BY <2>6 DEF Pushed
  <2> QED
    BY <1>6, <2>6, <2>7
<1>7. op.pc \in {"mode", "answer", "next", "data", "message", "result"}
  <2>1. op.pc \notin {"mode", "answer", "next", "data", "message", "result"} => Needed = 0
    BY DEF Needed
  <2> QED
    BY <1>1, <2>1
<1> QED
  BY <1>2, <1>3, <1>4, <1>5, <1>6, <1>7

(* It gets nothing more when the connection is gone.                       *)
LEMMA ReadsOnTalk ==
  ASSUME SyncInv, Talking, InTouch', C_ReadsOn
  PROVE  Talking'
<1>1. /\ OpOK(op, host) /\ Len(down) < Needed /\ device.link = "gone" /\ DOMAIN op = OpFields
      /\ UNCHANGED <<down, device>>
  BY DEF SyncInv, TypeInv, OpOK, C_ReadsOn, deviceVars
<1>2. op'.pc \in {"idle", "spinning"}
  <2>1. Goto("spinning") \/ Throw("IO")
    BY DEF C_ReadsOn
  <2>2. Goto("spinning") => op'.pc = "spinning"
    BY <1>1 DEF Goto, OpFields
  <2>3. Throw("IO") => op'.pc = "idle"
    BY <1>1, ThrowType, StepNames
  <2> QED
    BY <2>1, <2>2, <2>3
<1>3. down' = <<>> \/ down' = Failure
  BY <1>1, TooLittle
<1>4. Lost'
  BY <1>1, <1>2, <1>3, GoneLost
<1> QED
  BY <1>4 DEF InTouch

(* A step of the client that leaves the two in touch found them so.        *)
LEMMA ClientInTouch ==
  ASSUME SyncInv, Client, stream' = "inStep"
  PROVE  stream = "inStep" /\ (~Lost' => InTouch /\ Talking)
<1>1. stream = "inStep"
  <2>1. WorldOK /\ op.len \in Nat
    BY DEF SyncInv, TypeInv, OpOK
  <2>2. \A n \in Nat : Read(n) => stream = "inStep"
    BY <2>1, ReadType
  <2>3. Interrupted => stream = "inStep"
    BY DEF Interrupted
  <2>4. CASE C_ReadMode \/ C_ReadAnswer \/ C_ReadData \/ C_ReadNext \/ C_ReadResult
             \/ C_ReadMessage
    <3>1. \E n \in {2, 4, op.len} : Read(n)
      BY <2>4 DEF C_ReadMode, C_ReadAnswer, C_ReadData, C_ReadNext, C_ReadResult, C_ReadMessage
    <3>2. {2, 4, op.len} \subseteq Nat
      BY <2>1
    <3> QED
      BY <2>2, <3>1, <3>2
  <2>5. CASE C_NextEntry \/ C_ReadsOn \/ C_Create \/ C_CheckHeader
    BY <2>3, <2>5 DEF C_NextEntry, C_ReadsOn, C_Create, C_CheckHeader
  <2>6. CASE C_Request \/ C_SendChunk \/ C_SendDone
    BY <2>3, <2>6 DEF C_Request, C_SendChunk, C_SendDone, Write
  <2> QED
    BY <2>4, <2>5, <2>6 DEF Client
<1>2. ~Lost' => ~Lost
  BY LostStays DEF SyncInv
<1> QED
  BY <1>1, <1>2 DEF InTouch, SyncInv, TalkInv

(* Every step of the client keeps the two in step.                         *)
LEMMA ClientTalk ==
  ASSUME SyncInv, Client
  PROVE  TalkInv'
<1>1. SUFFICES ASSUME InTouch'  PROVE Talking'
  BY DEF TalkInv
<1>2. Talking
  BY <1>1, ClientInTouch DEF InTouch
<1> QED
  BY <1>1, <1>2, NextEntryTalk, RequestTalk, ReadModeTalk, ReadAnswerTalk, CreateTalk,
     CheckHeaderTalk, ReadDataTalk, ReadNextTalk, SendChunkTalk, SendDoneTalk, ReadResultTalk,
     ReadMessageTalk, ReadsOnTalk
  DEF Client, InTouch

-----------------------------------------------------------------------------
(* What is lost stays lost when an operation is asked for.                 *)
LEMMA AskedLost ==
  ASSUME SyncInv, InTouch', stream = "inStep", op.pc = "idle", UNCHANGED <<down, device>>,
         op'.pc \in {"idle", "entries", "request", "mode"}
  PROVE  Quiet(device, up, down)
<1>1. Lost => Lost'
  BY DEF Lost
<1>2. Talking
  BY <1>1 DEF InTouch, SyncInv, TalkInv
<1> QED
  BY <1>2 DEF Talking, Talk

(* An operation that asks the device nothing yet.                          *)
LEMMA AskTalk ==
  ASSUME SyncInv, Asked, op'.pc \in {"idle", "entries", "request"}
  PROVE  TalkInv'
<1>1. SUFFICES ASSUME InTouch'  PROVE Talking'
  BY DEF TalkInv
<1>2. UNCHANGED <<up, down, device, stream>> /\ op.pc = "idle"
  BY DEF Asked, deviceVars
<1>3. Quiet(device', up', down')
  BY <1>1, <1>2, AskedLost DEF InTouch
<1> QED
  BY <1>3 DEF Talking, Talk

(* A path's mode is asked for.                                             *)
LEMMA PullPathTalk ==
  ASSUME SyncInv, NEW f \in File, U_PullPath(f)
  PROVE  TalkInv'
<1> SUFFICES ASSUME InTouch'  PROVE Talking'
  BY DEF TalkInv
<1> DEFINE r == Request("STAT", f)
<1>1. /\ r \in Requests /\ r.name = "STAT" /\ r.file = f /\ WorldOK /\ op.pc = "idle"
      /\ up \in Seq(Requests) /\ OpOK(op, host)
  BY RequestType DEF SyncInv, TypeInv, WorldOK, U_PullPath, Request
<1>2. UNCHANGED <<down, device>>
  BY DEF U_PullPath, deviceVars
<1>3. /\ stream = "inStep"
      /\ \/ /\ up' = Append(up, r)
            /\ op' = [NewOp("pullPath", <<f>>, "mode") EXCEPT !.todo = <<>>, !.file = f]
         \/ Throw("IO") /\ up' = up
  BY <1>1, WriteType DEF InTouch, U_PullPath
<1> HIDE DEF r
<1>4. CASE Throw("IO") /\ up' = up
  <2>1. op'.pc = "idle"
    BY <1>1, <1>4, ThrowType, StepNames
  <2>2. Quiet(device', up', down')
    BY <1>1, <1>2, <1>3, <1>4, <2>1, AskedLost
  <2> QED
    BY <2>1, <2>2 DEF Talking, Talk
<1>5. CASE /\ up' = Append(up, r)
           /\ op' = [NewOp("pullPath", <<f>>, "mode") EXCEPT !.todo = <<>>, !.file = f]
  <2>1. op'.pc = "mode" /\ op'.file = f
    BY <1>5 DEF NewOp
  <2>2. Quiet(device, up, down)
    BY <1>1, <1>2, <1>3, <2>1, AskedLost
  <2>3. Queued(device, Append(up, r), down, "STAT", f)
    BY <1>1, <2>2, QueuedAppend
  <2>4. Queued(device', up', down', "STAT", op'.file)
    BY <1>2, <1>5, <2>1, <2>3
  <2> QED
    BY <2>1, <2>4 DEF Talking, Talk
<1> QED
  BY <1>3, <1>4, <1>5

(* A new connection.                                                       *)
LEMMA OpenTalk ==
  ASSUME SyncInv, U_Open
  PROVE  TalkInv'
<1>1. op'.pc = "idle"
  BY OpenType DEF SyncInv
<1>2. up' = <<>> /\ down' = <<>>
  BY DEF U_Open
<1>3. device'.state = "idle"
  BY DEF U_Open, SyncInv, TypeInv, WorldOK, Devices
<1>4. Quiet(device', up', down')
  BY <1>2, <1>3, QuietEmpty
<1> QED
  BY <1>1, <1>4 DEF TalkInv, Talking, Talk

(* Nothing that the two have of each other changes.                        *)
LEMMA SameTalk ==
  ASSUME SyncInv, UNCHANGED <<op, device, up, down, files, host, stream>>
  PROVE  TalkInv'
BY DEF SyncInv, TalkInv, InTouch, Lost, Talking

(* Every step of the application and of the user keeps both.               *)
LEMMA UserTalk ==
  ASSUME SyncInv, User
  PROVE  TypeInv' /\ TalkInv'
<1>1. CASE U_Open
  BY <1>1, OpenType, OpenTalk DEF SyncInv
<1>2. CASE U_Drop
  <2>1. TypeInv'
    BY <1>2, DropType DEF SyncInv
  <2>2. TalkInv'
    BY <1>2, SameTalk DEF U_Drop, deviceVars
  <2> QED
    BY <2>1, <2>2
<1>3. CASE U_Cancel
  <2>1. TypeInv'
    BY <1>3, CancelType DEF SyncInv
  <2>2. TalkInv'
    BY <1>3, SameTalk DEF U_Cancel, deviceVars
  <2> QED
    BY <2>1, <2>2
<1>4. ASSUME NEW es \in Selections, U_Pull(es) \/ U_Push(es)
      PROVE  TypeInv' /\ TalkInv'
  <2>1. TypeInv' /\ op'.pc \in {"idle", "entries"}
    BY <1>4, PullType, PushType DEF SyncInv
  <2>2. Asked
    BY <1>4 DEF U_Pull, U_Push
  <2> QED
    BY <2>1, <2>2, AskTalk
<1>5. ASSUME NEW f \in File, U_PullEntry(f)
      PROVE  TypeInv' /\ TalkInv'
  <2>1. TypeInv' /\ op'.pc = "request"
    BY <1>5, PullEntryType DEF SyncInv
  <2>2. Asked
    BY <1>5 DEF U_PullEntry
  <2> QED
    BY <2>1, <2>2, AskTalk
<1>6. ASSUME NEW f \in File, U_PullPath(f)
      PROVE  TypeInv' /\ TalkInv'
  BY <1>6, PullPathType, PullPathTalk DEF SyncInv
<1>7. ASSUME NEW e \in Entry, U_PushFile(e)
      PROVE  TypeInv' /\ TalkInv'
  <2>1. TypeInv' /\ op'.pc \in {"idle", "request"}
    BY <1>7, PushFileType DEF SyncInv
  <2>2. Asked
    BY <1>7 DEF U_PushFile
  <2> QED
    BY <2>1, <2>2, AskTalk
<1> QED
  BY <1>1, <1>2, <1>3, <1>4, <1>5, <1>6, <1>7 DEF User

-----------------------------------------------------------------------------
(* What remains of the requests when one is taken.                         *)
LEMMA TakenSeq ==
  ASSUME NEW S, NEW us \in Seq(S), us # <<>>
  PROVE  /\ Len(us) \in Nat /\ Len(us) >= 1 /\ Len(Tail(us)) = Len(us) - 1 /\ Head(us) = us[1]
         /\ \A i \in 1..Len(us) - 1 : Tail(us)[i] = us[i + 1]
         /\ Len(us) = 1 => Tail(us) = <<>>
<1>1. /\ Len(us) \in Nat /\ Len(Tail(us)) = Len(us) - 1 /\ Head(us) = us[1]
      /\ \A i \in 1..Len(us) - 1 : Tail(us)[i] = us[i + 1] /\ Tail(us) \in Seq(S)
  BY HeadTailProperties, LenProperties
<1>2. Len(us) # 0
  BY EmptySeq
<1>3. Len(us) = 1 => Len(Tail(us)) = 0
  BY <1>1
<1>4. Tail(us) \in Seq(S)
  BY HeadTailProperties
<1>5. Len(us) = 1 => Tail(us) = <<>>
  BY <1>3, <1>4, EmptySeq
<1>6. Len(us) >= 1
  BY <1>1, <1>2
<1> QED
  BY <1>1, <1>5, <1>6

(* No file but f changes, and none is removed.                             *)
OnlyFile(f) ==
  /\ DOMAIN files' \subseteq DOMAIN files \cup {f} /\ DOMAIN files \subseteq DOMAIN files'
  /\ \A g \in DOMAIN files : g # f => files'[g] = files[g]

(* The device takes a request that it skips.                               *)
LEMMA SkipsTalk ==
  ASSUME TypeInv, D_Take, NEW k \in 1..Len(up), Behind(device, up, k)
  PROVE  Behind(device', up', k - 1) /\ down' = down /\ files' = files
<1>1. TakeForms /\ up # <<>> /\ up' = Tail(up) /\ up \in Seq(Requests)
  BY TakeType DEF TypeInv, WorldOK
<1>2. k > 0 /\ k \in Nat
  BY <1>1, LenProperties
<1>3. device.state = "receiving" /\ device.failed
  BY <1>2 DEF Behind
<1>4. Head(up).name \in {"DATA", "DONE"}
  <2> DEFINE e == [state |-> IF Head(up).name = "DONE" THEN "idle" ELSE device.state,
                   failed |-> device.failed]
  <2>1. e.state = (IF Head(up).name = "DONE" THEN "idle" ELSE device.state)
        /\ e.failed = device.failed
    OBVIOUS
  <2> HIDE DEF e
  <2> QED
    BY <1>1, <2>1, BehindTail
<1>5. /\ down' = down /\ device'.failed = device.failed /\ files' = files
      /\ device'.state = IF Head(up).name = "DONE" THEN "idle" ELSE device.state
  BY <1>1, <1>3, <1>4 DEF TakeForms
<1> QED
  BY <1>1, <1>5, BehindTail

(* The device takes a request: the last one is that of that name.          *)
LEMMA QueuedTakes ==
  ASSUME TypeInv, D_Take, NEW name, NEW f, Queued(device, up, down, name, f)
  PROVE  \/ Queued(device', up', down', name, f) /\ files' = files /\ device'.state # "sending"
         \/ /\ device.state = "idle" /\ Head(up).name = name /\ Head(up).file = f
            /\ down = <<>> /\ up' = <<>>
<1>1. up # <<>> /\ up' = Tail(up) /\ up \in Seq(Requests)
  BY TakeType DEF TypeInv, WorldOK
<1>2. /\ Len(up) \in Nat /\ Len(up) >= 1 /\ Len(up') = Len(up) - 1 /\ Head(up) = up[1]
      /\ \A i \in 1..Len(up) - 1 : up'[i] = up[i + 1]
      /\ Len(up) = 1 => up' = <<>>
  BY <1>1, TakenSeq
<1>3. /\ Behind(device, up, Len(up) - 1) /\ up[Len(up)].name = name /\ down = <<>>
      /\ up[Len(up)].file = f
  BY DEF Queued
<1>4. CASE Len(up) = 1
  <2>1. Len(up) - 1 = 0
    BY <1>4
  <2>2. device.state = "idle"
    BY <1>3, <2>1 DEF Behind
  <2> QED
    BY <1>2, <1>3, <1>4, <2>2
<1>5. CASE Len(up) > 1
  <2>1. Len(up) - 1 \in 1..Len(up) /\ Len(up) - 1 \in 1..Len(up) - 1 /\ Len(up) - 1 + 1 = Len(up)
    BY <1>2, <1>5
  <2>2. Behind(device', up', Len(up) - 1 - 1) /\ down' = down /\ files' = files
    BY <1>3, <2>1, SkipsTalk
  <2>3. up'[Len(up')] = up[Len(up)]
    BY <1>2, <2>1
  <2>4. up' # <<>>
    BY <1>2, <2>1
  <2>5. Len(up') - 1 = Len(up) - 1 - 1 /\ Len(up') - 1 \in Nat
    BY <1>2, <1>5
  <2>6. Queued(device', up', down', name, f)
    BY <1>3, <2>2, <2>3, <2>4, <2>5 DEF Queued
  <2>7. device'.state # "sending"
    BY <2>2, <2>5 DEF Behind
  <2> QED
    BY <2>2, <2>6, <2>7
<1> QED
  BY <1>2, <1>4, <1>5

(* What is carried are data.                                               *)
LEMMA CarriesData ==
  ASSUME NEW us, NEW k, NEW n, NEW c, NEW from, NEW to, Carries(us, k, n, c, from, to)
  PROVE  \A i \in k + 1..n : us[i].name = "DATA"
  BY DEF Carries

(* What is added to a part of a file that is the next of it.               *)
LEMMA MatchesConcat ==
  ASSUME NEW S, NEW a \in Seq(S), NEW b \in Seq(S), NEW c \in Seq(S),
         Matches(a, 0, c, 0, Len(a)), Matches(b, 0, c, Len(a), Len(b))
  PROVE  Matches(a \o b, 0, c, 0, Len(a \o b))
<1> DEFINE m == Len(a)  n == Len(b)  ab == a \o b
<1>1. /\ Len(ab) = m + n /\ \A j \in 1..m : ab[j] = a[j]
      /\ \A j \in 1..n : ab[m + j] = b[j]
  BY ConcatSeq
<1>2. m \in Nat /\ n \in Nat /\ Len(c) \in Nat
  BY LenProperties
<1>3. /\ 0 + m <= Len(c) /\ \A j \in 1..m : a[0 + j] = c[0 + j]
      /\ m + n <= Len(c) /\ \A j \in 1..n : b[0 + j] = c[m + j]
  BY DEF Matches
<1> HIDE DEF m, n, ab
<1>4. ASSUME NEW j \in 1..m + n  PROVE ab[0 + j] = c[0 + j]
  <2>1. j \in Nat /\ 0 + j = j
    BY <1>2
  <2>2. CASE j <= m
    <3>1. j \in 1..m
      BY <1>2, <2>1, <2>2
    <3>2. ab[j] = a[j] /\ a[0 + j] = c[0 + j]
      BY <1>1, <1>3, <3>1
    <3> QED
      BY <2>1, <3>2
  <2>3. CASE j > m
    <3> DEFINE i == j - m
    <3>1. i \in 1..n /\ m + i = j /\ 0 + i = i
      BY <1>2, <2>1, <2>3
    <3> HIDE DEF i
    <3>2. ab[m + i] = b[i] /\ b[0 + i] = c[m + i]
      BY <1>1, <1>3, <3>1
    <3> QED
      BY <2>1, <3>1, <3>2
  <2> QED
    BY <1>2, <2>1, <2>2, <2>3
<1>5. 0 + (m + n) <= Len(c)
  BY <1>2, <1>3
<1>6. Matches(ab, 0, c, 0, m + n)
  BY <1>4, <1>5 DEF Matches
<1> QED
  BY <1>1, <1>6 DEF ab

(* The device takes a request, of a push or in front of it.                *)
LEMMA PushedTakes ==
  ASSUME TypeInv, D_Take, NEW n \in 1..Len(up), NEW f \in File, NEW c \in Seq(Words),
         NEW to \in Nat,
         Pushed(device, up, down, n, f, c, files, to)
  PROVE  Pushed(device', up', down', n - 1, f, c, files', to) /\ OnlyFile(f)
<1>1. /\ TakeForms /\ up # <<>> /\ up' = Tail(up) /\ up \in Seq(Requests) /\ IsTree(files)
      /\ Head(up) \in Requests
  BY TakeType DEF TypeInv, WorldOK
<1>2. /\ Len(up) \in Nat /\ Head(up) = up[1]
      /\ \A i \in 1..Len(up) - 1 : up'[i] = up[i + 1]
  BY <1>1, TakenSeq
<1>3. n \in Nat /\ n >= 1 /\ n <= Len(up)
  BY <1>2
<1>4. \A i \in 1..n - 1 : up'[i] = up[i + 1] /\ i + 1 \in 2..n
  <2>1. \A i \in 1..n - 1 : i \in 1..Len(up) - 1 /\ i + 1 \in 2..n
    BY <1>2, <1>3
  <2> QED
    BY <1>2, <2>1
<1>5. files' = files => OnlyFile(f)
  BY DEF OnlyFile
<1>6. <<>> \o Failure = Failure
  BY FailureType, ConcatEmptySeq
<1>7. ASSUME NEW k \in 0..n - 1, Behind(device, up, k), up[k + 1].name = "SEND", down = <<>>,
             up[k + 1].file = f, Carries(up, k + 1, n, c, 0, to)
      PROVE  Pushed(device', up', down', n - 1, f, c, files', to) /\ OnlyFile(f)
  <2>1. k \in Nat /\ k + 1 \in Nat /\ k + 1 >= 1 /\ n \in k + 1..Len(up) /\ k + 1 - 1 = k
    BY <1>2, <1>3
  <2>2. Carries(up', k, n - 1, c, 0, to)
    <3> DEFINE l == k + 1
    <3>1. /\ l \in Nat /\ l >= 1 /\ n \in l..Len(up) /\ l - 1 = k
          /\ Carries(up, l, n, c, 0, to)
      BY <1>7, <2>1
    <3> HIDE DEF l
    <3>2. Carries(Tail(up), l - 1, n - 1, c, 0, to)
      BY <1>1, <1>3, <3>1, CarriesTail
    <3> QED
      BY <1>1, <3>1, <3>2
  <2>3. CASE k = 0
    <3>1. device.state = "idle" /\ Head(up).name = "SEND" /\ Head(up).file = f
      BY <1>2, <1>7, <2>3 DEF Behind
    <3>2. /\ device'.state = "receiving"
          /\ \/ /\ ~device'.failed /\ device'.file = f /\ down' = <<>>
                /\ DOMAIN files' = DOMAIN files \cup {f} /\ files'[f] = <<>>
                /\ \A g \in DOMAIN files : g # f => files'[g] = files[g]
             \/ device'.failed /\ down' = Failure /\ files' = files
      BY <1>1, <1>6, <1>7, <3>1 DEF TakeForms
    <3>3. CASE /\ ~device'.failed /\ device'.file = f /\ down' = <<>>
               /\ DOMAIN files' = DOMAIN files \cup {f} /\ files'[f] = <<>>
               /\ \A g \in DOMAIN files : g # f => files'[g] = files[g]
      <4>1. Len(files'[f]) = 0 /\ Len(c) \in Nat
        BY <3>3, LenProperties
      <4>2. Matches(files'[f], 0, c, 0, 0)
        BY <4>1 DEF Matches
      <4>3. Carries(up', 0, n - 1, c, 0, to)
        BY <2>2, <2>3
      <4>4. Pushed(device', up', down', n - 1, f, c, files', to)
        BY <3>2, <3>3, <4>1, <4>2, <4>3 DEF Pushed
      <4>5. OnlyFile(f)
        BY <3>3 DEF OnlyFile
      <4> QED
        BY <4>4, <4>5
    <3>4. CASE device'.failed /\ down' = Failure /\ files' = files
      <4>1. \A i \in 0 + 1..n - 1 : up'[i].name = "DATA"
        BY <2>2, <2>3, CarriesData
      <4>2. \A i \in 1..n - 1 : up'[i].name = "DATA"
        BY <4>1
      <4>3. Pushed(device', up', down', n - 1, f, c, files', to)
        BY <3>2, <3>4, <4>2 DEF Pushed
      <4> QED
        BY <1>5, <3>4, <4>3
    <3> QED
      BY <3>2, <3>3, <3>4
  <2>4. CASE k > 0
    <3> DEFINE j == k - 1
    <3>1. k \in 1..Len(up) /\ j \in 0..n - 1 - 1 /\ k \in 1..n - 1 /\ j + 1 = k
      BY <1>2, <1>3, <2>4
    <3>2. Behind(device', up', j) /\ down' = <<>> /\ files' = files
      BY <1>7, <3>1, SkipsTalk
    <3>3. up'[j + 1].name = "SEND" /\ up'[j + 1].file = f
      BY <1>4, <1>7, <3>1
    <3> HIDE DEF j
    <3>4. Carries(up', j + 1, n - 1, c, 0, to)
      BY <2>2, <3>1
    <3>5. \E i \in 0..n - 1 - 1 : /\ Behind(device', up', i) /\ up'[i + 1].name = "SEND"
                                  /\ up'[i + 1].file = f /\ Carries(up', i + 1, n - 1, c, 0, to)
      BY <3>1, <3>2, <3>3, <3>4
    <3>6. Pushed(device', up', down', n - 1, f, c, files', to)
      BY <3>2, <3>5 DEF Pushed
    <3> QED
      BY <1>5, <3>2, <3>6
  <2> QED
    BY <2>1, <2>3, <2>4
<1>8. CASE /\ device.state = "receiving" /\ device.failed /\ down = Failure
           /\ \A i \in 1..n : up[i].name = "DATA"
  <2>1. 1 \in 1..n
    BY <1>3
  <2>2. Head(up).name = "DATA"
    BY <1>2, <1>8, <2>1
  <2>3. device' = device /\ down' = down /\ files' = files
    BY <1>1, <1>8, <2>2 DEF TakeForms
  <2>4. \A i \in 1..n - 1 : i + 1 \in 1..n
    BY <1>3
  <2>5. \A i \in 1..n - 1 : up'[i].name = "DATA"
    BY <1>4, <1>8, <2>4
  <2>6. Pushed(device', up', down', n - 1, f, c, files', to)
    BY <1>8, <2>3, <2>5 DEF Pushed
  <2> QED
    BY <1>5, <2>3, <2>6
<1>9. CASE /\ device.state = "receiving" /\ ~device.failed /\ down = <<>> /\ device.file = f
           /\ f \in DOMAIN files
           /\ Matches(files[f], 0, c, 0, Len(files[f])) /\ Carries(up, 0, n, c, Len(files[f]), to)
  <2> DEFINE a == files[f]  b == Head(up).data  m == Len(a)
  <2>1. a \in Seq(Words) /\ b \in Seq(Words) /\ m \in Nat
    BY <1>1, <1>9, LenProperties DEF IsTree, Requests
  <2>2. /\ Head(up).name = "DATA" /\ Matches(b, 0, c, m, Len(b))
        /\ Carries(up', 0, n - 1, c, m + Len(b), to)
    <3>1. 0 \in Nat /\ n \in 0..Len(up) /\ Carries(up, 0, n, c, m, to)
      BY <1>2, <1>3, <1>9
    <3> HIDE DEF m, a
    <3> QED
      BY <1>1, <1>3, <3>1, CarriesTail
  <2>3. /\ device' = device /\ down' = down /\ DOMAIN files' = DOMAIN files
        /\ files'[f] = a \o b /\ \A g \in DOMAIN files : g # f => files'[g] = files[g]
    BY <1>1, <1>9, <2>2 DEF TakeForms
  <2>4. OnlyFile(f)
    BY <2>3 DEF OnlyFile
  <2> HIDE DEF a, b
  <2>5. Matches(a \o b, 0, c, 0, Len(a \o b)) /\ Len(a \o b) = m + Len(b)
    BY <1>9, <2>1, <2>2, MatchesConcat, ConcatSeq DEF a
  <2>6. Matches(files'[f], 0, c, 0, Len(files'[f])) /\ Carries(up', 0, n - 1, c, Len(files'[f]), to)
    BY <2>2, <2>3, <2>5
  <2>7. Pushed(device', up', down', n - 1, f, c, files', to)
    BY <1>9, <2>3, <2>6 DEF Pushed
  <2> QED
    BY <2>4, <2>7
<1>10. \/ \E k \in 0..n - 1 : /\ Behind(device, up, k) /\ up[k + 1].name = "SEND" /\ down = <<>>
                              /\ up[k + 1].file = f /\ Carries(up, k + 1, n, c, 0, to)
       \/ /\ device.state = "receiving" /\ device.failed /\ down = Failure
          /\ \A i \in 1..n : up[i].name = "DATA"
       \/ /\ device.state = "receiving" /\ ~device.failed /\ down = <<>> /\ device.file = f
          /\ f \in DOMAIN files
          /\ Matches(files[f], 0, c, 0, Len(files[f])) /\ Carries(up, 0, n, c, Len(files[f]), to)
  BY DEF Pushed
<1> QED
  BY <1>7, <1>8, <1>9, <1>10

(* A request that the device takes keeps the two in step, and changes no   *)
(* file but the one that is pushed.                                        *)
LEMMA TakeTalk ==
  ASSUME SyncInv, Talking, D_Take
  PROVE  /\ Talking'
         /\ op.pc \notin {"chunk", "result", "undefined", "spinning"} => files' = files
         /\ op.pc \in {"chunk", "result"} => OnlyFile(op.file)
<1>1. op' = op /\ host' = host /\ op.pc \in Steps /\ OpOK(op, host)
  BY DEF D_Take, hostVars, SyncInv, TypeInv, OpOK
<1>2. TypeInv /\ TakeForms /\ up # <<>> /\ up' = Tail(up) /\ up \in Seq(Requests)
      /\ down \in Seq(Words) /\ IsTree(host) /\ IsTree(files)
  BY TakeType DEF SyncInv, TypeInv, WorldOK
<1>3. /\ Len(up) \in Nat /\ Len(up) >= 1 /\ Len(up') = Len(up) - 1 /\ Head(up) = up[1]
      /\ \A i \in 1..Len(up) - 1 : up'[i] = up[i + 1]
      /\ Len(up) = 1 => up' = <<>>
  BY <1>2, TakenSeq
<1>4. Len(up) \in 1..Len(up)
  BY <1>3
<1>5. <<>> \o Failure = Failure
  BY FailureType, ConcatEmptySeq
<1>6. CASE op.pc \in {"idle", "entries", "request"}
  <2>1. Quiet(device, up, down)
    BY <1>6 DEF Talking, Talk
  <2>2. Behind(device', up', Len(up) - 1) /\ down' = down /\ files' = files
    BY <1>2, <1>4, <2>1, SkipsTalk DEF Quiet
  <2>3. Quiet(device', up', down')
    BY <1>3, <2>1, <2>2 DEF Quiet
  <2>4. Talking'
    BY <1>1, <1>6, <2>3 DEF Talking, Talk
  <2> QED
    BY <1>6, <2>2, <2>4
<1>7. CASE op.pc = "mode"
  <2>1. Queued(device, up, down, "STAT", op.file)
    BY <1>2, <1>7 DEF Talking, Talk
  <2>2. CASE Queued(device', up', down', "STAT", op.file) /\ files' = files
    <3>1. Talking'
      BY <1>1, <1>7, <2>2 DEF Talking, Talk
    <3> QED
      BY <1>7, <2>2, <3>1
  <2>3. CASE device.state = "idle" /\ Head(up).name = "STAT" /\ down = <<>> /\ up' = <<>>
    <3>1. PICK words \in Seq(Words) :
            device' = device /\ files' = files /\ Len(words) = 4 /\ down' = down \o words
      BY <1>2, <2>3 DEF TakeForms
    <3>2. Len(down') = 4
      <4>1. Len(down) = 0
        BY <2>3
      <4>2. Len(down') = Len(down) + Len(words)
        BY <1>2, <3>1, ConcatSeq
      <4> QED
        BY <3>1, <4>1, <4>2
    <3>3. Talking'
      BY <1>1, <1>7, <2>3, <3>1, <3>2 DEF Talking, Talk
    <3> QED
      BY <1>7, <3>1, <3>3
  <2> QED
    BY <1>2, <2>1, <2>2, <2>3, QueuedTakes
<1>8. CASE op.pc = "answer"
  <2>1. Queued(device, up, down, "RECV", op.file)
    BY <1>2, <1>8 DEF Talking, Talk, Answers
  <2>2. CASE /\ Queued(device', up', down', "RECV", op.file) /\ files' = files
             /\ device'.state # "sending"
    <3>1. Talking'
      BY <1>1, <1>8, <2>2 DEF Talking, Talk
    <3> QED
      BY <1>8, <2>2, <3>1
  <2>3. CASE /\ device.state = "idle" /\ Head(up).name = "RECV" /\ Head(up).file = op.file
             /\ down = <<>> /\ up' = <<>>
    <3>1. /\ files' = files
          /\ \/ /\ device'.state = "sending" /\ device'.file = op.file /\ device'.pos = 0
                /\ op.file \in DOMAIN files /\ down' = <<>>
             \/ device' = device /\ down' = Failure
      BY <1>2, <1>5, <2>3 DEF TakeForms
    <3>2. FramesFrom(device', down', files'[op.file], 0, 0)
      BY <2>3, <3>1, FramesBegin
    <3>3. /\ Answers(device', up', down', op.file, files')
          /\ device'.state = "sending" => device'.file = op.file
      BY <2>3, <3>1, <3>2 DEF Answers
    <3>4. Talking'
      BY <1>1, <1>8, <3>3 DEF Talking, Talk
    <3> QED
      BY <1>8, <3>1, <3>4
  <2> QED
    BY <1>2, <2>1, <2>2, <2>3, QueuedTakes
<1>9. op.pc \notin {"create", "transfer", "data", "next"}
  BY <1>2 DEF Talking, Talk
<1> DEFINE c == host[op.file]
<1>10. op.pc \in {"chunk", "result"} => /\ op.file \in File /\ c \in Seq(Words)
                                        /\ op.pos \in Nat /\ Len(c) \in Nat
  <2>1. op.pc \in {"chunk", "result"} => op.file \in DOMAIN host
    BY <1>1 DEF Talking, Talk, OpOK
  <2> QED
    BY <1>1, <1>2, <2>1, LenProperties DEF OpOK, IsTree
<1> HIDE DEF c
<1>11. CASE op.pc = "chunk"
  <2>1. Pushed(device, up, down, Len(up), op.file, c, files, op.pos)
        /\ (op.eof => op.pos = Len(c))
    BY <1>11 DEF Talking, Talk, c
  <2>2. Pushed(device', up', down', Len(up) - 1, op.file, c, files', op.pos) /\ OnlyFile(op.file)
    BY <1>2, <1>4, <1>10, <1>11, <2>1, PushedTakes
  <2>3. Talking'
    BY <1>1, <1>3, <1>11, <2>1, <2>2 DEF Talking, Talk, c
  <2> QED
    BY <1>11, <2>2, <2>3
<1>12. CASE op.pc = "result"
  <2>1. up[Len(up)].name = "DONE" /\ op.file \in DOMAIN host
        /\ Pushed(device, up, down, Len(up) - 1, op.file, c, files, Len(c))
    BY <1>2, <1>12 DEF Talking, Talk, Concluding, c
  <2>2. SUFFICES Concluding(device', up', down', op.file, c, files') /\ OnlyFile(op.file)
    <3>1. ASSUME Concluding(device', up', down', op.file, c, files')  PROVE Talking'
      BY <1>1, <1>12, <2>1, <3>1 DEF Talking, Talk, c
    <3> QED
      BY <1>12, <3>1
  <2>3. CASE Len(up) > 1
    <3>1. Len(up) - 1 \in 1..Len(up) /\ Len(up) - 1 \in 1..Len(up) - 1 /\ Len(up) - 1 + 1 = Len(up)
      BY <1>3, <2>3
    <3>2. Pushed(device', up', down', Len(up) - 1 - 1, op.file, c, files', Len(c))
          /\ OnlyFile(op.file)
      BY <1>2, <1>10, <1>12, <2>1, <3>1, PushedTakes
    <3>3. up'[Len(up')].name = "DONE" /\ up' # <<>>
      BY <1>3, <2>1, <3>1
    <3>4. Len(up') - 1 = Len(up) - 1 - 1
      BY <1>3
    <3> QED
      BY <3>2, <3>3, <3>4 DEF Concluding
  <2>4. CASE Len(up) = 1
    <3>1. Len(up) - 1 = 0 /\ 0..0 - 1 = {}
      BY <2>4
    <3>2. \/ device.state = "receiving" /\ device.failed /\ down = Failure
          \/ /\ device.state = "receiving" /\ ~device.failed /\ down = <<>>
             /\ op.file \in DOMAIN files
             /\ Matches(files[op.file], 0, c, 0, Len(files[op.file]))
             /\ Carries(up, 0, 0, c, Len(files[op.file]), Len(c))
      BY <2>1, <3>1 DEF Pushed
    <3>3. Head(up).name = "DONE"
      BY <1>3, <2>1, <2>4
    <3>4. /\ device'.state = "idle" /\ files' = files
          /\ device.failed => down' = down
          /\ ~device.failed => down' = down \o <<Id("OKAY"), Num(0)>>
      BY <1>2, <3>2, <3>3 DEF TakeForms
    <3>5. <<>> \o <<Id("OKAY"), Num(0)>> = <<Id("OKAY"), Num(0)>>
      <4>1. Id("OKAY") \in Words /\ Num(0) \in Words
        BY WordKinds
      <4>2. <<Id("OKAY"), Num(0)>> \in Seq(Words)
        BY <4>1
      <4> QED
        BY <4>2, ConcatEmptySeq
    <3>6. up' = <<>> /\ OnlyFile(op.file)
      BY <1>3, <2>4, <3>4 DEF OnlyFile
    <3>7. CASE device.failed
      BY <3>2, <3>4, <3>6, <3>7 DEF Concluding
    <3>8. CASE ~device.failed
      <4> DEFINE a == files[op.file]
      <4>1. /\ a \in Seq(Words) /\ c \in Seq(Words) /\ Len(a) \in Nat
            /\ Matches(a, 0, c, 0, Len(a)) /\ Carries(up, 0, 0, c, Len(a), Len(c))
        BY <1>2, <1>10, <1>12, <3>2, <3>8, LenProperties DEF IsTree
      <4> HIDE DEF a
      <4>2. Len(c) = Len(a)
        BY <4>1, CarriesNone
      <4>3. \A j \in 1..Len(a) : a[j] = c[j]
        <5>1. \A j \in 1..Len(a) : 0 + j = j
          BY <4>1
        <5> QED
          BY <4>1, <5>1 DEF Matches
      <4>4. a = c
        BY <4>1, <4>2, <4>3, SeqEqual
      <4> QED
        BY <3>2, <3>4, <3>5, <3>6, <3>8, <4>4 DEF Concluding, a
    <3> QED
      BY <3>7, <3>8
  <2> QED
    BY <1>3, <2>3, <2>4
<1>13. CASE op.pc = "message"
  <2>1. op.len = 1 /\ Len(down) = 1 /\ Behind(device, up, Len(up))
    BY <1>13 DEF Talking, Talk
  <2>2. Behind(device', up', Len(up) - 1) /\ down' = down /\ files' = files
    BY <1>2, <1>4, <2>1, SkipsTalk
  <2>3. Talking'
    BY <1>1, <1>3, <1>13, <2>1, <2>2 DEF Talking, Talk
  <2> QED
    BY <1>13, <2>2, <2>3
(* A client that hangs does not matter                                     *)
<1>14. CASE op.pc \in {"undefined", "spinning"}
  BY <1>1, <1>14 DEF Talking, Talk
<1> QED
  BY <1>1, <1>6, <1>7, <1>8, <1>9, <1>11, <1>12, <1>13, <1>14 DEF Steps

(* Words that have come are not changed by those that come.                *)
LEMMA MatchesMore ==
  ASSUME NEW ws \in Seq(Words), NEW vs \in Seq(Words), NEW c, NEW p, NEW n \in Nat,
         n <= Len(ws), Len(vs) >= Len(ws), \A j \in 1..Len(ws) : vs[j] = ws[j],
         Matches(ws, 0, c, p, n)
  PROVE  Matches(vs, 0, c, p, n)
<1>1. Len(ws) \in Nat
  BY LenProperties
<1>2. \A j \in 1..n : 0 + j = j /\ j \in 1..Len(ws)
  BY <1>1
<1> QED
  BY <1>2 DEF Matches

(* So does what it sends of a file.                                        *)
LEMMA SendTalk ==
  ASSUME SyncInv, Talking, D_Send
  PROVE  Talking'
<1>1. op' = op /\ host' = host
  BY DEF D_Send, hostVars
<1>2. /\ up' = up /\ device.link = "up" /\ device.state = "sending"
      /\ files' = files /\ device.pos \in Nat
      /\ \/ \E part \in Seq(Words) :
              /\ Len(part) \in 1..SYNC_DATA_MAX /\ device'.state = "sending"
              /\ device'.file = device.file /\ device'.pos = device.pos + Len(part)
              /\ Matches(part, 0, files[device.file], device.pos, Len(part))
              /\ down' = down \o (<<Id("DATA"), Num(Len(part))>> \o part)
         \/ \E last \in Seq(Words) :
              /\ LastAt(last, 0) /\ device'.state = "idle" /\ down' = down \o last
              /\ last[1] = Id("DONE") => device.pos = Len(files[device.file])
  BY SendForms DEF SyncInv
<1>3. up \in Seq(Requests) /\ down \in Seq(Words) /\ op.len \in Nat /\ op.pc \in Steps
  BY DEF SyncInv, TypeInv, WorldOK, OpOK
<1> DEFINE c == files[device.file]
<1> HIDE DEF c
<1>4. ASSUME NEW p, NEW n \in Nat, n <= Len(down), Matches(down, 0, c, p, n)
       PROVE  Matches(down', 0, c, p, n)
  <2>1. PICK more \in Seq(Words) : down' = down \o more
    <3>1. ASSUME NEW part \in Seq(Words)
          PROVE  <<Id("DATA"), Num(Len(part))>> \o part \in Seq(Words)
      <4>1. Id("DATA") \in Words /\ Num(Len(part)) \in Words
        BY LenProperties, WordKinds
      <4>2. <<Id("DATA"), Num(Len(part))>> \in Seq(Words)
        BY <4>1
      <4> QED
        BY <4>2, ConcatProperties
    <3> QED
      BY <1>2, <3>1
  <2>2. /\ down' \in Seq(Words) /\ Len(down') = Len(down) + Len(more)
        /\ \A j \in 1..Len(down) : down'[j] = down[j]
    BY <1>3, <2>1, ConcatSeq
  <2>3. Len(down') >= Len(down)
    <3>1. Len(more) \in Nat /\ Len(down) \in Nat
      BY <1>3, LenProperties
    <3> QED
      BY <2>2, <3>1
  <2> QED
    BY <1>3, <1>4, <2>2, <2>3, MatchesMore
<1>5. ASSUME NEW k \in Nat, NEW p \in Nat, FramesFrom(device, down, c, k, p)
      PROVE  FramesFrom(device', down', c, k, p)
  <2>1. ASSUME NEW part \in Seq(Words), Len(part) \in 1..SYNC_DATA_MAX,
               device'.state = "sending", device'.pos = device.pos + Len(part),
               Matches(part, 0, c, device.pos, Len(part)),
               down' = down \o (<<Id("DATA"), Num(Len(part))>> \o part)
        PROVE  FramesFrom(device', down', c, k, p)
    <3>1. Len(part) \in Nat
      BY LenProperties
    <3>2. Id("DATA") \in Words /\ Num(Len(part)) \in Words
      BY <3>1, WordKinds
    <3> QED
      BY <1>2, <1>3, <1>5, <2>1, <3>2, FramesGrow
  <2>2. ASSUME NEW last \in Seq(Words), LastAt(last, 0), device'.state = "idle",
               down' = down \o last, last[1] = Id("DONE") => device.pos = Len(c)
        PROVE  FramesFrom(device', down', c, k, p)
    BY <1>2, <1>3, <1>5, <2>2, FramesEnd
  <2> QED
    BY <1>2, <2>1, <2>2 DEF c
(* A device that is sending has been asked for a file, and for nothing since *)
<1>6. \A k \in Nat : ~Behind(device, up, k)
  BY <1>2 DEF Behind
<1>7. Len(up) \in Nat /\ (up # <<>> => Len(up) - 1 \in Nat)
  <2>1. Len(up) \in Nat /\ (up # <<>> => Len(up) # 0)
    BY <1>3, EmptySeq, LenProperties
  <2> QED
    BY <2>1
<1>8. \A n \in Nat : \A f, d, to : ~Pushed(device, up, down, n, f, d, files, to)
  <2>1. \A n \in Nat : \A k \in 0..n - 1 : k \in Nat
    OBVIOUS
  <2> QED
    BY <1>2, <1>6, <2>1 DEF Pushed
<1>9. \A name, f : ~Queued(device, up, down, name, f)
  BY <1>6, <1>7 DEF Queued
<1>10. op.pc \notin {"idle", "entries", "request", "mode", "chunk", "result", "message"}
  <2>1. op.pc \notin {"idle", "entries", "request", "message"}
    BY <1>6, <1>7 DEF Talking, Talk, Quiet
  <2>2. op.pc # "chunk"
    BY <1>7, <1>8 DEF Talking, Talk
  <2>3. op.pc # "result"
    BY <1>2, <1>7, <1>8 DEF Talking, Talk, Concluding
  <2>4. op.pc # "mode"
    BY <1>2, <1>9 DEF Talking, Talk
  <2> QED
    BY <2>1, <2>2, <2>3, <2>4
<1>11. ASSUME op.pc \in {"answer", "create", "transfer", "data", "next"}
       PROVE  /\ device.file = op.file /\ c = files[op.file]
              /\ device'.state = "sending" => device'.file = op.file
  <2>1. device.file = op.file
    BY <1>2, <1>11 DEF Talking, Talk
  <2> QED
    BY <1>2, <2>1 DEF c
<1>12. CASE op.pc = "answer"
  <2>1. /\ up = <<>> /\ FramesFrom(device, down, c, 0, 0)
        /\ op.file \notin DOMAIN files => down = Failure
    BY <1>9, <1>11, <1>12 DEF Talking, Talk, Answers
  <2>2. FramesFrom(device', down', c, 0, 0)
    BY <1>5, <2>1
  <2>3. op.file \in DOMAIN files
    BY <1>2, <1>11, <1>12 DEF SyncInv, TypeInv, WorldOK
  <2>4. Answers(device', up', down', op.file, files')
    BY <1>2, <1>11, <1>12, <2>1, <2>2, <2>3 DEF Answers
  <2> QED
    BY <1>1, <1>11, <1>12, <2>4 DEF Talking, Talk
<1>13. CASE op.pc \in {"create", "transfer"}
  <2>1. up = <<>> /\ op.file \in DOMAIN files /\ Heading(op, device, down, c)
    BY <1>11, <1>13 DEF Talking, Talk
  <2>2. PICK p \in Nat : op.pos = Capped(p) /\ Announced(device, down, op.header, c, p)
    BY <2>1 DEF Heading
  <2>3. PICK n \in 1..SYNC_DATA_MAX :
          /\ op.header[1] = Id("DATA") /\ op.header[2] = Num(n)
          /\ Matches(down, 0, c, p, n) /\ FramesFrom(device, down, c, n, p + n)
    BY <1>2, <2>2 DEF Announced
  <2>4. n \in Nat /\ p + n \in Nat
    BY Assumed
  <2>5. FramesFrom(device', down', c, n, p + n) /\ n <= Len(down)
    BY <1>3, <1>5, <2>3, <2>4, FramesLong
  <2>6. Matches(down', 0, c, p, n)
    BY <1>4, <2>3, <2>4, <2>5
  <2>7. Announced(device', down', op.header, c, p)
    BY <2>3, <2>5, <2>6 DEF Announced
  <2>8. Heading(op', device', down', c)
    BY <1>1, <2>2, <2>7 DEF Heading
  <2> QED
    BY <1>1, <1>2, <1>11, <1>13, <2>1, <2>8 DEF Talking, Talk
<1>14. CASE op.pc = "data"
  <2>1. up = <<>> /\ op.file \in DOMAIN files /\ Reading(op, device, down, c)
    BY <1>11, <1>14 DEF Talking, Talk
  <2>2. PICK p \in Nat : /\ op.pos = Capped(p) /\ Matches(down, 0, c, p, op.len)
                         /\ FramesFrom(device, down, c, op.len, p + op.len)
    BY <2>1 DEF Reading
  <2>3. p + op.len \in Nat
    BY <1>3
  <2>4. FramesFrom(device', down', c, op.len, p + op.len) /\ op.len <= Len(down)
    BY <1>3, <1>5, <2>2, <2>3, FramesLong
  <2>5. Matches(down', 0, c, p, op.len)
    BY <1>3, <1>4, <2>2, <2>4
  <2>6. Reading(op', device', down', c)
    BY <1>1, <2>2, <2>4, <2>5 DEF Reading
  <2> QED
    BY <1>1, <1>2, <1>11, <1>14, <2>1, <2>6 DEF Talking, Talk
<1>15. CASE op.pc = "next"
  <2>1. up = <<>> /\ op.file \in DOMAIN files /\ HasRead(op, device, down, c)
    BY <1>11, <1>15 DEF Talking, Talk
  <2>2. PICK p \in Nat : /\ op.pos = Capped(p) /\ Matches(op.data, 0, c, p, op.len)
                         /\ FramesFrom(device, down, c, 0, p + op.len)
    BY <2>1 DEF HasRead
  <2>3. p + op.len \in Nat
    BY <1>3
  <2>4. FramesFrom(device', down', c, 0, p + op.len)
    BY <1>5, <2>2, <2>3
  <2>5. HasRead(op', device', down', c)
    BY <1>1, <2>2, <2>4 DEF HasRead
  <2> QED
    BY <1>1, <1>2, <1>11, <1>15, <2>1, <2>5 DEF Talking, Talk
<1>16. CASE op.pc \in {"undefined", "spinning"}
  BY <1>1, <1>16 DEF Talking, Talk
<1> QED
  BY <1>3, <1>10, <1>12, <1>13, <1>14, <1>15, <1>16 DEF Steps

(* What is under way when the connection breaks is as it was.              *)
LEMMA BreaksTalk ==
  ASSUME SyncInv, Talking, D_Breaks
  PROVE  Talking' /\ files' = files
<1>1. op' = op /\ up' = up /\ down' = down /\ host' = host /\ files' = files
  BY DEF D_Breaks, hostVars
<1>2. device \in Devices
  BY DEF SyncInv, TypeInv, WorldOK
<1>3. /\ device'.state = device.state /\ device'.file = device.file
      /\ device'.pos = device.pos /\ device'.failed = device.failed
  BY <1>2 DEF D_Breaks, Devices
<1>4. Talk(op, device', up, down, files, host)
  BY <1>3, TalkLink DEF Talking
<1> QED
  BY <1>1, <1>4 DEF Talking

(* Nothing is lost before the connection is gone, so that every step of    *)
(* the device keeps the two in step.                                       *)
LEMMA DeviceTalk ==
  ASSUME SyncInv, D_Take \/ D_Send \/ D_Breaks
  PROVE  TalkInv'
<1>1. SUFFICES ASSUME InTouch'  PROVE Talking'
  BY DEF TalkInv
<1>2. device.link = "up" /\ stream' = stream
  BY DEF D_Take, D_Send, D_Breaks
<1>3. Talking
  BY <1>1, <1>2 DEF InTouch, Lost, SyncInv, TalkInv
<1> QED
  BY <1>3, TakeTalk, SendTalk, BreaksTalk

-----------------------------------------------------------------------------
(* Every step keeps the invariant.                                         *)
LEMMA NextInv ==
  ASSUME SyncInv, [Next]_vars
  PROVE  SyncInv'
<1>1. CASE User
  BY <1>1, UserTalk DEF SyncInv
<1>2. CASE Client
  BY <1>2, ClientType, ClientTalk DEF SyncInv
<1>3. CASE D_Take
  BY <1>3, TakeType, DeviceTalk DEF SyncInv
<1>4. CASE D_Send
  BY <1>4, SendForms, DeviceTalk DEF SyncInv
<1>5. CASE D_Breaks
  BY <1>5, BreaksType, DeviceTalk DEF SyncInv
<1>6. CASE UNCHANGED vars
  <2>1. UNCHANGED <<channel, buffered, op, monitor, host, up, down, device, files, stream, ops,
                    faults>>
    BY <1>6 DEF vars, hostVars, deviceVars
  <2>2. TypeInv'
    BY <2>1 DEF SyncInv, TypeInv, WorldOK
  <2>3. TalkInv'
    BY <2>1, SameTalk
  <2> QED
    BY <2>2, <2>3 DEF SyncInv
<1> QED
  BY <1>1, <1>2, <1>3, <1>4, <1>5, <1>6 DEF Next

(* Whatever is transferred, refused or cancelled, and whatever fails: the  *)
(* invariant holds.                                                        *)
THEOREM SyncInvariant == Spec => []SyncInv
<1>1. Init => SyncInv
  <2>1. Init => TypeInv
    BY InitType
  <2>2. Init => TalkInv
    <3>1. ASSUME Init  PROVE Quiet(device, up, down) /\ op.pc = "idle"
      <4>1. device.state = "idle" /\ up = <<>> /\ down = <<>> /\ op.pc = "idle"
        BY <3>1 DEF Init, NewOp
      <4> QED
        BY <4>1, QuietEmpty
    <3> QED
      BY <3>1 DEF TalkInv, Talking, Talk
  <2> QED
    BY <2>1, <2>2 DEF SyncInv
<1>2. SyncInv /\ [Next]_vars => SyncInv'
  BY NextInv
<1> QED
  BY <1>1, <1>2, PTL DEF Spec

(* The elements of a sequence.                                             *)
LEMMA ElementsOf ==
  ASSUME NEW S, NEW s \in Seq(S)
  PROVE  ToSet(s) \subseteq S
  BY ElementOfSeq, LenProperties DEF ToSet

(* What the invariant says of the types.                                   *)
LEMMA InvTypeOK == SyncInv => TypeOK
<1> SUFFICES ASSUME SyncInv  PROVE TypeOK
  OBVIOUS
<1>1. WorldOK /\ OpOK(op, host)
  BY DEF SyncInv, TypeInv
<1>2. ToSet(op.todo) \subseteq Entry \cup {Directory}
  BY <1>1, ElementsOf DEF OpOK
<1>3. ToSet(down) \subseteq Words
  BY <1>1, ElementsOf DEF WorldOK
<1>4. \A tree \in {host, files} :
        DOMAIN tree \subseteq File /\ \A f \in DOMAIN tree : ToSet(tree[f]) \subseteq Words
  <2>1. ASSUME NEW t, IsTree(t)
        PROVE  DOMAIN t \subseteq File /\ \A f \in DOMAIN t : ToSet(t[f]) \subseteq Words
    BY <2>1, ElementsOf DEF IsTree
  <2> QED
    BY <1>1, <2>1 DEF WorldOK
<1>5. device.link \in {"up", "gone", "stalled"}
      /\ device.state \in {"idle", "sending", "receiving"}
  BY <1>1 DEF WorldOK, Devices
<1> QED
  BY <1>1, <1>2, <1>3, <1>4, <1>5 DEF TypeOK, WorldOK, OpOK

(* TypeOK, whatever the trees, the size of the buffer and the number of    *)
(* operations: in particular the data that are read fit into the buffer    *)
(* they are read into.                                                     *)
THEOREM SyncTypes == Spec => []TypeOK
  BY SyncInvariant, InvTypeOK, PTL

(* What it says of a connection between two operations.                    *)
LEMMA InvInStep == SyncInv => InStep
<1> SUFFICES ASSUME SyncInv, stream = "inStep", channel = "open", op.pc = "idle",
                    device.link = "up"
             PROVE  /\ down = <<>>
                    /\ IF up = <<>> THEN device.state = "idle"
                       ELSE device.state = "receiving" /\ device.failed /\ Last(up).name = "DONE"
  BY DEF InStep
<1>1. up \in Seq(Requests)
  BY DEF SyncInv, TypeInv, WorldOK
<1>2. down = <<>> /\ Behind(device, up, Len(up))
  BY DEF SyncInv, TalkInv, InTouch, Lost, Talking, Talk, Quiet
<1>3. CASE up = <<>>
  <2>1. Len(up) = 0
    BY <1>3
  <2> QED
    BY <1>2, <1>3, <2>1 DEF Behind
<1>4. CASE up # <<>>
  <2>1. Len(up) > 0
    <3>1. Len(up) \in Nat /\ Len(up) # 0
      BY <1>1, <1>4, EmptySeq, LenProperties
    <3> QED
      BY <3>1
  <2> QED
    BY <1>2, <1>4, <2>1 DEF Behind, Last
<1> QED
  BY <1>3, <1>4

(* InStep: an operation that was refused, or failed by the device's        *)
(* answer, leaves the connection fit for the next one, as one that         *)
(* succeeded does; what the device has yet to skip ends with the refused   *)
(* push.                                                                   *)
THEOREM TransfersStayInStep == Spec => []InStep
  BY SyncInvariant, InvInStep, PTL

(* What it says of a client that waits.                                    *)
LEMMA InvAnswerComes == SyncInv => AnswerComes
<1> SUFFICES ASSUME SyncInv, stream = "inStep", device.link = "up", Len(down) < Needed
             PROVE  up # <<>> \/ device.state = "sending"
  BY DEF AnswerComes
<1>1. Talking
  BY DEF SyncInv, TalkInv, InTouch, Lost
<1> QED
  BY <1>1, TooLittle

(* AnswerComes: the client never waits for words of a device that waits    *)
(* for a request: doPullFile reads as much as the headers announce, and    *)
(* doPushFile reads after it has sent the end.                             *)
THEOREM AnswersCome == Spec => []AnswerComes
  BY SyncInvariant, InvAnswerComes, PTL

-----------------------------------------------------------------------------
(* What has been transferred.                                              *)

(* h is what is left when the first q words of c are written over old.     *)
Laid(h, old, c, q) ==
  /\ Len(h) = (IF Len(old) >= q THEN Len(old) ELSE q)
  /\ \A i \in 1..Len(h) : h[i] = IF i <= q THEN c[i] ELSE old[i]

(* What there was of the local file f when the operation o began.          *)
Before(o, f) == IF f \in DOMAIN o.before THEN o.before[f] ELSE <<>>

(* Of the local files h and the device's files t: f is as it was, or has   *)
(* the first q words of the device's, or all.                              *)
Kept(o, h, f) ==
  /\ f \in DOMAIN h <=> f \in DOMAIN o.before
  /\ f \in DOMAIN h => h[f] = o.before[f]

UpTo(o, h, t, f, q) == f \in DOMAIN h /\ f \in DOMAIN t /\ Laid(h[f], Before(o, f), t[f], q)

Whole(o, h, t, f) == UpTo(o, h, t, f, Capped(Len(t[f])))

(* The operation is under way, or has a local file open.                   *)
Working(o) == o.pc \notin {"idle", "message", "undefined", "spinning"}

Writing(o) == o.pc \in {"transfer", "data", "next"}

(* A pull leaves no file in a state that it should not have, but the one   *)
(* that it is writing.                                                     *)
Pulled(o, h, t) ==
  o.kind # "push" /\ Working(o) =>
    \A f \in File : \/ Whole(o, h, t, f)
                    \/ f = o.file /\ Writing(o) /\ UpTo(o, h, t, f, o.pos)
                    \/ ~(f = o.file /\ Writing(o)) /\ Kept(o, h, f)

(* f has been transferred, or is yet to come.                              *)
Transferred(o, h, t, f) ==
  /\ o.kind = "push" => f \in DOMAIN t /\ t[f] = h[f]
  /\ o.kind # "push" => Whole(o, h, t, f)

Ahead(o, f) ==
  /\ o.pc # "idle"
  /\ f \in FilesOf(ToSet(o.todo) \ {Directory}) \/ (f = o.file /\ o.pc # "entries")

(* The walk forgets no file.                                               *)
Walked(o, h, t) ==
  Working(o) \/ (o.pc = "idle" /\ o.result = "ok") =>
    \A f \in FilesOf(ToSet(o.args)) :
      (o.kind = "push" => f \in DOMAIN h) => Transferred(o, h, t, f) \/ Ahead(o, f)

(* The inductive invariant of the transfers.                               *)
WholeInv ==
  /\ IsTree(op.before)
  /\ stream = "inStep" => Pulled(op, host, files) /\ Walked(op, host, files)

-----------------------------------------------------------------------------
(* There are no files under nothing.                                       *)
LEMMA NoFiles == FilesOf({}) = {}
<1>1. Closed({})
  BY DEF Closed
<1> QED
  BY <1>1 DEF FilesOf

(* What is under fewer entries.                                            *)
LEMMA FilesMore ==
  ASSUME NEW A, NEW B, A \subseteq B
  PROVE  FilesOf(A) \subseteq FilesOf(B)
  BY DEF FilesOf

(* A directory is replaced by its entries.                                 *)
LEMMA FilesOpened ==
  ASSUME NEW A, NEW T, NEW d \in Dir, A \subseteq {d} \cup T
  PROVE  FilesOf(A) \subseteq FilesOf(ToSet(Kids[d]) \cup T)
<1>1. SUFFICES ASSUME NEW f \in FilesOf(A), NEW all \in SUBSET Entry,
                      ToSet(Kids[d]) \cup T \subseteq all, Closed(all)
               PROVE  f \in all
  BY DEF FilesOf
<1>2. f \in File /\ f # d /\ d \in Entry
  BY <1>1, Assumed DEF FilesOf, Entry
<1>3. Closed(all \cup {d})
  BY <1>1 DEF Closed
<1>4. all \cup {d} \in SUBSET Entry /\ A \subseteq all \cup {d}
  BY <1>1, <1>2
<1>5. f \in all \cup {d}
  BY <1>1, <1>3, <1>4 DEF FilesOf
<1> QED
  BY <1>2, <1>5

(* Another entry is left out.                                              *)
LEMMA FilesSkipped ==
  ASSUME NEW A, NEW T, NEW e \in Entry, e \notin Dir, A \subseteq {e} \cup T, NEW f \in FilesOf(A)
  PROVE  f = e \/ f \in FilesOf(T)
<1>1. SUFFICES ASSUME f # e, NEW all \in SUBSET Entry, T \subseteq all, Closed(all)
               PROVE  f \in all
  BY DEF FilesOf
<1>2. Closed(all \cup {e})
  BY <1>1 DEF Closed
<1>3. all \cup {e} \in SUBSET Entry /\ A \subseteq all \cup {e}
  BY <1>1
<1>4. f \in all \cup {e}
  BY <1>2, <1>3 DEF FilesOf
<1> QED
  BY <1>1, <1>4

(* A file or another entry alone.                                          *)
LEMMA FilesAlone ==
  ASSUME NEW e \in Entry, e \notin Dir
  PROVE  FilesOf({e}) \subseteq {e}
<1>1. \A f \in FilesOf({e}) : f = e \/ f \in FilesOf({})
  BY FilesSkipped
<1> QED
  BY <1>1, NoFiles

(* The elements of what is to do.                                          *)
LEMMA ToSetHead ==
  ASSUME NEW S, NEW s \in Seq(S), s # <<>>
  PROVE  ToSet(s) \subseteq {Head(s)} \cup ToSet(Tail(s)) /\ Head(s) \in S
<1>1. /\ Len(s) \in Nat /\ Len(s) >= 1 /\ Len(Tail(s)) = Len(s) - 1 /\ Head(s) = s[1]
      /\ \A i \in 1..Len(s) - 1 : Tail(s)[i] = s[i + 1]
  BY TakenSeq
<1>2. Tail(s) \in Seq(S) /\ Head(s) \in S /\ DOMAIN s = 1..Len(s)
  BY HeadTailProperties, LenProperties
<1>3. DOMAIN Tail(s) = 1..Len(s) - 1
  BY <1>1, <1>2, LenProperties
<1>4. ASSUME NEW i \in 1..Len(s)
      PROVE  s[i] = Head(s) \/ s[i] \in ToSet(Tail(s))
  <2>1. CASE i = 1
    BY <1>1, <2>1
  <2>2. CASE i # 1
    <3> DEFINE j == i - 1
    <3>1. j \in 1..Len(s) - 1 /\ j + 1 = i
      BY <1>1, <2>2
    <3> HIDE DEF j
    <3>2. Tail(s)[j] = s[i] /\ j \in DOMAIN Tail(s)
      BY <1>1, <1>3, <3>1
    <3> QED
      BY <3>2 DEF ToSet
  <2> QED
    BY <2>1, <2>2
<1> QED
  BY <1>2, <1>4 DEF ToSet

LEMMA ToSetConcat ==
  ASSUME NEW S, NEW a \in Seq(S), NEW b \in Seq(S)
  PROVE  ToSet(a) \cup ToSet(b) \subseteq ToSet(a \o b)
<1> DEFINE m == Len(a)  n == Len(b)  ab == a \o b
<1>1. /\ ab \in Seq(S) /\ Len(ab) = m + n /\ \A j \in 1..m : ab[j] = a[j]
      /\ \A j \in 1..n : ab[m + j] = b[j]
  BY ConcatSeq
<1>2. /\ m \in Nat /\ n \in Nat /\ DOMAIN a = 1..m /\ DOMAIN b = 1..n /\ DOMAIN ab = 1..m + n
  BY <1>1, LenProperties
<1> HIDE DEF m, n, ab
<1>3. \A j \in 1..m : j \in 1..m + n
  BY <1>2
<1>4. \A j \in 1..n : m + j \in 1..m + n
  BY <1>2
<1>5. ToSet(a) \subseteq ToSet(ab)
  BY <1>1, <1>2, <1>3 DEF ToSet
<1>6. ToSet(b) \subseteq ToSet(ab)
  BY <1>1, <1>2, <1>4 DEF ToSet
<1> QED
  BY <1>5, <1>6 DEF ab

(* The words of a file are written where those before them end, or before. *)
LEMMA LaidOver ==
  ASSUME NEW h \in Seq(Words), NEW old \in Seq(Words), NEW c \in Seq(Words),
         NEW words \in Seq(Words), NEW n \in Nat, Len(words) = n, NEW p \in Nat, NEW r \in Nat,
         Capped(p) <= r, Laid(h, old, c, r), Matches(words, 0, c, p, n)
  PROVE  Laid(Overwritten(h, Capped(p), words), old, c,
              IF r >= Capped(p + n) THEN r ELSE Capped(p + n))
<1> DEFINE q == Capped(p)  e == Capped(p + n)  s == IF r >= e THEN r ELSE e
           hlen == Len(h)  olen == Len(old)  m == IF e > hlen THEN e ELSE hlen
           g == Overwritten(h, q, words)
<1>1. /\ q \in Nat /\ e \in Nat /\ q <= e /\ Capped(q + n) = e /\ e <= MaxContent
      /\ q < MaxContent => q = p
  <2>1. p + n \in Nat
    OBVIOUS
  <2> QED
    BY <2>1, CappedAdd
<1>2. hlen \in Nat /\ olen \in Nat /\ MaxContent \in Nat
  BY LenProperties, Assumed
<1>3. /\ hlen = IF olen >= r THEN olen ELSE r
      /\ \A i \in 1..hlen : h[i] = IF i <= r THEN c[i] ELSE old[i]
  BY DEF Laid
<1>4. g = [i \in 1..m |-> IF i \in q + 1..e THEN words[i - q] ELSE h[i]]
  BY <1>1 DEF Overwritten
<1>5. \A j \in 1..n : words[0 + j] = c[p + j]
  BY DEF Matches
<1>6. q <= r
  OBVIOUS
<1> HIDE DEF q, e, hlen, olen
<1>7. m \in Nat /\ m = (IF olen >= s THEN olen ELSE s)
  BY <1>1, <1>2, <1>3
<1>8. Len(g) = m
  <2>1. q \in 0..Len(h)
    BY <1>1, <1>2, <1>3, <1>6 DEF hlen
  <2>2. g \in Seq(Words)
    BY <2>1, OverwrittenType
  <2>3. DOMAIN g = 1..m
    BY <1>4
  <2> HIDE DEF g, m
  <2> DEFINE k == Len(g)
  <2>4. k \in Nat /\ 1..k = 1..m /\ m \in Nat
    BY <1>7, <2>2, <2>3, LenProperties
  <2> HIDE DEF k
  <2>5. (k > m => k \in 1..k) /\ (m > k => m \in 1..m)
    BY <2>4
  <2>6. k = m
    BY <2>4, <2>5
  <2> QED
    BY <2>6 DEF k
<1>9. e - q <= n
  BY <1>1 DEF Capped, q, e
<1>10. ASSUME NEW i \in 1..m
       PROVE  g[i] = IF i <= s THEN c[i] ELSE old[i]
  <2>1. i \in Nat /\ i >= 1 /\ i <= m
    BY <1>7
  <2>2. CASE i \in q + 1..e
    <3> DEFINE j == i - q
    <3>1. j \in 1..n /\ 0 + j = j /\ p + j = i /\ i <= s
      BY <1>1, <1>2, <1>9, <2>1, <2>2
    <3>2. g[i] = words[j]
      BY <1>4, <2>2
    <3> HIDE DEF j, g, s
    <3>3. words[0 + j] = c[p + j]
      BY <1>5, <3>1
    <3> QED
      BY <3>1, <3>2, <3>3
  <2>3. CASE i \notin q + 1..e
    <3>1. g[i] = h[i]
      BY <1>4, <2>3
    <3>2. i \in 1..hlen /\ (i <= r <=> i <= s)
      BY <1>1, <1>2, <1>3, <1>6, <2>1, <2>3
    <3> HIDE DEF g, s
    <3> QED
      BY <1>3, <3>1, <3>2
  <2> QED
    BY <2>2, <2>3
<1> HIDE DEF g, s, m
<1>11. Laid(g, old, c, s)
  BY <1>7, <1>8, <1>10 DEF Laid, olen
<1> QED
  BY <1>11 DEF g, s, q, e

(* A file of which all words are written is as the reference says.         *)
LEMMA LaidWhole ==
  ASSUME NEW h \in Seq(Words), NEW old \in Seq(Words), NEW c \in Seq(Words),
         Laid(h, old, c, Capped(Len(c)))
  PROVE  h = Overwritten(old, 0, c)
<1> DEFINE e == Capped(Len(c))  olen == Len(old)  m == IF e > olen THEN e ELSE olen
<1>1. /\ Len(c) \in Nat /\ e \in Nat /\ olen \in Nat /\ Capped(0 + Len(c)) = e
  BY LenProperties, CappedAdd
<1>2. Overwritten(old, 0, c) = [i \in 1..m |-> IF i \in 0 + 1..e THEN c[i - 0] ELSE old[i]]
  BY <1>1 DEF Overwritten
<1>3. Len(h) = m /\ \A i \in 1..m : h[i] = IF i <= e THEN c[i] ELSE old[i]
  BY <1>1 DEF Laid
<1> HIDE DEF e, olen
<1>4. m \in Nat /\ \A i \in 1..m : (i \in 0 + 1..e <=> i <= e) /\ i - 0 = i
  BY <1>1
<1> HIDE DEF m
<1>5. Overwritten(old, 0, c) = [i \in 1..m |-> IF i <= e THEN c[i] ELSE old[i]]
  BY <1>2, <1>4
<1>6. h = [i \in 1..m |-> h[i]]
  BY <1>3, LenProperties
<1> QED
  BY <1>3, <1>5, <1>6

-----------------------------------------------------------------------------
(* What a file was before matters of an operation, and nothing else.       *)
LEMMA SameBefore ==
  ASSUME NEW o, NEW p, p.before = o.before
  PROVE  \A h, t, f, q : /\ UpTo(p, h, t, f, q) <=> UpTo(o, h, t, f, q)
                         /\ Whole(p, h, t, f) <=> Whole(o, h, t, f)
                         /\ Kept(p, h, f) <=> Kept(o, h, f)
  BY DEF UpTo, Whole, Kept, Before

(* An exception reports no success.                                        *)
LEMMA WholeFails ==
  ASSUME WholeInv, op'.before = op.before, ~Working(op'), op'.pc = "idle" => op'.result # "ok"
  PROVE  WholeInv'
  BY DEF WholeInv, Pulled, Walked

LEMMA ThrowWhole ==
  ASSUME WholeInv, NEW error \in Errors, Throw(error)
  PROVE  WholeInv'
<1>1. op'.before = op.before /\ op'.pc = "idle" /\ op'.result = error
  BY DEF Throw, Ended, NewOp
<1>2. error # "ok"
  BY DEF Errors
<1> QED
  BY <1>1, <1>2, WholeFails DEF Working

(* So does one that goes on to a failure, or for ever.                     *)
LEMMA FailedWhole ==
  ASSUME TypeInv, WholeInv, NEW header, Failed(header)
  PROVE  WholeInv'
<1>1. CASE Throw("TRANSFER_PROTOCOL_ERROR")
  BY <1>1, ThrowWhole, StepNames
<1>2. ASSUME NEW n, op' = [op EXCEPT !.pc = "message", !.len = n, !.header = header]
      PROVE  WholeInv'
  <2>1. DOMAIN op = OpFields
    BY DEF TypeInv, OpOK
  <2>2. op'.pc = "message" /\ op'.before = op.before
    BY <1>2, <2>1 DEF OpFields
  <2> QED
    BY <2>2, WholeFails DEF Working
<1> QED
  BY <1>1, <1>2 DEF Failed

(* A step that neither begins nor ends a file, and writes nothing.         *)
LEMMA WholeStays ==
  ASSUME WholeInv, SameJob(op, op'), UNCHANGED <<host, files>>, Working(op),
         stream' = "inStep" => stream = "inStep",
         op.pc # "entries", op'.pc \notin {"idle", "entries"},
         Writing(op) <=> Writing(op'), Writing(op) => op'.pos = op.pos
  PROVE  WholeInv'
<1>1. op'.before = op.before /\ op'.kind = op.kind /\ op'.file = op.file /\ op'.todo = op.todo
      /\ op'.args = op.args
  BY DEF SameJob
<1>2. SUFFICES ASSUME stream = "inStep"
               PROVE  Pulled(op', host, files) /\ Walked(op', host, files)
  BY <1>1 DEF WholeInv
<1>3. Pulled(op, host, files) /\ Walked(op, host, files)
  BY <1>2 DEF WholeInv
<1>4. Pulled(op', host, files)
  BY <1>1, <1>3, SameBefore DEF Pulled
<1>5. \A f : Transferred(op, host, files, f) => Transferred(op', host, files, f)
  BY <1>1, SameBefore DEF Transferred
<1>6. \A f : Ahead(op, f) => Ahead(op', f)
  BY <1>1 DEF Ahead
<1>7. Walked(op', host, files)
  BY <1>1, <1>3, <1>5, <1>6 DEF Walked
<1> QED
  BY <1>4, <1>7

(* A step that writes to the local file.                                   *)
LEMMA WholeWrites ==
  ASSUME WholeInv, SameJob(op, op'), files' = files, Working(op), op.kind # "push",
         stream = "inStep", op.pc # "entries", Writing(op'),
         \A g \in File : g # op.file => /\ g \in DOMAIN host' <=> g \in DOMAIN host
                                        /\ g \in DOMAIN host => host'[g] = host[g],
         Whole(op, host', files, op.file) \/ UpTo(op, host', files, op.file, op'.pos)
  PROVE  WholeInv'
<1>1. op'.before = op.before /\ op'.kind = op.kind /\ op'.file = op.file /\ op'.todo = op.todo
      /\ op'.args = op.args
  BY DEF SameJob
<1>2. Pulled(op, host, files) /\ Walked(op, host, files)
  BY DEF WholeInv
<1>3. ASSUME NEW g \in File, g # op.file
      PROVE  /\ Whole(op, host, files, g) => Whole(op', host', files, g)
             /\ Kept(op, host, g) => Kept(op', host', g)
  <2>1. /\ g \in DOMAIN host' <=> g \in DOMAIN host
        /\ g \in DOMAIN host => host'[g] = host[g]
    BY <1>3
  <2>2. /\ Whole(op, host, files, g) => Whole(op, host', files, g)
        /\ Kept(op, host, g) => Kept(op, host', g)
    BY <2>1 DEF Whole, UpTo, Kept
  <2> QED
    BY <1>1, <2>2, SameBefore
<1>4. Pulled(op', host', files)
  <2>1. SUFFICES ASSUME NEW f \in File
                 PROVE  \/ Whole(op', host', files, f)
                        \/ f = op'.file /\ Writing(op') /\ UpTo(op', host', files, f, op'.pos)
                        \/ ~(f = op'.file /\ Writing(op')) /\ Kept(op', host', f)
    BY DEF Pulled
  <2>2. CASE f = op.file
    BY <1>1, <2>2, SameBefore
  <2>3. CASE f # op.file
    <3>1. Whole(op, host, files, f) \/ Kept(op, host, f)
      BY <1>2, <2>3 DEF Pulled
    <3> QED
      BY <1>1, <1>3, <2>3, <3>1
  <2> QED
    BY <2>2, <2>3
<1>5. Walked(op', host', files)
  <2>1. SUFFICES ASSUME NEW f \in FilesOf(ToSet(op.args))
                 PROVE  Transferred(op', host', files, f) \/ Ahead(op', f)
    BY <1>1 DEF Walked
  <2>2. f \in File /\ (Transferred(op, host, files, f) \/ Ahead(op, f))
    BY <1>2 DEF Walked, FilesOf
  <2>3. CASE f = op.file
    BY <1>1, <2>3 DEF Ahead, Writing
  <2>4. CASE f # op.file /\ Ahead(op, f)
    BY <1>1, <2>4 DEF Ahead, Writing
  <2>5. CASE f # op.file /\ Transferred(op, host, files, f)
    BY <1>1, <1>3, <2>2, <2>5 DEF Transferred
  <2> QED
    BY <2>2, <2>3, <2>4, <2>5
<1> QED
  BY <1>1, <1>4, <1>5 DEF WholeInv

(* The end of a file.                                                      *)
LEMMA WholeEnds ==
  ASSUME WholeInv, SameJob(op, op'), UNCHANGED <<host, files>>, Working(op), stream = "inStep",
         op.pc # "entries", op'.pc = "entries", Transferred(op, host, files, op.file)
  PROVE  WholeInv'
<1>1. op'.before = op.before /\ op'.kind = op.kind /\ op'.file = op.file /\ op'.todo = op.todo
      /\ op'.args = op.args
  BY DEF SameJob
<1>2. Pulled(op, host, files) /\ Walked(op, host, files)
  BY DEF WholeInv
<1>3. Pulled(op', host, files)
  <2>1. SUFFICES ASSUME NEW f \in File, op.kind # "push"
                 PROVE  Whole(op', host, files, f) \/ Kept(op', host, f)
    BY <1>1 DEF Pulled, Writing
  <2>2. f # op.file => Whole(op, host, files, f) \/ Kept(op, host, f)
    BY <1>2, <2>1 DEF Pulled
  <2>3. f = op.file => Whole(op, host, files, f)
    BY <2>1 DEF Transferred
  <2> QED
    BY <1>1, <2>2, <2>3, SameBefore
<1>4. \A f : Transferred(op, host, files, f) => Transferred(op', host, files, f)
  BY <1>1, SameBefore DEF Transferred
<1>5. \A f : Ahead(op, f) => Ahead(op', f) \/ f = op.file
  BY <1>1 DEF Ahead
<1>6. Walked(op', host, files)
  BY <1>1, <1>2, <1>4, <1>5 DEF Walked
<1> QED
  BY <1>1, <1>3, <1>6 DEF WholeInv

(* A step of the walk.                                                     *)
LEMMA WholeWalks ==
  ASSUME WholeInv, op'.before = op.before, op'.kind = op.kind, op'.args = op.args,
         UNCHANGED <<host, files, stream>>, op.pc = "entries", op'.pc \in {"entries", "request"},
         \A f \in FilesOf(ToSet(op.todo) \ {Directory}) :
           (op.kind = "push" => f \in DOMAIN host) => Ahead(op', f)
  PROVE  WholeInv'
<1>1. SUFFICES ASSUME stream = "inStep"
               PROVE  Pulled(op', host, files) /\ Walked(op', host, files)
  BY DEF WholeInv
<1>2. Pulled(op, host, files) /\ Walked(op, host, files)
  BY <1>1 DEF WholeInv
<1>3. Working(op) /\ ~Writing(op) /\ ~Writing(op')
  BY DEF Working, Writing
<1>4. Pulled(op', host, files)
  BY <1>2, <1>3, SameBefore DEF Pulled
<1>5. \A f : Transferred(op, host, files, f) => Transferred(op', host, files, f)
  BY SameBefore DEF Transferred
<1>6. \A f : Ahead(op, f) => f \in FilesOf(ToSet(op.todo) \ {Directory})
  BY DEF Ahead
<1>7. Walked(op', host, files)
  BY <1>2, <1>3, <1>5, <1>6 DEF Walked
<1> QED
  BY <1>4, <1>7

(* The first step of an operation.                                         *)
LEMMA WholeBegins ==
  ASSUME TypeInv, host' = host, op'.before = host,
         op'.pc \in {"idle", "entries", "request", "mode"}, op'.pc = "idle" => op'.result # "ok",
         op'.pc # "idle" => \A f \in FilesOf(ToSet(op'.args)) : Ahead(op', f)
  PROVE  WholeInv'
<1>1. IsTree(host)
  BY DEF TypeInv, WorldOK
<1>2. \A f \in File : ~(f = op'.file /\ Writing(op')) /\ Kept(op', host, f)
  BY DEF Kept, Writing
<1>3. Pulled(op', host', files')
  BY <1>2 DEF Pulled
<1>4. Walked(op', host', files')
  BY DEF Walked, Working
<1> QED
  BY <1>1, <1>3, <1>4 DEF WholeInv

(* Nothing is said of a connection that is out of step.                    *)
LEMMA WholeBroken ==
  ASSUME WholeInv, op'.before = op.before, stream' # "inStep"
  PROVE  WholeInv'
  BY DEF WholeInv

(* Goto leaves the operation what it is.                                   *)
LEMMA GotoJob ==
  ASSUME TypeInv, NEW pc, Goto(pc)
  PROVE  SameJob(op, op') /\ op'.pc = pc /\ op'.pos = op.pos /\ op'.len = op.len
<1>1. DOMAIN op = OpFields
  BY DEF TypeInv, OpOK
<1> QED
  BY <1>1 DEF Goto, SameJob, OpFields

-----------------------------------------------------------------------------
(* What is to do when a directory is opened, or another entry left behind. *)
LEMMA FilesUnder ==
  ASSUME NEW todo \in Seq(Entry \cup {Directory}), todo # <<>>, NEW e, e = Head(todo), e \in Dir
  PROVE  FilesOf(ToSet(todo) \ {Directory})
           \subseteq FilesOf(ToSet(Kids[e] \o <<Directory>> \o Tail(todo)) \ {Directory})
<1> DEFINE S == Entry \cup {Directory}  kids == Kids[e]  rest == Tail(todo)
           T == ToSet(rest) \ {Directory}  new == kids \o <<Directory>> \o rest
<1>1. ToSet(todo) \subseteq {e} \cup ToSet(rest) /\ e \in S
  BY ToSetHead
<1>2. kids \in Seq(Entry) /\ Directory \notin Entry
  BY Assumed
<1>3. kids \in Seq(S) /\ <<Directory>> \in Seq(S) /\ rest \in Seq(S)
  <2>1. Directory \in S /\ Entry \subseteq S
    OBVIOUS
  <2>2. rest \in Seq(S)
    BY HeadTailProperties
  <2> HIDE DEF S
  <2>3. kids \in Seq(S)
    BY <1>2, <2>1
  <2> QED
    BY <2>1, <2>2, <2>3
<1>4. ToSet(kids) \subseteq Entry
  BY <1>2, ElementsOf
<1> HIDE DEF S, kids, rest
<1>5. kids \o <<Directory>> \in Seq(S) /\ ToSet(kids) \subseteq ToSet(kids \o <<Directory>>)
  <2>1. kids \o <<Directory>> \in Seq(S)
    BY <1>3, ConcatProperties
  <2> QED
    BY <1>3, <2>1, ToSetConcat
<1>6. ToSet(kids \o <<Directory>>) \cup ToSet(rest) \subseteq ToSet(new)
  BY <1>3, <1>5, ToSetConcat
<1>7. ToSet(kids) \cup T \subseteq ToSet(new) \ {Directory}
  BY <1>2, <1>4, <1>5, <1>6
<1> HIDE DEF new
<1>8. FilesOf(ToSet(todo) \ {Directory}) \subseteq FilesOf(ToSet(kids) \cup T)
  <2>1. ToSet(todo) \ {Directory} \subseteq {e} \cup T
    BY <1>1
  <2> HIDE DEF T
  <2> QED
    BY <2>1, FilesOpened DEF kids
<1>9. FilesOf(ToSet(kids) \cup T) \subseteq FilesOf(ToSet(new) \ {Directory})
  BY <1>7, FilesMore
<1> QED
  BY <1>8, <1>9 DEF new, kids, rest

LEMMA FilesBehind ==
  ASSUME NEW todo \in Seq(Entry \cup {Directory}), todo # <<>>, NEW e, e = Head(todo),
         e \notin Dir, NEW f \in FilesOf(ToSet(todo) \ {Directory})
  PROVE  f = e \/ f \in FilesOf(ToSet(Tail(todo)) \ {Directory})
<1>1. ToSet(todo) \subseteq {e} \cup ToSet(Tail(todo)) /\ e \in Entry \cup {Directory}
  BY ToSetHead
<1>2. CASE e = Directory
  <2>1. ToSet(todo) \ {Directory} \subseteq ToSet(Tail(todo)) \ {Directory}
    BY <1>1, <1>2
  <2> QED
    BY <2>1, FilesMore
<1>3. CASE e # Directory
  <2> DEFINE A == ToSet(todo) \ {Directory}  T == ToSet(Tail(todo)) \ {Directory}
  <2>1. A \subseteq {e} \cup T /\ e \in Entry /\ f \in FilesOf(A)
    BY <1>1, <1>3
  <2> HIDE DEF A, T
  <2>2. f = e \/ f \in FilesOf(T)
    BY <2>1, FilesSkipped
  <2> QED
    BY <2>2 DEF T
<1> QED
  BY <1>2, <1>3

(* The steps of the client keep what has been transferred.                 *)
LEMMA NextEntryWhole ==
  ASSUME SyncInv, WholeInv, C_NextEntry
  PROVE  WholeInv'
<1>1. /\ DOMAIN op = OpFields /\ op.todo \in Seq(Entry \cup {Directory}) /\ op.pc = "entries"
      /\ UNCHANGED <<host, files, stream>>
  BY DEF SyncInv, TypeInv, OpOK, C_NextEntry, deviceVars
<1>2. CASE op.todo = <<>>
  <2>1. op' = Ended("ok")
    BY <1>2 DEF C_NextEntry, Finish
  <2>2. /\ op'.pc = "idle" /\ op'.before = op.before /\ op'.kind = op.kind
        /\ op'.args = op.args
    BY <2>1 DEF Ended, NewOp
  <2>3. SUFFICES ASSUME stream = "inStep"
                 PROVE  Walked(op', host, files)
    BY <1>1, <2>2 DEF WholeInv, Pulled, Working
  <2>4. Walked(op, host, files) /\ Working(op)
    BY <1>1, <2>3 DEF WholeInv, Working
  <2>5. \A f : ~Ahead(op, f)
    <3>1. ToSet(op.todo) \ {Directory} = {}
      <4>1. ToSet(<<>>) = {}
        BY DEF ToSet
      <4> QED
        BY <1>2, <4>1
    <3> QED
      BY <1>1, <3>1, NoFiles DEF Ahead
  <2>6. \A f : Transferred(op, host, files, f) => Transferred(op', host, files, f)
    BY <2>2, SameBefore DEF Transferred
  <2> QED
    BY <2>2, <2>4, <2>5, <2>6 DEF Walked
<1>3. CASE op.todo # <<>>
  <2> DEFINE e == Head(op.todo)  rest == Tail(op.todo)
  <2>1. \/ op' = [op EXCEPT !.todo = rest] /\ (e = Directory \/ Skipped(e))
        \/ Throw("CANCELED")
        \/ e \in Dir /\ op' = [op EXCEPT !.todo = Kids[e] \o <<Directory>> \o rest]
        \/ e \in File /\ op' = [op EXCEPT !.todo = rest, !.file = e, !.pc = "request"]
    BY <1>3 DEF C_NextEntry
  <2> HIDE DEF e, rest
  <2>2. CASE op' = [op EXCEPT !.todo = rest] /\ (e = Directory \/ Skipped(e))
    <3>1. /\ op'.before = op.before /\ op'.kind = op.kind /\ op'.args = op.args
          /\ op'.pc = "entries" /\ op'.todo = rest
      BY <1>1, <2>2 DEF OpFields
    <3>2. e \notin Dir /\ (e \in File => op.kind = "push" /\ e \notin DOMAIN host)
      BY <2>2, Assumed DEF Skipped, Entry
    <3>3. ASSUME NEW f \in FilesOf(ToSet(op.todo) \ {Directory}),
                 op.kind = "push" => f \in DOMAIN host
          PROVE  Ahead(op', f)
      <4>1. f = e \/ f \in FilesOf(ToSet(rest) \ {Directory})
        BY <1>1, <1>3, <3>2, FilesBehind DEF e, rest
      <4>2. f \in File
        BY DEF FilesOf
      <4> QED
        BY <3>1, <3>2, <3>3, <4>1, <4>2 DEF Ahead
    <3> QED
      BY <1>1, <3>1, <3>3, WholeWalks
  <2>3. CASE Throw("CANCELED")
    BY <2>3, ThrowWhole, StepNames
  <2>4. CASE e \in Dir /\ op' = [op EXCEPT !.todo = Kids[e] \o <<Directory>> \o rest]
    <3> DEFINE new == Kids[e] \o <<Directory>> \o rest
    <3>1. FilesOf(ToSet(op.todo) \ {Directory}) \subseteq FilesOf(ToSet(new) \ {Directory})
      BY <1>1, <1>3, <2>4, FilesUnder DEF e, rest
    <3>2. op' = [op EXCEPT !.todo = new]
      BY <2>4
    <3> HIDE DEF new
    <3>3. /\ op'.before = op.before /\ op'.kind = op.kind /\ op'.args = op.args
          /\ op'.pc = "entries" /\ op'.todo = new
      BY <1>1, <3>2 DEF OpFields
    <3>4. \A f \in FilesOf(ToSet(op.todo) \ {Directory}) : Ahead(op', f)
      BY <3>1, <3>3 DEF Ahead
    <3> QED
      BY <1>1, <3>3, <3>4, WholeWalks
  <2>5. CASE e \in File /\ op' = [op EXCEPT !.todo = rest, !.file = e, !.pc = "request"]
    <3>1. /\ op'.before = op.before /\ op'.kind = op.kind /\ op'.args = op.args
          /\ op'.pc = "request" /\ op'.todo = rest /\ op'.file = e
      BY <1>1, <2>5 DEF OpFields
    <3>2. e \notin Dir
      BY <2>5, Assumed
    <3>3. \A f \in FilesOf(ToSet(op.todo) \ {Directory}) :
            f = e \/ f \in FilesOf(ToSet(rest) \ {Directory})
      BY <1>1, <1>3, <3>2, FilesBehind DEF e, rest
    <3>4. \A f \in FilesOf(ToSet(op.todo) \ {Directory}) : Ahead(op', f)
      BY <3>1, <3>3 DEF Ahead
    <3> QED
      BY <1>1, <3>1, <3>4, WholeWalks
  <2> QED
    BY <2>1, <2>2, <2>3, <2>4, <2>5
<1> QED
  BY <1>2, <1>3

(* The steps that neither write nor end a file.                            *)
LEMMA RequestWhole ==
  ASSUME SyncInv, WholeInv, C_Request, stream' = "inStep" => stream = "inStep"
  PROVE  WholeInv'
<1>1. DOMAIN op = OpFields /\ op.pc = "request" /\ UNCHANGED <<host, files>>
  BY DEF SyncInv, TypeInv, OpOK, C_Request, deviceVars
<1>2. \/ Throw("REMOTE_PATH_LENGTH") \/ Throw("IO")
      \/ op' = [op EXCEPT !.pc = "answer", !.header = Zeros(2), !.pos = 0,
                          !.data = Zeros(SYNC_DATA_MAX)]
      \/ op' = [op EXCEPT !.pc = "chunk", !.pos = 0, !.eof = FALSE]
  BY DEF C_Request, Write
<1>3. CASE Throw("REMOTE_PATH_LENGTH") \/ Throw("IO")
  BY <1>3, ThrowWhole, StepNames
<1>4. CASE op' = [op EXCEPT !.pc = "answer", !.header = Zeros(2), !.pos = 0,
                            !.data = Zeros(SYNC_DATA_MAX)]
  <2>1. SameJob(op, op') /\ op'.pc = "answer"
    BY <1>1, <1>4 DEF SameJob, OpFields
  <2> QED
    BY <1>1, <2>1, WholeStays DEF Working, Writing
<1>5. CASE op' = [op EXCEPT !.pc = "chunk", !.pos = 0, !.eof = FALSE]
  <2>1. SameJob(op, op') /\ op'.pc = "chunk"
    BY <1>1, <1>5 DEF SameJob, OpFields
  <2> QED
    BY <1>1, <2>1, WholeStays DEF Working, Writing
<1> QED
  BY <1>2, <1>3, <1>4, <1>5

LEMMA ReadModeWhole ==
  ASSUME SyncInv, WholeInv, C_ReadMode, stream' = "inStep" => stream = "inStep"
  PROVE  WholeInv'
<1>1. TypeInv /\ op.pc = "mode" /\ UNCHANGED <<host, files>>
  BY DEF SyncInv, C_ReadMode, deviceVars
<1>2. Throw("NO_REMOTE_OBJECT") \/ Goto("request")
  BY DEF C_ReadMode
<1>3. CASE Throw("NO_REMOTE_OBJECT")
  BY <1>3, ThrowWhole, StepNames
<1>4. CASE Goto("request")
  <2>1. SameJob(op, op') /\ op'.pc = "request"
    BY <1>1, <1>4, GotoJob
  <2> QED
    BY <1>1, <2>1, WholeStays DEF Working, Writing
<1> QED
  BY <1>2, <1>3, <1>4

LEMMA ReadAnswerWhole ==
  ASSUME SyncInv, WholeInv, C_ReadAnswer, stream' = "inStep" => stream = "inStep"
  PROVE  WholeInv'
<1> DEFINE header == Received(2, op.header)
<1>1. TypeInv /\ DOMAIN op = OpFields /\ op.pc = "answer" /\ UNCHANGED <<host, files>>
  BY DEF SyncInv, TypeInv, OpOK, C_ReadAnswer, deviceVars
<1>2. op' = [op EXCEPT !.header = header, !.pc = "create"] \/ Failed(header)
  BY DEF C_ReadAnswer
<1> HIDE DEF header
<1>3. CASE op' = [op EXCEPT !.header = header, !.pc = "create"]
  <2>1. SameJob(op, op') /\ op'.pc = "create"
    BY <1>1, <1>3 DEF SameJob, OpFields
  <2> QED
    BY <1>1, <2>1, WholeStays DEF Working, Writing
<1>4. CASE Failed(header)
  BY <1>1, <1>4, FailedWhole
<1> QED
  BY <1>2, <1>3, <1>4

LEMMA ReadDataWhole ==
  ASSUME SyncInv, WholeInv, C_ReadData, stream' = "inStep" => stream = "inStep"
  PROVE  WholeInv'
<1> DEFINE data == Received(op.len, op.data)
<1>1. DOMAIN op = OpFields /\ op.pc = "data" /\ UNCHANGED <<host, files>>
  BY DEF SyncInv, TypeInv, OpOK, C_ReadData, deviceVars
<1>2. op' = [op EXCEPT !.data = data, !.pc = "next"]
  BY DEF C_ReadData
<1> HIDE DEF data
<1>3. SameJob(op, op') /\ op'.pc = "next" /\ op'.pos = op.pos
  BY <1>1, <1>2 DEF SameJob, OpFields
<1> QED
  BY <1>1, <1>3, WholeStays DEF Working, Writing

LEMMA SendChunkWhole ==
  ASSUME SyncInv, WholeInv, C_SendChunk, stream' = "inStep" => stream = "inStep"
  PROVE  WholeInv'
<1> DEFINE pos == op.pos + ReadCount  eof == Rest < CHUNK
<1>1. DOMAIN op = OpFields /\ op.pc = "chunk" /\ UNCHANGED <<host, files>>
  BY DEF SyncInv, TypeInv, OpOK, C_SendChunk, deviceVars
<1>2. Throw("CANCELED") \/ Throw("IO") \/ op' = [op EXCEPT !.pos = pos, !.eof = eof]
  BY DEF C_SendChunk, Write
<1> HIDE DEF pos, eof
<1>3. CASE Throw("CANCELED") \/ Throw("IO")
  BY <1>3, ThrowWhole, StepNames
<1>4. CASE op' = [op EXCEPT !.pos = pos, !.eof = eof]
  <2>1. SameJob(op, op') /\ op'.pc = "chunk"
    BY <1>1, <1>4 DEF SameJob, OpFields
  <2> QED
    BY <1>1, <2>1, WholeStays DEF Working, Writing
<1> QED
  BY <1>2, <1>3, <1>4

LEMMA SendDoneWhole ==
  ASSUME SyncInv, WholeInv, C_SendDone, stream' = "inStep" => stream = "inStep"
  PROVE  WholeInv'
<1>1. TypeInv /\ op.pc = "chunk" /\ UNCHANGED <<host, files>>
  BY DEF SyncInv, C_SendDone, deviceVars
<1>2. Throw("IO") \/ Goto("result")
  BY DEF C_SendDone, Write
<1>3. CASE Throw("IO")
  BY <1>3, ThrowWhole, StepNames
<1>4. CASE Goto("result")
  <2>1. SameJob(op, op') /\ op'.pc = "result"
    BY <1>1, <1>4, GotoJob
  <2> QED
    BY <1>1, <2>1, WholeStays DEF Working, Writing
<1> QED
  BY <1>2, <1>3, <1>4

(* The steps behind which there is no success.                             *)
LEMMA ReadMessageWhole ==
  ASSUME SyncInv, WholeInv, C_ReadMessage \/ C_ReadsOn
  PROVE  WholeInv'
<1>1. CASE Throw("TRANSFER_PROTOCOL_ERROR") \/ Throw("IO")
  BY <1>1, ThrowWhole, StepNames
<1>2. CASE Goto("undefined") \/ Goto("spinning")
  <2>1. op'.before = op.before /\ op'.pc \in {"undefined", "spinning"}
    BY <1>2, GotoJob DEF SyncInv, SameJob
  <2> QED
    BY <2>1, WholeFails DEF Working
<1> QED
  BY <1>1, <1>2 DEF C_ReadMessage, MessageRead, C_ReadsOn

-----------------------------------------------------------------------------
(* A file over which nothing has been written.                             *)
LEMMA LaidNone ==
  ASSUME NEW h \in Seq(Words), NEW c
  PROVE  Laid(h, h, c, 0)
<1>1. Len(h) \in Nat
  BY LenProperties
<1>2. \A i \in 1..Len(h) : ~(i <= 0)
  BY <1>1
<1> QED
  BY <1>1, <1>2 DEF Laid

(* A client in the middle of a file that it pulls is in touch.             *)
LEMMA PullingTalks ==
  ASSUME SyncInv, stream = "inStep", op.pc \in {"create", "transfer", "data", "next"}
  PROVE  /\ Talking /\ op.file \in DOMAIN files /\ op.kind # "push" /\ op.file \in File
         /\ IsTree(host) /\ IsTree(files)
<1>1. ~Lost
  BY DEF Lost
<1>2. Talking
  BY <1>1 DEF SyncInv, TalkInv, InTouch
<1>3. op.file \in DOMAIN files
  BY <1>2 DEF Talking, Talk
<1>4. op.kind # "push" /\ op.file \in File
  BY DEF SyncInv, TypeInv, OpOK, Pulling
<1> QED
  BY <1>2, <1>3, <1>4 DEF SyncInv, TypeInv, WorldOK

LEMMA CreateWhole ==
  ASSUME SyncInv, WholeInv, C_Create, stream' = "inStep" => stream = "inStep"
  PROVE  WholeInv'
<1>1. TypeInv /\ op.pc = "create" /\ files' = files /\ op.pos = 0
  BY DEF SyncInv, TypeInv, OpOK, C_Create, deviceVars
<1>2. CASE Throw("FILE_WRITE_ERROR")
  BY <1>2, ThrowWhole, StepNames
<1>3. CASE /\ host' = [f \in DOMAIN host \cup {op.file} |->
                         IF f \in DOMAIN host THEN host[f] ELSE <<>>]
           /\ Goto("transfer")
  <2>1. SameJob(op, op') /\ op'.pc = "transfer" /\ op'.pos = 0
    BY <1>1, <1>3, GotoJob
  <2>2. CASE stream' # "inStep"
    BY <2>1, <2>2, WholeBroken DEF SameJob
  <2>3. CASE stream' = "inStep"
    <3> DEFINE f == op.file
    <3>1. stream = "inStep" /\ f \in DOMAIN files /\ op.kind # "push" /\ f \in File /\ IsTree(host)
      BY <1>1, <2>3, PullingTalks
    <3>2. Pulled(op, host, files) /\ Working(op) /\ ~Writing(op)
      BY <1>1, <3>1 DEF WholeInv, Working, Writing
    <3>3. /\ f \in DOMAIN host'
          /\ host'[f] = IF f \in DOMAIN host THEN host[f] ELSE <<>>
          /\ \A g \in File : g # f => /\ g \in DOMAIN host' <=> g \in DOMAIN host
                                      /\ g \in DOMAIN host => host'[g] = host[g]
      BY <1>3
    <3>4. Whole(op, host, files, f) \/ Kept(op, host, f)
      BY <3>1, <3>2 DEF Pulled
    <3>5. Whole(op, host, files, f) => Whole(op, host', files, f)
      BY <3>3 DEF Whole, UpTo
    <3>6. ASSUME Kept(op, host, f)
          PROVE  UpTo(op, host', files, f, 0)
      <4>1. host'[f] = Before(op, f)
        BY <3>3, <3>6 DEF Kept, Before
      <4>2. host'[f] \in Seq(Words)
        BY <3>1, <3>3, EmptySeq DEF IsTree
      <4> QED
        BY <3>1, <3>3, <4>1, <4>2, LaidNone DEF UpTo
    <3>7. Whole(op, host', files, f) \/ UpTo(op, host', files, f, op'.pos)
      BY <2>1, <3>4, <3>5, <3>6
    <3> QED
      BY <1>1, <2>1, <3>1, <3>2, <3>3, <3>7, WholeWrites DEF Writing
  <2> QED
    BY <2>2, <2>3
<1> QED
  BY <1>2, <1>3 DEF C_Create

(* The end of the file is found where all of it is written.                *)
LEMMA CheckHeaderWhole ==
  ASSUME SyncInv, WholeInv, C_CheckHeader, stream' = "inStep" => stream = "inStep"
  PROVE  WholeInv'
<1>1. TypeInv /\ DOMAIN op = OpFields /\ op.pc = "transfer" /\ UNCHANGED <<host, files>>
  BY DEF SyncInv, TypeInv, OpOK, C_CheckHeader, deviceVars
<1>2. \/ Throw("CANCELED") \/ Throw("BUFFER_OVERRUN") \/ Failed(op.header)
      \/ Is(op.header, "DONE") /\ Goto("entries")
      \/ \E n : op' = [op EXCEPT !.len = n, !.pc = "data"]
  BY DEF C_CheckHeader, FileDone
<1>3. CASE Throw("CANCELED") \/ Throw("BUFFER_OVERRUN")
  BY <1>3, ThrowWhole, StepNames
<1>4. CASE Failed(op.header)
  BY <1>1, <1>4, FailedWhole
<1>5. ASSUME NEW n, op' = [op EXCEPT !.len = n, !.pc = "data"]
      PROVE  WholeInv'
  <2>1. SameJob(op, op') /\ op'.pc = "data" /\ op'.pos = op.pos
    BY <1>1, <1>5 DEF SameJob, OpFields
  <2> QED
    BY <1>1, <2>1, WholeStays DEF Working, Writing
<1>6. CASE Is(op.header, "DONE") /\ Goto("entries")
  <2>1. SameJob(op, op') /\ op'.pc = "entries"
    BY <1>1, <1>6, GotoJob
  <2>2. CASE stream' # "inStep"
    BY <2>1, <2>2, WholeBroken DEF SameJob
  <2>3. CASE stream' = "inStep"
    <3> DEFINE c == files[op.file]
    <3>1. stream = "inStep" /\ Talking /\ op.kind # "push" /\ op.file \in File
      BY <1>1, <2>3, PullingTalks
    <3>2. PICK p \in Nat : op.pos = Capped(p) /\ Announced(device, down, op.header, c, p)
      BY <1>1, <3>1 DEF Talking, Talk, Heading
    <3>3. p = Len(c)
      BY <1>6, <3>2, Ids DEF Announced, Is
    <3>4. Pulled(op, host, files) /\ Working(op) /\ Writing(op)
      BY <1>1, <3>1 DEF WholeInv, Working, Writing
    <3>5. Whole(op, host, files, op.file) \/ UpTo(op, host, files, op.file, op.pos)
      BY <3>1, <3>4 DEF Pulled
    <3>6. Whole(op, host, files, op.file)
      BY <3>2, <3>3, <3>5 DEF Whole
    <3> QED
      BY <1>1, <2>1, <3>1, <3>4, <3>6, WholeEnds DEF Transferred
  <2> QED
    BY <2>2, <2>3
<1> QED
  BY <1>2, <1>3, <1>4, <1>5, <1>6

(* The data are written where those before them end.                       *)
LEMMA ReadNextWhole ==
  ASSUME SyncInv, WholeInv, C_ReadNext, stream' = "inStep" => stream = "inStep"
  PROVE  WholeInv'
<1> DEFINE f == op.file  n == op.len  words == SubSeq(op.data, 1, n)  c == files[f]
           header == Received(2, op.header)  pos == Capped(op.pos + n)
<1>1. /\ TypeInv /\ DOMAIN op = OpFields /\ op.pc = "next" /\ files' = files
      /\ op.data \in Seq(Words) /\ n \in Nat /\ op.pos \in Nat /\ Len(op.data) = SYNC_DATA_MAX
      /\ n <= SYNC_DATA_MAX /\ f \in DOMAIN host
  BY DEF SyncInv, TypeInv, OpOK, C_ReadNext, deviceVars
<1>2. /\ op' = [op EXCEPT !.header = header, !.pc = "transfer", !.pos = pos]
      /\ host' = [host EXCEPT ![f] = Overwritten(@, op.pos, words)]
  BY DEF C_ReadNext
<1> HIDE DEF header, pos
<1>3. SameJob(op, op') /\ op'.pc = "transfer" /\ op'.pos = pos
  BY <1>1, <1>2 DEF SameJob, OpFields
<1>4. CASE stream' # "inStep"
  BY <1>3, <1>4, WholeBroken DEF SameJob
<1>5. CASE stream' = "inStep"
  <2> DEFINE h == host[f]  old == Before(op, f)
  <2>1. /\ stream = "inStep" /\ Talking /\ f \in DOMAIN files /\ op.kind # "push" /\ f \in File
        /\ IsTree(host) /\ IsTree(files)
    BY <1>1, <1>5, PullingTalks
  <2>2. h \in Seq(Words) /\ c \in Seq(Words) /\ old \in Seq(Words)
    BY <1>1, <2>1, EmptySeq DEF IsTree, WholeInv, Before
  <2>3. Pulled(op, host, files) /\ Working(op) /\ Writing(op)
    BY <1>1, <2>1 DEF WholeInv, Working, Writing
  <2>4. PICK p \in Nat : op.pos = Capped(p) /\ Matches(op.data, 0, c, p, n)
    BY <1>1, <2>1 DEF Talking, Talk, HasRead
  <2>5. words \in Seq(Words) /\ Len(words) = n /\ Matches(words, 0, c, p, n)
    <3>1. n \in 0..Len(op.data)
      BY <1>1, Assumed
    <3>2. words \in Seq(Words) /\ Len(words) = n /\ \A j \in 1..n : words[j] = op.data[j]
      BY <1>1, <3>1, TakeSeq
    <3>3. \A j \in 1..n : 0 + j = j
      BY <1>1
    <3> HIDE DEF words
    <3> QED
      BY <2>4, <3>2, <3>3 DEF Matches
  <2>6. host'[f] = Overwritten(h, Capped(p), words) /\ f \in DOMAIN host'
    BY <1>1, <1>2, <2>4
  <2>7. \A g \in File : g # f => /\ g \in DOMAIN host' <=> g \in DOMAIN host
                                 /\ g \in DOMAIN host => host'[g] = host[g]
    BY <1>2
  <2> DEFINE q == Capped(p)  e == Capped(p + n)  l == Capped(Len(c))
  <2>8. q \in Nat /\ e \in Nat /\ l \in Nat /\ q <= e /\ e <= l /\ pos = e
    <3>1. Len(c) \in Nat /\ p + n \in Nat /\ p + n <= Len(c)
      BY <1>1, <2>2, <2>4, LenProperties DEF Matches
    <3>2. q \in Nat /\ e \in Nat /\ q <= e /\ Capped(q + n) = e
      <4>1. n \in Nat
        BY <1>1
      <4> HIDE DEF n
      <4> QED
        BY <4>1, CappedAdd
    <3>3. l \in Nat /\ e <= l
      BY <3>1, Assumed DEF Capped
    <3> QED
      BY <2>4, <3>2, <3>3 DEF pos
  <2> HIDE DEF words, h, old, c, f, n
  <2>9. ASSUME NEW r \in Nat, q <= r, Laid(h, old, c, r)
        PROVE  Laid(host'[f], old, c, IF r >= e THEN r ELSE e)
    BY <1>1, <2>2, <2>5, <2>6, <2>9, LaidOver
  <2> HIDE DEF q, e, l
  <2>10. Whole(op, host, files, f) \/ UpTo(op, host, files, f, q)
    BY <2>1, <2>3, <2>4 DEF Pulled, q, f
  <2>11. ASSUME Whole(op, host, files, f)
         PROVE  Whole(op, host', files, f)
    <3>1. Laid(h, old, c, l) /\ q <= l /\ l >= e
      BY <2>8, <2>11 DEF Whole, UpTo, h, old, c, l
    <3>2. Laid(host'[f], old, c, l)
      BY <2>8, <2>9, <3>1
    <3> QED
      BY <2>1, <2>6, <3>2 DEF Whole, UpTo, old, c, l
  <2>12. ASSUME UpTo(op, host, files, f, q)
         PROVE  UpTo(op, host', files, f, e)
    <3>1. Laid(h, old, c, q)
      BY <2>12 DEF UpTo, h, old, c
    <3>2. Laid(host'[f], old, c, e)
      <4>1. (IF q >= e THEN q ELSE e) = e /\ q <= q
        BY <2>8
      <4> QED
        BY <2>8, <2>9, <3>1, <4>1
    <3> QED
      BY <2>1, <2>6, <3>2 DEF UpTo, old, c
  <2>13. Whole(op, host', files, f) \/ UpTo(op, host', files, f, op'.pos)
    BY <1>3, <2>8, <2>10, <2>11, <2>12
  <2>14. op.pc # "entries" /\ Writing(op')
    BY <1>1, <1>3 DEF Writing
  <2> QED
    BY <1>1, <1>3, <2>1, <2>3, <2>7, <2>13, <2>14, WholeWrites DEF f
<1> QED
  BY <1>4, <1>5

(* The device confirms what it has.                                        *)
LEMMA ReadResultWhole ==
  ASSUME SyncInv, WholeInv, C_ReadResult, stream' = "inStep" => stream = "inStep"
  PROVE  WholeInv'
<1> DEFINE result == Received(2, Zeros(2))
<1>1. TypeInv /\ op.pc = "result" /\ op.kind = "push" /\ UNCHANGED <<host, files>>
  BY DEF SyncInv, TypeInv, OpOK, C_ReadResult, deviceVars
<1>2. (Is(result, "OKAY") /\ Goto("entries")) \/ Failed(result)
  BY DEF C_ReadResult, FileDone
<1>3. ASSUME stream' = "inStep"
      PROVE  result[1] = down[1] /\ Len(down) >= 2 /\ down \in Seq(Words)
  <2>1. /\ WorldOK /\ down \in Seq(Words) /\ Read(2) /\ 2 \in Nat
    BY DEF SyncInv, TypeInv, WorldOK, C_ReadResult
  <2>2. Len(down) >= 2
    BY <1>3, <2>1, ReadType
  <2>3. Zeros(2) \in Seq(Words) /\ Len(Zeros(2)) = 2
    BY ZerosType
  <2> DEFINE l == Len(Zeros(2))
  <2>4. 2 \in 0..l /\ 1 \in 1..2
    <3>1. l = 2
      BY <2>3
    <3> HIDE DEF l
    <3> QED
      BY <3>1
  <2> QED
    BY <2>1, <2>2, <2>3, <2>4, ReceivedType
<1> HIDE DEF result
<1>4. CASE Failed(result)
  BY <1>1, <1>4, FailedWhole
<1>5. CASE Is(result, "OKAY") /\ Goto("entries")
  <2>1. SameJob(op, op') /\ op'.pc = "entries"
    BY <1>1, <1>5, GotoJob
  <2>2. CASE stream' # "inStep"
    BY <2>1, <2>2, WholeBroken DEF SameJob
  <2>3. CASE stream' = "inStep"
    <3>1. ~Lost
      <4>1. down[1] = Id("OKAY") /\ 1 \in 1..Len(down)
        BY <1>3, <1>5, <2>3, LenProperties DEF Is
      <4> QED
        BY <4>1 DEF Lost
    <3>2. stream = "inStep" /\ Talking
      BY <2>3, <3>1 DEF SyncInv, TalkInv, InTouch
    <3>3. op.file \in DOMAIN files /\ files[op.file] = host[op.file]
      BY <2>1, <2>3, <3>2, ReadResultTalk
    <3> QED
      BY <1>1, <2>1, <3>2, <3>3, WholeEnds DEF Transferred, Working
  <2> QED
    BY <2>2, <2>3
<1> QED
  BY <1>2, <1>4, <1>5

LEMMA ClientWhole ==
  ASSUME SyncInv, WholeInv, Client
  PROVE  WholeInv'
<1>1. stream' = "inStep" => stream = "inStep"
  BY ClientInTouch
<1> QED
  BY <1>1, NextEntryWhole, RequestWhole, ReadModeWhole, ReadAnswerWhole, CreateWhole,
     CheckHeaderWhole, ReadDataWhole, ReadNextWhole, SendChunkWhole, SendDoneWhole,
     ReadResultWhole, ReadMessageWhole
  DEF Client

-----------------------------------------------------------------------------
(* The steps of the others keep it too.                                    *)
LEMMA SameWhole ==
  ASSUME WholeInv, UNCHANGED <<op, host, files>>, stream' = "inStep" => stream = "inStep"
  PROVE  WholeInv'
<1>1. Pulled(op, host, files)' <=> Pulled(op, host, files)
  BY DEF Pulled, Whole, UpTo, Kept, Before
<1>2. Walked(op, host, files)' <=> Walked(op, host, files)
  BY DEF Walked, Transferred, Ahead, Whole, UpTo, Before
<1> QED
  BY <1>1, <1>2 DEF WholeInv

(* A walk over entries is asked for.                                       *)
LEMMA WalkWhole ==
  ASSUME TypeInv, host' = host, NEW kind, NEW es \in Seq(Entry),
         op' = NewOp(kind, es, "entries")
  PROVE  WholeInv'
<1>1. op'.pc = "entries" /\ op'.before = host /\ op'.args = es /\ op'.todo = es
  BY DEF NewOp
<1>2. ToSet(es) \ {Directory} = ToSet(es)
  BY ElementsOf, Assumed
<1>3. \A f \in FilesOf(ToSet(op'.args)) : Ahead(op', f)
  BY <1>1, <1>2 DEF Ahead
<1> QED
  BY <1>1, <1>3, WholeBegins

(* A file is asked for.                                                    *)
LEMMA OnFileWhole ==
  ASSUME TypeInv, host' = host, NEW kind, NEW f \in File, NEW pc \in {"request", "mode"},
         op' = [NewOp(kind, <<f>>, pc) EXCEPT !.todo = <<>>, !.file = f]
  PROVE  WholeInv'
<1> DEFINE n == NewOp(kind, <<f>>, pc)
<1>1. DOMAIN n = OpFields /\ n.pc = pc /\ n.before = host /\ n.args = <<f>>
  BY DEF NewOp, OpFields
<1> HIDE DEF n
<1>2. op' = [n EXCEPT !.todo = <<>>, !.file = f]
  BY DEF n
<1>3. op'.pc = pc /\ op'.before = host /\ op'.args = <<f>> /\ op'.file = f
  BY <1>1, <1>2 DEF OpFields
<1>4. ToSet(<<f>>) = {f}
  BY DEF ToSet
<1>5. FilesOf({f}) \subseteq {f}
  BY FilesAlone, Assumed DEF Entry
<1>6. \A g \in FilesOf(ToSet(op'.args)) : Ahead(op', g)
  BY <1>3, <1>4, <1>5 DEF Ahead
<1> QED
  BY <1>3, <1>6, WholeBegins

(* It is refused.                                                          *)
LEMMA RefusedWhole ==
  ASSUME TypeInv, host' = host, NEW kind, NEW args, NEW error \in Errors,
         op' = [NewOp(kind, args, "idle") EXCEPT !.result = error]
  PROVE  WholeInv'
<1> DEFINE n == NewOp(kind, args, "idle")
<1>1. DOMAIN n = OpFields /\ n.pc = "idle" /\ n.before = host
  BY DEF NewOp, OpFields
<1> HIDE DEF n
<1>2. op' = [n EXCEPT !.result = error]
  BY DEF n
<1>3. op'.pc = "idle" /\ op'.before = host /\ op'.result = error
  BY <1>1, <1>2 DEF OpFields
<1>4. error # "ok"
  BY DEF Errors
<1> QED
  BY <1>3, <1>4, WholeBegins

LEMMA UserWhole ==
  ASSUME SyncInv, WholeInv, User
  PROVE  WholeInv'
<1>1. TypeInv
  BY DEF SyncInv
<1>2. CASE U_Open
  <2>1. op' = NewOp("pull", <<>>, "idle") /\ host' = host
    BY <1>2 DEF U_Open
  <2>2. op'.pc = "idle" /\ op'.before = host /\ op'.result = "none"
    BY <2>1 DEF NewOp
  <2> QED
    BY <1>1, <2>1, <2>2, WholeBegins
<1>3. CASE U_Drop \/ U_Cancel
  BY <1>3, SameWhole DEF U_Drop, U_Cancel, deviceVars
<1>4. ASSUME NEW es \in Selections, U_Pull(es)
      PROVE  WholeInv'
  <2>1. host' = host /\ es \in Seq(Entry)
    BY <1>4, Assumed DEF U_Pull, Asked
  <2>2. \/ op' = NewOp("pull", es, "entries")
        \/ \E error \in {"NO_DIR_TARGET", "TARGET_IS_FILE"} :
             op' = [NewOp("pull", es, "idle") EXCEPT !.result = error]
    BY <1>4 DEF U_Pull
  <2>3. {"NO_DIR_TARGET", "TARGET_IS_FILE"} \subseteq Errors
    BY DEF Errors
  <2> QED
    BY <1>1, <2>1, <2>2, <2>3, WalkWhole, RefusedWhole
<1>5. ASSUME NEW es \in Selections, U_Push(es)
      PROVE  WholeInv'
  <2>1. host' = host /\ es \in Seq(Entry)
    BY <1>5, Assumed DEF U_Push, Asked
  <2>2. \/ op' = NewOp("push", es, "entries")
        \/ op' = [NewOp("push", es, "idle") EXCEPT !.result = "REMOTE_IS_FILE"]
    BY <1>5 DEF U_Push
  <2>3. "REMOTE_IS_FILE" \in Errors
    BY DEF Errors
  <2> QED
    BY <1>1, <2>1, <2>2, <2>3, WalkWhole, RefusedWhole
<1>6. ASSUME NEW f \in File, U_PullEntry(f)
      PROVE  WholeInv'
  <2>1. host' = host
        /\ op' = [NewOp("pull", <<f>>, "request") EXCEPT !.todo = <<>>, !.file = f]
    BY <1>6 DEF U_PullEntry, Asked
  <2> QED
    BY <1>1, <2>1, OnFileWhole
<1>7. ASSUME NEW f \in File, U_PullPath(f)
      PROVE  WholeInv'
  <2>1. host' = host
    BY <1>7 DEF U_PullPath
  <2>2. \/ op' = [NewOp("pullPath", <<f>>, "mode") EXCEPT !.todo = <<>>, !.file = f]
        \/ Throw("IO")
    BY <1>7 DEF U_PullPath, Write
  <2> QED
    BY <1>1, <2>1, <2>2, OnFileWhole, ThrowWhole, StepNames
<1>8. ASSUME NEW e \in Entry, U_PushFile(e)
      PROVE  WholeInv'
  <2>1. host' = host
    BY <1>8 DEF U_PushFile, Asked
  <2>2. CASE e \in DOMAIN host
    <3>1. op' = [NewOp("push", <<e>>, "request") EXCEPT !.todo = <<>>, !.file = e]
      BY <1>8, <2>2 DEF U_PushFile
    <3>2. e \in File
      BY <1>1, <2>2 DEF TypeInv, WorldOK, IsTree
    <3> QED
      BY <1>1, <2>1, <3>1, <3>2, OnFileWhole
  <2>3. CASE e \notin DOMAIN host
    <3> DEFINE error == IF e \in Dir THEN "LOCAL_IS_DIRECTORY" ELSE "NO_LOCAL_FILE"
    <3>1. op' = [NewOp("push", <<e>>, "idle") EXCEPT !.result = error]
      BY <1>8, <2>3 DEF U_PushFile
    <3>2. error \in Errors
      BY DEF Errors
    <3> HIDE DEF error
    <3> QED
      BY <1>1, <2>1, <3>1, <3>2, RefusedWhole
  <2> QED
    BY <2>2, <2>3
<1> QED
  BY <1>2, <1>3, <1>4, <1>5, <1>6, <1>7, <1>8 DEF User

LEMMA DeviceWhole ==
  ASSUME SyncInv, WholeInv, D_Take \/ D_Send \/ D_Breaks
  PROVE  WholeInv'
<1>1. op' = op /\ host' = host /\ stream' = stream /\ device.link = "up"
  BY DEF D_Take, D_Send, D_Breaks, hostVars
<1>2. CASE stream # "inStep"
  BY <1>1, <1>2, WholeBroken
<1>3. CASE stream = "inStep"
  <2>1. Talking
    BY <1>1, <1>3 DEF SyncInv, TalkInv, InTouch, Lost
  <2>2. CASE files' = files
    BY <1>1, <2>2, SameWhole
  <2>3. CASE op.pc \in {"undefined", "spinning"}
    BY <1>1, <2>3, WholeFails DEF Working
  <2>4. CASE OnlyFile(op.file) /\ op.pc \in {"chunk", "result"}
    <3>1. op.kind = "push" /\ Working(op)
      BY <2>4 DEF SyncInv, TypeInv, OpOK, Working
    <3>2. Walked(op, host, files)
      BY <1>3 DEF WholeInv
    <3>3. Walked(op, host, files')
      <4>1. SUFFICES ASSUME NEW f \in FilesOf(ToSet(op.args)), f \in DOMAIN host
                     PROVE  Transferred(op, host, files', f) \/ Ahead(op, f)
        BY <3>1 DEF Walked
      <4>2. Transferred(op, host, files, f) \/ Ahead(op, f)
        BY <3>1, <3>2, <4>1 DEF Walked
      <4>3. CASE f = op.file
        BY <2>4, <4>3 DEF Ahead
      <4>4. f # op.file /\ Transferred(op, host, files, f) => Transferred(op, host, files', f)
        BY <2>4, <3>1 DEF Transferred, OnlyFile
      <4> QED
        BY <4>2, <4>3, <4>4
    <3>4. Pulled(op, host, files')
      BY <3>1 DEF Pulled
    <3>5. WholeInv' <=> /\ IsTree(op.before)
                        /\ stream = "inStep" => Pulled(op, host, files') /\ Walked(op, host, files')
      BY <1>1 DEF WholeInv
    <3> QED
      BY <3>3, <3>4, <3>5 DEF WholeInv
  <2>5. \/ files' = files \/ op.pc \in {"undefined", "spinning"}
        \/ OnlyFile(op.file) /\ op.pc \in {"chunk", "result"}
    <3>1. D_Send \/ D_Breaks => files' = files
      BY DEF D_Send, D_Breaks
    <3> QED
      BY <2>1, <3>1, TakeTalk
  <2> QED
    BY <2>2, <2>3, <2>4, <2>5
<1> QED
  BY <1>2, <1>3

LEMMA NextWhole ==
  ASSUME SyncInv, WholeInv, [Next]_vars
  PROVE  WholeInv'
<1>1. CASE UNCHANGED vars
  BY <1>1, SameWhole DEF vars, hostVars, deviceVars
<1>2. CASE Next
  BY <1>2, UserWhole, ClientWhole, DeviceWhole DEF Next
<1> QED
  BY <1>1, <1>2

(* On a connection that is in step a file is as it was, has what the pull  *)
(* under way has written of the device's, or is whole; and every file of   *)
(* the selection has been transferred or is yet to come.                   *)
THEOREM WholeInvariant == Spec => []WholeInv
<1>1. Init => WholeInv
  <2> SUFFICES ASSUME Init  PROVE WholeInv
    OBVIOUS
  <2> DEFINE n == NewOp("pull", <<>>, "idle")
  <2>1. DOMAIN n = OpFields /\ n.pc = "idle" /\ n.result = "none"
    BY DEF NewOp, OpFields
  <2>2. op = [n EXCEPT !.before = OnHost] /\ host = OnHost
    BY DEF Init
  <2> HIDE DEF n
  <2>3. op.pc = "idle" /\ op.result = "none" /\ op.before = OnHost
    BY <2>1, <2>2 DEF OpFields
  <2>4. IsTree(OnHost)
    BY <2>2, InitType DEF TypeInv, WorldOK
  <2> QED
    BY <2>3, <2>4 DEF WholeInv, Pulled, Walked, Working
<1>2. SyncInv /\ WholeInv /\ [Next]_vars => WholeInv'
  BY NextWhole
<1> QED
  BY <1>1, <1>2, SyncInvariant, PTL DEF Spec

(* What it says of an operation that succeeded.                            *)
LEMMA InvTransferredWhole == SyncInv /\ WholeInv => TransferredWhole
<1> SUFFICES ASSUME SyncInv, WholeInv  PROVE TransferredWhole
  OBVIOUS
<1>1. ASSUME Succeeded, NEW f \in FilesOf(ToSet(op.args)), op.kind = "push" => f \in DOMAIN host
      PROVE  Transferred(op, host, files, f)
  BY <1>1 DEF Succeeded, WholeInv, Walked, Ahead
<1>2. PulledWhole
  <2>1. SUFFICES ASSUME Succeeded, op.kind # "push", NEW f \in FilesOf(ToSet(op.args))
                 PROVE  f \in DOMAIN host /\ host[f] = Overwritten(Before(op, f), 0, files[f])
    BY DEF PulledWhole, Before
  <2>2. Whole(op, host, files, f)
    BY <1>1, <2>1 DEF Transferred
  <2>3. /\ f \in DOMAIN host /\ f \in DOMAIN files
        /\ Laid(host[f], Before(op, f), files[f], Capped(Len(files[f])))
    BY <2>2 DEF Whole, UpTo
  <2>4. IsTree(host) /\ IsTree(files) /\ IsTree(op.before)
    BY DEF SyncInv, TypeInv, WorldOK, WholeInv
  <2>5. host[f] \in Seq(Words) /\ files[f] \in Seq(Words) /\ Before(op, f) \in Seq(Words)
    BY <2>3, <2>4, EmptySeq DEF IsTree, Before
  <2> QED
    BY <2>3, <2>5, LaidWhole
<1>3. PushedWhole
  BY <1>1 DEF PushedWhole, Transferred
<1> QED
  BY <1>2, <1>3 DEF TransferredWhole

(* TransferredWhole, whatever the trees and the directories in them, the   *)
(* sizes of the chunks, and what fails on the way: what is reported as     *)
(* transferred on a connection on which nothing was interrupted or late is *)
(* whole, because each chunk is written where the one before it ends, the  *)
(* end is announced behind all of the file, and the walk leaves out        *)
(* nothing but what it is to skip.                                         *)
THEOREM TransfersAreWhole == Spec => []TransferredWhole
  BY SyncInvariant, WholeInvariant, InvTransferredWhole, PTL

-----------------------------------------------------------------------------
(* Sums.                                                                   *)

(* Induction over the naturals, with a set for the property.               *)
LEMMA Induction ==
  ASSUME NEW S, 0 \in S, \A n \in Nat : n \in S => n + 1 \in S
  PROVE  Nat \subseteq S
<1> SUFFICES ASSUME Nat \ S # {}  PROVE FALSE
  OBVIOUS
<1> DEFINE R == OpToRel(<, Nat)
<1>1. IsWellFoundedOn(R, Nat)
  BY NatLessThanWellFounded
<1>2. \A m, n \in Nat : m < n => <<m, n>> \in R
  BY DEF OpToRel
<1> HIDE DEF R
<1>3. PICK k \in Nat \ S : \A n \in Nat \ S : ~(<<n, k>> \in R)
  BY <1>1, WFMin
<1>4. k - 1 \in Nat /\ k - 1 < k
  BY <1>3
<1>5. k - 1 \in S
  BY <1>2, <1>3, <1>4
<1>6. (k - 1) + 1 = k
  BY <1>3
<1> QED
  BY <1>3, <1>4, <1>5, <1>6

(* f is the function with which SumOf folds the first n places of s.       *)
IsFold(f, W, s, n) ==
  f = [t \in SUBSET (1..n) |-> IF t = {} THEN 0 ELSE f[t \ {Max(t)}] + W[s[Max(t)]]]

(* It exists, for it is built place by place.                              *)
LEMMA FoldExists ==
  ASSUME NEW W, NEW s, NEW n \in Nat
  PROVE  \E f : IsFold(f, W, s, n)
<1> DEFINE D == {k \in Nat : \E f : IsFold(f, W, s, k)}
<1>1. 0 \in D
  <2> DEFINE f == [t \in SUBSET (1..0) |-> 0]
  <2>1. \A t \in SUBSET (1..0) : t = {}
    OBVIOUS
  <2>2. IsFold(f, W, s, 0)
    BY <2>1 DEF IsFold
  <2> QED
    BY <2>2
<1>2. ASSUME NEW k \in Nat, k \in D
      PROVE  k + 1 \in D
  <2>1. PICK f : IsFold(f, W, s, k)
    BY <1>2
  <2> DEFINE g == [t \in SUBSET (1..k + 1) |->
                     IF k + 1 \in t THEN f[t \ {k + 1}] + W[s[k + 1]] ELSE f[t]]
             G(t) == IF t = {} THEN 0 ELSE g[t \ {Max(t)}] + W[s[Max(t)]]
  <2>2. ASSUME NEW t \in SUBSET (1..k)
        PROVE  /\ t \in SUBSET (1..k + 1) /\ k + 1 \notin t
               /\ f[t] = IF t = {} THEN 0 ELSE f[t \ {Max(t)}] + W[s[Max(t)]]
    <3>1. t \in SUBSET (1..k + 1) /\ k + 1 \notin t
      OBVIOUS
    <3> QED
      BY <2>1, <3>1 DEF IsFold
  <2>3. ASSUME NEW t \in SUBSET (1..k + 1)
        PROVE  g[t] = G(t)
    <3>1. CASE k + 1 \in t
      <4>1. Max(t) = k + 1
        <5>1. \A x \in t : x \in Nat /\ k + 1 >= x
          OBVIOUS
        <5>2. \A x \in t : (\A y \in t : x >= y) => x = k + 1
          BY <3>1, <5>1
        <5> QED
          BY <3>1, <5>1, <5>2 DEF Max
      <4>2. t \ {k + 1} \in SUBSET (1..k)
        OBVIOUS
      <4>3. g[t \ {k + 1}] = f[t \ {k + 1}]
        BY <2>2, <4>2
      <4> QED
        BY <3>1, <4>1, <4>3
    <3>2. CASE k + 1 \notin t
      <4>1. t \in SUBSET (1..k)
        BY <3>2
      <4>2. g[t] = f[t] /\ g[t \ {Max(t)}] = f[t \ {Max(t)}]
        <5> DEFINE r == t \ {Max(t)}
        <5>1. r \in SUBSET (1..k + 1) /\ k + 1 \notin r
          BY <3>2
        <5> HIDE DEF r
        <5>2. g[r] = f[r] /\ g[t] = f[t]
          BY <3>2, <5>1
        <5> QED
          BY <5>2 DEF r
      <4> QED
        BY <2>2, <4>1, <4>2
    <3> QED
      BY <3>1, <3>2
  <2>4. g = [t \in SUBSET (1..k + 1) |-> G(t)]
    BY <2>3
  <2>5. IsFold(g, W, s, k + 1)
    BY <2>4 DEF IsFold
  <2> QED
    BY <2>5
<1> HIDE DEF D
<1>3. Nat \subseteq D
  BY <1>1, <1>2, Induction
<1> QED
  BY <1>3 DEF D

(* P is the sum of the weights of the first k of s, for each k.            *)
IsSum(P, W, s) ==
  /\ P \in [0..Len(s) -> Nat] /\ P[0] = 0
  /\ \A k \in 1..Len(s) : P[k] = P[k - 1] + W[s[k]]

LEMMA SumExists ==
  ASSUME NEW S, NEW W, \A x \in S : W[x] \in Nat, NEW s \in Seq(S)
  PROVE  \E P : IsSum(P, W, s) /\ P[Len(s)] = SumOf(W, s)
<1> DEFINE n == Len(s)
           f == CHOOSE f : f = [t \in SUBSET (DOMAIN s) |->
                                  IF t = {} THEN 0 ELSE f[t \ {Max(t)}] + W[s[Max(t)]]]
           P == [k \in 0..n |-> f[1..k]]
<1>1. SumOf(W, s) = f[DOMAIN s]
  BY DEF SumOf, FoldLeft, MapThenFoldSet
<1>2. n \in Nat /\ DOMAIN s = 1..n /\ \A i \in 1..n : s[i] \in S
  BY LenProperties, ElementOfSeq
<1>3. IsFold(f, W, s, n)
  <2>1. \E g : IsFold(g, W, s, n)
    BY <1>2, FoldExists
  <2>2. \E g : g = [t \in SUBSET (DOMAIN s) |->
                     IF t = {} THEN 0 ELSE g[t \ {Max(t)}] + W[s[Max(t)]]]
    BY <1>2, <2>1 DEF IsFold
  <2>3. f = [t \in SUBSET (DOMAIN s) |->
               IF t = {} THEN 0 ELSE f[t \ {Max(t)}] + W[s[Max(t)]]]
    BY <2>2
  <2> QED
    BY <1>2, <2>3 DEF IsFold
<1> HIDE DEF f, n
<1>4. f[{}] = 0
  BY <1>3 DEF IsFold
<1>5. ASSUME NEW k \in 1..n
      PROVE  f[1..k] = f[1..k - 1] + W[s[k]]
  <2>1. 1..k \in SUBSET (1..n) /\ k \in 1..k
    BY <1>2
  <2>2. Max(1..k) = k
    <3>1. \A x \in 1..k : k >= x
      OBVIOUS
    <3>2. \A x \in 1..k : (\A y \in 1..k : x >= y) => x = k
      BY <2>1
    <3> QED
      BY <2>1, <3>1, <3>2 DEF Max
  <2>3. (1..k) \ {k} = 1..k - 1
    OBVIOUS
  <2> QED
    BY <1>3, <2>1, <2>2, <2>3 DEF IsFold
<1>6. 1..0 = {}
  OBVIOUS
<1>7. \A k \in 0..n : f[1..k] \in Nat
  <2> DEFINE D == {k \in Nat : k <= n => f[1..k] \in Nat}
  <2>1. 0 \in D
    BY <1>4, <1>6
  <2>2. ASSUME NEW k \in Nat, k \in D
        PROVE  k + 1 \in D
    <3>1. CASE k + 1 <= n
      <4>1. k + 1 \in 1..n /\ k <= n /\ (k + 1) - 1 = k
        BY <1>2, <3>1
      <4>2. W[s[k + 1]] \in Nat
        BY <1>2, <4>1
      <4>3. f[1..k] \in Nat
        BY <2>2, <4>1
      <4>4. f[1..k + 1] = f[1..k] + W[s[k + 1]]
        BY <1>5, <4>1
      <4> QED
        BY <4>2, <4>3, <4>4
    <3> QED
      BY <3>1
  <2> HIDE DEF D
  <2>3. Nat \subseteq D
    BY <2>1, <2>2, Induction
  <2> QED
    BY <1>2, <2>3 DEF D
<1>8. IsSum(P, W, s)
  <2>1. P \in [0..Len(s) -> Nat]
    BY <1>7 DEF n
  <2>2. P[0] = 0
    BY <1>2, <1>4, <1>6
  <2>3. ASSUME NEW k \in 1..n
        PROVE  P[k] = P[k - 1] + W[s[k]]
    <3>1. k \in 0..n /\ k - 1 \in 0..n
      BY <1>2
    <3> QED
      BY <1>5, <3>1
  <2> QED
    BY <2>1, <2>2, <2>3 DEF IsSum, n
<1>9. P[n] = f[1..n]
  BY <1>2
<1> QED
  BY <1>1, <1>2, <1>8, <1>9 DEF n

(* Sums of the same weights are the same.                                  *)
LEMMA SumsEqual ==
  ASSUME NEW s, NEW t, NEW V, NEW W, Len(s) \in Nat, Len(t) = Len(s),
         \A k \in 1..Len(s) : V[s[k]] = W[t[k]],
         NEW P, IsSum(P, V, s), NEW Q, IsSum(Q, W, t)
  PROVE  P[Len(s)] = Q[Len(s)]
<1> DEFINE n == Len(s)
           D == {k \in Nat : k <= n => P[k] = Q[k]}
<1>0. n \in Nat /\ Len(t) = n
  OBVIOUS
<1> HIDE DEF n
<1>1. 0 \in D
  BY DEF IsSum
<1>2. ASSUME NEW k \in Nat, k \in D
      PROVE  k + 1 \in D
  <2> SUFFICES ASSUME k + 1 <= n  PROVE P[k + 1] = Q[k + 1]
    OBVIOUS
  <2>1. k + 1 \in 1..n /\ k <= n /\ (k + 1) - 1 = k
    BY <1>0
  <2>2. P[k + 1] = P[k] + V[s[k + 1]] /\ Q[k + 1] = Q[k] + W[t[k + 1]]
    BY <1>0, <2>1 DEF IsSum, n
  <2>3. V[s[k + 1]] = W[t[k + 1]]
    BY <2>1 DEF n
  <2> QED
    BY <1>2, <2>1, <2>2, <2>3
<1> HIDE DEF D
<1>3. Nat \subseteq D
  BY <1>1, <1>2, Induction
<1> QED
  BY <1>0, <1>3 DEF D, n

(* SumOf by its partial sums                                               *)
LEMMA SumIs ==
  ASSUME NEW S, NEW W, \A x \in S : W[x] \in Nat, NEW s \in Seq(S), NEW P, IsSum(P, W, s)
  PROVE  SumOf(W, s) = P[Len(s)] /\ SumOf(W, s) \in Nat
<1>1. PICK Q : IsSum(Q, W, s) /\ Q[Len(s)] = SumOf(W, s)
  BY SumExists
<1>2. Len(s) \in Nat /\ Len(s) \in 0..Len(s)
  BY LenProperties
<1>3. P[Len(s)] = Q[Len(s)]
  BY <1>1, <1>2, SumsEqual
<1> QED
  BY <1>1, <1>2, <1>3 DEF IsSum

LEMMA SumType ==
  ASSUME NEW S, NEW W, \A x \in S : W[x] \in Nat, NEW s \in Seq(S)
  PROVE  SumOf(W, s) \in Nat
  BY SumExists, SumIs

(* The sum depends on the weights of its elements only.                    *)
LEMMA SumSame ==
  ASSUME NEW S, NEW V, NEW W, \A x \in S : V[x] \in Nat /\ W[x] \in Nat, NEW s \in Seq(S),
         \A k \in 1..Len(s) : V[s[k]] = W[s[k]]
  PROVE  SumOf(V, s) = SumOf(W, s)
<1>1. PICK Q : IsSum(Q, W, s) /\ Q[Len(s)] = SumOf(W, s)
  BY SumExists
<1>2. IsSum(Q, V, s)
  BY <1>1 DEF IsSum
<1> QED
  BY <1>1, <1>2, SumIs

LEMMA SumEmpty ==
  ASSUME NEW W
  PROVE  SumOf(W, <<>>) = 0
<1> DEFINE V == [x \in {} |-> 0]
<1>1. <<>> \in Seq({}) /\ Len(<<>>) = 0
  BY EmptySeq
<1>2. DOMAIN <<>> = {}
  OBVIOUS
<1> DEFINE f == CHOOSE f : f = [t \in SUBSET {} |->
                                  IF t = {} THEN 0 ELSE f[t \ {Max(t)}] + W[<<>>[Max(t)]]]
<1>3. SumOf(W, <<>>) = f[{}]
  BY <1>2 DEF SumOf, FoldLeft, MapThenFoldSet
<1>4. 1..0 = {}
  OBVIOUS
<1>5. \E g : IsFold(g, W, <<>>, 0)
  BY FoldExists
<1>6. f = [t \in SUBSET {} |->
             IF t = {} THEN 0 ELSE f[t \ {Max(t)}] + W[<<>>[Max(t)]]]
  BY <1>4, <1>5 DEF IsFold
<1> QED
  BY <1>3, <1>6

(* The sum of two sequences                                                *)
LEMMA SumConcat ==
  ASSUME NEW S, NEW W, \A x \in S : W[x] \in Nat, NEW s \in Seq(S), NEW t \in Seq(S)
  PROVE  SumOf(W, s \o t) = SumOf(W, s) + SumOf(W, t)
<1> DEFINE m == Len(s)
           n == Len(t)
           u == s \o t
<1>1. u \in Seq(S) /\ Len(u) = m + n /\ m \in Nat /\ n \in Nat
  BY ConcatProperties, LenProperties
<1>2. /\ \A k \in 1..m : u[k] = s[k]
      /\ \A k \in 1..n : u[m + k] = t[k]
  <2>1. \A k \in 1..m + n : u[k] = IF k <= m THEN s[k] ELSE t[k - m]
    BY ConcatProperties
  <2>2. \A k \in 1..n : m + k \in 1..m + n /\ ~(m + k <= m) /\ (m + k) - m = k
    BY <1>1
  <2>3. \A k \in 1..m : k \in 1..m + n /\ k <= m
    BY <1>1
  <2> HIDE DEF u, m, n
  <2> QED
    BY <2>1, <2>2, <2>3
<1>3. PICK P : IsSum(P, W, s) /\ P[m] = SumOf(W, s)
  BY SumExists
<1>4. PICK Q : IsSum(Q, W, t) /\ Q[n] = SumOf(W, t)
  BY SumExists
<1> DEFINE R == [k \in 0..Len(u) |-> IF k <= m THEN P[k] ELSE P[m] + Q[k - m]]
<1>5. /\ \A k \in 0..m : P[k] \in Nat
      /\ \A k \in 0..n : Q[k] \in Nat
      /\ P[0] = 0 /\ Q[0] = 0
      /\ \A k \in 1..m : P[k] = P[k - 1] + W[s[k]]
      /\ \A k \in 1..n : Q[k] = Q[k - 1] + W[t[k]]
  BY <1>3, <1>4 DEF IsSum
<1> HIDE DEF m, n, u
<1>6. R \in [0..Len(u) -> Nat]
  <2> SUFFICES ASSUME NEW k \in 0..Len(u)
               PROVE  (IF k <= m THEN P[k] ELSE P[m] + Q[k - m]) \in Nat
    OBVIOUS
  <2>1. CASE k <= m
    <3>1. k \in 0..m
      BY <1>1, <2>1
    <3> QED
      BY <1>5, <2>1, <3>1
  <2>2. CASE ~(k <= m)
    <3>1. k - m \in 0..n /\ m \in 0..m
      BY <1>1, <2>2
    <3>2. P[m] \in Nat /\ Q[k - m] \in Nat
      BY <1>5, <3>1
    <3> QED
      BY <2>2, <3>2
  <2> QED
    BY <2>1, <2>2
<1>7. R[0] = 0
  BY <1>1, <1>5
<1>8. ASSUME NEW k \in 1..Len(u)
      PROVE  R[k] = R[k - 1] + W[u[k]]
  <2>0. k \in 0..Len(u) /\ k - 1 \in 0..Len(u)
    BY <1>1
  <2>1. CASE k <= m
    <3>1. k \in 1..m /\ k - 1 <= m
      BY <1>1, <2>1
    <3> QED
      BY <1>2, <1>5, <2>0, <2>1, <3>1
  <2>2. CASE k = m + 1
    <3>1. 1 \in 1..n /\ m \in 0..m /\ k - 1 = m /\ ~(k <= m) /\ k - m = 1 /\ m <= m
      BY <1>1, <2>2
    <3>2. u[k] = t[1] /\ Q[1] = Q[1 - 1] + W[t[1]]
      BY <1>2, <1>5, <2>2, <3>1
    <3>3. Q[1] = 0 + W[t[1]] /\ 1 \in 0..n
      BY <1>5, <3>2, <3>1
    <3>4. P[m] \in Nat /\ Q[1] \in Nat
      BY <1>5, <3>1, <3>3
    <3>5. R[k] = P[m] + Q[1] /\ R[k - 1] = P[m]
      BY <2>0, <3>1
    <3>6. 1 - 1 = 0
      OBVIOUS
    <3>7. Q[1] = Q[0] + W[u[k]]
      BY <3>2, <3>6
    <3>8. W[u[k]] \in Nat
      <4>1. t[1] \in S
        BY <3>1, ElementOfSeq DEF n
      <4> QED
        BY <3>2, <4>1
    <3> HIDE DEF R
    <3> QED
      BY <1>5, <3>4, <3>5, <3>7, <3>8
  <2>3. CASE k > m + 1
    <3>1. k - m \in 1..n /\ ~(k <= m) /\ ~(k - 1 <= m) /\ m + (k - m) = k
      BY <1>1, <2>3
    <3>2. u[k] = t[k - m] /\ Q[k - m] = Q[(k - m) - 1] + W[t[k - m]]
      <4> DEFINE j == k - m
      <4>1. j \in 1..n /\ m + j = k
        BY <3>1
      <4> HIDE DEF j
      <4>2. u[k] = t[j] /\ Q[j] = Q[j - 1] + W[t[j]]
        BY <1>2, <1>5, <4>1
      <4> QED
        BY <4>2 DEF j
    <3>3. (k - 1) - m = (k - m) - 1 /\ (k - m) - 1 \in 0..n /\ m \in 0..m
      BY <1>1, <3>1
    <3>4. P[m] \in Nat /\ Q[(k - m) - 1] \in Nat
      BY <1>5, <3>3
    <3>5. W[u[k]] \in Nat
      <4>1. t[k - m] \in S
        BY <3>1, ElementOfSeq DEF n
      <4> QED
        BY <3>2, <4>1
    <3>6. R[k] = P[m] + Q[k - m] /\ R[k - 1] = P[m] + Q[(k - m) - 1]
      BY <2>0, <3>1, <3>3
    <3> HIDE DEF R
    <3> QED
      BY <3>2, <3>4, <3>5, <3>6
  <2> QED
    BY <1>1, <2>1, <2>2, <2>3
<1>9. IsSum(R, W, u)
  BY <1>6, <1>7, <1>8 DEF IsSum
<1>10. SumOf(W, u) = R[Len(u)]
  BY <1>1, <1>9, SumIs
<1>11. R[Len(u)] = P[m] + Q[n]
  <2>1. Len(u) \in 0..Len(u) /\ m \in 0..m /\ Len(u) - m = n
    BY <1>1
  <2>2. P[m] \in Nat
    BY <1>5, <2>1
  <2>3. CASE n = 0
    <3>1. Len(u) = m /\ m <= m
      BY <1>1, <2>3
    <3>2. R[Len(u)] = P[m] /\ Q[n] = 0
      BY <1>5, <2>1, <2>3, <3>1
    <3> HIDE DEF R
    <3> QED
      BY <2>2, <3>2
  <2>4. CASE n # 0
    <3>1. ~(Len(u) <= m)
      BY <1>1, <2>4
    <3> QED
      BY <2>1, <3>1
  <2> QED
    BY <2>3, <2>4
<1> QED
  BY <1>3, <1>4, <1>10, <1>11 DEF u

LEMMA SumOne ==
  ASSUME NEW S, NEW W, \A x \in S : W[x] \in Nat, NEW e \in S
  PROVE  SumOf(W, <<e>>) = W[e]
<1> DEFINE P == [k \in 0..1 |-> IF k = 0 THEN 0 ELSE W[e]]
<1>1. <<e>> \in Seq(S) /\ Len(<<e>>) = 1 /\ <<e>>[1] = e
  OBVIOUS
<1>2. P \in [0..1 -> Nat] /\ P[0] = 0 /\ P[1] = W[e]
  OBVIOUS
<1> HIDE DEF P
<1>3. \A k \in 1..1 : k = 1 /\ k - 1 = 0
  OBVIOUS
<1>4. IsSum(P, W, <<e>>)
  BY <1>1, <1>2, <1>3 DEF IsSum
<1> QED
  BY <1>1, <1>2, <1>4, SumIs

(* The sum of what is left without the first                               *)
LEMMA SumHead ==
  ASSUME NEW S, NEW W, \A x \in S : W[x] \in Nat, NEW s \in Seq(S), s # <<>>
  PROVE  SumOf(W, s) = W[Head(s)] + SumOf(W, Tail(s))
<1>1. Head(s) \in S /\ Tail(s) \in Seq(S) /\ s = <<Head(s)>> \o Tail(s)
  OBVIOUS
<1>2. <<Head(s)>> \in Seq(S)
  BY <1>1
<1>3. SumOf(W, <<Head(s)>> \o Tail(s)) = SumOf(W, <<Head(s)>>) + SumOf(W, Tail(s))
  BY <1>1, <1>2, SumConcat
<1> QED
  BY <1>1, <1>3, SumOne

-----------------------------------------------------------------------------
(* What a tree weighs.                                                     *)

(* What W makes of the entry e of the tree t, as RemoteTotal counts it     *)
WeightOf(W, t, e) ==
  IF e \in Dir THEN 1 + SumOf(W, Kids[e]) ELSE IF e \in File THEN Size(t, e) ELSE 0

(* W is right on the part D of the tree t.                                 *)
IsPart(W, t, D) ==
  /\ D \subseteq Entry /\ Closed(D) /\ W \in [D -> Nat]
  /\ \A e \in D : W[e] = WeightOf(W, t, e)

LEMMA SizeType == ASSUME NEW t, IsTree(t), NEW f PROVE Size(t, f) \in Nat
<1>1. ASSUME f \in DOMAIN t PROVE Len(t[f]) \in Nat
  <2>1. t[f] \in Seq(Words)
    BY <1>1 DEF IsTree
  <2> QED
    BY <2>1, LenProperties
<1> QED
  BY <1>1 DEF Size

(* What is in a directory of a part is in the part.                        *)
LEMMA KidsWithin ==
  ASSUME NEW D, D \subseteq Entry, Closed(D), NEW d \in D, d \in Dir
  PROVE  /\ Kids[d] \in Seq(D) /\ Kids[d] \in Seq(Entry) /\ Len(Kids[d]) \in Nat
         /\ \A k \in 1..Len(Kids[d]) : Kids[d][k] \in D /\ Kids[d][k] \in ToSet(Kids[d])
<1>1. Kids[d] \in Seq(Entry)
  BY Assumed
<1>2. Len(Kids[d]) \in Nat /\ DOMAIN Kids[d] = 1..Len(Kids[d])
  BY <1>1, LenProperties
<1>3. \A k \in 1..Len(Kids[d]) : Kids[d][k] \in ToSet(Kids[d])
  BY <1>2 DEF ToSet
<1>4. ToSet(Kids[d]) \subseteq D
  BY DEF Closed
<1>5. Kids[d] \in Seq(D)
  <2> DEFINE s == Kids[d]
  <2>1. s \in Seq(Entry) /\ \A k \in 1..Len(s) : s[k] \in D
    BY <1>1, <1>3, <1>4
  <2> HIDE DEF s
  <2>2. s \in Seq(D)
    BY <2>1, IsASeq, LenProperties
  <2> QED
    BY <2>2 DEF s
<1> QED
  BY <1>1, <1>2, <1>3, <1>4, <1>5

(* All the entries are a part.                                             *)
LEMMA EntryClosed == Closed(Entry) /\ Dir \subseteq Entry /\ File \subseteq Entry
<1>1. ASSUME NEW d \in Dir
      PROVE  ToSet(Kids[d]) \subseteq Entry
  <2>1. Kids[d] \in Seq(Entry)
    BY Assumed
  <2> QED
    BY <2>1, ElementOfSeq, LenProperties DEF ToSet
<1> QED
  BY <1>1 DEF Closed, Entry

(* A directory that has none of ds in it                                   *)
LEMMA Lowest ==
  ASSUME NEW ds, ds \subseteq Dir, ds # {}
  PROVE  \E d \in ds : ToSet(Kids[d]) \cap ds = {}
  BY TreeAssumption

LEMMA PartsAgree ==
  ASSUME NEW t, NEW V, NEW W, NEW D, NEW E, IsPart(V, t, D), IsPart(W, t, E)
  PROVE  \A e \in D \cap E : V[e] = W[e]
<1> DEFINE ds == {d \in D \cap E : d \in Dir /\ V[d] # W[d]}
<1>1. \A e \in D \cap E : e \notin Dir => V[e] = W[e]
  BY DEF IsPart, WeightOf
<1>2. ASSUME ds # {} PROVE FALSE
  <2>1. PICK d \in ds : ToSet(Kids[d]) \cap ds = {}
    BY <1>2, Lowest
  <2>2. d \in D /\ d \in E /\ d \in Dir /\ V[d] # W[d]
    BY <2>1
  <2>3. \A k \in 1..Len(Kids[d]) : Kids[d][k] \in D /\ Kids[d][k] \in ToSet(Kids[d])
    BY <2>2, KidsWithin DEF IsPart
  <2>4. \A k \in 1..Len(Kids[d]) : Kids[d][k] \in E
    BY <2>2, KidsWithin DEF IsPart
  <2>5. \A k \in 1..Len(Kids[d]) : V[Kids[d][k]] = W[Kids[d][k]]
    BY <1>1, <2>1, <2>3, <2>4
  <2>6. Kids[d] \in Seq(D \cap E)
    <3>1. D \cap E \subseteq Entry /\ Closed(D \cap E)
      BY DEF IsPart, Closed
    <3> QED
      BY <2>2, <3>1, KidsWithin
  <2>7. \A x \in D \cap E : V[x] \in Nat /\ W[x] \in Nat
    BY DEF IsPart
  <2>8. SumOf(V, Kids[d]) = SumOf(W, Kids[d])
    BY <2>5, <2>6, <2>7, SumSame
  <2>9. V[d] = 1 + SumOf(V, Kids[d]) /\ W[d] = 1 + SumOf(W, Kids[d])
    BY <2>2 DEF IsPart, WeightOf
  <2> QED
    BY <2>2, <2>8, <2>9
<1> QED
  BY <1>1, <1>2

(* The parts together are the whole tree.                                  *)
LEMMA WeightExists ==
  ASSUME NEW t, IsTree(t)
  PROVE  \E W : IsPart(W, t, Entry)
<1> DEFINE C == {e \in Entry : \E D, W : IsPart(W, t, D) /\ e \in D}
           G == [e \in C |-> CHOOSE v : \E D, W : IsPart(W, t, D) /\ e \in D /\ v = W[e]]
<1>1. ASSUME NEW D, NEW W, IsPart(W, t, D)
      PROVE  D \subseteq C /\ \A e \in D : G[e] = W[e]
  <2>1. D \subseteq C
    BY <1>1 DEF IsPart
  <2>2. ASSUME NEW e \in D
        PROVE  G[e] = W[e]
    <3>1. \E E, V : IsPart(V, t, E) /\ e \in E /\ G[e] = V[e]
      <4>1. \E v : \E E, V : IsPart(V, t, E) /\ e \in E /\ v = V[e]
        BY <1>1
      <4>2. e \in C
        BY <2>1
      <4> QED
        BY <4>1, <4>2
    <3> QED
      BY <1>1, <3>1, PartsAgree
  <2> QED
    BY <2>1, <2>2
<1>2. \A e \in C : \E D, W : IsPart(W, t, D) /\ e \in D
  OBVIOUS
<1>3. DOMAIN G = C /\ C \subseteq Entry
  OBVIOUS
<1>4. G = [e \in C |-> G[e]]
  OBVIOUS
<1> HIDE DEF C, G
<1>5. ASSUME NEW D, NEW W, IsPart(W, t, D), NEW e \in D
      PROVE  G[e] = WeightOf(G, t, e) /\ G[e] \in Nat
  <2>1. G[e] = W[e] /\ W[e] = WeightOf(W, t, e) /\ W[e] \in Nat
    BY <1>1, <1>5 DEF IsPart
  <2>2. ASSUME e \in Dir
        PROVE  SumOf(W, Kids[e]) = SumOf(G, Kids[e])
    <3>1. Kids[e] \in Seq(D) /\ \A k \in 1..Len(Kids[e]) : Kids[e][k] \in D
      BY <1>5, <2>2, KidsWithin DEF IsPart
    <3>2. \A x \in D : W[x] \in Nat /\ G[x] \in Nat /\ W[x] = G[x]
      BY <1>1, <1>5 DEF IsPart
    <3>3. \A k \in 1..Len(Kids[e]) : W[Kids[e][k]] = G[Kids[e][k]]
      BY <3>1, <3>2
    <3> QED
      BY <3>1, <3>2, <3>3, SumSame
  <2> QED
    BY <2>1, <2>2 DEF WeightOf
<1>6. IsPart(G, t, C)
  <2>1. Closed(C)
    <3> SUFFICES ASSUME NEW d \in C \cap Dir  PROVE ToSet(Kids[d]) \subseteq C
      BY DEF Closed
    <3>1. PICK D, W : IsPart(W, t, D) /\ d \in D
      BY <1>2
    <3>2. D \subseteq C /\ ToSet(Kids[d]) \subseteq D
      BY <1>1, <3>1 DEF IsPart, Closed
    <3> QED
      BY <3>2
  <2>2. \A e \in C : G[e] = WeightOf(G, t, e) /\ G[e] \in Nat
    BY <1>2, <1>5
  <2>3. G \in [C -> Nat]
    BY <1>4, <2>2
  <2> QED
    BY <1>3, <2>1, <2>2, <2>3 DEF IsPart
<1>7. \A e \in Entry : e \notin Dir => e \in C
  <2> SUFFICES ASSUME NEW e \in Entry, e \notin Dir  PROVE e \in C
    OBVIOUS
  <2> DEFINE W == [x \in {e} |-> IF x \in File THEN Size(t, x) ELSE 0]
  <2>1. W \in [{e} -> Nat]
    BY SizeType
  <2>2. IsPart(W, t, {e})
    BY <2>1 DEF IsPart, Closed, WeightOf
  <2> QED
    BY <1>1, <2>2
<1>8. ASSUME Entry \ C # {} PROVE FALSE
  <2>1. Entry \ C \subseteq Dir
    BY <1>7
  <2>2. PICK d \in Entry \ C : ToSet(Kids[d]) \cap (Entry \ C) = {}
    BY <1>8, <2>1, Lowest
  <2>3. d \in Dir /\ d \in Entry /\ d \notin C
    BY <2>1
  <2> DEFINE w == 1 + SumOf(G, Kids[d])
             E == C \cup {d}
             W == [e \in E |-> IF e = d THEN w ELSE G[e]]
  <2>4. ToSet(Kids[d]) \subseteq C
    <3>1. Closed(Entry) /\ ToSet(Kids[d]) \subseteq Entry
      BY EntryClosed, <2>3 DEF Closed
    <3> QED
      BY <2>2, <3>1
  <2>5. E \subseteq Entry /\ Closed(E)
    BY <1>6, <2>3, <2>4 DEF IsPart, Closed
  <2>6. Kids[d] \in Seq(C) /\ \A k \in 1..Len(Kids[d]) : Kids[d][k] \in C
    <3>1. Kids[d] \in Seq(Entry) /\ \A k \in 1..Len(Kids[d]) : Kids[d][k] \in ToSet(Kids[d])
      BY <2>3, EntryClosed, KidsWithin
    <3>2. \A k \in 1..Len(Kids[d]) : Kids[d][k] \in C
      BY <2>4, <3>1
    <3>3. Kids[d] \in Seq(C)
      <4> DEFINE s == Kids[d]
      <4>1. s \in Seq(Entry) /\ \A k \in 1..Len(s) : s[k] \in C
        BY <3>1, <3>2
      <4> HIDE DEF s
      <4>2. s \in Seq(C)
        BY <4>1, IsASeq, LenProperties
      <4> QED
        BY <4>2 DEF s
    <3> QED
      BY <3>2, <3>3
  <2>7. \A e \in C : G[e] \in Nat /\ G[e] = WeightOf(G, t, e)
    BY <1>6 DEF IsPart
  <2>8. w \in Nat
    <3>1. SumOf(G, Kids[d]) \in Nat
      BY <2>6, <2>7, SumType
    <3> QED
      BY <3>1
  <2> HIDE DEF w
  <2>9. /\ \A e \in C : W[e] = G[e] /\ W[e] \in Nat
        /\ W[d] = w /\ W \in [E -> Nat]
    BY <2>3, <2>7, <2>8
  <2> HIDE DEF W, E
  <2>10. ASSUME NEW x \in Dir, Kids[x] \in Seq(C),
                \A k \in 1..Len(Kids[x]) : Kids[x][k] \in C
         PROVE  SumOf(W, Kids[x]) = SumOf(G, Kids[x])
    <3>1. \A k \in 1..Len(Kids[x]) : W[Kids[x][k]] = G[Kids[x][k]]
      BY <2>9, <2>10
    <3>2. \A y \in C : W[y] \in Nat /\ G[y] \in Nat
      BY <2>7, <2>9
    <3> QED
      BY <2>10, <3>1, <3>2, SumSame
  <2>11. ASSUME NEW e \in E
         PROVE  W[e] = WeightOf(W, t, e)
    <3>1. CASE e = d
      <4>1. SumOf(W, Kids[d]) = SumOf(G, Kids[d])
        BY <2>3, <2>6, <2>10
      <4> QED
        BY <2>3, <2>9, <3>1, <4>1 DEF WeightOf, w
    <3>2. CASE e \in C
      <4>1. ASSUME e \in Dir
            PROVE  SumOf(W, Kids[e]) = SumOf(G, Kids[e])
        <5>1. Kids[e] \in Seq(C) /\ \A k \in 1..Len(Kids[e]) : Kids[e][k] \in C
          BY <1>6, <3>2, <4>1, KidsWithin DEF IsPart
        <5> QED
          BY <2>10, <4>1, <5>1
      <4> QED
        BY <2>7, <2>9, <3>2, <4>1 DEF WeightOf
    <3> QED
      BY <3>1, <3>2 DEF E
  <2>12. IsPart(W, t, E)
    BY <2>5, <2>9, <2>11 DEF IsPart
  <2>13. d \in E
    BY DEF E
  <2>14. E \subseteq C
    BY <1>1, <2>12
  <2> QED
    BY <2>3, <2>13, <2>14
<1> QED
  BY <1>3, <1>6, <1>8

(* What RemoteTotal counts with is right.                                  *)
LEMMA WeightIs ==
  ASSUME NEW t, IsTree(t), NEW W, W = [e \in Entry |-> WeightOf(W, t, e)]
  PROVE  IsPart(W, t, Entry)
<1> DEFINE ds == {d \in Dir : W[d] \notin Nat}
<1>1. \A e \in Entry : W[e] = WeightOf(W, t, e)
  OBVIOUS
<1>2. DOMAIN W = Entry /\ W = [e \in Entry |-> W[e]]
  BY <1>1
<1>3. \A e \in Entry : e \notin Dir => W[e] \in Nat
  BY <1>1, SizeType DEF WeightOf
<1>4. ASSUME ds # {} PROVE FALSE
  <2>1. PICK d \in ds : ToSet(Kids[d]) \cap ds = {}
    BY <1>4, Lowest
  <2>2. d \in Dir /\ d \in Entry /\ W[d] \notin Nat
    BY <2>1 DEF Entry
  <2>3. \A x \in ToSet(Kids[d]) : W[x] \in Nat
    <3>1. ToSet(Kids[d]) \subseteq Entry
      BY <2>2, EntryClosed DEF Closed
    <3> QED
      BY <1>3, <2>1, <3>1
  <2>4. Kids[d] \in Seq(ToSet(Kids[d]))
    <3> DEFINE s == Kids[d]
               D == ToSet(Kids[d])
    <3>1. s \in Seq(Entry) /\ \A k \in 1..Len(s) : s[k] \in D
      BY <2>2, EntryClosed, KidsWithin
    <3> HIDE DEF s, D
    <3>2. s \in Seq(D)
      BY <3>1, IsASeq, LenProperties
    <3> QED
      BY <3>2 DEF s, D
  <2>5. SumOf(W, Kids[d]) \in Nat
    BY <2>3, <2>4, SumType
  <2>6. W[d] = 1 + SumOf(W, Kids[d])
    BY <1>1, <2>2 DEF WeightOf
  <2> QED
    BY <2>2, <2>5, <2>6
<1>5. W \in [Entry -> Nat]
  BY <1>2, <1>3, <1>4
<1> QED
  BY <1>1, <1>5, EntryClosed DEF IsPart

(* W is right on the tree t, and the end of a directory weighs what is     *)
(* counted for the directory itself.                                       *)
Weighs(W, t) ==
  /\ W \in [Entry \cup {Directory} -> Nat] /\ W[Directory] = 1
  /\ \A e \in Entry : W[e] = WeightOf(W, t, e)

(* A weight with the end of a directory                                    *)
LEMMA WeighsPart ==
  ASSUME NEW t, NEW V, IsPart(V, t, Entry)
  PROVE  \E W : Weighs(W, t) /\ \A e \in Entry : W[e] = V[e]
<1> DEFINE W == [e \in Entry \cup {Directory} |-> IF e = Directory THEN 1 ELSE V[e]]
<1>1. \A e \in Entry : e # Directory /\ V[e] \in Nat /\ V[e] = WeightOf(V, t, e)
  BY Assumed DEF IsPart
<1>2. /\ W \in [Entry \cup {Directory} -> Nat] /\ W[Directory] = 1
      /\ \A e \in Entry : W[e] = V[e]
  BY <1>1
<1> HIDE DEF W
<1>3. ASSUME NEW e \in Entry, e \in Dir
      PROVE  SumOf(W, Kids[e]) = SumOf(V, Kids[e])
  <2>1. Kids[e] \in Seq(Entry) /\ \A k \in 1..Len(Kids[e]) : Kids[e][k] \in Entry
    BY <1>3, EntryClosed, KidsWithin
  <2>2. \A k \in 1..Len(Kids[e]) : W[Kids[e][k]] = V[Kids[e][k]]
    BY <1>2, <2>1
  <2>3. \A x \in Entry : W[x] \in Nat /\ V[x] \in Nat
    BY <1>1, <1>2
  <2> QED
    BY <2>1, <2>2, <2>3, SumSame
<1>4. \A e \in Entry : W[e] = WeightOf(W, t, e)
  BY <1>1, <1>2, <1>3 DEF WeightOf
<1> QED
  BY <1>2, <1>4 DEF Weighs

(* What a pull announces                                                   *)
LEMMA RemoteTotalIs ==
  ASSUME IsTree(files), NEW es \in Seq(Entry)
  PROVE  \E W : Weighs(W, files) /\ RemoteTotal(es) = SumOf(W, es)
<1> DEFINE V == CHOOSE V : V = [e \in Entry |->
                  IF e \in Dir THEN 1 + SumOf(V, Kids[e])
                  ELSE IF e \in File THEN Size(files, e) ELSE 0]
<1>1. RemoteTotal(es) = SumOf(V, es)
  BY DEF RemoteTotal
<1>2. \E W : W = [e \in Entry |-> WeightOf(W, files, e)]
  <2>1. PICK W : IsPart(W, files, Entry)
    BY WeightExists
  <2>2. W = [e \in Entry |-> WeightOf(W, files, e)]
    BY <2>1 DEF IsPart
  <2> QED
    BY <2>2
<1>3. V = [e \in Entry |-> WeightOf(V, files, e)]
  <2>1. \E W : W = [e \in Entry |->
                  IF e \in Dir THEN 1 + SumOf(W, Kids[e])
                  ELSE IF e \in File THEN Size(files, e) ELSE 0]
    BY <1>2 DEF WeightOf
  <2> QED
    BY <2>1 DEF WeightOf
<1> HIDE DEF V
<1>4. IsPart(V, files, Entry)
  BY <1>3, WeightIs
<1>5. PICK W : Weighs(W, files) /\ \A e \in Entry : W[e] = V[e]
  BY <1>4, WeighsPart
<1>6. SumOf(V, es) = SumOf(W, es)
  <2>1. \A k \in 1..Len(es) : es[k] \in Entry
    BY ElementOfSeq
  <2>2. \A k \in 1..Len(es) : V[es[k]] = W[es[k]]
    BY <1>5, <2>1
  <2>3. \A x \in Entry : V[x] \in Nat /\ W[x] \in Nat
    BY <1>4, <1>5 DEF IsPart, Weighs
  <2> QED
    BY <2>2, <2>3, SumSame
<1> QED
  BY <1>1, <1>5, <1>6

(* What a push announces that has no directories to push                   *)
LEMMA LocalTotalIs ==
  ASSUME IsTree(host), NEW es \in Seq(Entry), ToSet(es) \cap Dir = {}
  PROVE  \E W : Weighs(W, host) /\ LocalTotal(es) = SumOf(W, es)
<1> DEFINE V == [e \in Entry |-> IF e \in File THEN Size(host, e) ELSE 0]
<1>1. Len(es) \in Nat /\ DOMAIN es = 1..Len(es) /\ \A k \in 1..Len(es) : es[k] \in Entry
  BY LenProperties, ElementOfSeq
<1>2. \A k \in 1..Len(es) : es[k] \notin Dir
  BY <1>1 DEF ToSet
<1>3. LocalTotal(es) = SumOf(V, es)
  BY DEF LocalTotal
<1> HIDE DEF V
<1>4. \A e \in Entry : V[e] \in Nat /\ (e \notin Dir => V[e] = IF e \in File THEN Size(host, e) ELSE 0)
  BY SizeType DEF V
<1>5. PICK U : IsPart(U, host, Entry)
  BY WeightExists
<1>6. PICK W : Weighs(W, host) /\ \A e \in Entry : W[e] = U[e]
  BY <1>5, WeighsPart
<1>7. \A e \in Entry : W[e] \in Nat /\ (e \notin Dir => W[e] = V[e])
  BY <1>4, <1>6 DEF Weighs, WeightOf
<1>8. SumOf(V, es) = SumOf(W, es)
  <2>1. \A k \in 1..Len(es) : V[es[k]] = W[es[k]]
    BY <1>1, <1>2, <1>7
  <2>2. \A x \in Entry : V[x] \in Nat /\ W[x] \in Nat
    BY <1>4, <1>7
  <2> QED
    BY <2>1, <2>2, SumSame
<1> QED
  BY <1>3, <1>6, <1>8

-----------------------------------------------------------------------------
(* How much of the announced work is done.                                 *)

MonitorFields == {"started", "total", "advanced", "stopped", "canceled"}

(* The operations whose total is all of their work.                        *)
Counted(o) == o.kind # "pullPath" /\ (o.kind = "push" => ToSet(o.args) \cap Dir = {})

(* What the operation o reads from: the local files or the device's        *)
Tree(o, h, t) == IF o.kind = "push" THEN h ELSE t

(* What is left to report of the file under way                            *)
FileLeft(o, t) ==
  IF o.pc \in {"request", "answer", "create"} THEN Size(t, o.file)
  ELSE IF o.pc \in {"transfer", "data", "next", "chunk", "result"} THEN Size(t, o.file) - o.pos
  ELSE 0

(* What was announced is what has been reported, and what is left to       *)
(* report of the file under way, and the weight of what the walk has still *)
(* to visit.                                                               *)
AddsUp(o, m, t) ==
  \E W : /\ Weighs(W, t)
         /\ m.total = Capped(m.advanced + FileLeft(o, t) + SumOf(W, o.todo))

Progress(o, m, h, t) ==
  /\ Counted(o) /\ Working(o) =>
       /\ AddsUp(o, m, Tree(o, h, t))
       /\ Writing(o) => o.pos <= m.advanced
       /\ o.pc = "chunk" /\ o.eof => o.pos = Size(h, o.file)
       /\ o.pc = "result" => o.pos = Size(h, o.file)
  /\ Counted(o) /\ o.pc = "idle" /\ o.result = "ok" => m.advanced = m.total

MonitorOK(m) == DOMAIN m = MonitorFields /\ m.advanced \in 0..MaxContent

ProgressInv ==
  /\ MonitorOK(monitor)
  /\ op.pc = "mode" => op.kind = "pullPath"
  /\ stream = "inStep" => Progress(op, monitor, host, files)

-----------------------------------------------------------------------------
(* What is capped may be capped again.                                     *)
LEMMA CappedTwice ==
  ASSUME NEW a \in Nat, NEW n \in Nat, NEW r \in Nat
  PROVE  /\ Capped(Capped(a + n) + r) = Capped(a + n + r)
         /\ a <= MaxContent => Capped(a) = a
         /\ Capped(a) \in 0..MaxContent
  BY Assumed DEF Capped

(* The monitor is told of progress.                                        *)
LEMMA AdvanceOK ==
  ASSUME MonitorOK(monitor), NEW n \in Nat, Advance(n)
  PROVE  /\ MonitorOK(monitor') /\ monitor'.advanced = Capped(monitor.advanced + n)
         /\ monitor'.total = monitor.total
<1>1. monitor' = [monitor EXCEPT !.advanced = Capped(monitor.advanced + n)]
  BY DEF Advance
<1>2. DOMAIN monitor = MonitorFields /\ monitor.advanced \in Nat
  BY Assumed DEF MonitorOK
<1>3. /\ monitor'.advanced = Capped(monitor.advanced + n) /\ DOMAIN monitor' = MonitorFields
      /\ monitor'.total = monitor.total
  BY <1>1, <1>2 DEF MonitorFields
<1>4. Capped(monitor.advanced + n) \in 0..MaxContent
  <2>1. monitor.advanced + n \in Nat
    BY <1>2
  <2> QED
    BY <2>1, CappedTwice
<1> QED
  BY <1>3, <1>4 DEF MonitorOK

(* It is told of a start.                                                  *)
LEMMA StartedOK ==
  ASSUME NEW total
  PROVE  /\ MonitorOK(Started(total))
         /\ Started(total).advanced = 0 /\ Started(total).total = Capped(total)
  BY Assumed DEF Started, MonitorOK, MonitorFields

(* Nothing is said of an operation that failed, or on a connection that is *)
(* out of step.                                                            *)
LEMMA ProgressFails ==
  ASSUME MonitorOK(monitor'),
         \/ ~Working(op') /\ (op'.pc = "idle" => op'.result # "ok")
         \/ stream' # "inStep" /\ op'.pc # "mode"
  PROVE  ProgressInv'
<1>1. op'.pc # "mode"
  BY DEF Working
<1> QED
  BY <1>1 DEF ProgressInv, Progress

LEMMA ThrowProgress ==
  ASSUME MonitorOK(monitor'), NEW error \in Errors, Throw(error)
  PROVE  ProgressInv'
<1>1. op'.pc = "idle" /\ op'.result = error
  BY DEF Throw, Ended, NewOp
<1>2. error # "ok"
  BY DEF Errors
<1> QED
  BY <1>1, <1>2, ProgressFails DEF Working

LEMMA FailedProgress ==
  ASSUME TypeInv, MonitorOK(monitor'), NEW header, Failed(header)
  PROVE  ProgressInv'
<1>1. CASE Throw("TRANSFER_PROTOCOL_ERROR")
  BY <1>1, ThrowProgress, StepNames
<1>2. ASSUME NEW n, op' = [op EXCEPT !.pc = "message", !.len = n, !.header = header]
      PROVE  ProgressInv'
  <2>1. DOMAIN op = OpFields
    BY DEF TypeInv, OpOK
  <2>2. op'.pc = "message"
    BY <1>2, <2>1 DEF OpFields
  <2> QED
    BY <2>2, ProgressFails DEF Working
<1> QED
  BY <1>1, <1>2 DEF Failed

(* A step of a file that leaves as much to report as before                *)
LEMMA ProgressStays ==
  ASSUME ProgressInv, SameJob(op, op'), UNCHANGED <<monitor, files>>,
         op.kind = "push" => host' = host,
         stream' = "inStep" => stream = "inStep", Working(op), op'.pc # "mode",
         \A t : IsTree(t) => FileLeft(op', t) = FileLeft(op, t), IsTree(host), IsTree(files),
         op'.pc \notin {"idle", "chunk", "result"},
         Writing(op') => op'.pos = 0 \/ (Writing(op) /\ op'.pos = op.pos)
  PROVE  ProgressInv'
<1>1. /\ op'.kind = op.kind /\ op'.todo = op.todo /\ op'.args = op.args
  BY DEF SameJob
<1>2. SUFFICES ASSUME stream = "inStep", Counted(op)
               PROVE  Progress(op', monitor, host', files)
  BY <1>1 DEF ProgressInv, Progress, Counted
<1>3. /\ AddsUp(op, monitor, Tree(op, host, files)) /\ monitor.advanced \in 0..MaxContent
      /\ Writing(op) => op.pos <= monitor.advanced
  BY <1>2 DEF ProgressInv, Progress, MonitorOK
<1>4. Tree(op', host', files) = Tree(op, host, files) /\ IsTree(Tree(op, host, files))
  BY <1>1 DEF Tree
<1>5. AddsUp(op', monitor, Tree(op', host', files))
  BY <1>1, <1>3, <1>4 DEF AddsUp
<1>6. Writing(op') => op'.pos <= monitor.advanced
  BY <1>3, Assumed
<1> QED
  BY <1>5, <1>6 DEF Progress

(* The file under way has been reported, and there is no other.            *)
LEMMA ProgressDone ==
  ASSUME ProgressInv, TypeInv, Goto("entries"), UNCHANGED <<monitor, host, files>>,
         stream' = "inStep" => stream = "inStep", Working(op),
         stream = "inStep" /\ Counted(op) =>
           \A W : Weighs(W, Tree(op, host, files)) =>
             Capped(monitor.advanced + FileLeft(op, Tree(op, host, files)) + SumOf(W, op.todo))
               = Capped(monitor.advanced + SumOf(W, op.todo))
  PROVE  ProgressInv'
<1>1. op'.kind = op.kind /\ op'.todo = op.todo /\ op'.args = op.args /\ op'.pc = "entries"
  BY GotoJob DEF SameJob
<1>2. SUFFICES ASSUME stream = "inStep", Counted(op)
               PROVE  Progress(op', monitor, host, files)
  BY <1>1 DEF ProgressInv, Progress, Counted
<1> DEFINE t == Tree(op, host, files)
<1>3. AddsUp(op, monitor, t) /\ monitor.advanced \in Nat
  BY <1>2, Assumed DEF ProgressInv, Progress, MonitorOK
<1>4. Tree(op', host, files) = t
  BY <1>1 DEF Tree
<1>5. FileLeft(op', t) = 0
  BY <1>1 DEF FileLeft
<1>6. PICK W : /\ Weighs(W, t)
               /\ monitor.total = Capped(monitor.advanced + FileLeft(op, t) + SumOf(W, op.todo))
  BY <1>3 DEF AddsUp
<1>7. monitor.total = Capped(monitor.advanced + SumOf(W, op.todo))
  BY <1>2, <1>6
<1>8. monitor.advanced + FileLeft(op', t) = monitor.advanced
  BY <1>3, <1>5
<1>9. AddsUp(op', monitor, t)
  BY <1>1, <1>6, <1>7, <1>8 DEF AddsUp
<1> QED
  BY <1>1, <1>4, <1>9 DEF Progress, Writing

-----------------------------------------------------------------------------
(* The steps of the client keep it.                                        *)

(* What a step of the walk does to the sum of what is left to visit        *)
LEMMA WalkSums ==
  ASSUME NEW t, NEW W, Weighs(W, t), NEW s \in Seq(Entry \cup {Directory}), s # <<>>
  PROVE  /\ SumOf(W, Tail(s)) \in Nat
         /\ SumOf(W, s) = W[Head(s)] + SumOf(W, Tail(s))
         /\ Head(s) \in Dir =>
              SumOf(W, Kids[Head(s)] \o <<Directory>> \o Tail(s)) = SumOf(W, s)
<1> DEFINE S == Entry \cup {Directory}
           rest == Tail(s)
           e == Head(s)
<1>1. \A x \in S : W[x] \in Nat
  BY DEF Weighs
<1>2. rest \in Seq(S) /\ e \in S
  OBVIOUS
<1>3. SumOf(W, s) = W[e] + SumOf(W, rest)
  BY <1>1, SumHead
<1>4. SumOf(W, rest) \in Nat
  BY <1>1, <1>2, SumType
<1> HIDE DEF rest, e
<1>5. ASSUME e \in Dir
      PROVE  SumOf(W, Kids[e] \o <<Directory>> \o rest) = SumOf(W, s)
  <2>1. e \in Entry /\ Kids[e] \in Seq(Entry)
    BY <1>5, EntryClosed, KidsWithin
  <2>2. Kids[e] \in Seq(S) /\ <<Directory>> \in Seq(S)
    BY <2>1, SeqMonotonic
  <2>3. Kids[e] \o <<Directory>> \in Seq(S)
    BY <2>2, ConcatProperties
  <2>4. SumOf(W, Kids[e] \o <<Directory>>) = SumOf(W, Kids[e]) + SumOf(W, <<Directory>>)
    BY <1>1, <2>2, SumConcat
  <2>5. SumOf(W, <<Directory>>) = 1
    <3>1. SumOf(W, <<Directory>>) = W[Directory]
      BY <1>1, SumOne
    <3> QED
      BY <3>1 DEF Weighs
  <2>6. SumOf(W, (Kids[e] \o <<Directory>>) \o rest)
          = SumOf(W, Kids[e] \o <<Directory>>) + SumOf(W, rest)
    BY <1>1, <1>2, <2>3, SumConcat
  <2>7. SumOf(W, Kids[e]) \in Nat
    BY <1>1, <2>2, SumType
  <2>8. W[e] = 1 + SumOf(W, Kids[e])
    BY <1>5, <2>1 DEF Weighs, WeightOf
  <2> QED
    BY <1>3, <1>4, <2>4, <2>5, <2>6, <2>7, <2>8
<1> QED
  BY <1>3, <1>4, <1>5 DEF rest, e

LEMMA NextEntryProgress ==
  ASSUME SyncInv, ProgressInv, C_NextEntry
  PROVE  ProgressInv'
<1>1. /\ DOMAIN op = OpFields /\ op.todo \in Seq(Entry \cup {Directory}) /\ op.pc = "entries"
      /\ UNCHANGED <<host, files, stream>> /\ IsTree(host) /\ IsTree(files)
      /\ MonitorOK(monitor) /\ monitor.advanced \in Nat /\ monitor.advanced <= MaxContent
  BY Assumed DEF SyncInv, TypeInv, WorldOK, OpOK, C_NextEntry, deviceVars, ProgressInv, MonitorOK
<1> DEFINE t == Tree(op, host, files)
<1>2. ASSUME stream = "inStep", Counted(op)
      PROVE  \E W : Weighs(W, t) /\ monitor.total = Capped(monitor.advanced + SumOf(W, op.todo))
  <2>1. FileLeft(op, t) = 0 /\ Working(op)
    BY <1>1 DEF FileLeft, Working
  <2>2. AddsUp(op, monitor, t)
    BY <1>2, <2>1 DEF ProgressInv, Progress
  <2>3. monitor.advanced + FileLeft(op, t) = monitor.advanced
    BY <1>1, <2>1
  <2> QED
    BY <2>2, <2>3 DEF AddsUp
<1> HIDE DEF t
<1>3. CASE op.todo = <<>>
  <2>1. op' = Ended("ok") /\ monitor' = [monitor EXCEPT !.stopped = TRUE]
    BY <1>3 DEF C_NextEntry, Finish
  <2>2. op'.pc = "idle" /\ op'.kind = op.kind /\ op'.args = op.args
    BY <2>1 DEF Ended, NewOp
  <2>3. /\ DOMAIN monitor' = MonitorFields /\ monitor'.advanced = monitor.advanced
        /\ monitor'.total = monitor.total
    BY <1>1, <2>1 DEF MonitorOK, MonitorFields
  <2>4. MonitorOK(monitor')
    BY <1>1, <2>3 DEF MonitorOK
  <2>5. ASSUME stream = "inStep", Counted(op)
        PROVE  monitor.advanced = monitor.total
    <3>1. PICK W : monitor.total = Capped(monitor.advanced + SumOf(W, op.todo))
      BY <1>2, <2>5
    <3>2. SumOf(W, op.todo) = 0
      BY <1>3, SumEmpty
    <3>3. monitor.total = Capped(monitor.advanced)
      BY <1>1, <3>1, <3>2
    <3> QED
      BY <1>1, <3>3, CappedTwice
  <2> QED
    BY <1>1, <2>2, <2>3, <2>4, <2>5 DEF ProgressInv, Progress, Counted, Working
<1>4. CASE op.todo # <<>>
  <2> DEFINE e == Head(op.todo)  rest == Tail(op.todo)
             new == Kids[e] \o <<Directory>> \o rest
  <2>1. e \in Entry \cup {Directory} /\ rest \in Seq(Entry \cup {Directory})
    BY <1>1, <1>4
  <2>2. \/ e = Directory /\ Advance(1) /\ op' = [op EXCEPT !.todo = rest]
        \/ Throw("CANCELED") /\ monitor' = monitor
        \/ e \in Dir /\ op' = [op EXCEPT !.todo = new] /\ monitor' = monitor
        \/ Skipped(e) /\ op' = [op EXCEPT !.todo = rest] /\ monitor' = monitor
        \/ /\ e \in File /\ op' = [op EXCEPT !.todo = rest, !.file = e, !.pc = "request"]
           /\ monitor' = monitor
    BY <1>4 DEF C_NextEntry
  <2>3. ASSUME NEW W, Weighs(W, t)
        PROVE  /\ SumOf(W, rest) \in Nat /\ SumOf(W, op.todo) = W[e] + SumOf(W, rest)
               /\ e \in Dir => SumOf(W, new) = SumOf(W, op.todo)
    BY <1>1, <1>4, <2>3, WalkSums
  <2> HIDE DEF e, rest, new
  \* what is left to show of a step of the walk
  <2>4. ASSUME /\ op'.kind = op.kind /\ op'.args = op.args
               /\ op'.pc \in {"entries", "request"} /\ MonitorOK(monitor')
               /\ stream = "inStep" /\ Counted(op) => AddsUp(op', monitor', t)
        PROVE  ProgressInv'
    <3>1. Tree(op', host, files) = t /\ (Counted(op') <=> Counted(op))
      BY <2>4 DEF Tree, Counted, t
    <3>2. stream = "inStep" => Progress(op', monitor', host, files)
      BY <2>4, <3>1 DEF Progress, Writing
    <3> QED
      BY <1>1, <2>4, <3>2 DEF ProgressInv
  <2>5. CASE e = Directory /\ Advance(1) /\ op' = [op EXCEPT !.todo = rest]
    <3>1. op'.kind = op.kind /\ op'.args = op.args /\ op'.pc = "entries" /\ op'.todo = rest
      BY <1>1, <2>5 DEF OpFields
    <3>2. /\ MonitorOK(monitor') /\ monitor'.advanced = Capped(monitor.advanced + 1)
          /\ monitor'.total = monitor.total
      BY <1>1, <2>5, AdvanceOK
    <3>3. ASSUME stream = "inStep", Counted(op)
          PROVE  AddsUp(op', monitor', t)
      <4>1. PICK W : Weighs(W, t) /\ monitor.total = Capped(monitor.advanced + SumOf(W, op.todo))
        BY <1>2, <3>3
      <4>2. SumOf(W, rest) \in Nat /\ SumOf(W, op.todo) = 1 + SumOf(W, rest)
        BY <2>3, <2>5, <4>1 DEF Weighs
      <4>3. FileLeft(op', t) = 0
        BY <3>1 DEF FileLeft
      <4> DEFINE a == monitor.advanced  r == SumOf(W, rest)
      <4>4. a \in Nat /\ r \in Nat
        BY <1>1, <4>2
      <4>5. monitor.total = Capped(a + (1 + r))
        BY <4>1, <4>2
      <4> HIDE DEF a, r
      <4>6. Capped(Capped(a + 1) + r) = Capped(a + 1 + r) /\ a + 1 + r = a + (1 + r)
        BY <4>4, CappedTwice
      <4>7. Capped(a + 1) + 0 + r = Capped(a + 1) + r
        BY <4>4, CappedTwice, Assumed DEF Capped
      <4>8. monitor'.total = Capped(monitor'.advanced + FileLeft(op', t) + SumOf(W, op'.todo))
        BY <3>1, <3>2, <4>3, <4>5, <4>6, <4>7 DEF a, r
      <4> QED
        BY <4>1, <4>8 DEF AddsUp
    <3> QED
      BY <2>4, <3>1, <3>2, <3>3
  <2>6. CASE Throw("CANCELED") /\ monitor' = monitor
    BY <1>1, <2>6, ThrowProgress, StepNames
  <2>7. ASSUME NEW todo, op' = [op EXCEPT !.todo = todo], monitor' = monitor,
               \A W : Weighs(W, t) => SumOf(W, todo) = SumOf(W, op.todo)
        PROVE  ProgressInv'
    <3>1. op'.kind = op.kind /\ op'.args = op.args /\ op'.pc = "entries" /\ op'.todo = todo
      BY <1>1, <2>7 DEF OpFields
    <3>2. ASSUME stream = "inStep", Counted(op)
          PROVE  AddsUp(op', monitor', t)
      <4>1. PICK W : Weighs(W, t) /\ monitor.total = Capped(monitor.advanced + SumOf(W, op.todo))
        BY <1>2, <3>2
      <4>2. FileLeft(op', t) = 0 /\ monitor.advanced + 0 = monitor.advanced
        BY <1>1, <3>1 DEF FileLeft
      <4> QED
        BY <2>7, <3>1, <4>1, <4>2 DEF AddsUp
    <3> QED
      BY <1>1, <2>4, <2>7, <3>1, <3>2
  <2>8. CASE e \in Dir /\ op' = [op EXCEPT !.todo = new] /\ monitor' = monitor
    BY <2>3, <2>7, <2>8
  <2>9. CASE Skipped(e) /\ op' = [op EXCEPT !.todo = rest] /\ monitor' = monitor
    <3>1. ASSUME NEW W, Weighs(W, t)
          PROVE  SumOf(W, rest) = SumOf(W, op.todo)
      <4>1. e \in Entry /\ e \notin Dir /\ (e \in File => op.kind = "push" /\ e \notin DOMAIN host)
        BY <2>9, Assumed DEF Skipped, Entry
      <4>2. e \in File => Size(t, e) = 0
        BY <4>1 DEF t, Tree, Size
      <4>3. W[e] = 0
        BY <3>1, <4>1, <4>2 DEF Weighs, WeightOf
      <4> QED
        BY <2>3, <3>1, <4>3
    <3> QED
      BY <2>7, <2>9, <3>1
  <2>10. CASE /\ e \in File /\ op' = [op EXCEPT !.todo = rest, !.file = e, !.pc = "request"]
              /\ monitor' = monitor
    <3>1. /\ op'.kind = op.kind /\ op'.args = op.args /\ op'.pc = "request" /\ op'.todo = rest
          /\ op'.file = e
      BY <1>1, <2>10 DEF OpFields
    <3>2. ASSUME stream = "inStep", Counted(op)
          PROVE  AddsUp(op', monitor', t)
      <4>1. PICK W : Weighs(W, t) /\ monitor.total = Capped(monitor.advanced + SumOf(W, op.todo))
        BY <1>2, <3>2
      <4>2. e \in Entry /\ e \notin Dir
        BY <2>10, Assumed DEF Entry
      <4>3. FileLeft(op', t) = W[e] /\ W[e] \in Nat
        BY <2>10, <3>1, <4>1, <4>2 DEF FileLeft, Weighs, WeightOf
      <4>4. monitor.advanced + (W[e] + SumOf(W, rest)) = monitor.advanced + W[e] + SumOf(W, rest)
        BY <1>1, <2>3, <4>1, <4>3
      <4> QED
        BY <2>3, <2>10, <3>1, <4>1, <4>3, <4>4 DEF AddsUp
    <3> QED
      BY <1>1, <2>4, <2>10, <3>1, <3>2
  <2> QED
    BY <2>2, <2>5, <2>6, <2>7, <2>8, <2>9, <2>10
<1> QED
  BY <1>3, <1>4

(* All of the file is still to be reported.                                *)
LEMMA RequestProgress ==
  ASSUME SyncInv, ProgressInv, C_Request, stream' = "inStep" => stream = "inStep"
  PROVE  ProgressInv'
<1>1. /\ DOMAIN op = OpFields /\ op.pc = "request" /\ UNCHANGED <<host, files, monitor>>
      /\ IsTree(host) /\ IsTree(files) /\ MonitorOK(monitor)
      /\ op.kind = "push" => op.file \in DOMAIN host
  BY DEF SyncInv, TypeInv, WorldOK, OpOK, C_Request, deviceVars, ProgressInv
<1>2. \/ Throw("REMOTE_PATH_LENGTH") \/ Throw("IO")
      \/ op' = [op EXCEPT !.pc = "answer", !.header = Zeros(2), !.pos = 0,
                          !.data = Zeros(SYNC_DATA_MAX)]
      \/ op.kind = "push" /\ op' = [op EXCEPT !.pc = "chunk", !.pos = 0, !.eof = FALSE]
  BY DEF C_Request, Write
<1>3. CASE Throw("REMOTE_PATH_LENGTH") \/ Throw("IO")
  BY <1>1, <1>3, ThrowProgress, StepNames
<1>4. CASE op' = [op EXCEPT !.pc = "answer", !.header = Zeros(2), !.pos = 0,
                            !.data = Zeros(SYNC_DATA_MAX)]
  <2>1. SameJob(op, op') /\ op'.pc = "answer"
    BY <1>1, <1>4 DEF SameJob, OpFields
  <2>2. \A t : FileLeft(op', t) = FileLeft(op, t)
    BY <1>1, <2>1 DEF FileLeft, SameJob
  <2> QED
    BY <1>1, <2>1, <2>2, ProgressStays DEF Working, Writing
<1>5. CASE op.kind = "push" /\ op' = [op EXCEPT !.pc = "chunk", !.pos = 0, !.eof = FALSE]
  <2>1. /\ op'.kind = op.kind /\ op'.args = op.args /\ op'.todo = op.todo /\ op'.file = op.file
        /\ op'.pc = "chunk" /\ op'.pos = 0 /\ op'.eof = FALSE
    BY <1>1, <1>5 DEF OpFields
  <2>2. ASSUME stream = "inStep", Counted(op)
        PROVE  AddsUp(op', monitor, host)
    <3>1. AddsUp(op, monitor, host)
      BY <1>1, <1>5, <2>2 DEF ProgressInv, Progress, Working, Tree
    <3>2. FileLeft(op', host) = FileLeft(op, host)
      <4>1. Size(host, op.file) \in Nat
        BY <1>1, SizeType
      <4>2. FileLeft(op, host) = Size(host, op.file)
        BY <1>1 DEF FileLeft
      <4>3. FileLeft(op', host) = Size(host, op.file) - 0
        BY <2>1 DEF FileLeft
      <4> QED
        BY <4>1, <4>2, <4>3
    <3> QED
      BY <2>1, <3>1, <3>2 DEF AddsUp
  <2>3. stream = "inStep" => Progress(op', monitor, host, files)
    BY <1>5, <2>1, <2>2 DEF Progress, Counted, Tree, Writing
  <2> QED
    BY <1>1, <2>1, <2>3 DEF ProgressInv
<1> QED
  BY <1>2, <1>3, <1>4, <1>5

(* Nothing is said of a file whose size is not known.                      *)
LEMMA ReadModeProgress ==
  ASSUME SyncInv, ProgressInv, C_ReadMode
  PROVE  ProgressInv'
<1>1. TypeInv /\ op.pc = "mode" /\ MonitorOK(monitor) /\ op.kind = "pullPath"
  BY DEF SyncInv, C_ReadMode, ProgressInv
<1>2. \/ Throw("NO_REMOTE_OBJECT") /\ monitor' = monitor
      \/ Goto("request") /\ monitor' = [Started(0) EXCEPT !.canceled = monitor.canceled]
  BY DEF C_ReadMode
<1>3. CASE Throw("NO_REMOTE_OBJECT") /\ monitor' = monitor
  BY <1>1, <1>3, ThrowProgress, StepNames
<1>4. CASE Goto("request") /\ monitor' = [Started(0) EXCEPT !.canceled = monitor.canceled]
  <2>1. op'.kind = "pullPath" /\ op'.pc = "request"
    BY <1>1, <1>4, GotoJob DEF SameJob
  <2>2. MonitorOK(monitor')
    <3> DEFINE m == Started(0)
    <3>1. MonitorOK(m) /\ monitor' = [m EXCEPT !.canceled = monitor.canceled]
      BY <1>4, StartedOK
    <3> HIDE DEF m
    <3> QED
      BY <3>1 DEF MonitorOK, MonitorFields
  <2> QED
    BY <2>1, <2>2 DEF ProgressInv, Progress, Counted
<1> QED
  BY <1>2, <1>3, <1>4

LEMMA ReadAnswerProgress ==
  ASSUME SyncInv, ProgressInv, C_ReadAnswer, stream' = "inStep" => stream = "inStep"
  PROVE  ProgressInv'
<1> DEFINE header == Received(2, op.header)
<1>1. /\ TypeInv /\ DOMAIN op = OpFields /\ op.pc = "answer" /\ MonitorOK(monitor)
      /\ UNCHANGED <<host, files, monitor>> /\ IsTree(host) /\ IsTree(files)
  BY DEF SyncInv, TypeInv, WorldOK, OpOK, C_ReadAnswer, deviceVars, ProgressInv
<1>2. op' = [op EXCEPT !.header = header, !.pc = "create"] \/ Failed(header)
  BY DEF C_ReadAnswer
<1> HIDE DEF header
<1>3. CASE op' = [op EXCEPT !.header = header, !.pc = "create"]
  <2>1. SameJob(op, op') /\ op'.pc = "create"
    BY <1>1, <1>3 DEF SameJob, OpFields
  <2>2. \A t : FileLeft(op', t) = FileLeft(op, t)
    BY <1>1, <2>1 DEF FileLeft, SameJob
  <2> QED
    BY <1>1, <2>1, <2>2, ProgressStays DEF Working, Writing
<1>4. CASE Failed(header)
  BY <1>1, <1>4, FailedProgress
<1> QED
  BY <1>2, <1>3, <1>4

LEMMA CreateProgress ==
  ASSUME SyncInv, ProgressInv, C_Create, stream' = "inStep" => stream = "inStep"
  PROVE  ProgressInv'
<1>1. /\ TypeInv /\ op.pc = "create" /\ op.pos = 0 /\ MonitorOK(monitor) /\ op.kind # "push"
      /\ UNCHANGED <<files, monitor>> /\ IsTree(host) /\ IsTree(files)
  BY DEF SyncInv, TypeInv, WorldOK, OpOK, C_Create, deviceVars, ProgressInv, Pulling
<1>2. CASE Throw("FILE_WRITE_ERROR")
  BY <1>1, <1>2, ThrowProgress, StepNames
<1>3. CASE Goto("transfer")
  <2>1. SameJob(op, op') /\ op'.pc = "transfer" /\ op'.pos = 0
    BY <1>1, <1>3, GotoJob
  <2>2. \A t : IsTree(t) => FileLeft(op', t) = FileLeft(op, t)
    <3>1. \A t : IsTree(t) => Size(t, op.file) \in Nat
      BY SizeType
    <3> QED
      BY <1>1, <2>1, <3>1 DEF FileLeft, SameJob
  <2> QED
    BY <1>1, <2>1, <2>2, ProgressStays DEF Working, Writing
<1> QED
  BY <1>2, <1>3 DEF C_Create

(* What is left of a file ends where it ends.                              *)
LEMMA CheckHeaderProgress ==
  ASSUME SyncInv, ProgressInv, C_CheckHeader, stream' = "inStep" => stream = "inStep"
  PROVE  ProgressInv'
<1>1. /\ TypeInv /\ DOMAIN op = OpFields /\ op.pc = "transfer" /\ MonitorOK(monitor)
      /\ UNCHANGED <<host, files, monitor>> /\ IsTree(host) /\ IsTree(files)
  BY DEF SyncInv, TypeInv, WorldOK, OpOK, C_CheckHeader, deviceVars, ProgressInv
<1>2. \/ Throw("CANCELED") \/ Throw("BUFFER_OVERRUN") \/ Failed(op.header)
      \/ Is(op.header, "DONE") /\ Goto("entries")
      \/ \E n : op' = [op EXCEPT !.len = n, !.pc = "data"]
  BY DEF C_CheckHeader, FileDone
<1>3. CASE Throw("CANCELED") \/ Throw("BUFFER_OVERRUN")
  BY <1>1, <1>3, ThrowProgress, StepNames
<1>4. CASE Failed(op.header)
  BY <1>1, <1>4, FailedProgress
<1>5. ASSUME NEW n, op' = [op EXCEPT !.len = n, !.pc = "data"]
      PROVE  ProgressInv'
  <2>1. SameJob(op, op') /\ op'.pc = "data" /\ op'.pos = op.pos
    BY <1>1, <1>5 DEF SameJob, OpFields
  <2>2. \A t : FileLeft(op', t) = FileLeft(op, t)
    BY <1>1, <2>1 DEF FileLeft, SameJob
  <2> QED
    BY <1>1, <2>1, <2>2, ProgressStays DEF Working, Writing
<1>6. CASE Is(op.header, "DONE") /\ Goto("entries")
  <2>1. ASSUME stream = "inStep", Counted(op), NEW W, Weighs(W, Tree(op, host, files))
        PROVE  Capped(monitor.advanced + FileLeft(op, Tree(op, host, files)) + SumOf(W, op.todo))
                 = Capped(monitor.advanced + SumOf(W, op.todo))
    <3> DEFINE c == files[op.file]  r == SumOf(W, op.todo)  a == monitor.advanced
    <3>1. Talking /\ op.file \in DOMAIN files /\ op.kind # "push"
      BY <1>1, <2>1, PullingTalks
    <3>2. PICK p \in Nat : op.pos = Capped(p) /\ Announced(device, down, op.header, c, p)
      BY <1>1, <3>1 DEF Talking, Talk, Heading
    <3>3. p = Len(c)
      BY <1>6, <3>2, Ids DEF Announced, Is
    <3>4. FileLeft(op, Tree(op, host, files)) = Len(c) - op.pos
      BY <1>1, <3>1 DEF FileLeft, Tree, Size
    <3>5. a \in Nat /\ op.pos <= a /\ a <= MaxContent
      BY <1>1, <2>1, Assumed DEF ProgressInv, Progress, MonitorOK, Working, Writing
    <3>6. r \in Nat
      <4>1. \A x \in Entry \cup {Directory} : W[x] \in Nat
        BY <2>1 DEF Weighs
      <4>2. op.todo \in Seq(Entry \cup {Directory})
        BY <1>1 DEF TypeInv, OpOK
      <4> QED
        BY <4>1, <4>2, SumType
    <3>7. Len(c) \in Nat /\ op.pos = Capped(Len(c))
      BY <3>2, <3>3
    <3> HIDE DEF c, r, a
    <3>8. Capped(a + (Len(c) - op.pos) + r) = Capped(a + r)
      <4>1. CASE op.pos = Len(c)
        BY <3>5, <3>6, <3>7, <4>1
      <4>2. CASE op.pos # Len(c)
        <5> DEFINE l == Len(c)
        <5>1. l > MaxContent /\ op.pos = MaxContent /\ MaxContent \in Nat /\ l \in Nat
          BY <3>7, <4>2, Assumed DEF Capped
        <5> HIDE DEF l
        <5>2. a = MaxContent
          BY <3>5, <5>1
        <5>3. a + (l - op.pos) + r > MaxContent
          BY <3>6, <5>1, <5>2
        <5>4. Capped(a + (l - op.pos) + r) = MaxContent
          BY <5>3 DEF Capped
        <5>5. Capped(a + r) = MaxContent
          BY <3>6, <5>1, <5>2 DEF Capped
        <5> QED
          BY <5>4, <5>5 DEF l
      <4> QED
        BY <4>1, <4>2
    <3> QED
      BY <3>4, <3>8 DEF a, r
  <2> QED
    BY <1>1, <1>6, <2>1, ProgressDone DEF Working
<1> QED
  BY <1>2, <1>3, <1>4, <1>5, <1>6

LEMMA ReadDataProgress ==
  ASSUME SyncInv, ProgressInv, C_ReadData, stream' = "inStep" => stream = "inStep"
  PROVE  ProgressInv'
<1> DEFINE data == Received(op.len, op.data)
<1>1. /\ DOMAIN op = OpFields /\ op.pc = "data" /\ UNCHANGED <<host, files, monitor>>
      /\ IsTree(host) /\ IsTree(files)
  BY DEF SyncInv, TypeInv, WorldOK, OpOK, C_ReadData, deviceVars
<1>2. op' = [op EXCEPT !.data = data, !.pc = "next"]
  BY DEF C_ReadData
<1> HIDE DEF data
<1>3. SameJob(op, op') /\ op'.pc = "next" /\ op'.pos = op.pos
  BY <1>1, <1>2 DEF SameJob, OpFields
<1>4. \A t : FileLeft(op', t) = FileLeft(op, t)
  BY <1>1, <1>3 DEF FileLeft, SameJob
<1> QED
  BY <1>1, <1>3, <1>4, ProgressStays DEF Working, Writing

(* A chunk is reported, and the place moves behind it.                     *)
LEMMA ReadNextProgress ==
  ASSUME SyncInv, ProgressInv, C_ReadNext, stream' = "inStep" => stream = "inStep"
  PROVE  ProgressInv'
<1> DEFINE n == op.len  header == Received(2, op.header)  pos == Capped(op.pos + n)
<1>1. /\ TypeInv /\ DOMAIN op = OpFields /\ op.pc = "next" /\ files' = files
      /\ n \in Nat /\ op.pos \in Nat /\ op.kind # "push" /\ MonitorOK(monitor)
      /\ IsTree(files)
  BY DEF SyncInv, TypeInv, WorldOK, OpOK, C_ReadNext, deviceVars, ProgressInv, Pulling
<1>2. op' = [op EXCEPT !.header = header, !.pc = "transfer", !.pos = pos] /\ Advance(n)
  BY DEF C_ReadNext
<1> HIDE DEF header, pos
<1>3. SameJob(op, op') /\ op'.pc = "transfer" /\ op'.pos = pos
  BY <1>1, <1>2 DEF SameJob, OpFields
<1>4. /\ MonitorOK(monitor') /\ monitor'.advanced = Capped(monitor.advanced + n)
      /\ monitor'.total = monitor.total
  BY <1>1, <1>2, AdvanceOK
<1>5. SUFFICES ASSUME stream = "inStep", Counted(op)
               PROVE  AddsUp(op', monitor', files) /\ pos <= monitor'.advanced
  BY <1>1, <1>3, <1>4 DEF ProgressInv, Progress, SameJob, Counted, Tree
<1> DEFINE c == files[op.file]  l == Len(c)  a == monitor.advanced
<1>6. /\ Talking /\ op.file \in DOMAIN files
  BY <1>1, <1>5, PullingTalks
<1>7. PICK p \in Nat : op.pos = Capped(p) /\ Matches(op.data, 0, c, p, n)
  BY <1>1, <1>6 DEF Talking, Talk, HasRead
<1>8. p + n <= l /\ l \in Nat
  <2>1. c \in Seq(Words)
    BY <1>1, <1>6 DEF IsTree
  <2> QED
    BY <1>7, <2>1, LenProperties DEF Matches
<1>9. AddsUp(op, monitor, files) /\ op.pos <= a /\ a \in Nat /\ a <= MaxContent
  BY <1>1, <1>5, Assumed DEF ProgressInv, Progress, MonitorOK, Working, Writing, Tree
<1>10. FileLeft(op, files) = l - op.pos /\ FileLeft(op', files) = l - pos
  BY <1>1, <1>3, <1>6 DEF FileLeft, Size, SameJob
<1>11. PICK W : Weighs(W, files) /\ monitor.total = Capped(a + FileLeft(op, files) + SumOf(W, op.todo))
  BY <1>9 DEF AddsUp
<1> DEFINE r == SumOf(W, op.todo)
<1>12. r \in Nat
  <2>1. \A x \in Entry \cup {Directory} : W[x] \in Nat
    BY <1>11 DEF Weighs
  <2>2. op.todo \in Seq(Entry \cup {Directory})
    BY <1>1 DEF TypeInv, OpOK
  <2> QED
    BY <2>1, <2>2, SumType
<1>13. monitor.total = Capped(a + (l - op.pos) + r)
  BY <1>10, <1>11
<1> HIDE DEF c, l, r
<1>14. Capped(a + (l - op.pos) + r) = Capped(Capped(a + n) + (l - pos) + r)
  <2>0. n \in Nat /\ op.pos \in Nat /\ a \in Nat /\ pos = Capped(op.pos + n) /\ MaxContent \in Nat
    BY <1>1, <1>9, Assumed DEF pos
  <2> DEFINE q == op.pos
  <2>1. q \in Nat /\ q <= a /\ q = Capped(p) /\ pos = Capped(q + n)
    BY <1>7, <1>9, <2>0
  <2> HIDE DEF a, n, q
  <2>2. CASE a + n <= MaxContent
    <3>1. q + n <= MaxContent
      BY <1>9, <2>0, <2>1, <2>2
    <3>2. pos = q + n /\ Capped(a + n) = a + n
      BY <2>0, <2>1, <2>2, <3>1 DEF Capped
    <3>3. a + (l - q) + r = (a + n) + (l - (q + n)) + r
      BY <1>8, <1>12, <2>0, <2>1
    <3> QED
      BY <3>2, <3>3 DEF q
  <2>3. CASE ~(a + n <= MaxContent)
    <3>1. Capped(a + n) = MaxContent
      BY <2>0, <2>3 DEF Capped
    <3>2. pos <= MaxContent /\ pos \in Nat /\ pos <= p + n
      <4>1. pos = Capped(p + n)
        BY <2>0, <2>1, CappedAdd
      <4>2. p + n \in Nat
        BY <2>0
      <4> QED
        BY <2>0, <4>1, <4>2 DEF Capped
    <3>3. l - pos \in Nat
      BY <1>8, <2>0, <3>2
    <3>4. Capped(MaxContent + (l - pos) + r) = MaxContent
      <4>1. MaxContent + (l - pos) + r >= MaxContent
        BY <1>12, <2>0, <3>3
      <4>2. MaxContent + (l - pos) + r \in Nat
        BY <1>12, <2>0, <3>3
      <4> QED
        BY <2>0, <4>1, <4>2 DEF Capped
    <3>5. a + (l - q) + r > MaxContent \/ a + (l - q) + r = MaxContent
      <4>1. q <= p
        BY <2>1, CappedAdd
      <4>2. l - q >= n
        BY <1>8, <2>0, <2>1, <4>1
      <4> QED
        BY <1>8, <1>12, <2>0, <2>1, <2>3, <4>2
    <3>6. Capped(a + (l - q) + r) = MaxContent
      BY <3>5 DEF Capped
    <3> QED
      BY <3>1, <3>4, <3>6 DEF q
  <2> QED
    BY <2>2, <2>3
<1>15. AddsUp(op', monitor', files)
  <2>1. monitor'.total = Capped(monitor'.advanced + FileLeft(op', files) + SumOf(W, op'.todo))
    BY <1>3, <1>4, <1>10, <1>13, <1>14 DEF SameJob, r
  <2> QED
    BY <1>11, <2>1 DEF AddsUp
<1>16. pos <= monitor'.advanced
  <2>1. pos = Capped(op.pos + n) /\ monitor'.advanced = Capped(a + n)
    BY <1>4 DEF pos
  <2>2. op.pos \in Nat /\ n \in Nat /\ op.pos <= a /\ a \in Nat
    BY <1>1, <1>9
  <2> HIDE DEF a, n
  <2> QED
    BY <2>1, <2>2, Assumed DEF Capped
<1> QED
  BY <1>15, <1>16

(* A chunk of a push is reported when it has been sent.                    *)
LEMMA SendChunkProgress ==
  ASSUME SyncInv, ProgressInv, C_SendChunk, stream' = "inStep" => stream = "inStep"
  PROVE  ProgressInv'
<1> DEFINE n == ReadCount  pos == op.pos + n  eof == Rest < CHUNK
<1>1. /\ TypeInv /\ DOMAIN op = OpFields /\ op.pc = "chunk" /\ op.kind = "push"
      /\ UNCHANGED <<host, files>> /\ MonitorOK(monitor) /\ IsTree(host) /\ OpOK(op, host)
      /\ op.pos \in Nat /\ op.file \in DOMAIN host
  BY DEF SyncInv, TypeInv, WorldOK, OpOK, C_SendChunk, deviceVars, ProgressInv
<1>2. /\ n \in Nat /\ op.pos + n <= Len(host[op.file]) /\ host[op.file] \in Seq(Words)
  BY <1>1, OpChunk
<1>3. \/ Throw("CANCELED") /\ monitor' = monitor
      \/ Throw("IO") /\ monitor' = monitor
      \/ op' = [op EXCEPT !.pos = pos, !.eof = eof] /\ Advance(n)
  BY DEF C_SendChunk, Write
<1>4. CASE (Throw("CANCELED") \/ Throw("IO")) /\ monitor' = monitor
  BY <1>1, <1>4, ThrowProgress, StepNames
<1>5. CASE op' = [op EXCEPT !.pos = pos, !.eof = eof] /\ Advance(n)
  <2> DEFINE l == Len(host[op.file])  a == monitor.advanced
  <2>1. l \in Nat /\ l - pos \in Nat /\ l - op.pos = n + (l - pos) /\ Size(host, op.file) = l
    <3>1. l \in Nat /\ Size(host, op.file) = l
      BY <1>1, <1>2, LenProperties DEF Size
    <3> HIDE DEF n, l
    <3>2. op.pos + n <= l
      BY <1>2 DEF l
    <3> QED
      BY <1>1, <1>2, <3>1, <3>2
  <2>2. eof => pos = l
    <3>1. Rest = l - op.pos
      BY <2>1 DEF Rest
    <3>2. eof => n = Rest
      BY DEF ReadCount
    <3> HIDE DEF n, l, eof
    <3> QED
      BY <1>1, <2>1, <3>1, <3>2
  <2> HIDE DEF n, pos, eof, l
  <2>3. /\ op'.kind = op.kind /\ op'.args = op.args /\ op'.todo = op.todo /\ op'.file = op.file
        /\ op'.pc = "chunk" /\ op'.pos = pos /\ op'.eof = eof
    BY <1>1, <1>5 DEF OpFields
  <2>4. /\ MonitorOK(monitor') /\ monitor'.advanced = Capped(a + n)
        /\ monitor'.total = monitor.total
    BY <1>1, <1>2, <1>5, AdvanceOK
  <2>5. ASSUME stream = "inStep", Counted(op)
        PROVE  AddsUp(op', monitor', host)
    <3>1. AddsUp(op, monitor, host) /\ a \in Nat
      BY <1>1, <2>5, Assumed DEF ProgressInv, Progress, MonitorOK, Working, Tree
    <3>2. FileLeft(op, host) = l - op.pos /\ FileLeft(op', host) = l - pos
      BY <1>1, <2>1, <2>3 DEF FileLeft
    <3>3. PICK W : /\ Weighs(W, host)
                   /\ monitor.total = Capped(a + FileLeft(op, host) + SumOf(W, op.todo))
      BY <3>1 DEF AddsUp
    <3> DEFINE r == SumOf(W, op.todo)
    <3>4. r \in Nat
      <4>1. \A x \in Entry \cup {Directory} : W[x] \in Nat
        BY <3>3 DEF Weighs
      <4>2. op.todo \in Seq(Entry \cup {Directory})
        BY <1>1 DEF TypeInv, OpOK
      <4> QED
        BY <4>1, <4>2, SumType
    <3>5. monitor.total = Capped(a + (l - op.pos) + r)
      BY <3>2, <3>3
    <3> HIDE DEF r, a
    <3>6. Capped(a + (l - op.pos) + r) = Capped(Capped(a + n) + (l - pos) + r)
      <4> DEFINE k == l - pos
      <4>1. k \in Nat /\ l - op.pos = n + k
        BY <2>1
      <4> HIDE DEF k
      <4>2. k + r \in Nat
        BY <3>4, <4>1
      <4>3. Capped(Capped(a + n) + (k + r)) = Capped(a + n + (k + r))
        BY <1>2, <3>1, <4>2, CappedTwice DEF a
      <4>4. a + n + (k + r) = a + (n + k) + r
        BY <1>2, <3>1, <3>4, <4>1 DEF a
      <4>5. Capped(a + n) \in Nat
        <5>1. a + n \in Nat
          BY <1>2, <3>1 DEF a
        <5>2. Capped(a + n) \in 0..MaxContent
          BY <5>1, CappedTwice
        <5> QED
          BY <5>2
      <4>6. Capped(a + n) + (k + r) = Capped(a + n) + k + r
        BY <3>4, <4>1, <4>5
      <4> QED
        BY <4>1, <4>3, <4>4, <4>6 DEF k
    <3>7. monitor'.total = Capped(monitor'.advanced + FileLeft(op', host) + SumOf(W, op'.todo))
      BY <2>3, <2>4, <3>2, <3>5, <3>6 DEF r, a
    <3> QED
      BY <3>3, <3>7 DEF AddsUp
  <2>6. stream = "inStep" => Progress(op', monitor', host, files)
    <3>1. op'.eof => op'.pos = Size(host, op'.file)
      BY <2>1, <2>2, <2>3
    <3>2. Tree(op', host, files) = host /\ (Counted(op') <=> Counted(op)) /\ op'.pc = "chunk"
      BY <1>1, <2>3 DEF Tree, Counted
    <3> QED
      BY <2>5, <3>1, <3>2 DEF Progress, Writing
  <2> QED
    BY <1>1, <2>3, <2>4, <2>6 DEF ProgressInv
<1> QED
  BY <1>3, <1>4, <1>5

(* All of the file has been reported when its end is sent.                 *)
LEMMA SendDoneProgress ==
  ASSUME SyncInv, ProgressInv, C_SendDone, stream' = "inStep" => stream = "inStep"
  PROVE  ProgressInv'
<1>1. /\ TypeInv /\ op.pc = "chunk" /\ op.eof /\ UNCHANGED <<host, files, monitor>>
      /\ MonitorOK(monitor) /\ op.kind = "push"
  BY DEF SyncInv, TypeInv, OpOK, C_SendDone, deviceVars, ProgressInv
<1>2. Throw("IO") \/ Goto("result")
  BY DEF C_SendDone, Write
<1>3. CASE Throw("IO")
  BY <1>1, <1>3, ThrowProgress, StepNames
<1>4. CASE Goto("result")
  <2>1. /\ op'.kind = op.kind /\ op'.args = op.args /\ op'.todo = op.todo /\ op'.file = op.file
        /\ op'.pc = "result" /\ op'.pos = op.pos
    BY <1>1, <1>4, GotoJob DEF SameJob
  <2>2. FileLeft(op', host) = FileLeft(op, host)
    BY <1>1, <2>1 DEF FileLeft
  <2>3. ASSUME stream = "inStep", Counted(op)
        PROVE  AddsUp(op', monitor, host) /\ op.pos = Size(host, op.file)
    <3>1. AddsUp(op, monitor, host) /\ op.pos = Size(host, op.file)
      BY <1>1, <2>3 DEF ProgressInv, Progress, Working, Tree
    <3> QED
      BY <2>1, <2>2, <3>1 DEF AddsUp
  <2>4. stream = "inStep" => Progress(op', monitor, host, files)
    BY <1>1, <2>1, <2>3 DEF Progress, Counted, Tree, Writing
  <2> QED
    BY <1>1, <2>1, <2>4 DEF ProgressInv
<1> QED
  BY <1>2, <1>3, <1>4

LEMMA ReadResultProgress ==
  ASSUME SyncInv, ProgressInv, C_ReadResult, stream' = "inStep" => stream = "inStep"
  PROVE  ProgressInv'
<1> DEFINE result == Received(2, Zeros(2))
<1>1. /\ TypeInv /\ op.pc = "result" /\ op.kind = "push" /\ UNCHANGED <<host, files, monitor>>
      /\ MonitorOK(monitor) /\ IsTree(host)
  BY DEF SyncInv, TypeInv, WorldOK, OpOK, C_ReadResult, deviceVars, ProgressInv
<1>2. Goto("entries") \/ Failed(result)
  BY DEF C_ReadResult, FileDone
<1> HIDE DEF result
<1>3. CASE Failed(result)
  BY <1>1, <1>3, FailedProgress
<1>4. CASE Goto("entries")
  <2>1. Tree(op, host, files) = host
    BY <1>1 DEF Tree
  <2>2. ASSUME stream = "inStep", Counted(op)
        PROVE  FileLeft(op, host) = 0 /\ monitor.advanced \in Nat
    <3>1. op.pos = Size(host, op.file) /\ monitor.advanced \in Nat
      BY <1>1, <2>2, Assumed DEF ProgressInv, Progress, Working, MonitorOK
    <3>2. Size(host, op.file) \in Nat
      BY <1>1, SizeType
    <3> QED
      BY <1>1, <3>1, <3>2 DEF FileLeft
  <2>3. ASSUME stream = "inStep", Counted(op)
        PROVE  monitor.advanced + FileLeft(op, host) = monitor.advanced
    BY <2>2, <2>3
  <2> QED
    BY <1>1, <1>4, <2>1, <2>3, ProgressDone DEF Working
<1> QED
  BY <1>2, <1>3, <1>4

(* The steps behind which there is no success                              *)
LEMMA ReadMessageProgress ==
  ASSUME SyncInv, ProgressInv, C_ReadMessage \/ C_ReadsOn
  PROVE  ProgressInv'
<1>1. TypeInv /\ MonitorOK(monitor) /\ monitor' = monitor
  BY DEF SyncInv, ProgressInv, C_ReadMessage, C_ReadsOn
<1>2. CASE Throw("TRANSFER_PROTOCOL_ERROR") \/ Throw("IO")
  BY <1>1, <1>2, ThrowProgress, StepNames
<1>3. CASE Goto("undefined") \/ Goto("spinning")
  <2>1. op'.pc \in {"undefined", "spinning"}
    BY <1>1, <1>3, GotoJob
  <2> QED
    BY <1>1, <2>1, ProgressFails DEF Working
<1> QED
  BY <1>2, <1>3 DEF C_ReadMessage, MessageRead, C_ReadsOn

LEMMA ClientProgress ==
  ASSUME SyncInv, ProgressInv, Client
  PROVE  ProgressInv'
<1>1. stream' = "inStep" => stream = "inStep"
  BY ClientInTouch
<1> QED
  BY <1>1, NextEntryProgress, RequestProgress, ReadModeProgress, ReadAnswerProgress,
     CreateProgress, CheckHeaderProgress, ReadDataProgress, ReadNextProgress,
     SendChunkProgress, SendDoneProgress, ReadResultProgress, ReadMessageProgress
  DEF Client

-----------------------------------------------------------------------------
(* The steps of the others keep it too.                                    *)

(* The announced total of a walk is the weight of what it is to visit.     *)
LEMMA WalkProgress ==
  ASSUME TypeInv, UNCHANGED <<host, files>>, NEW kind, NEW es \in Seq(Entry), NEW total,
         op' = NewOp(kind, es, "entries"), monitor' = Started(total),
         Counted(op') => \E W : Weighs(W, Tree(op', host, files)) /\ total = SumOf(W, es)
  PROVE  ProgressInv'
<1>1. /\ op'.pc = "entries" /\ op'.todo = es
  BY DEF NewOp
<1>2. MonitorOK(monitor') /\ monitor'.advanced = 0 /\ monitor'.total = Capped(total)
  BY StartedOK
<1> DEFINE t == Tree(op', host, files)
<1>3. ASSUME Counted(op')
      PROVE  AddsUp(op', monitor', t)
  <2>1. PICK W : Weighs(W, t) /\ total = SumOf(W, es)
    BY <1>3
  <2>2. FileLeft(op', t) = 0
    BY <1>1 DEF FileLeft
  <2>3. SumOf(W, es) \in Nat
    <3>1. \A x \in Entry : W[x] \in Nat
      BY <2>1 DEF Weighs
    <3> QED
      BY <3>1, SumType
  <2>4. 0 + FileLeft(op', t) + SumOf(W, es) = SumOf(W, es)
    BY <2>2, <2>3
  <2>5. monitor'.total = Capped(monitor'.advanced + FileLeft(op', t) + SumOf(W, op'.todo))
    BY <1>1, <1>2, <2>1, <2>4
  <2> QED
    BY <2>1, <2>5 DEF AddsUp
<1>4. Progress(op', monitor', host, files)
  BY <1>1, <1>3 DEF Progress, Writing
<1> QED
  BY <1>1, <1>2, <1>4 DEF ProgressInv

(* That of one file is its size.                                           *)
LEMMA OnFileProgress ==
  ASSUME TypeInv, UNCHANGED <<host, files>>, NEW kind, NEW f \in File,
         op' = [NewOp(kind, <<f>>, "request") EXCEPT !.todo = <<>>, !.file = f],
         monitor' = Started(Size(Tree(op', host, files), f))
  PROVE  ProgressInv'
<1> DEFINE n == NewOp(kind, <<f>>, "request")  t == Tree(op', host, files)
<1>1. DOMAIN n = OpFields /\ n.pc = "request"
  BY DEF NewOp, OpFields
<1> HIDE DEF n
<1>2. op' = [n EXCEPT !.todo = <<>>, !.file = f]
  BY DEF n
<1>3. op'.pc = "request" /\ op'.file = f /\ op'.todo = <<>>
  BY <1>1, <1>2 DEF OpFields
<1>4. IsTree(t)
  BY DEF TypeInv, WorldOK, Tree
<1> HIDE DEF t
<1> DEFINE size == Size(t, f)
<1>5. MonitorOK(monitor') /\ monitor'.advanced = 0 /\ monitor'.total = Capped(size)
  <2>1. monitor' = Started(size)
    BY DEF t
  <2> HIDE DEF size
  <2> QED
    BY <2>1, StartedOK
<1>6. size \in Nat /\ FileLeft(op', t) = size
  BY <1>3, <1>4, SizeType DEF FileLeft
<1> HIDE DEF size
<1>7. AddsUp(op', monitor', t)
  <2>1. PICK U : IsPart(U, t, Entry)
    BY <1>4, WeightExists
  <2>2. PICK W : Weighs(W, t)
    BY <2>1, WeighsPart
  <2>3. SumOf(W, op'.todo) = 0
    BY <1>3, SumEmpty
  <2>4. monitor'.advanced + FileLeft(op', t) + SumOf(W, op'.todo) = size
    BY <1>5, <1>6, <2>3
  <2> QED
    BY <1>5, <2>2, <2>4 DEF AddsUp
<1>8. Progress(op', monitor', host, files)
  BY <1>3, <1>7 DEF Progress, Writing, t
<1> QED
  BY <1>3, <1>5, <1>8 DEF ProgressInv

(* Of what is refused nothing is announced.                                *)
LEMMA RefusedProgress ==
  ASSUME ProgressInv, monitor' = monitor, NEW kind, NEW args, NEW error \in Errors,
         op' = [NewOp(kind, args, "idle") EXCEPT !.result = error]
  PROVE  ProgressInv'
<1> DEFINE n == NewOp(kind, args, "idle")
<1>1. DOMAIN n = OpFields /\ n.pc = "idle"
  BY DEF NewOp, OpFields
<1> HIDE DEF n
<1>2. op' = [n EXCEPT !.result = error]
  BY DEF n
<1>3. op'.pc = "idle" /\ op'.result = error
  BY <1>1, <1>2 DEF OpFields
<1>4. error # "ok"
  BY DEF Errors
<1>5. MonitorOK(monitor')
  BY DEF ProgressInv
<1> QED
  BY <1>3, <1>4, <1>5, ProgressFails DEF Working

(* The size of a file is asked for in vain.                                *)
LEMMA PullPathProgress ==
  ASSUME ProgressInv, NEW f \in File, U_PullPath(f)
  PROVE  ProgressInv'
<1>1. MonitorOK(monitor')
  <2>1. MonitorOK(monitor)
        /\ monitor' \in {monitor, [monitor EXCEPT !.started = FALSE, !.canceled = FALSE]}
    BY DEF ProgressInv, U_PullPath, Write
  <2> QED
    BY <2>1 DEF MonitorOK, MonitorFields
<1>2. \/ op' = [NewOp("pullPath", <<f>>, "mode") EXCEPT !.todo = <<>>, !.file = f]
      \/ Throw("IO")
  BY DEF U_PullPath, Write
<1>3. CASE op' = [NewOp("pullPath", <<f>>, "mode") EXCEPT !.todo = <<>>, !.file = f]
  <2> DEFINE n == NewOp("pullPath", <<f>>, "mode")
  <2>1. DOMAIN n = OpFields /\ n.kind = "pullPath" /\ n.pc = "mode"
    BY DEF NewOp, OpFields
  <2> HIDE DEF n
  <2>2. op' = [n EXCEPT !.todo = <<>>, !.file = f]
    BY <1>3 DEF n
  <2>3. op'.kind = "pullPath" /\ op'.pc = "mode"
    BY <2>1, <2>2 DEF OpFields
  <2> QED
    BY <1>1, <2>3 DEF ProgressInv, Progress, Counted
<1>4. CASE Throw("IO")
  BY <1>1, <1>4, ThrowProgress, StepNames
<1> QED
  BY <1>2, <1>3, <1>4

(* A cancellation is not progress.                                         *)
LEMMA SameProgress ==
  ASSUME ProgressInv, UNCHANGED <<op, host, files>>, stream' = "inStep" => stream = "inStep",
         monitor' = monitor \/ monitor' = [monitor EXCEPT !.canceled = TRUE]
  PROVE  ProgressInv'
<1>1. MonitorOK(monitor)
  BY DEF ProgressInv
<1>2. /\ MonitorOK(monitor') /\ monitor'.advanced = monitor.advanced
      /\ monitor'.total = monitor.total
  BY <1>1 DEF MonitorOK, MonitorFields
<1>3. AddsUp(op', monitor', Tree(op', host, files)) <=> AddsUp(op, monitor, Tree(op, host, files))
  BY <1>2 DEF AddsUp
<1>4. Progress(op, monitor, host, files) => Progress(op', monitor', host, files)
  BY <1>2, <1>3 DEF Progress
<1> QED
  BY <1>2, <1>4 DEF ProgressInv

LEMMA UserProgress ==
  ASSUME SyncInv, ProgressInv, User
  PROVE  ProgressInv'
<1>1. TypeInv /\ IsTree(host) /\ IsTree(files) /\ MonitorOK(monitor)
  BY DEF SyncInv, TypeInv, WorldOK, ProgressInv
<1>2. CASE U_Open
  <2>1. op' = NewOp("pull", <<>>, "idle") /\ monitor' = monitor
    BY <1>2 DEF U_Open
  <2>2. op'.pc = "idle" /\ op'.result = "none"
    BY <2>1 DEF NewOp
  <2> QED
    BY <1>1, <2>1, <2>2, ProgressFails DEF Working
<1>3. CASE U_Drop \/ U_Cancel
  BY <1>3, SameProgress DEF U_Drop, U_Cancel, deviceVars
<1>4. ASSUME NEW es \in Selections, U_Pull(es)
      PROVE  ProgressInv'
  <2>1. UNCHANGED <<host, files>> /\ es \in Seq(Entry)
    BY <1>4, Assumed DEF U_Pull, Asked, deviceVars
  <2>2. CASE op' = NewOp("pull", es, "entries") /\ monitor' = Started(RemoteTotal(es))
    <3>1. Tree(op', host, files) = files
      BY <2>2 DEF NewOp, Tree
    <3>2. \E W : Weighs(W, files) /\ RemoteTotal(es) = SumOf(W, es)
      BY <1>1, <2>1, RemoteTotalIs
    <3> QED
      BY <1>1, <2>1, <2>2, <3>1, <3>2, WalkProgress
  <2>3. CASE /\ \E error \in {"NO_DIR_TARGET", "TARGET_IS_FILE"} :
                  op' = [NewOp("pull", es, "idle") EXCEPT !.result = error]
             /\ UNCHANGED monitor
    <3>1. {"NO_DIR_TARGET", "TARGET_IS_FILE"} \subseteq Errors
      BY DEF Errors
    <3> QED
      BY <2>3, <3>1, RefusedProgress
  <2> QED
    BY <1>4, <2>2, <2>3 DEF U_Pull
<1>5. ASSUME NEW es \in Selections, U_Push(es)
      PROVE  ProgressInv'
  <2>1. UNCHANGED <<host, files>> /\ es \in Seq(Entry)
    BY <1>5, Assumed DEF U_Push, Asked, deviceVars
  <2>2. CASE op' = NewOp("push", es, "entries") /\ monitor' = Started(LocalTotal(es))
    <3>1. Tree(op', host, files) = host /\ (Counted(op') => ToSet(es) \cap Dir = {})
      BY <2>2 DEF NewOp, Tree, Counted
    <3>2. Counted(op') => \E W : Weighs(W, host) /\ LocalTotal(es) = SumOf(W, es)
      BY <1>1, <2>1, <3>1, LocalTotalIs
    <3> QED
      BY <1>1, <2>1, <2>2, <3>1, <3>2, WalkProgress
  <2>3. CASE /\ op' = [NewOp("push", es, "idle") EXCEPT !.result = "REMOTE_IS_FILE"]
             /\ UNCHANGED monitor
    <3>1. "REMOTE_IS_FILE" \in Errors
      BY DEF Errors
    <3> QED
      BY <2>3, <3>1, RefusedProgress
  <2> QED
    BY <1>5, <2>2, <2>3 DEF U_Push
<1>6. ASSUME NEW f \in File, U_PullEntry(f)
      PROVE  ProgressInv'
  <2> DEFINE n == NewOp("pull", <<f>>, "request")
  <2>1. /\ UNCHANGED <<host, files>> /\ monitor' = Started(Size(files, f))
        /\ op' = [n EXCEPT !.todo = <<>>, !.file = f]
    BY <1>6 DEF U_PullEntry, Asked, deviceVars
  <2>2. DOMAIN n = OpFields /\ n.kind = "pull"
    BY DEF NewOp, OpFields
  <2> HIDE DEF n
  <2>3. Tree(op', host, files) = files
    BY <2>1, <2>2 DEF Tree, OpFields
  <2> QED
    BY <1>1, <2>1, <2>3, OnFileProgress DEF n
<1>7. ASSUME NEW f \in File, U_PullPath(f)
      PROVE  ProgressInv'
  BY <1>7, PullPathProgress
<1>8. ASSUME NEW e \in Entry, U_PushFile(e)
      PROVE  ProgressInv'
  <2>1. UNCHANGED <<host, files>>
    BY <1>8 DEF U_PushFile, Asked, deviceVars
  <2>2. CASE e \in DOMAIN host
    <3> DEFINE n == NewOp("push", <<e>>, "request")
    <3>1. op' = [n EXCEPT !.todo = <<>>, !.file = e] /\ monitor' = Started(Size(host, e))
      BY <1>8, <2>2 DEF U_PushFile
    <3>2. DOMAIN n = OpFields /\ n.kind = "push"
      BY DEF NewOp, OpFields
    <3> HIDE DEF n
    <3>3. Tree(op', host, files) = host
      BY <3>1, <3>2 DEF Tree, OpFields
    <3>4. e \in File
      BY <1>1, <2>2 DEF IsTree
    <3> QED
      BY <1>1, <2>1, <3>1, <3>3, <3>4, OnFileProgress DEF n
  <2>3. CASE e \notin DOMAIN host
    <3> DEFINE error == IF e \in Dir THEN "LOCAL_IS_DIRECTORY" ELSE "NO_LOCAL_FILE"
    <3>1. op' = [NewOp("push", <<e>>, "idle") EXCEPT !.result = error] /\ monitor' = monitor
      BY <1>8, <2>3 DEF U_PushFile
    <3>2. error \in Errors
      BY DEF Errors
    <3> HIDE DEF error
    <3> QED
      BY <3>1, <3>2, RefusedProgress
  <2> QED
    BY <2>2, <2>3
<1> QED
  BY <1>2, <1>3, <1>4, <1>5, <1>6, <1>7, <1>8 DEF User

LEMMA DeviceProgress ==
  ASSUME SyncInv, ProgressInv, D_Take \/ D_Send \/ D_Breaks
  PROVE  ProgressInv'
<1>1. UNCHANGED <<op, monitor, host, stream>> /\ device.link = "up" /\ MonitorOK(monitor)
  BY DEF D_Take, D_Send, D_Breaks, hostVars, ProgressInv
<1>2. CASE stream # "inStep"
  BY <1>1, <1>2 DEF ProgressInv
<1>3. CASE stream = "inStep"
  <2>1. Talking
    BY <1>1, <1>3 DEF SyncInv, TalkInv, InTouch, Lost
  <2>2. CASE files' = files
    BY <1>1, <2>2, SameProgress
  <2>3. CASE op.pc \in {"undefined", "spinning"}
    BY <1>1, <2>3, ProgressFails DEF Working
  <2>4. CASE op.pc \in {"chunk", "result"}
    <3>1. op.kind = "push"
      BY <2>4 DEF SyncInv, TypeInv, OpOK
    <3>2. Tree(op, host, files) = host /\ Tree(op, host, files') = host
      BY <3>1 DEF Tree
    <3>3. Progress(op, monitor, host, files) => Progress(op, monitor, host, files')
      BY <2>4, <3>2 DEF Progress
    <3> QED
      BY <1>1, <1>3, <3>3 DEF ProgressInv
  <2>5. files' = files \/ op.pc \in {"chunk", "result", "undefined", "spinning"}
    <3>1. D_Send \/ D_Breaks => files' = files
      BY DEF D_Send, D_Breaks
    <3> QED
      BY <2>1, <3>1, TakeTalk
  <2> QED
    BY <2>2, <2>3, <2>4, <2>5
<1> QED
  BY <1>2, <1>3

LEMMA NextProgress ==
  ASSUME SyncInv, ProgressInv, [Next]_vars
  PROVE  ProgressInv'
<1>1. CASE UNCHANGED vars
  BY <1>1, SameProgress DEF vars, hostVars, deviceVars
<1>2. CASE Next
  BY <1>2, UserProgress, ClientProgress, DeviceProgress DEF Next
<1> QED
  BY <1>1, <1>2

(* While an operation whose size is known is under way on a connection     *)
(* that is in step, what was announced to the monitor is what has been     *)
(* reported, and the rest of the file under way, and what the entries yet  *)
(* to be visited weigh.                                                    *)
THEOREM ProgressInvariant == Spec => []ProgressInv
<1>1. Init => ProgressInv
  <2> SUFFICES ASSUME Init  PROVE ProgressInv
    OBVIOUS
  <2> DEFINE n == NewOp("pull", <<>>, "idle")  m == Started(0)
  <2>1. DOMAIN n = OpFields /\ n.pc = "idle" /\ n.result = "none"
    BY DEF NewOp, OpFields
  <2>2. op = [n EXCEPT !.before = OnHost] /\ monitor = [m EXCEPT !.started = FALSE]
    BY DEF Init
  <2>3. MonitorOK(m)
    BY StartedOK
  <2> HIDE DEF n, m
  <2>4. op.pc = "idle" /\ op.result = "none"
    BY <2>1, <2>2 DEF OpFields
  <2>5. MonitorOK(monitor)
    BY <2>2, <2>3 DEF MonitorOK, MonitorFields
  <2> QED
    BY <2>4, <2>5 DEF ProgressInv, Progress, Working
<1>2. SyncInv /\ ProgressInv /\ [Next]_vars => ProgressInv'
  BY NextProgress
<1> QED
  BY <1>1, <1>2, SyncInvariant, PTL DEF Spec

(* What it says of an operation that succeeded.                            *)
LEMMA InvProgressAdds == ProgressInv => ProgressAdds
  BY DEF ProgressAdds, Succeeded, ProgressInv, Progress, Counted

(* ProgressAdds, whatever the trees and the directories in them, the sizes *)
(* of the chunks, and what fails on the way: when an operation succeeds on *)
(* a connection on which nothing was interrupted or late, the monitor has  *)
(* been told of as much work as was announced, because a directory is      *)
(* reported at its end, each chunk when it has been transferred, and what  *)
(* is skipped weighs nothing.                                              *)
THEOREM ProgressIsTotal == Spec => []ProgressAdds
  BY ProgressInvariant, InvProgressAdds, PTL
===============================================================================
