------------------------- MODULE ShellCommand_proofs -------------------------
(***************************************************************************)
(* Commands that run on a device, proved for any outputs of the device,    *)
(* however they are cut into chunks, and wherever a command is cancelled,  *)
(* times out or fails.  In the order of the module:                        *)
(*                                                                         *)
(*   parts of a text, Trim and CutLine;                                    *)
(*   Inv       the lines are consecutive pieces of the output (Pieces),    *)
(*             cut where it has an LF (Marked);                            *)
(*   ErrorInv  the error of an installation; every token is in a piece     *)
(*             (SeenInLines);                                              *)
(*   ReportInv what the listeners of a test run have heard.                *)
(*                                                                         *)
(* No induction over the lines is needed: the receiver cuts off one and    *)
(* the caller processes one in a step.                                     *)
(***************************************************************************)
EXTENDS ShellCommand, SequenceTheorems, WellFoundedInduction, TLAPS

(* (The provers do not know that a literal is in STRING.)                  *)
Tokens == STRING \cup {"CR", "LF"}
Text == Seq(Tokens)

(***************************************************************************)
(* Least and greatest elements, and parts of a text.                       *)
(***************************************************************************)

(* Min of a set of naturals is its least element.                          *)
LEMMA MinLemma ==
  ASSUME NEW S \in SUBSET Nat, S # {}
  PROVE  Min(S) \in S /\ \A x \in S : Min(S) <= x
<1> DEFINE R == OpToRel(<, Nat)
<1>1. IsWellFoundedOn(R, Nat)
  BY NatLessThanWellFounded
<1>2. \A a, b \in Nat : a < b => <<a, b>> \in R
  BY DEF OpToRel
<1> HIDE DEF R
<1>3. PICK x \in S : \A y \in S : ~(<<y, x>> \in R)
  BY <1>1, WFMin
<1>4. ASSUME NEW y \in S  PROVE x <= y
  <2>1. x \in Nat /\ y \in Nat /\ ~(y < x)
    BY <1>2, <1>3
  <2> QED
    BY <2>1
<1>5. x \in S /\ \A y \in S : x <= y
  BY <1>4
<1> QED
  BY <1>5 DEF Min

(* Max of a set of naturals with a bound is its greatest element: the one  *)
(* that is least far from the bound.                                       *)
LEMMA MaxLemma ==
  ASSUME NEW n \in Nat, NEW S \in SUBSET (0..n), S # {}
  PROVE  Max(S) \in S /\ \A x \in S : x <= Max(S)
<1> DEFINE D == {n - x : x \in S}
<1>1. D \in SUBSET Nat /\ D # {}
  <2>1. \A x \in S : n - x \in Nat
    OBVIOUS
  <2> QED
    BY <2>1
<1>2. Min(D) \in D /\ \A d \in D : Min(D) <= d
  BY <1>1, MinLemma
<1>3. PICK m \in S : Min(D) = n - m
  BY <1>2
<1>4. ASSUME NEW x \in S  PROVE m >= x
  <2>1. n - m <= n - x
    BY <1>2, <1>3
  <2> QED
    BY <2>1
<1> QED
  BY <1>4 DEF Max

(* What a part of a text is.                                               *)
LEMMA Part ==
  ASSUME NEW s \in Text, NEW m \in 1..Len(s) + 1, NEW n \in 0..Len(s)
  PROVE  /\ SubSeq(s, m, n) \in Text
         /\ m <= n + 1 => Len(SubSeq(s, m, n)) = n - m + 1
         /\ \A i \in 1..n - m + 1 : SubSeq(s, m, n)[i] = s[m + i - 1]
<1>1. \A i \in m..n : s[i] \in Tokens
  BY DEF Text
<1>2. m \in Int /\ n \in Int
  OBVIOUS
<1> QED
  BY <1>1, <1>2, SubSeqProperties DEF Text

(* The elements of a sequence.                                             *)
LEMMA Elements ==
  ASSUME NEW S, NEW s \in Seq(S)
  PROVE  \A x : x \in ToSet(s) <=> \E k \in 1..Len(s) : s[k] = x
<1>1. DOMAIN s = 1..Len(s)
  OBVIOUS
<1> QED
  BY <1>1 DEF ToSet

(* A part of a part.                                                       *)
LEMMA PartOfPart ==
  ASSUME NEW s \in Text, NEW m \in Nat, NEW n \in 0..Len(s), m <= n,
         NEW i \in 1..n - m + 1, NEW j \in 0..n - m
  PROVE  SubSeq(SubSeq(s, m + 1, n), i, j) = SubSeq(s, m + i, m + j)
<1> DEFINE p == SubSeq(s, m + 1, n)
           a == SubSeq(p, i, j)
           b == SubSeq(s, m + i, m + j)
<1>1. p \in Text /\ Len(p) = n - m /\ \A k \in 1..n - m : p[k] = s[m + k]
  BY Part, m + 1 \in 1..Len(s) + 1
<1>2. CASE i > j
  <2>1. a = <<>>
    BY <1>2, SubSeqEmpty
  <2>2. b = <<>>
    BY <1>2, SubSeqEmpty
  <2> QED
    BY <2>1, <2>2
<1>3. CASE i <= j
  <2> HIDE DEF p
  <2>1. a \in Text /\ Len(a) = j - i + 1 /\ \A k \in 1..j - i + 1 : a[k] = p[i + k - 1]
    <3>1. p \in Text /\ i \in 1..Len(p) + 1 /\ j \in 0..Len(p) /\ i <= j + 1
      BY <1>1, <1>3
    <3> QED
      BY <3>1, Part
  <2>2. b \in Text /\ Len(b) = j - i + 1 /\ \A k \in 1..j - i + 1 : b[k] = s[m + i + k - 1]
    <3>1. m + i \in 1..Len(s) + 1 /\ m + j \in 0..Len(s) /\ m + i <= m + j + 1
      BY <1>3
    <3>2. (m + j) - (m + i) + 1 = j - i + 1
      OBVIOUS
    <3> HIDE DEF b
    <3>3. b \in Text /\ Len(b) = (m + j) - (m + i) + 1
           /\ \A k \in 1..(m + j) - (m + i) + 1 : b[k] = s[(m + i) + k - 1]
      BY <3>1, Part DEF b
    <3> QED
      BY <3>2, <3>3
  <2> HIDE DEF a, b
  <2>3. \A k \in 1..j - i + 1 : a[k] = b[k]
    <3> TAKE k \in 1..j - i + 1
    <3>1. i + k - 1 \in 1..n - m
      BY <1>3
    <3>2. p[i + k - 1] = s[m + (i + k - 1)]
      BY <1>1, <3>1
    <3>3. m + (i + k - 1) = m + i + k - 1
      OBVIOUS
    <3> QED
      BY <2>1, <2>2, <3>2, <3>3
  <2>4. Len(a) = Len(b) /\ \A k \in 1..Len(a) : a[k] = b[k]
    BY <2>1, <2>2, <2>3
  <2>5. a = b
    BY <2>1, <2>2, <2>4, SeqEqual DEF Text
  <2> QED
    BY <2>5 DEF a, b
<1> QED
  BY <1>2, <1>3

(***************************************************************************)
(* Trim.                                                                   *)
(***************************************************************************)

White == {CR, LF, Blank}
Visible(s) == {i \in 1..Len(s) : s[i] \notin White}

(* Trim takes the part between the first and the last visible token.       *)
LEMMA TrimIs ==
  ASSUME NEW s \in Text
  PROVE  /\ Visible(s) = {} => Trim(s) = <<>>
         /\ Visible(s) # {} =>
              /\ Trim(s) = SubSeq(s, Min(Visible(s)), Max(Visible(s)))
              /\ Min(Visible(s)) \in Visible(s) /\ Max(Visible(s)) \in Visible(s)
              /\ \A i \in Visible(s) : Min(Visible(s)) <= i /\ i <= Max(Visible(s))
<1> DEFINE V == Visible(s)
<1>1. DOMAIN s = 1..Len(s) /\ Len(s) \in Nat
  BY DEF Text
<1>2. {i \in DOMAIN s : s[i] \notin {CR, LF, Blank}} = V
  BY <1>1 DEF Visible, White
<1>3. V \in SUBSET Nat /\ V \in SUBSET (0..Len(s))
  BY <1>1 DEF Visible
<1>4. Trim(s) = IF V = {} THEN <<>> ELSE SubSeq(s, Min(V), Max(V))
  BY <1>2 DEF Trim
<1> HIDE DEF V
<1>5. V # {} => /\ Min(V) \in V /\ \A i \in V : Min(V) <= i
                /\ Max(V) \in V /\ \A i \in V : i <= Max(V)
  BY <1>1, <1>3, MinLemma, MaxLemma
<1> QED
  BY <1>4, <1>5 DEF V

(* Trim loses no visible token, and adds none.                             *)
LEMMA TrimKeeps ==
  ASSUME NEW s \in Text
  PROVE  /\ Trim(s) \in Text
         /\ \A t : t \notin White => (t \in ToSet(Trim(s)) <=> t \in ToSet(s))
<1> SUFFICES ASSUME NEW t
             PROVE  /\ Trim(s) \in Text
                    /\ t \notin White => (t \in ToSet(Trim(s)) <=> t \in ToSet(s))
  OBVIOUS
<1> DEFINE V == Visible(s)
           a == Min(V)
           b == Max(V)
           u == SubSeq(s, a, b)
<1>1. DOMAIN s = 1..Len(s) /\ Len(s) \in Nat
  BY DEF Text
<1>2. CASE V = {}
  <2>1. Trim(s) = <<>>
    BY <1>2, TrimIs
  <2>2. t \notin White => \A i \in 1..Len(s) : s[i] # t
    BY <1>2 DEF Visible
  <2> QED
    BY <1>1, <2>1, <2>2 DEF ToSet, Text
<1>3. CASE V # {}
  <2>1. Trim(s) = u /\ a \in V /\ b \in V /\ \A i \in V : a <= i /\ i <= b
    BY <1>3, TrimIs
  <2>2. a \in 1..Len(s) /\ b \in 1..Len(s) /\ a <= b
    BY <2>1 DEF Visible
  <2>3. u \in Text /\ Len(u) = b - a + 1 /\ \A i \in 1..b - a + 1 : u[i] = s[a + i - 1]
    <3> HIDE DEF a, b
    <3>1. a \in 1..Len(s) + 1 /\ b \in 0..Len(s) /\ a <= b + 1
      BY <1>1, <2>2
    <3> QED
      BY <3>1, Part
  <2> HIDE DEF a, b, u
  <2>4. ASSUME t \notin White, NEW i \in 1..Len(s), s[i] = t  PROVE \E k \in 1..Len(u) : u[k] = t
    <3>1. i \in V
      BY <2>4 DEF Visible
    <3>2. a <= i /\ i <= b
      BY <2>1, <3>1
    <3>3. i - a + 1 \in 1..b - a + 1 /\ a + (i - a + 1) - 1 = i
      BY <2>2, <3>2
    <3>4. u[i - a + 1] = t
      BY <2>3, <2>4, <3>3
    <3> QED
      BY <2>3, <3>3, <3>4
  <2>5. ASSUME NEW k \in 1..Len(u), u[k] = t  PROVE \E i \in 1..Len(s) : s[i] = t
    <3>1. k \in 1..b - a + 1
      BY <2>3
    <3>2. a + k - 1 \in 1..Len(s)
      BY <1>1, <2>2, <3>1
    <3>3. s[a + k - 1] = t
      BY <2>3, <2>5, <3>1
    <3> QED
      BY <3>2, <3>3
  <2>6. DOMAIN u = 1..Len(u)
    BY <2>3 DEF Text
  <2> QED
    BY <1>1, <2>1, <2>3, <2>4, <2>5, <2>6 DEF ToSet
<1> QED
  BY <1>2, <1>3

(* The end of a line may be trimmed with it.                               *)
LEMMA TrimTerminator ==
  ASSUME NEW s \in Text, NEW m \in 0..Len(s), NEW n \in 0..m,
         \A i \in n + 1..m : s[i] \in {CR, LF}
  PROVE  Trim(SubSeq(s, 1, n)) = Trim(SubSeq(s, 1, m))
<1> DEFINE u == SubSeq(s, 1, n)
           v == SubSeq(s, 1, m)
<1>1. u \in Text /\ Len(u) = n /\ \A i \in 1..n : u[i] = s[i]
  <2>1. 1 \in 1..Len(s) + 1 /\ n \in 0..Len(s) /\ 1 <= n + 1 /\ n - 1 + 1 = n
    OBVIOUS
  <2>2. u \in Text /\ Len(u) = n - 1 + 1 /\ \A i \in 1..n - 1 + 1 : u[i] = s[1 + i - 1]
    BY <2>1, Part
  <2> HIDE DEF u
  <2> QED
    BY <2>1, <2>2
<1>2. v \in Text /\ Len(v) = m /\ \A i \in 1..m : v[i] = s[i]
  <2>1. 1 \in 1..Len(s) + 1 /\ m \in 0..Len(s) /\ 1 <= m + 1 /\ m - 1 + 1 = m
    OBVIOUS
  <2>2. v \in Text /\ Len(v) = m - 1 + 1 /\ \A i \in 1..m - 1 + 1 : v[i] = s[1 + i - 1]
    BY <2>1, Part
  <2> HIDE DEF v
  <2> QED
    BY <2>1, <2>2
<1>3. Visible(u) = Visible(v)
  <2> HIDE DEF u, v
  <2>1. ASSUME NEW i \in 1..m, v[i] \notin White  PROVE i \in 1..n
    <3>1. s[i] \notin {CR, LF}
      BY <1>2, <2>1 DEF White
    <3> QED
      BY <3>1
  <2>2. \A i \in 1..n : i \in 1..m /\ u[i] = v[i]
    BY <1>1, <1>2
  <2> QED
    BY <1>1, <1>2, <2>1, <2>2 DEF Visible
<1>4. CASE Visible(v) = {}
  BY <1>1, <1>2, <1>3, <1>4, TrimIs
<1>5. CASE Visible(v) # {}
  <2> DEFINE a == Min(Visible(v))
             b == Max(Visible(v))
  <2>1. Trim(u) = SubSeq(u, a, b) /\ Trim(v) = SubSeq(v, a, b) /\ a \in Visible(u) /\ b \in Visible(u)
    BY <1>1, <1>2, <1>3, <1>5, TrimIs
  <2>2. a \in 1..n /\ b \in 1..n
    BY <1>1, <2>1 DEF Visible
  <2> HIDE DEF a, b
  <2>3. SubSeq(u, a, b) = SubSeq(s, 0 + a, 0 + b)
    <3>1. 0 \in Nat /\ n \in 0..Len(s) /\ 0 <= n /\ a \in 1..n - 0 + 1 /\ b \in 0..n - 0
      BY <2>2
    <3>2. 0 + 1 = 1
      OBVIOUS
    <3> QED
      BY <3>1, <3>2, PartOfPart
  <2>4. SubSeq(v, a, b) = SubSeq(s, 0 + a, 0 + b)
    <3>1. 0 \in Nat /\ m \in 0..Len(s) /\ 0 <= m /\ a \in 1..m - 0 + 1 /\ b \in 0..m - 0
      BY <2>2
    <3>2. 0 + 1 = 1
      OBVIOUS
    <3> QED
      BY <3>1, <3>2, PartOfPart
  <2> QED
    BY <2>1, <2>3, <2>4
<1> QED
  BY <1>4, <1>5

(***************************************************************************)
(* What is cut off.                                                        *)
(***************************************************************************)

Receivers == [unfinished : Text, lines : Seq(Text), ends : Seq(Nat)]

(* Where CutLine ends the text of a line, and where the line itself.       *)
Index(s) == IF CRLFs(s) # {} THEN Min(CRLFs(s)) ELSE Min(LFs(s))
End(s) == IF CRLFs(s) # {} THEN Index(s) + 1 ELSE Index(s)

(* The first lines of r are the consecutive pieces of the first n tokens   *)
(* of out, cut at ends.                                                    *)
Pieces(r, out, n) ==
  /\ Len(r.ends) <= Len(r.lines)
  /\ \A k \in 1..Len(r.ends) :
       /\ Begin(r, k) < r.ends[k] /\ r.ends[k] <= n /\ r.ends[k] <= Behind(r)
       /\ r.lines[k] = Trim(SubSeq(out, Begin(r, k) + 1, r.ends[k]))

(* There is an LF where a line ends, and nowhere else.                     *)
Marked(r, out) == Uniform(out) => \A i \in 1..Behind(r) : out[i] = LF <=> i \in ToSet(r.ends)

LEMMA BehindType ==
  ASSUME NEW r \in Receivers
  PROVE  /\ Behind(r) \in Nat
         /\ Behind(r) > 0 => Behind(r) \in ToSet(r.ends)
         /\ \A out, n : n \in Nat /\ Pieces(r, out, n) => Behind(r) <= n
<1>1. r.ends \in Seq(Nat)
  BY DEF Receivers
<1>2. CASE r.ends = <<>>
  BY <1>2 DEF Behind
<1>3. CASE r.ends # <<>>
  <2>1. Len(r.ends) \in 1..Len(r.ends) /\ DOMAIN r.ends = 1..Len(r.ends)
    BY <1>1, <1>3
  <2>2. Behind(r) = r.ends[Len(r.ends)] /\ Behind(r) \in Nat
    BY <1>1, <1>3, <2>1 DEF Behind
  <2> QED
    BY <2>1, <2>2 DEF ToSet, Pieces
<1> QED
  BY <1>2, <1>3

(* Where a line ends there is an LF, and what is cut off with its text is  *)
(* its terminator.                                                         *)
LEMMA LineEnds ==
  ASSUME NEW s \in Text, LFs(s) # {}
  PROVE  /\ Index(s) \in 1..Len(s) /\ End(s) \in Index(s)..Len(s)
         /\ s[End(s)] = LF
         /\ \A i \in Index(s)..End(s) : s[i] \in {CR, LF}
<1>1. Len(s) \in Nat
  BY DEF Text
<1>2. CASE CRLFs(s) # {}
  <2>1. CRLFs(s) \in SUBSET Nat
    BY <1>1 DEF CRLFs
  <2>2. Index(s) \in CRLFs(s)
    BY <1>2, <2>1, MinLemma DEF Index
  <2>3. Index(s) \in 1..Len(s) - 1 /\ s[Index(s)] = CR /\ s[Index(s) + 1] = LF
    BY <2>2 DEF CRLFs
  <2>4. End(s) = Index(s) + 1
    BY <1>2 DEF End
  <2> QED
    BY <1>1, <2>3, <2>4
<1>3. CASE CRLFs(s) = {}
  <2>1. LFs(s) \in SUBSET Nat
    BY <1>1 DEF LFs
  <2>2. Index(s) \in LFs(s) /\ End(s) = Index(s)
    BY <1>3, <2>1, MinLemma DEF Index, End
  <2> QED
    BY <1>1, <2>2 DEF LFs
<1> QED
  BY <1>2, <1>3

(* If all lines end alike, a line ends at the first LF of what is left.    *)
LEMMA FirstEnd ==
  ASSUME NEW out \in Text, Uniform(out), NEW b \in Nat, NEW n \in 0..Len(out), b <= n,
         b > 0 => out[b] = LF,
         NEW s \in Text, Len(s) = n - b, \A i \in 1..n - b : s[i] = out[b + i],
         LFs(s) # {}, NEW i \in 1..End(s) - 1
  PROVE  s[i] # LF
<1> SUFFICES ASSUME s[i] = LF  PROVE FALSE
  OBVIOUS
<1>1. End(s) \in 1..Len(s) /\ Index(s) \in 1..Len(s)
  BY LineEnds
<1>2. i \in 1..n - b /\ i < End(s) /\ i \in 1..Len(s)
  BY <1>1
<1>3. b + i \in DOMAIN out /\ out[b + i] = LF
  BY <1>2 DEF Text
<1>4. CASE \A j \in DOMAIN out : out[j] # CR
  <2>1. \A j \in 1..Len(s) - 1 : s[j] # CR
    BY <1>4 DEF Text
  <2>2. CRLFs(s) = {}
    BY <2>1 DEF CRLFs
  <2>3. i \in LFs(s) /\ LFs(s) \in SUBSET Nat
    BY <1>2 DEF LFs
  <2>4. End(s) = Min(LFs(s)) /\ Min(LFs(s)) <= i /\ Min(LFs(s)) \in Nat
    BY <2>2, <2>3, MinLemma DEF End, Index
  <2> QED
    BY <1>2, <2>4
<1>5. CASE ~(\A j \in DOMAIN out : out[j] # CR)
  <2>1. b + i > 1 /\ out[b + i - 1] = CR
    BY <1>3, <1>5 DEF Uniform
  <2>2. i > 1
    <3>1. CASE i = 1
      <4>1. b > 0 /\ b + i - 1 = b
        BY <2>1, <3>1
      <4>2. out[b] = CR /\ out[b] = LF
        BY <2>1, <4>1
      <4> QED
        BY <4>2 DEF CR, LF
    <3> QED
      BY <1>2, <3>1
  <2>3. i - 1 \in 1..n - b /\ b + (i - 1) = b + i - 1 /\ i - 1 \in 1..Len(s) - 1 /\ i - 1 + 1 = i
    BY <1>2, <2>2
  <2>4. s[i - 1] = CR
    BY <2>1, <2>3
  <2>5. i - 1 \in CRLFs(s) /\ CRLFs(s) \in SUBSET Nat
    BY <2>3, <2>4 DEF CRLFs
  <2>6. Min(CRLFs(s)) <= i - 1 /\ End(s) = Min(CRLFs(s)) + 1 /\ Min(CRLFs(s)) \in Nat
    BY <2>5, MinLemma DEF End, Index
  <2> QED
    BY <1>2, <2>6
<1> QED
  BY <1>4, <1>5

(* CutLine cuts the next piece.                                            *)
LEMMA CutLineKeeps ==
  ASSUME NEW out \in Text, NEW n \in 0..Len(out), NEW r \in Receivers,
         Len(r.lines) = Len(r.ends), Pieces(r, out, n), Marked(r, out),
         r.unfinished = SubSeq(out, Behind(r) + 1, n), HasLine(r)
  PROVE  LET q == CutLine(r)
         IN  /\ q \in Receivers
             /\ Len(q.lines) = Len(q.ends)
             /\ Len(q.lines) = Len(r.lines) + 1 /\ \A k \in 1..Len(r.lines) : q.lines[k] = r.lines[k]
             /\ Pieces(q, out, n) /\ Marked(q, out)
             /\ q.unfinished = SubSeq(out, Behind(q) + 1, n)
<1> DEFINE q == CutLine(r)
           s == r.unfinished
           b == Behind(r)
           e == End(s)
           line == Trim(SubSeq(s, 1, Index(s) - 1))
           m == Len(r.ends)
<1>1. b \in Nat /\ b <= n /\ n \in Nat /\ n <= Len(out) /\ (b > 0 => b \in ToSet(r.ends))
  BY BehindType
<1>2. s \in Text /\ Len(s) = n - b /\ \A i \in 1..n - b : s[i] = out[b + i]
  <2>1. b + 1 \in 1..Len(out) + 1 /\ b + 1 <= n + 1 /\ n - (b + 1) + 1 = n - b
    BY <1>1
  <2> HIDE DEF b
  <2>2. /\ SubSeq(out, b + 1, n) \in Text /\ Len(SubSeq(out, b + 1, n)) = n - (b + 1) + 1
        /\ \A i \in 1..n - (b + 1) + 1 : SubSeq(out, b + 1, n)[i] = out[b + 1 + i - 1]
    BY <2>1, Part
  <2>3. s = SubSeq(out, b + 1, n)
    BY DEF b
  <2> HIDE DEF s
  <2>4. \A i \in 1..n - b : b + 1 + i - 1 = b + i
    BY <1>1
  <2> QED
    BY <2>1, <2>2, <2>3, <2>4
<1>3. LFs(s) # {}
  BY DEF HasLine
<1>4. /\ Index(s) \in 1..Len(s) /\ e \in Index(s)..Len(s) /\ s[e] = LF
      /\ \A i \in Index(s)..e : s[i] \in {CR, LF}
  BY <1>2, <1>3, LineEnds
<1>5. /\ q.unfinished = SubSeq(s, e + 1, Len(s))
      /\ q.lines = Append(r.lines, line)
      /\ q.ends = Append(r.ends, b + e)
      /\ q = [unfinished |-> q.unfinished, lines |-> q.lines, ends |-> q.ends]
  BY DEF CutLine, End, Index
<1> HIDE DEF q, s, b, e
<1>6. r.lines \in Seq(Text) /\ r.ends \in Seq(Nat) /\ m \in Nat
  BY DEF Receivers
<1>7. e \in 1..n - b /\ b + e \in Nat /\ b + e <= n /\ b < b + e
  BY <1>1, <1>2, <1>4
<1>8. line = Trim(SubSeq(out, b + 1, b + e)) /\ line \in Text
  <2> DEFINE j == Index(s) - 1
  <2>1. j \in 0..e /\ e \in 0..Len(s) /\ j + 1 = Index(s)
    <3>1. Len(s) \in Nat /\ Index(s) \in Nat /\ Index(s) >= 1
      BY <1>1, <1>2, <1>4
    <3> HIDE DEF j
    <3>2. e \in Nat /\ Index(s) <= e /\ e <= Len(s)
      BY <1>4, <3>1
    <3>3. j = Index(s) - 1
      BY DEF j
    <3> QED
      BY <3>1, <3>2, <3>3
  <2>2. \A i \in j + 1..e : s[i] \in {CR, LF}
    BY <1>4, <2>1
  <2> HIDE DEF j
  <2>3. Trim(SubSeq(s, 1, j)) = Trim(SubSeq(s, 1, e))
    BY <1>2, <2>1, <2>2, TrimTerminator
  <2>4. SubSeq(s, 1, e) = SubSeq(out, b + 1, b + e)
    <3>1. s = SubSeq(out, b + 1, n)
      BY DEF s, b
    <3>2. 1 \in 1..n - b + 1 /\ e \in 0..n - b
      BY <1>1, <1>7
    <3> QED
      BY <1>1, <3>1, <3>2, PartOfPart
  <2>5. SubSeq(s, 1, j) \in Text
    <3>1. 1 \in 1..Len(s) + 1 /\ j \in 0..Len(s)
      BY <1>1, <1>2, <2>1
    <3> QED
      BY <1>2, <3>1, Part
  <2>6. Trim(SubSeq(s, 1, j)) \in Text
    BY <2>5, TrimKeeps
  <2> QED
    BY <2>3, <2>4, <2>6 DEF j
<1> HIDE DEF line
<1>9. /\ q.unfinished = SubSeq(out, b + e + 1, n)
      /\ q.unfinished \in Text
  <2>1. SubSeq(s, e + 1, n - b) = SubSeq(out, b + (e + 1), b + (n - b))
    <3>1. s = SubSeq(out, b + 1, n)
      BY DEF s, b
    <3>2. e + 1 \in 1..n - b + 1 /\ n - b \in 0..n - b
      BY <1>1, <1>7
    <3> QED
      BY <1>1, <3>1, <3>2, PartOfPart
  <2>2. b + (e + 1) = b + e + 1 /\ b + (n - b) = n
    BY <1>1, <1>7
  <2>3. SubSeq(out, b + e + 1, n) \in Text
    <3>1. b + e + 1 \in 1..Len(out) + 1 /\ n \in 0..Len(out)
      BY <1>1, <1>7
    <3> QED
      BY <3>1, Part
  <2> QED
    BY <1>2, <1>5, <2>1, <2>2, <2>3
<1>10. /\ Len(q.ends) = m + 1 /\ q.ends[m + 1] = b + e /\ \A k \in 1..m : q.ends[k] = r.ends[k]
       /\ q.ends \in Seq(Nat)
  BY <1>5, <1>6, <1>7
<1>11. /\ Len(q.lines) = m + 1 /\ q.lines[m + 1] = line /\ \A k \in 1..m : q.lines[k] = r.lines[k]
       /\ q.lines \in Seq(Text)
  BY <1>5, <1>6, <1>8
<1>12. Behind(q) = b + e
  BY <1>6, <1>10 DEF Behind
<1>13. q \in Receivers
  BY <1>5, <1>9, <1>10, <1>11 DEF Receivers
<1>14. \A k \in 1..m : Begin(q, k) = Begin(r, k)
  BY <1>6, <1>10 DEF Begin
<1>15. Begin(q, m + 1) = b
  <2>1. CASE m = 0
    BY <1>6, <2>1 DEF Begin, b, Behind
  <2>2. CASE m # 0
    <3>1. m + 1 # 1 /\ m + 1 - 1 = m /\ r.ends # <<>> /\ m \in 1..m
      BY <1>6, <2>2
    <3>2. b = r.ends[m]
      BY <3>1 DEF b, Behind
    <3>3. Begin(q, m + 1) = q.ends[m]
      BY <3>1 DEF Begin
    <3> QED
      BY <1>10, <3>1, <3>2, <3>3
  <2> QED
    BY <2>1, <2>2
<1>16. Pieces(q, out, n)
  <2>1. Len(q.ends) <= Len(q.lines)
    BY <1>6, <1>10, <1>11
  <2>2. ASSUME NEW k \in 1..m + 1
        PROVE  /\ Begin(q, k) < q.ends[k] /\ q.ends[k] <= n /\ q.ends[k] <= Behind(q)
               /\ q.lines[k] = Trim(SubSeq(out, Begin(q, k) + 1, q.ends[k]))
    <3>1. CASE k = m + 1
      BY <1>7, <1>8, <1>10, <1>11, <1>12, <1>15, <3>1
    <3>2. CASE k # m + 1
      <4>1. k \in 1..m
        BY <1>6, <3>2
      <4>2. /\ Begin(r, k) < r.ends[k] /\ r.ends[k] <= n /\ r.ends[k] <= b /\ r.ends[k] \in Nat
            /\ r.lines[k] = Trim(SubSeq(out, Begin(r, k) + 1, r.ends[k]))
        BY <1>6, <4>1 DEF Pieces, b
      <4>3. r.ends[k] <= b + e
        BY <1>1, <1>7, <4>2
      <4> QED
        BY <1>10, <1>11, <1>12, <1>14, <4>1, <4>2, <4>3
    <3> QED
      BY <3>1, <3>2
  <2> QED
    BY <1>10, <2>1, <2>2 DEF Pieces
<1>17. Marked(q, out)
  <2> SUFFICES ASSUME Uniform(out), NEW i \in 1..b + e  PROVE out[i] = LF <=> i \in ToSet(q.ends)
    BY <1>12 DEF Marked
  <2>1. DOMAIN r.ends = 1..m /\ DOMAIN q.ends = 1..m + 1
    BY <1>6, <1>10
  <2>2. i \in ToSet(q.ends) <=> i = b + e \/ i \in ToSet(r.ends)
    <3>1. i \in ToSet(q.ends) <=> \E k \in 1..m + 1 : q.ends[k] = i
      BY <1>10, Elements
    <3>2. i \in ToSet(r.ends) <=> \E k \in 1..m : r.ends[k] = i
      BY <1>6, Elements
    <3>3. m \in Nat
      BY <1>6
    <3> HIDE DEF m
    <3>4. \A k \in 1..m + 1 : k \in 1..m \/ k = m + 1
      BY <3>3
    <3>5. m + 1 \in 1..m + 1 /\ \A k \in 1..m : k \in 1..m + 1
      BY <3>3
    <3> QED
      BY <1>10, <3>1, <3>2, <3>4, <3>5
  <2>3. \A k \in 1..m : r.ends[k] <= b /\ r.ends[k] \in Nat
    BY <1>6 DEF Pieces, b
  <2>4. \A j \in ToSet(r.ends) : j <= b
    BY <2>1, <2>3 DEF ToSet
  <2>5. \A j \in 1..b : out[j] = LF <=> j \in ToSet(r.ends)
    BY DEF Marked, b
  <2>6. CASE i <= b
    <3>1. i \in 1..b /\ i # b + e
      BY <1>1, <1>7, <2>6
    <3> QED
      BY <2>2, <2>5, <3>1
  <2>7. CASE i > b
    <3>1. i \notin ToSet(r.ends)
      BY <1>1, <2>4, <2>7
    <3>2. i - b \in 1..e /\ i - b \in 1..n - b /\ b + (i - b) = i
      BY <1>1, <1>7, <2>7
    <3>3. s[i - b] = out[i]
      BY <1>2, <3>2
    <3>4. CASE i = b + e
      <4>1. i - b = e
        BY <1>1, <1>7, <3>4
      <4> QED
        BY <1>4, <2>2, <3>3, <3>4, <4>1
    <3>5. CASE i # b + e
      <4>1. i - b \in 1..e - 1
        BY <1>1, <1>7, <3>2, <3>5
      <4>2. b > 0 => out[b] = LF
        BY <1>1, <2>5
      <4>3. s[i - b] # LF
        BY <1>1, <1>2, <1>3, <4>1, <4>2, FirstEnd DEF e
      <4> QED
        BY <2>2, <3>1, <3>3, <3>5, <4>3
    <3> QED
      BY <3>4, <3>5
  <2> QED
    BY <1>1, <2>6, <2>7
<1> QED
  BY <1>6, <1>9, <1>10, <1>11, <1>12, <1>13, <1>16, <1>17 DEF q

(* A chunk is put behind what is left.                                     *)
LEMMA JoinedKeeps ==
  ASSUME NEW out \in Text, NEW m \in 0..Len(out), NEW n \in m..Len(out), NEW r \in Receivers,
         Pieces(r, out, m), Marked(r, out), r.unfinished = SubSeq(out, Behind(r) + 1, m)
  PROVE  LET q == Joined(r, SubSeq(out, m + 1, n))
         IN  /\ q \in Receivers /\ q.lines = r.lines /\ q.ends = r.ends
             /\ Pieces(q, out, n) /\ Marked(q, out)
             /\ q.unfinished = SubSeq(out, Behind(q) + 1, n)
<1> DEFINE b == Behind(r)
           chunk == SubSeq(out, m + 1, n)
           q == Joined(r, chunk)
<1>1. b \in Nat /\ b <= m
  BY BehindType
<1> HIDE DEF b
<1>2. m \in Nat /\ n \in Nat /\ m <= n /\ n <= Len(out) /\ Len(out) \in Nat
  BY DEF Text
<1>3. SubSeq(out, b + 1, m) \o chunk = SubSeq(out, b + 1, n)
  <2> DEFINE c == b + 1
  <2>1. c \in 1..Len(out) + 1 /\ m \in c - 1..Len(out) /\ n \in m..Len(out)
    BY <1>1, <1>2
  <2>2. out \in Seq(Tokens)
    BY DEF Text
  <2> HIDE DEF c
  <2>3. SubSeq(out, c, m) \o SubSeq(out, m + 1, n) = SubSeq(out, c, n)
    BY <2>1, <2>2, ConcatAdjacentSubSeq
  <2> QED
    BY <2>3 DEF c
<1>4. SubSeq(out, b + 1, n) \in Text
  <2>1. b + 1 \in 1..Len(out) + 1 /\ n \in 0..Len(out)
    BY <1>1, <1>2
  <2> QED
    BY <2>1, Part
<1> HIDE DEF chunk
<1>5. q.unfinished = SubSeq(out, b + 1, n) /\ q.lines = r.lines /\ q.ends = r.ends /\ q \in Receivers
  <2>1. r.unfinished \o chunk = SubSeq(out, b + 1, n)
    BY <1>3 DEF b
  <2>2. q = [r EXCEPT !.unfinished = r.unfinished \o chunk]
    BY DEF Joined
  <2>3. q = [r EXCEPT !.unfinished = SubSeq(out, b + 1, n)]
    BY <2>1, <2>2
  <2> DEFINE u == SubSeq(out, b + 1, n)
  <2> HIDE DEF q, u
  <2>4. q = [r EXCEPT !.unfinished = u] /\ u \in Text
    BY <1>4, <2>3 DEF u
  <2>5. q.unfinished = u /\ q.lines = r.lines /\ q.ends = r.ends /\ q \in Receivers
    BY <2>4 DEF Receivers
  <2> QED
    BY <2>5 DEF u
<1> HIDE DEF q
<1>6. Behind(q) = b /\ \A k : Begin(q, k) = Begin(r, k)
  BY <1>5 DEF Behind, Begin, b
<1>7. Marked(q, out)
  BY <1>5, <1>6 DEF Marked, b
<1>8. Pieces(q, out, n)
  <2>1. \A k \in 1..Len(r.ends) : r.ends[k] \in Nat
    BY DEF Receivers
  <2>2. \A k \in 1..Len(r.ends) : r.ends[k] <= m => r.ends[k] <= n
    BY <1>2, <2>1
  <2> QED
    BY <1>5, <1>6, <2>2 DEF Pieces, b
<1> QED
  BY <1>5, <1>6, <1>7, <1>8 DEF q, chunk

(* What flush has handed on.                                               *)
Handed(r) ==
  /\ r.unfinished = <<>> => Len(r.lines) = Len(r.ends)
  /\ r.unfinished # <<>> =>
       Len(r.lines) = Len(r.ends) + 1 /\ r.lines[Len(r.ends) + 1] = r.unfinished

LEMMA FlushedKeeps ==
  ASSUME NEW out, NEW n, NEW r \in Receivers, Len(r.lines) = Len(r.ends),
         Pieces(r, out, n), Marked(r, out)
  PROVE  LET q == Flushed(r)
         IN  /\ q \in Receivers /\ q.unfinished = r.unfinished /\ q.ends = r.ends
             /\ Len(q.lines) >= Len(r.lines) /\ \A k \in 1..Len(r.lines) : q.lines[k] = r.lines[k]
             /\ Pieces(q, out, n) /\ Marked(q, out) /\ Handed(q)
<1> DEFINE q == Flushed(r)
           m == Len(r.ends)
<1>1. r.lines \in Seq(Text) /\ r.unfinished \in Text /\ r.ends \in Seq(Nat) /\ m \in Nat
  BY DEF Receivers
<1>2. /\ q = [r EXCEPT !.lines = q.lines]
      /\ r.unfinished = <<>> => q.lines = r.lines
      /\ r.unfinished # <<>> => q.lines = Append(r.lines, r.unfinished)
  BY DEF Flushed, Receivers
<1> HIDE DEF q
<1>3. q.lines \in Seq(Text)
  <2>1. Append(r.lines, r.unfinished) \in Seq(Text)
    BY <1>1
  <2> QED
    BY <1>1, <1>2, <2>1
<1>4. q \in Receivers /\ q.unfinished = r.unfinished /\ q.ends = r.ends
  BY <1>2, <1>3 DEF Receivers
<1>5. /\ r.unfinished = <<>> => Len(q.lines) = m
      /\ r.unfinished # <<>> => Len(q.lines) = m + 1 /\ q.lines[m + 1] = r.unfinished
      /\ \A k \in 1..m : q.lines[k] = r.lines[k]
  BY <1>1, <1>2
<1>6. Handed(q) /\ Len(q.lines) >= m /\ Len(q.ends) <= Len(q.lines)
  BY <1>1, <1>4, <1>5 DEF Handed
<1>7. Behind(q) = Behind(r) /\ \A k : Begin(q, k) = Begin(r, k)
  BY <1>4 DEF Behind, Begin
<1> QED
  BY <1>4, <1>5, <1>6, <1>7 DEF Pieces, Marked, q

(* Every position behind the receiver is in one of the pieces.             *)
LEMMA InAPiece ==
  ASSUME NEW out, NEW n \in Nat, NEW r \in Receivers, Pieces(r, out, n), NEW i \in 1..Behind(r)
  PROVE  \E k \in 1..Len(r.ends) : Begin(r, k) < i /\ i <= r.ends[k] /\ Begin(r, k) \in Nat
<1> DEFINE E == {k \in 1..Len(r.ends) : i <= r.ends[k]}
<1>1. r.ends \in Seq(Nat) /\ Len(r.ends) \in Nat /\ Behind(r) \in Nat
  BY BehindType DEF Receivers
<1>2. r.ends # <<>>
  BY <1>1 DEF Behind
<1>3. Len(r.ends) \in 1..Len(r.ends) /\ Behind(r) = r.ends[Len(r.ends)]
  BY <1>1, <1>2 DEF Behind
<1>4. Len(r.ends) \in E /\ E \in SUBSET Nat
  BY <1>3
<1>5. Min(E) \in E /\ \A k \in E : Min(E) <= k
  BY <1>4, MinLemma
<1> DEFINE k == Min(E)
<1> HIDE DEF k
<1>6. k \in 1..Len(r.ends) /\ i <= r.ends[k]
  BY <1>5 DEF k
<1>7. CASE k = 1
  BY <1>6, <1>7 DEF Begin
<1>8. CASE k # 1
  <2>1. k - 1 \in 1..Len(r.ends) /\ k - 1 < k
    BY <1>1, <1>6, <1>8
  <2>2. k - 1 \notin E
    <3>1. k - 1 \in E => k <= k - 1
      BY <1>5 DEF k
    <3>2. k \in Int
      BY <1>6
    <3> QED
      BY <3>1, <3>2
  <2>3. r.ends[k - 1] \in Nat /\ r.ends[k - 1] < i
    BY <1>1, <2>1, <2>2
  <2>4. Begin(r, k) = r.ends[k - 1]
    BY <1>8 DEF Begin
  <2> QED
    BY <1>6, <2>3, <2>4
<1> QED
  BY <1>7, <1>8

(***************************************************************************)
(* The lines.                                                              *)
(***************************************************************************)

Points == {"connect", "spinning", "loop", "receive", "cut", "process", "flush", "returned"}
Outcomes == {"none", "thrown", "cancelled", "cut", "eof", "error"}

(* A chunk may have been ignored.                                          *)
Dropped == cancelled /\ (pc = "loop" \/ outcome = "cancelled")

Left == SubSeq(output, Behind(receiver) + 1, sent)

(* Where the command is.                                                   *)
PlaceInv ==
  /\ pc \in Points /\ outcome \in Outcomes
  /\ pc = "returned" <=> outcome # "none"
  /\ output \in Text /\ sent \in 0..Len(output)
  /\ receiver \in Receivers /\ processed \in 0..Len(receiver.lines)

LineInv ==
  /\ Pieces(receiver, output, sent) /\ Marked(receiver, output)
  /\ Dropped \/ receiver.unfinished = Left
  /\ pc # "cut" => LFs(receiver.unfinished) = {}
  /\ \/ pc \in {"connect", "spinning", "loop", "receive", "cut", "process"}
     \/ outcome \in {"thrown", "cancelled", "cut"}
     => Len(receiver.lines) = Len(receiver.ends)
  /\ pc = "flush" \/ outcome = "eof" => Handed(receiver) /\ sent = Len(output)
  /\ outcome = "eof" => processed = Len(receiver.lines)

Inv == PlaceInv /\ LineInv

(* Nothing of the receiver changes.                                        *)
Kept == UNCHANGED <<output, sent, receiver, processed>>

LEMMA LinesInit == Init => Inv
<1> SUFFICES ASSUME Init  PROVE Inv
  OBVIOUS
<1>1. output \in Text
  <2>1. output \in Seq(STRING)
    BY ShellAssumption DEF Init
  <2>2. Len(output) \in Int /\ \A i \in 1..Len(output) : output[i] \in Tokens
    BY <2>1 DEF Tokens
  <2>3. SubSeq(output, 1, Len(output)) \in Text
    BY <2>2, SubSeqProperties DEF Text
  <2>4. SubSeq(output, 1, Len(output)) = output
    BY <2>1, SubSeqFull
  <2> QED
    BY <2>3, <2>4
<1>2. receiver = [unfinished |-> <<>>, lines |-> <<>>, ends |-> <<>>] /\ receiver \in Receivers
  BY DEF Init, NewReceiver, Receivers, Text
<1>3. Len(receiver.lines) = 0 /\ Len(receiver.ends) = 0 /\ Behind(receiver) = 0
  BY <1>2 DEF Behind
<1>4. PlaceInv
  BY <1>1, <1>2, <1>3 DEF Init, PlaceInv, Points, Outcomes, Text
<1>5. receiver.unfinished = Left
  BY <1>2, <1>3, SubSeqEmpty DEF Init, Left
<1>6. LFs(receiver.unfinished) = {}
  BY <1>2 DEF LFs
<1>7. Pieces(receiver, output, sent) /\ Marked(receiver, output)
  BY <1>3 DEF Pieces, Marked
<1> QED
  BY <1>3, <1>4, <1>5, <1>6, <1>7 DEF Inv, LineInv, Init

(* The steps that leave the receiver alone.                                *)
LEMMA KeptLines ==
  ASSUME Inv, Kept, cancelled' = cancelled, Connect \/ Check \/ ReceiveTimeout \/ ReceiveError
  PROVE  Inv'
<1> USE DEF Kept
<1>1. PlaceInv'
  <2>1. pc' \in Points /\ outcome' \in Outcomes /\ (pc' = "returned" <=> outcome' # "none")
    BY DEF Inv, PlaceInv, Connect, Check, ReceiveTimeout, ReceiveError, Returns, Points, Outcomes
  <2> QED
    BY <2>1 DEF Inv, PlaceInv
<1>2. /\ Pieces(receiver, output, sent)' /\ Marked(receiver, output)'
      /\ Left' = Left /\ receiver'.unfinished = receiver.unfinished
  BY DEF Inv, LineInv, Pieces, Marked, Left, Begin, Behind
<1>3. Dropped' \/ receiver.unfinished = Left
  BY DEF Inv, PlaceInv, LineInv, Dropped, Connect, Check, ReceiveTimeout, ReceiveError, Returns
<1>4. LFs(receiver.unfinished) = {}
  BY DEF Inv, LineInv, Connect, Check, ReceiveTimeout, ReceiveError
<1>5. Len(receiver.lines) = Len(receiver.ends)
  BY DEF Inv, LineInv, Connect, Check, ReceiveTimeout, ReceiveError
<1>6. pc' # "flush" /\ outcome' # "eof"
  BY DEF Inv, PlaceInv, Connect, Check, ReceiveTimeout, ReceiveError, Returns
<1> QED
  BY <1>1, <1>2, <1>3, <1>4, <1>5, <1>6 DEF Inv, LineInv

LEMMA CancelLines ==
  ASSUME Inv, Cancel
  PROVE  Inv'
<1>1. PlaceInv'
  BY DEF Inv, PlaceInv, Cancel, consumers
<1>2. Pieces(receiver, output, sent)' /\ Marked(receiver, output)' /\ Left' = Left
  BY DEF Inv, LineInv, Pieces, Marked, Left, Begin, Behind, Cancel, consumers
<1>3. ~Dropped
  BY DEF Cancel, Dropped
<1>4. UNCHANGED <<output, sent, receiver, processed, pc, outcome>>
  BY DEF Cancel, consumers
<1> QED
  BY <1>1, <1>2, <1>3, <1>4 DEF Inv, LineInv, Handed

(* A chunk arrives.                                                        *)
LEMMA ReceiveDataLines ==
  ASSUME Inv, ReceiveData
  PROVE  Inv'
<1>1. PICK n \in sent + 1..Len(output) :
        /\ sent' = n
        /\ IF cancelled THEN pc' = "loop" /\ waitCount' = 0 /\ UNCHANGED receiver
           ELSE /\ receiver' = Joined(receiver, SubSeq(output, sent + 1, n))
                /\ pc' = "cut"
                /\ UNCHANGED waitCount
  BY DEF ReceiveData
<1>2. pc = "receive" /\ UNCHANGED <<output, processed, cancelled, outcome>>
  BY DEF ReceiveData
<1>3. outcome = "none"
  BY <1>2 DEF Inv, PlaceInv
<1>4. sent \in Nat /\ Len(output) \in Nat /\ sent' \in sent..Len(output) /\ output \in Text
  BY <1>1 DEF Inv, PlaceInv, Text
<1>5. CASE cancelled
  <2>1. pc' = "loop" /\ receiver' = receiver
    BY <1>1, <1>5
  <2>2. PlaceInv'
    BY <1>2, <1>3, <1>4, <2>1 DEF Inv, PlaceInv, Points, Outcomes
  <2>3. Marked(receiver, output)'
    BY <1>2, <2>1 DEF Inv, LineInv, Marked, Behind
  <2>4. Pieces(receiver, output, sent)'
    <3>1. \A k \in 1..Len(receiver.ends) : receiver.ends[k] \in Nat
      BY DEF Inv, PlaceInv, Receivers
    <3>2. \A k \in 1..Len(receiver.ends) : receiver.ends[k] <= sent => receiver.ends[k] <= sent'
      BY <1>4, <3>1
    <3> QED
      BY <1>2, <2>1, <3>2 DEF Inv, LineInv, Pieces, Begin, Behind
  <2>5. Dropped'
    BY <1>2, <1>5, <2>1 DEF Dropped
  <2> QED
    BY <1>2, <1>3, <2>1, <2>2, <2>3, <2>4, <2>5 DEF Inv, LineInv
<1>6. CASE ~cancelled
  <2>1. pc' = "cut" /\ receiver' = Joined(receiver, SubSeq(output, sent + 1, sent'))
    BY <1>1, <1>6
  <2>2. receiver.unfinished = SubSeq(output, Behind(receiver) + 1, sent)
    BY <1>6 DEF Inv, LineInv, Dropped, Left
  <2>3. /\ receiver' \in Receivers /\ receiver'.lines = receiver.lines /\ receiver'.ends = receiver.ends
        /\ Pieces(receiver', output, sent') /\ Marked(receiver', output)
        /\ receiver'.unfinished = SubSeq(output, Behind(receiver') + 1, sent')
    <3>1. receiver \in Receivers /\ Pieces(receiver, output, sent) /\ Marked(receiver, output)
      BY DEF Inv, PlaceInv, LineInv
    <3>2. sent \in 0..Len(output) /\ sent' \in sent..Len(output)
      BY <1>4
    <3> QED
      BY <1>4, <2>1, <2>2, <3>1, <3>2, JoinedKeeps
  <2>4. PlaceInv'
    BY <1>2, <1>3, <1>4, <2>1, <2>3 DEF Inv, PlaceInv, Points, Outcomes
  <2>5. Len(receiver'.lines) = Len(receiver'.ends)
    BY <1>2, <2>3 DEF Inv, LineInv
  <2> QED
    BY <1>2, <1>3, <2>1, <2>3, <2>4, <2>5 DEF Inv, LineInv, Left
<1> QED
  BY <1>5, <1>6

(* A line is cut off, or there is none.                                    *)
LEMMA CutLines ==
  ASSUME Inv, Cut
  PROVE  Inv'
<1>1. pc = "cut" /\ outcome = "none" /\ UNCHANGED <<output, sent, processed, cancelled, outcome>>
  BY DEF Cut, Inv, PlaceInv
<1>2. receiver.unfinished = Left /\ Len(receiver.lines) = Len(receiver.ends)
  BY <1>1 DEF Inv, LineInv, Dropped
<1>3. output \in Text /\ sent \in 0..Len(output) /\ receiver \in Receivers
  BY DEF Inv, PlaceInv
<1>4. CASE HasLine(receiver)
  <2>1. receiver' = CutLine(receiver) /\ pc' = pc
    BY <1>4 DEF Cut
  <2>2. /\ receiver' \in Receivers
        /\ Len(receiver'.lines) = Len(receiver'.ends) /\ Len(receiver'.lines) = Len(receiver.lines) + 1
        /\ Pieces(receiver', output, sent) /\ Marked(receiver', output)
        /\ receiver'.unfinished = SubSeq(output, Behind(receiver') + 1, sent)
    <3>1. Pieces(receiver, output, sent) /\ Marked(receiver, output)
      BY DEF Inv, LineInv
    <3>2. receiver.unfinished = SubSeq(output, Behind(receiver) + 1, sent)
      BY <1>2 DEF Left
    <3> QED
      BY <1>2, <1>3, <1>4, <2>1, <3>1, <3>2, CutLineKeeps
  <2>3. Len(receiver.lines) \in Nat
    BY <1>3 DEF Receivers
  <2>4. PlaceInv'
    BY <1>1, <2>1, <2>2, <2>3 DEF Inv, PlaceInv
  <2> QED
    BY <1>1, <2>1, <2>2, <2>4 DEF Inv, LineInv, Left
<1>5. CASE ~HasLine(receiver)
  <2>1. receiver' = receiver /\ pc' = "process"
    BY <1>5 DEF Cut
  <2>2. LFs(receiver.unfinished) = {}
    BY <1>5 DEF HasLine
  <2>3. PlaceInv'
    BY <1>1, <2>1 DEF Inv, PlaceInv, Points
  <2>4. Pieces(receiver, output, sent)' /\ Marked(receiver, output)' /\ Left' = Left
    BY <1>1, <2>1 DEF Inv, LineInv, Pieces, Marked, Left, Begin, Behind
  <2> QED
    BY <1>1, <1>2, <2>1, <2>2, <2>3, <2>4 DEF Inv, LineInv
<1> QED
  BY <1>4, <1>5

(* A line is processed, and addOutput or flush returns.                    *)
LEMMA ProcessLines ==
  ASSUME Inv, ProcessLine \/ Processed \/ FlushEnd
  PROVE  Inv'
<1>1. UNCHANGED <<output, sent, receiver, cancelled>>
  BY DEF ProcessLine, Processed, FlushEnd, consumers
<1>2. /\ Pieces(receiver, output, sent)' /\ Marked(receiver, output)' /\ Left' = Left
      /\ Handed(receiver)' <=> Handed(receiver)
  BY <1>1 DEF Inv, LineInv, Pieces, Marked, Left, Begin, Behind, Handed
<1>3. outcome = "none" /\ pc \in {"process", "flush"} /\ LFs(receiver.unfinished) = {}
      /\ receiver.unfinished = Left /\ Len(receiver.lines) \in Nat
  BY DEF Inv, PlaceInv, LineInv, Dropped, ProcessLine, Processed, FlushEnd, Receivers
<1>4. CASE ProcessLine
  <2>1. processed' = processed + 1 /\ processed' \in 0..Len(receiver.lines)
    BY <1>3, <1>4 DEF ProcessLine, Inv, PlaceInv
  <2>2. \/ pc' = "returned" /\ outcome' = "error"
        \/ pc' = pc /\ outcome' = outcome
    BY <1>4 DEF ProcessLine, Returns
  <2>3. PlaceInv'
    BY <1>1, <1>3, <2>1, <2>2 DEF Inv, PlaceInv, Points, Outcomes
  <2> QED
    BY <1>1, <1>2, <1>3, <2>2, <2>3 DEF Inv, LineInv
<1>5. CASE Processed
  <2>1. pc = "process" /\ pc' = "loop" /\ outcome' = "none" /\ processed' = processed
    BY <1>3, <1>5 DEF Processed, consumers
  <2>2. PlaceInv'
    BY <1>1, <1>3, <2>1 DEF Inv, PlaceInv, Points, Outcomes
  <2> QED
    BY <1>1, <1>2, <1>3, <2>1, <2>2 DEF Inv, LineInv
<1>6. CASE FlushEnd
  <2>1. /\ pc = "flush" /\ pc' = "returned" /\ outcome' = "eof"
        /\ processed = Len(receiver.lines) /\ processed' = processed
    BY <1>6 DEF FlushEnd, Returns
  <2>2. PlaceInv'
    BY <1>1, <1>3, <2>1 DEF Inv, PlaceInv, Points, Outcomes
  <2> QED
    BY <1>1, <1>2, <1>3, <2>1, <2>2 DEF Inv, LineInv
<1> QED
  BY <1>4, <1>5, <1>6

(* The device closes the connection.                                       *)
LEMMA ReceiveEndLines ==
  ASSUME Inv, ReceiveEnd
  PROVE  Inv'
<1>1. /\ pc = "receive" /\ pc' = "flush" /\ sent = Len(output) /\ receiver' = Flushed(receiver)
      /\ UNCHANGED <<output, sent, processed, cancelled, outcome>>
  BY DEF ReceiveEnd
<1>2. /\ outcome = "none" /\ receiver \in Receivers /\ receiver.unfinished = Left
      /\ Len(receiver.lines) = Len(receiver.ends) /\ LFs(receiver.unfinished) = {}
      /\ Pieces(receiver, output, sent) /\ Marked(receiver, output)
  BY <1>1 DEF Inv, PlaceInv, LineInv, Dropped
<1>3. /\ receiver' \in Receivers /\ receiver'.unfinished = receiver.unfinished
      /\ receiver'.ends = receiver.ends /\ Len(receiver'.lines) >= Len(receiver.lines)
      /\ Pieces(receiver', output, sent) /\ Marked(receiver', output) /\ Handed(receiver')
  BY <1>1, <1>2, FlushedKeeps
<1>4. Behind(receiver') = Behind(receiver)
  BY <1>3 DEF Behind
<1>5. Len(receiver.lines) \in Nat /\ Len(receiver'.lines) \in Nat
  BY <1>2, <1>3 DEF Receivers
<1>6. processed' \in 0..Len(receiver'.lines)
  BY <1>1, <1>3, <1>5 DEF Inv, PlaceInv
<1>7. PlaceInv'
  BY <1>1, <1>2, <1>3, <1>6 DEF Inv, PlaceInv, Points
<1> QED
  BY <1>1, <1>2, <1>3, <1>4, <1>7 DEF Inv, LineInv, Left

LEMMA LinesStep == Inv /\ [Next]_vars => Inv'
<1> SUFFICES ASSUME Inv, [Next]_vars  PROVE Inv'
  OBVIOUS
<1>1. CASE Connect \/ Check \/ ReceiveTimeout \/ ReceiveError
  <2>1. Kept /\ cancelled' = cancelled
    BY <1>1 DEF Connect, Check, ReceiveTimeout, ReceiveError, Kept, consumers
  <2> QED
    BY <1>1, <2>1, KeptLines
<1>2. CASE ReceiveData
  BY <1>2, ReceiveDataLines
<1>3. CASE Cut
  BY <1>3, CutLines
<1>4. CASE ProcessLine \/ Processed \/ FlushEnd
  BY <1>4, ProcessLines
<1>5. CASE ReceiveEnd
  BY <1>5, ReceiveEndLines
<1>6. CASE Cancel
  BY <1>6, CancelLines
<1>7. CASE UNCHANGED vars
  BY <1>7 DEF vars, consumers, Inv, PlaceInv, LineInv, Pieces, Marked, Left, Begin, Behind, Handed, Dropped
<1> QED
  BY <1>1, <1>2, <1>3, <1>4, <1>5, <1>6, <1>7 DEF Next, Run

(* The receiver has cut off consecutive pieces of the output.              *)
THEOREM LineInvariant == Spec => []Inv
<1> QED
  BY LinesInit, LinesStep, PTL DEF Spec

(* However the output is cut into chunks, the lines are its consecutive    *)
(* pieces, trimmed (MultiLineReceiver::addOutput, flush).                  *)
THEOREM LinesAreWhole == Spec => []LinesWhole
<1>1. Inv => LinesWhole
  <2> SUFFICES ASSUME Inv  PROVE LinesWhole
    OBVIOUS
  <2> DEFINE r == receiver
             more == SubSeq(r.lines, Len(r.ends) + 1, Len(r.lines))
  <2>1. r \in Receivers /\ r.ends \in Seq(Nat) /\ r.lines \in Seq(Text) /\ DOMAIN r.ends = 1..Len(r.ends)
    BY DEF Inv, PlaceInv, Receivers
  <2>2. \A k \in DOMAIN r.ends :
          /\ Begin(r, k) < r.ends[k] /\ r.ends[k] <= sent
          /\ r.lines[k] = Trim(SubSeq(output, Begin(r, k) + 1, r.ends[k]))
    BY <2>1 DEF Inv, LineInv, Pieces
  <2>3. Uniform(output) => \A i \in 1..Behind(r) : output[i] = LF <=> i \in ToSet(r.ends)
    BY DEF Inv, LineInv, Marked
  <2>4. ASSUME ~cancelled, pc \in {"loop", "receive", "returned"}, outcome # "error"
        PROVE  LF \notin ToSet(Left) /\ more = IF outcome = "eof" /\ Left # <<>> THEN <<Left>> ELSE <<>>
    <3>1. r.unfinished = Left /\ LFs(Left) = {} /\ Left \in Text
      BY <2>1, <2>4 DEF Inv, LineInv, Dropped, Receivers
    <3>2. LF \notin ToSet(Left)
      <4>1. \A i \in 1..Len(Left) : Left[i] # LF
        BY <3>1 DEF LFs
      <4> QED
        BY <3>1, <4>1, Elements DEF Text
    <3>3. CASE outcome = "eof" /\ Left # <<>>
      <4>1. Len(r.lines) = Len(r.ends) + 1 /\ r.lines[Len(r.ends) + 1] = Left
        BY <3>1, <3>3 DEF Inv, LineInv, Handed
      <4> DEFINE m == Len(r.ends) + 1
      <4>2. m \in 1..Len(r.lines) /\ more = SubSeq(r.lines, m, m)
        BY <2>1, <4>1
      <4>3. SubSeq(r.lines, m, m) = <<r.lines[m]>>
        <5> HIDE DEF m, more
        <5>1. /\ SubSeq(r.lines, m, m) \in Seq(Text) /\ Len(SubSeq(r.lines, m, m)) = m - m + 1
              /\ \A i \in 1..m - m + 1 : SubSeq(r.lines, m, m)[i] = r.lines[m + i - 1]
          <6>1. m \in Int /\ \A i \in m..m : r.lines[i] \in Text
            BY <2>1, <4>2
          <6>2. m <= m
            BY <6>1
          <6> QED
            BY <6>1, <6>2, SubSeqProperties
        <5>2. m \in Int /\ m - m + 1 = 1 /\ m + 1 - 1 = m
          BY <4>2
        <5> DEFINE u == SubSeq(r.lines, m, m)
        <5> HIDE DEF u
        <5>3. u \in Seq(Text) /\ Len(u) = 1 /\ u[1] = r.lines[m]
          BY <5>1, <5>2 DEF u
        <5>4. u = <<r.lines[m]>>
          BY <5>3
        <5> QED
          BY <5>4 DEF u
      <4>4. r.lines[m] = Left
        BY <4>1
      <4> HIDE DEF more, m
      <4> QED
        BY <3>2, <3>3, <4>2, <4>3, <4>4
    <3>4. CASE ~(outcome = "eof" /\ Left # <<>>)
      <4>1. Len(r.lines) = Len(r.ends)
        BY <2>4, <3>1, <3>4 DEF Inv, PlaceInv, LineInv, Handed, Outcomes
      <4>2. more = <<>>
        BY <2>1, <4>1, SubSeqEmpty
      <4> HIDE DEF more
      <4> QED
        BY <3>2, <3>4, <4>2
    <3> QED
      BY <3>3, <3>4
  <2> QED
    BY <2>2, <2>3, <2>4 DEF LinesWhole, Left
<1> QED
  BY <1>1, LineInvariant, PTL

(***************************************************************************)
(* The error of an installation.                                           *)
(***************************************************************************)

(* A visible token is in one of the lines exactly if it is in the output.  *)
LEMMA SeenInLines ==
  ASSUME NEW out \in Text, NEW r \in Receivers, NEW t, t \notin White,
         Pieces(r, out, Len(out)), Handed(r), r.unfinished = SubSeq(out, Behind(r) + 1, Len(out))
  PROVE  t \in ToSet(out) <=> \E k \in 1..Len(r.lines) : t \in ToSet(r.lines[k])
<1> DEFINE n == Len(out)
           b == Behind(r)
           m == Len(r.ends)
           Piece(k) == SubSeq(out, Begin(r, k) + 1, r.ends[k])
<1>1. n \in Nat /\ b \in Nat /\ b <= n /\ m \in Nat /\ r.ends \in Seq(Nat) /\ r.lines \in Seq(Text)
  BY BehindType DEF Receivers, Text
<1>2. t \in ToSet(out) <=> \E i \in 1..n : out[i] = t
  BY Elements DEF Text
<1>3. ASSUME NEW k \in 1..m
      PROVE  /\ r.lines[k] = Trim(Piece(k)) /\ k \in 1..Len(r.lines)
             /\ Begin(r, k) \in Nat /\ r.ends[k] \in Nat /\ Begin(r, k) < r.ends[k] /\ r.ends[k] <= n
             /\ t \in ToSet(r.lines[k]) <=> \E i \in Begin(r, k) + 1..r.ends[k] : out[i] = t
  <2> DEFINE a == Begin(r, k)
             e == r.ends[k]
             p == Piece(k)
  <2>1. r.lines[k] = Trim(p) /\ k \in 1..Len(r.lines) /\ a < e /\ e <= n
    BY <1>1 DEF Pieces
  <2>2. a \in Nat /\ e \in Nat
    <3>1. e \in Nat
      BY <1>1
    <3>2. m \in Nat /\ \A j \in 1..m : r.ends[j] \in Nat
      BY <1>1
    <3> HIDE DEF m
    <3>3. k # 1 => k - 1 \in 1..m
      BY <3>2
    <3> QED
      BY <3>1, <3>2, <3>3 DEF Begin
  <2>3. p \in Text /\ Len(p) = e - a /\ \A i \in 1..e - a : p[i] = out[a + i]
    <3> DEFINE c == a + 1
    <3>2. p = SubSeq(out, c, e)
      OBVIOUS
    <3> HIDE DEF a, e
    <3>1. c \in 1..Len(out) + 1 /\ e \in 0..Len(out) /\ c <= e + 1 /\ e - c + 1 = e - a
          /\ \A i \in 1..e - a : c + i - 1 = a + i
      BY <1>1, <2>1, <2>2
    <3> HIDE DEF c, p
    <3>3. /\ SubSeq(out, c, e) \in Text
          /\ Len(SubSeq(out, c, e)) = e - c + 1
          /\ \A i \in 1..e - c + 1 : SubSeq(out, c, e)[i] = out[c + i - 1]
      BY <3>1, Part
    <3> QED
      BY <3>1, <3>2, <3>3
  <2> HIDE DEF a, e, p
  <2>4. t \in ToSet(r.lines[k]) <=> \E i \in 1..e - a : out[a + i] = t
    <3>1. t \in ToSet(p) <=> \E i \in 1..Len(p) : p[i] = t
      BY <2>3, Elements DEF Text
    <3>2. t \in ToSet(r.lines[k]) <=> t \in ToSet(p)
      BY <2>1, <2>3, TrimKeeps
    <3> QED
      BY <2>3, <3>1, <3>2
  <2>5. ASSUME NEW i \in a + 1..e, out[i] = t  PROVE \E j \in 1..e - a : out[a + j] = t
    <3>1. i - a \in 1..e - a /\ a + (i - a) = i
      BY <2>2
    <3> QED
      BY <2>5, <3>1
  <2>6. ASSUME NEW j \in 1..e - a, out[a + j] = t  PROVE \E i \in a + 1..e : out[i] = t
    <3>1. a + j \in a + 1..e
      BY <2>2
    <3> QED
      BY <2>6, <3>1
  <2>7. t \in ToSet(r.lines[k]) <=> \E i \in a + 1..e : out[i] = t
    BY <2>4, <2>5, <2>6
  <2> QED
    BY <2>1, <2>2, <2>7 DEF a, e, p
<1>4. /\ r.unfinished \in Text
      /\ t \in ToSet(r.unfinished) <=> \E i \in b + 1..n : out[i] = t
  <2> DEFINE c == b + 1
             u == r.unfinished
  <2>1. c \in 1..Len(out) + 1 /\ n \in 0..Len(out) /\ c <= n + 1 /\ n - c + 1 = n - b
        /\ \A i \in 1..n - b : c + i - 1 = b + i
    BY <1>1
  <2>2. u = SubSeq(out, c, n)
    OBVIOUS
  <2> HIDE DEF c, u, n
  <2>3. u \in Text /\ Len(u) = n - c + 1 /\ \A i \in 1..n - c + 1 : u[i] = out[c + i - 1]
    BY <2>1, <2>2, Part
  <2>4. Len(u) = n - b /\ \A i \in 1..n - b : u[i] = out[b + i]
    BY <2>1, <2>3
  <2>5. t \in ToSet(u) <=> \E i \in 1..Len(u) : u[i] = t
    BY <2>3, Elements DEF Text
  <2> HIDE DEF b
  <2>6. ASSUME NEW i \in b + 1..n, out[i] = t  PROVE \E j \in 1..n - b : out[b + j] = t
    <3>1. i - b \in 1..n - b /\ b + (i - b) = i
      BY <1>1
    <3> QED
      BY <2>6, <3>1
  <2>7. ASSUME NEW j \in 1..n - b, out[b + j] = t  PROVE \E i \in b + 1..n : out[i] = t
    <3>1. b + j \in b + 1..n
      BY <1>1
    <3> QED
      BY <2>7, <3>1
  <2> QED
    BY <2>3, <2>4, <2>5, <2>6, <2>7 DEF u
<1>5. ASSUME NEW i \in 1..n, out[i] = t
      PROVE  \E k \in 1..Len(r.lines) : t \in ToSet(r.lines[k])
  <2>1. CASE i <= b
    <3>1. i \in 1..b
      BY <2>1
    <3>2. PICK k \in 1..m : Begin(r, k) < i /\ i <= r.ends[k]
      BY <1>1, <3>1, InAPiece
    <3>3. i \in Begin(r, k) + 1..r.ends[k]
      <4>1. Begin(r, k) \in Nat /\ r.ends[k] \in Nat
        BY <1>3
      <4> QED
        BY <3>2, <4>1
    <3> QED
      BY <1>3, <1>5, <3>3
  <2>2. CASE i > b
    <3>1. i \in b + 1..n
      BY <1>1, <2>2
    <3>2. t \in ToSet(r.unfinished)
      BY <1>4, <1>5, <3>1
    <3>3. r.unfinished # <<>>
      <4>1. PICK j \in 1..Len(r.unfinished) : r.unfinished[j] = t
        BY <1>4, <3>2, Elements DEF Text
      <4>2. Len(<<>>) = 0
        OBVIOUS
      <4>3. CASE r.unfinished = <<>>
        <5>1. j \in 1..0
          BY <4>2, <4>3
        <5> QED
          BY <5>1
      <4> QED
        BY <4>3
    <3>4. Len(r.lines) = m + 1 /\ r.lines[m + 1] = r.unfinished
      BY <3>3 DEF Handed
    <3>5. m + 1 \in 1..Len(r.lines)
      BY <1>1, <3>4
    <3> QED
      BY <3>2, <3>4, <3>5
  <2> QED
    BY <1>1, <2>1, <2>2
<1>6. ASSUME NEW k \in 1..Len(r.lines), t \in ToSet(r.lines[k])
      PROVE  \E i \in 1..n : out[i] = t
  <2>1. CASE k \in 1..m
    <3>1. PICK i \in Begin(r, k) + 1..r.ends[k] : out[i] = t
      BY <1>3, <1>6, <2>1
    <3>2. i \in 1..n
      <4>1. Begin(r, k) \in Nat /\ r.ends[k] \in Nat /\ r.ends[k] <= n
        BY <1>3, <2>1
      <4> QED
        BY <1>1, <4>1
    <3> QED
      BY <3>1, <3>2
  <2>2. CASE k \notin 1..m
    <3>1. Len(r.lines) \in Nat /\ Len(r.lines) > m
      BY <1>1, <2>2
    <3>2. r.unfinished # <<>>
      BY <1>1, <3>1 DEF Handed
    <3>3. Len(r.lines) = m + 1 /\ r.lines[m + 1] = r.unfinished
      BY <3>2 DEF Handed
    <3>4. k = m + 1
      BY <1>1, <2>2, <3>3
    <3>5. PICK i \in b + 1..n : out[i] = t
      BY <1>4, <1>6, <3>3, <3>4
    <3>6. i \in 1..n
      BY <1>1
    <3> QED
      BY <3>5, <3>6
  <2> QED
    BY <2>1, <2>2
<1> QED
  BY <1>2, <1>5, <1>6

(* What an InstallReceiver knows of the lines it has processed.            *)
ErrorInv ==
  /\ caller \in {"tests", "install"} /\ error \in BOOLEAN
  /\ caller = "install" =>
       (error <=> \E k \in 1..processed : "Failure" \in ToSet(receiver.lines[k]))

LEMMA ErrorInit == Init => ErrorInv
<1> SUFFICES ASSUME Init  PROVE ErrorInv
  OBVIOUS
<1>1. error = FALSE /\ processed = 0 /\ caller \in {"tests", "install"}
  BY DEF Init
<1>2. \A k \in 1..0 : FALSE
  OBVIOUS
<1> QED
  BY <1>1, <1>2 DEF ErrorInv

(* The lines there are stay.                                               *)
LEMMA LinesStay ==
  ASSUME Inv, [Next]_vars
  PROVE  \A k \in 1..Len(receiver.lines) : receiver'.lines[k] = receiver.lines[k]
<1>1. CASE ReceiveData
  BY <1>1 DEF ReceiveData, Joined, Inv, PlaceInv, Receivers
<1>2. CASE Cut
  <2>1. receiver.lines \in Seq(Text)
    BY DEF Inv, PlaceInv, Receivers
  <2>2. \A r : \E l : CutLine(r).lines = Append(r.lines, l)
    BY DEF CutLine
  <2>3. receiver' = receiver \/ \E l : receiver'.lines = Append(receiver.lines, l)
    BY <1>2, <2>2 DEF Cut
  <2> QED
    BY <2>1, <2>3
<1>3. CASE ReceiveEnd
  <2>1. receiver.lines \in Seq(Text) /\ receiver' = Flushed(receiver)
    BY <1>3 DEF Inv, PlaceInv, Receivers, ReceiveEnd
  <2>2. receiver'.lines = receiver.lines \/ \E l : receiver'.lines = Append(receiver.lines, l)
    BY <2>1 DEF Flushed, Inv, PlaceInv, Receivers
  <2> QED
    BY <2>1, <2>2
<1>4. CASE Connect \/ Check \/ ReceiveTimeout \/ ReceiveError \/ ProcessLine \/ Processed \/ FlushEnd
           \/ Cancel \/ UNCHANGED vars
  BY <1>4 DEF Connect, Check, ReceiveTimeout, ReceiveError, ProcessLine, Processed, FlushEnd,
              Cancel, vars, consumers
<1> QED
  BY <1>1, <1>2, <1>3, <1>4 DEF Next, Run

LEMMA ErrorStep == Inv /\ ErrorInv /\ [Next]_vars => ErrorInv'
<1> SUFFICES ASSUME Inv, ErrorInv, [Next]_vars  PROVE ErrorInv'
  OBVIOUS
<1>1. processed \in 0..Len(receiver.lines) /\ Len(receiver.lines) \in Nat
  BY DEF Inv, PlaceInv, Receivers
<1>2. \A k \in 1..processed : receiver'.lines[k] = receiver.lines[k]
  BY <1>1, LinesStay
<1>3. CASE ProcessLine
  <2>1. /\ processed < Len(receiver.lines) /\ processed' = processed + 1
        /\ Process(receiver.lines[processed']) /\ UNCHANGED <<caller, receiver>>
    BY <1>3 DEF ProcessLine
  <2>2. CASE caller = "tests"
    BY <2>1, <2>2 DEF Process, ErrorInv
  <2>3. CASE caller = "install"
    <3>1. error' = (error \/ "Failure" \in ToSet(receiver.lines[processed + 1]))
      BY <2>1, <2>3 DEF Process
    <3>2. \A k \in 1..processed + 1 : k \in 1..processed \/ k = processed + 1
      BY <1>1
    <3>3. processed + 1 \in 1..processed + 1 /\ \A k \in 1..processed : k \in 1..processed + 1
      BY <1>1
    <3>4. error' \in BOOLEAN
      BY <3>1 DEF ErrorInv
    <3>5. error' <=> \E k \in 1..processed + 1 : "Failure" \in ToSet(receiver.lines[k])
      BY <2>3, <3>1, <3>2, <3>3 DEF ErrorInv
    <3> QED
      BY <2>1, <2>3, <3>4, <3>5 DEF ErrorInv
  <2> QED
    BY <2>2, <2>3 DEF ErrorInv
<1>4. CASE ~ProcessLine
  <2>1. UNCHANGED <<caller, error, processed>>
    BY <1>4 DEF Next, Run, Connect, Check, ReceiveTimeout, ReceiveError, ReceiveData, Cut, Processed,
                ReceiveEnd, FlushEnd, Cancel, vars, consumers
  <2> QED
    BY <1>2, <2>1 DEF ErrorInv
<1> QED
  BY <1>3, <1>4

(* An installation that failed is reported as failed, if all of the output *)
(* came (Device::InstallReceiver, MultiLineReceiver::flush).               *)
THEOREM FailuresAreSeen == Spec => []FailureSeen
<1>1. Inv /\ ErrorInv => FailureSeen
  <2> SUFFICES ASSUME Inv, ErrorInv, caller = "install", outcome = "eof"
               PROVE  error <=> "Failure" \in ToSet(output)
    BY DEF FailureSeen
  <2>1. Handed(receiver) /\ sent = Len(output) /\ processed = Len(receiver.lines) /\ pc = "returned"
    BY DEF Inv, LineInv, PlaceInv
  <2>2. receiver.unfinished = SubSeq(output, Behind(receiver) + 1, Len(output))
    BY <2>1 DEF Inv, LineInv, Dropped, Left
  <2>3. "Failure" \notin White
    BY DEF White, CR, LF, Blank
  <2>4. output \in Text /\ receiver \in Receivers /\ Pieces(receiver, output, Len(output))
    BY <2>1 DEF Inv, PlaceInv, LineInv
  <2>5. "Failure" \in ToSet(output)
          <=> \E k \in 1..Len(receiver.lines) : "Failure" \in ToSet(receiver.lines[k])
    BY <2>1, <2>2, <2>3, <2>4, SeenInLines
  <2> QED
    BY <2>1, <2>5 DEF ErrorInv
<1>2. Spec => []ErrorInv
  BY ErrorInit, ErrorStep, LineInvariant, PTL DEF Spec
<1> QED
  BY <1>1, <1>2, LineInvariant, PTL

(***************************************************************************)
(* The listeners of a test run.                                            *)
(***************************************************************************)

Results == [code : Int, class : BOOLEAN, test : BOOLEAN, numTests : Int]
Parsers ==
  [key : Text, value : Text, inResultKey : BOOLEAN, current : Results, last : Results,
   startReported : BOOLEAN, runFinished : BOOLEAN, failReported : BOOLEAN,
   expected : Int, run : Int, told : Seq(STRING), raised : BOOLEAN]

(* A key ends with "=", and so it is none of the keys the parser knows.    *)
NoKey(key) == key = <<>> \/ key[Len(key)] = "="

(* No result is complete, or says how many tests there are.                *)
Empty(result) == result.class = FALSE /\ result.test = FALSE /\ result.numTests = 0

(* The parser has told its listeners nothing.                              *)
Silent(p) ==
  /\ p \in Parsers /\ NoKey(p.key) /\ Empty(p.current) /\ Empty(p.last)
  /\ ~p.startReported /\ ~p.failReported /\ p.expected = 0 /\ p.run = 0
  /\ p.told = <<>>

LEMMA SilentSubmit ==
  ASSUME NEW p, Silent(p)
  PROVE  /\ Silent(SubmitCurrentKeyValue(p))
         /\ SubmitCurrentKeyValue(p).raised = p.raised
<1> DEFINE q == [p EXCEPT !.key = <<>>, !.value = <<>>]
<1>1. <<>> \in Text
  BY DEF Text
<1>2. q \in Parsers /\ q.key = <<>> /\ q.raised = p.raised
  BY <1>1 DEF Silent, Parsers
<1>3. Silent(q)
  BY <1>1 DEF Silent, Parsers, NoKey
<1>4. CASE p.key = <<>> \/ p.value = <<>>
  BY <1>4 DEF SubmitCurrentKeyValue
<1>5. CASE ~(p.key = <<>> \/ p.value = <<>>)
  <2>1. p.key[Len(p.key)] = "="
    BY <1>5 DEF Silent, NoKey
  <2>2. p.key # CLASS /\ p.key # TEST /\ p.key # NUMTESTS /\ p.key # ERROR
    <3>1. /\ Len(CLASS) = 1 /\ CLASS[1] = "class" /\ Len(TEST) = 1 /\ TEST[1] = "test"
          /\ Len(NUMTESTS) = 1 /\ NUMTESTS[1] = "numtests" /\ Len(ERROR) = 1 /\ ERROR[1] = "Error"
      BY DEF CLASS, TEST, NUMTESTS, ERROR
    <3> QED
      BY <2>1, <3>1
  <2>3. SubmitCurrentKeyValue(p) = q
    <3> HIDE DEF q
    <3>1. CASE p.inResultKey
      BY <1>5, <3>1 DEF SubmitCurrentKeyValue, KNOWN_KEYS, q
    <3>2. CASE ~p.inResultKey
      BY <1>5, <2>2, <3>2 DEF SubmitCurrentKeyValue, q
    <3> QED
      BY <3>1, <3>2
  <2> QED
    BY <1>2, <1>3, <2>3
<1> QED
  BY <1>4, <1>5

LEMMA SilentStatusCode ==
  ASSUME NEW p, Silent(p), NEW line \in Text
  PROVE  Silent(ParseStatusCode(p, line))
<1> DEFINE code == SubSeq(line, 2, Len(line))
           n == NumberOf(code)
           result == [p.current EXCEPT !.code = n]
<1>1. p.current \in Results /\ Empty(p.current) /\ p \in Parsers
  BY DEF Silent, Parsers
<1>2. CASE code \notin Numerals
  <2>1. ParseStatusCode(p, line) = [p EXCEPT !.current.code = ERRORS, !.raised = TRUE]
    BY <1>2 DEF ParseStatusCode
  <2>2. ERRORS \in Int
    BY DEF ERRORS
  <2>3. [p.current EXCEPT !.code = ERRORS] \in Results /\ Empty([p.current EXCEPT !.code = ERRORS])
    BY <1>1, <2>2 DEF Results, Empty
  <2>4. ParseStatusCode(p, line)
          = [p EXCEPT !.current = [p.current EXCEPT !.code = ERRORS], !.raised = TRUE]
    BY <1>1, <2>1 DEF Parsers
  <2> DEFINE failed == [p.current EXCEPT !.code = ERRORS]
  <2> HIDE DEF failed
  <2>5. Silent([p EXCEPT !.current = failed, !.raised = TRUE])
    BY <2>3 DEF Silent, Parsers, failed
  <2> QED
    BY <2>4, <2>5 DEF failed
<1>3. CASE code \in Numerals
  <2>1. n \in Int
    <3> HIDE DEF code
    <3> QED
      BY <1>3 DEF NumberOf, Numerals
  <2> HIDE DEF n
  <2>2. result \in Results /\ Empty(result)
    BY <1>1, <2>1 DEF Results, Empty
  <2>3. ~IsComplete(result)
    BY <2>2 DEF IsComplete, Empty
  <2>4. ReportResult(p, result) = p
    BY <2>3 DEF ReportResult
  <2>5. NewResult \in Results /\ Empty(NewResult)
    BY DEF NewResult, Results, Empty
  <2>6. \/ ParseStatusCode(p, line) = [p EXCEPT !.current = result]
        \/ ParseStatusCode(p, line) = [p EXCEPT !.last = result, !.current = NewResult]
    <3> HIDE DEF code
    <3>1. ParseStatusCode(p, line)
            = IF code \notin Numerals THEN [p EXCEPT !.current.code = ERRORS, !.raised = TRUE]
              ELSE IF result.code = IN_PROGRESS THEN [p EXCEPT !.current = result]
              ELSE [ReportResult(p, result) EXCEPT !.last = result, !.current = NewResult]
      BY DEF ParseStatusCode, code, n
    <3> HIDE DEF result
    <3> QED
      BY <1>3, <2>4, <3>1
  <2> HIDE DEF result
  <2>7. Silent([p EXCEPT !.current = result])
    BY <2>2 DEF Silent, Parsers
  <2>8. Silent([p EXCEPT !.last = result, !.current = NewResult])
    BY <2>2, <2>5 DEF Silent, Parsers
  <2> QED
    BY <2>6, <2>7, <2>8
<1> QED
  BY <1>2, <1>3

LEMMA SilentKey ==
  ASSUME NEW p, Silent(p), NEW line \in Text
  PROVE  Silent(ParseKey(p, line))
<1> DEFINE E == {i \in DOMAIN line : i > 1 /\ line[i] = "="}
           key == SubSeq(line, 2, Min(E))
           value == SubSeq(line, Min(E) + 1, Len(line))
<1>1. DOMAIN line = 1..Len(line) /\ Len(line) \in Nat
  BY DEF Text
<1>2. ParseKey(p, line) = IF E = {} THEN p ELSE [p EXCEPT !.key = key, !.value = value]
  BY DEF ParseKey
<1>3. CASE E # {}
  <2>1. Min(E) \in E
    BY <1>1, <1>3, MinLemma
  <2> DEFINE k == Min(E)
  <2> HIDE DEF k
  <2>2. k \in 2..Len(line) /\ line[k] = "="
    BY <1>1, <2>1 DEF k
  <2>3. /\ SubSeq(line, 2, k) \in Text /\ Len(SubSeq(line, 2, k)) = k - 2 + 1
        /\ \A i \in 1..k - 2 + 1 : SubSeq(line, 2, k)[i] = line[2 + i - 1]
    <3>1. 2 \in 1..Len(line) + 1 /\ k \in 0..Len(line) /\ 2 <= k + 1
      BY <1>1, <2>2
    <3> QED
      BY <3>1, Part
  <2>4. k - 2 + 1 = k - 1 /\ k - 1 \in 1..k - 2 + 1 /\ 2 + (k - 1) - 1 = k
    BY <2>2
  <2>5. key \in Text /\ key[Len(key)] = "="
    BY <2>2, <2>3, <2>4 DEF k
  <2>6. value \in Text
    <3>1. k + 1 \in 1..Len(line) + 1 /\ Len(line) \in 0..Len(line)
      BY <1>1, <2>2
    <3> QED
      BY <3>1, Part DEF k
  <2> HIDE DEF key, value, E
  <2>7. Silent([p EXCEPT !.key = key, !.value = value])
    BY <2>5, <2>6 DEF Silent, Parsers, NoKey
  <2> QED
    BY <1>2, <1>3, <2>7
<1> QED
  BY <1>2, <1>3

(* Whatever line comes, the parser tells its listeners nothing of it.      *)
LEMMA SilentParse ==
  ASSUME NEW p, Silent(p), NEW line \in Text
  PROVE  Silent(Parse(p, line))
<1> DEFINE s == SubmitCurrentKeyValue(p)
           q(inResult) == [s EXCEPT !.inResultKey = inResult]
           prefix == IF line = <<>> THEN "" ELSE line[1]
           more == [p EXCEPT !.value = p.value \o <<"CR", "LF">> \o line]
           done == [q(FALSE) EXCEPT !.runFinished = TRUE]
<1>1. Silent(s) /\ s.raised = p.raised
  BY SilentSubmit
<1>2. Silent(q(FALSE)) /\ Silent(q(TRUE)) /\ Silent(done)
  <2> HIDE DEF s
  <2> QED
    BY <1>1 DEF Silent, Parsers
<1>3. Silent(more)
  <2>1. p.value \o <<"CR", "LF">> \o line \in Text
    <3>1. "CR" \in Tokens /\ "LF" \in Tokens
      BY DEF Tokens
    <3>2. p.value \in Seq(Tokens) /\ <<"CR", "LF">> \in Seq(Tokens) /\ line \in Seq(Tokens)
      BY <3>1 DEF Silent, Parsers, Text
    <3> QED
      BY <3>2 DEF Text
  <2> DEFINE v == p.value \o <<"CR", "LF">> \o line
  <2> HIDE DEF v
  <2>2. Silent([p EXCEPT !.value = v])
    BY <2>1 DEF Silent, Parsers, v
  <2> QED
    BY <2>2 DEF v
<1>4. Silent(ParseTime(p, line))
  BY DEF ParseTime, Silent, Parsers
<1>5. Silent(ParseStatusCode(q(FALSE), line))
  <2> HIDE DEF q
  <2> QED
    BY <1>2, SilentStatusCode
<1>6. Silent(ParseKey(q(FALSE), line)) /\ Silent(ParseKey(q(TRUE), line))
  <2> HIDE DEF q
  <2> QED
    BY <1>2, SilentKey
<1>7. Parse(p, line) =
        IF prefix \in {"STATUS_CODE", "STATUS", "RESULT", "FAILED", "CODE"}
        THEN IF s.raised THEN s
             ELSE CASE prefix = "STATUS_CODE" -> ParseStatusCode(q(FALSE), line)
                    [] prefix = "STATUS" -> ParseKey(q(FALSE), line)
                    [] prefix = "RESULT" -> ParseKey(q(TRUE), line)
                    [] prefix \in {"FAILED", "CODE"} -> done
        ELSE IF \E i \in DOMAIN line : line[i] = "TIME" THEN ParseTime(p, line)
        ELSE IF p.value # <<>> THEN more ELSE p
  BY DEF Parse
<1> HIDE DEF s, q, prefix, more, done
<1>8. Parse(p, line) \in {s, ParseStatusCode(q(FALSE), line), ParseKey(q(FALSE), line),
                          ParseKey(q(TRUE), line), done, ParseTime(p, line), more, p}
  BY <1>7
<1> QED
  BY <1>1, <1>2, <1>3, <1>4, <1>5, <1>6, <1>8

(* What a listener hears of the end of a run.                              *)
Passed == <<"testRunStarted", "testRunEnded">>
Failed == <<"testRunStarted", "testRunFailed", "testRunEnded">>

(* Short sequences.                                                        *)
LEMMA OneAndOne ==
  ASSUME NEW a, NEW b
  PROVE  <<a>> \o <<b>> = <<a, b>>
<1> DEFINE S == {a, b}
           s == <<a>> \o <<b>>
           t == <<a, b>>
<1>1. <<a>> \in Seq(S) /\ <<b>> \in Seq(S)
  OBVIOUS
<1>2. t \in Seq(S) /\ Len(t) = 2 /\ t[1] = a /\ t[2] = b
  OBVIOUS
<1>3. s \in Seq(S) /\ Len(s) = 2 /\ s[1] = a /\ s[2] = b
  BY <1>1
<1> HIDE DEF s, t, S
<1>4. \A i \in 1..2 : s[i] = t[i]
  BY <1>2, <1>3
<1>5. s = t
  BY <1>2, <1>3, <1>4, SeqEqual
<1> QED
  BY <1>5 DEF s, t

LEMMA OneAndTwo ==
  ASSUME NEW a, NEW b, NEW c
  PROVE  <<a>> \o <<b, c>> = <<a, b, c>>
<1> DEFINE S == {a, b, c}
           s == <<a>> \o <<b, c>>
           t == <<a, b, c>>
<1>1. <<a>> \in Seq(S) /\ <<b, c>> \in Seq(S)
  OBVIOUS
<1>2. t \in Seq(S) /\ Len(t) = 3 /\ t[1] = a /\ t[2] = b /\ t[3] = c
  OBVIOUS
<1>3. s \in Seq(S) /\ Len(s) = 3 /\ s[1] = a /\ s[2] = b /\ s[3] = c
  BY <1>1
<1> HIDE DEF s, t, S
<1>4. \A i \in 1..3 : s[i] = t[i]
  BY <1>2, <1>3
<1>5. s = t
  BY <1>2, <1>3, <1>4, SeqEqual
<1> QED
  BY <1>5 DEF s, t

LEMMA TellsFailed ==
  ASSUME NEW p, Silent(p)
  PROVE  HandleTestRunFailed(p).told = Failed
<1>1. ~IsComplete(p.last) /\ ~p.startReported /\ p.told = <<>> /\ p \in Parsers
  BY DEF Silent, Empty, IsComplete
<1>2. HandleTestRunFailed(p)
        = [Tell(p, <<>> \o <<"testRunStarted">> \o <<"testRunFailed", "testRunEnded">>)
             EXCEPT !.startReported = TRUE, !.failReported = TRUE]
  BY <1>1 DEF HandleTestRunFailed
<1>3. <<>> \o (<<>> \o <<"testRunStarted">> \o <<"testRunFailed", "testRunEnded">>) = Failed
  <2>1. <<>> \o <<"testRunStarted">> = <<"testRunStarted">>
    OBVIOUS
  <2>2. <<"testRunStarted">> \o <<"testRunFailed", "testRunEnded">> = Failed
    BY OneAndTwo DEF Failed
  <2>3. <<>> \o Failed = Failed
    BY DEF Failed
  <2> QED
    BY <2>1, <2>2, <2>3
<1> DEFINE calls == <<>> \o <<"testRunStarted">> \o <<"testRunFailed", "testRunEnded">>
<1> HIDE DEF calls
<1>4. [Tell(p, calls) EXCEPT !.startReported = TRUE, !.failReported = TRUE].told = p.told \o calls
  BY <1>1 DEF Tell, Parsers
<1> QED
  BY <1>1, <1>2, <1>3, <1>4 DEF calls

LEMMA TellsEnd ==
  ASSUME NEW p, Silent(p)
  PROVE  Done(p).told \in {Passed, Failed}
<1>1. ~p.failReported /\ ~p.startReported /\ p.told = <<>> /\ p \in Parsers
  BY DEF Silent
<1>2. Done(p) = HandleOutputDone(p)
  BY <1>1 DEF Done
<1>3. CASE Incomplete(p)
  BY <1>2, <1>3, TellsFailed DEF HandleOutputDone
<1>4. CASE ~Incomplete(p)
  <2> DEFINE calls == <<"testRunStarted">> \o <<"testRunEnded">>
  <2>1. Done(p) = Tell(p, calls)
    BY <1>1, <1>2, <1>4 DEF HandleOutputDone
  <2>2. <<>> \o calls = Passed
    <3>1. calls = Passed
      BY OneAndOne DEF Passed
    <3>2. <<>> \o Passed = Passed
      BY DEF Passed
    <3> QED
      BY <3>1, <3>2
  <2> HIDE DEF calls
  <2>3. Tell(p, calls).told = p.told \o calls
    BY <1>1 DEF Tell, Parsers
  <2> QED
    BY <1>1, <2>1, <2>2, <2>3
<1> QED
  BY <1>3, <1>4

(* The listeners hear nothing before the run is over, and then of all of   *)
(* it.                                                                     *)
ReportInv ==
  /\ caller \in {"tests", "install"}
  /\ caller = "install" \/ outcome \notin {"eof", "thrown"} => Silent(parser)
  /\ caller = "tests" /\ outcome = "thrown" => parser.told = Failed
  /\ caller = "tests" /\ outcome = "eof" => parser.told \in {Passed, Failed}

LEMMA ReportInit == Init => ReportInv
<1>1. NewResult \in Results /\ Empty(NewResult)
  BY DEF NewResult, Results, Empty
<1>2. Silent(NewParser)
  <2>1. <<>> \in Text /\ <<>> \in Seq(STRING)
    BY DEF Text
  <2> QED
    BY <1>1, <2>1 DEF NewParser, Silent, Parsers, NoKey
<1> QED
  BY <1>2 DEF Init, ReportInv

LEMMA ReportStep == Inv /\ ReportInv /\ [Next]_vars => ReportInv'
<1> SUFFICES ASSUME Inv, ReportInv, [Next]_vars  PROVE ReportInv'
  OBVIOUS
<1>1. pc # "returned" => outcome = "none" /\ Silent(parser)
  BY DEF Inv, PlaceInv, ReportInv
<1>2. CASE Connect
  <2>1. pc # "returned" /\ UNCHANGED caller
    BY <1>2 DEF Connect
  <2>2. CASE UNCHANGED <<parser, outcome>>
    BY <2>1, <2>2 DEF ReportInv
  <2>3. CASE ~UNCHANGED <<parser, outcome>>
    <3>1. /\ outcome' = "thrown"
          /\ parser' = IF caller = "tests" THEN HandleTestRunFailed(parser) ELSE parser
      BY <1>2, <2>3 DEF Connect, Returns
    <3> QED
      BY <1>1, <2>1, <3>1, TellsFailed DEF ReportInv
  <2> QED
    BY <2>2, <2>3
<1>3. CASE ProcessLine
  <2>1. /\ pc # "returned" /\ UNCHANGED caller /\ outcome' \in {outcome, "error"}
        /\ processed < Len(receiver.lines) /\ processed' = processed + 1
        /\ Process(receiver.lines[processed'])
    BY <1>3 DEF ProcessLine, Returns
  <2>2. receiver.lines[processed'] \in Text
    <3>1. receiver.lines \in Seq(Text) /\ processed \in Nat
      BY DEF Inv, PlaceInv, Receivers
    <3>2. processed' \in 1..Len(receiver.lines)
      BY <2>1, <3>1
    <3> QED
      BY <3>1, <3>2
  <2>3. Silent(parser')
    <3>1. parser' = parser \/ parser' = Parse(parser, receiver.lines[processed'])
      BY <2>1 DEF Process, ReportInv
    <3> QED
      BY <1>1, <2>1, <2>2, <3>1, SilentParse
  <2>4. outcome' \notin {"eof", "thrown"}
    BY <1>1, <2>1
  <2> QED
    BY <2>1, <2>3, <2>4 DEF ReportInv
<1>4. CASE FlushEnd
  <2>1. /\ pc # "returned" /\ UNCHANGED caller /\ outcome' = "eof"
        /\ parser' = IF caller = "tests" THEN Done(parser) ELSE parser
    BY <1>4 DEF FlushEnd, Returns
  <2> QED
    BY <1>1, <2>1, TellsEnd DEF ReportInv
<1>5. CASE Check \/ ReceiveTimeout \/ ReceiveError \/ ReceiveData \/ Cut \/ Processed \/ ReceiveEnd
  <2>1. /\ pc # "returned" /\ UNCHANGED <<caller, parser>>
        /\ outcome' \in {outcome, "cancelled", "cut", "error"}
    BY <1>5 DEF Check, ReceiveTimeout, ReceiveError, ReceiveData, Cut, Processed, ReceiveEnd,
                Returns, consumers
  <2>2. outcome' \notin {"eof", "thrown"}
    BY <1>1, <2>1
  <2> QED
    BY <1>1, <2>1, <2>2 DEF ReportInv
<1>6. CASE Cancel \/ UNCHANGED vars
  <2>1. UNCHANGED <<caller, parser, outcome>>
    BY <1>6 DEF Cancel, vars, consumers
  <2> QED
    BY <2>1 DEF ReportInv
<1> QED
  BY <1>2, <1>3, <1>4, <1>5, <1>6 DEF Next, Run

THEOREM ReportInvariant == Spec => []ReportInv
<1> QED
  BY ReportInit, ReportStep, LineInvariant, PTL DEF Spec

(* RunReported: whatever the device writes, the listeners of a test run    *)
(* hear of its start once and first, and of its end once and last; and     *)
(* when the device closed the connection, or an exception passed, they     *)
(* have heard of the end (RemoteAndroidTestRunner::run,                    *)
(* InstrumentationResultParser::done, ITestRunListener).                   *)
THEOREM RunsAreReported == Spec => []RunReported
<1>1. ReportInv => RunReportedOnce
  <2> SUFFICES ASSUME ReportInv, NEW i \in DOMAIN parser.told
               PROVE  /\ (parser.told[i] = "testRunStarted") <=> (i = 1)
                      /\ parser.told[i] = "testRunEnded" => i = Len(parser.told)
                      /\ parser.told[i] = "testRunFailed" => i + 1 = Len(parser.told)
    BY DEF RunReportedOnce
  <2>1. parser.told = <<>> \/ parser.told = Passed \/ parser.told = Failed
    BY DEF ReportInv, Silent
  <2>2. CASE parser.told = <<>>
    BY <2>2
  <2>3. CASE parser.told = Passed
    BY <2>3 DEF Passed
  <2>4. CASE parser.told = Failed
    BY <2>4 DEF Failed
  <2> QED
    BY <2>1, <2>2, <2>3, <2>4
<1>2. ReportInv => RunConcluded
  <2> SUFFICES ASSUME ReportInv, caller = "tests", outcome \in {"eof", "thrown"}
               PROVE  parser.told # <<>> /\ Last(parser.told) = "testRunEnded"
    BY DEF RunConcluded
  <2>1. parser.told \in {Passed, Failed}
    BY DEF ReportInv
  <2>2. CASE parser.told = Passed
    BY <2>2 DEF Passed, Last
  <2>3. CASE parser.told = Failed
    BY <2>3 DEF Failed, Last
  <2> QED
    BY <2>1, <2>2, <2>3
<1> QED
  BY <1>1, <1>2, ReportInvariant, PTL DEF RunReported
==============================================================================
