------------------------------ MODULE ProxyProofs ------------------------------
(* Theorems about Proxy: the types of its variables, the cutting of a stream   *)
(* into replies, the map, the order of the replies and the names of files.     *)
EXTENDS Proxy, ListLemmas

\* What holds of the last place, and of a place if it holds of all behind it, holds
\* of every place.
LEMMA DownwardInduction ==
  ASSUME NEW N \in Nat, NEW T, \A i \in 1..N : (\A j \in i + 1..N : j \in T) => i \in T
  PROVE  1..N \subseteq T
<1> SUFFICES ASSUME NEW k \in 1..N, k \notin T PROVE FALSE
  OBVIOUS
<1> DEFINE D == {d \in Nat : d < N /\ N - d \notin T}
<1>1. N - k \in D
  BY SMT
<1>2. PICK d \in D : \A e \in D : d <= e
  BY <1>1, LeastElement
<1>3. ASSUME NEW j \in N - d + 1..N PROVE j \in T
  <2>1. N - j \in Nat /\ N - j < d /\ N - j < N /\ N - (N - j) = j
    BY <1>2
  <2>2. N - j \notin D
    BY <1>2, <2>1
  <2> QED BY <2>1, <2>2
<1>4. N - d \in 1..N
  BY <1>2
<1>5. N - d \in T
  BY <1>3, <1>4
<1> QED BY <1>2, <1>5

\* What stands where in a part of a sequence
LEMMA PartOf ==
  ASSUME NEW S, NEW q \in Seq(S), NEW lo \in 1..Len(q) + 1, NEW hi \in lo - 1..Len(q)
  PROVE  /\ SubSeq(q, lo, hi) \in Seq(S) /\ Len(SubSeq(q, lo, hi)) = hi - lo + 1
         /\ \A k \in 1..hi - lo + 1 : SubSeq(q, lo, hi)[k] = q[lo + k - 1]
<1>1. lo \in Int /\ hi \in Int /\ \A i \in lo..hi : q[i] \in S
  OBVIOUS
<1>2. /\ SubSeq(q, lo, hi) \in Seq(S) /\ Len(SubSeq(q, lo, hi)) = IF lo <= hi THEN hi - lo + 1 ELSE 0
      /\ \A k \in 1..hi - lo + 1 : SubSeq(q, lo, hi)[k] = q[lo + k - 1]
  BY <1>1, SubSeqProperties
<1>3. lo <= hi \/ hi - lo + 1 = 0
  OBVIOUS
<1> QED BY <1>2, <1>3

\* What stands where in a sequence with a new item before it
LEMMA Before ==
  ASSUME NEW S, NEW x \in S, NEW q \in Seq(S)
  PROVE  /\ <<x>> \o q \in Seq(S) /\ Len(<<x>> \o q) = Len(q) + 1 /\ (<<x>> \o q)[1] = x
         /\ \A i \in 1..Len(q) : (<<x>> \o q)[i + 1] = q[i]
<1>1. <<x>> \in Seq(S) /\ Len(<<x>>) = 1 /\ <<x>>[1] = x
  OBVIOUS
<1>2. Len(<<x>> \o q) = Len(q) + 1 /\ <<x>> \o q \in Seq(S)
  BY <1>1
<1>3. ASSUME NEW i \in 1..Len(q) PROVE (<<x>> \o q)[i + 1] = q[i]
  BY <1>1
<1>4. (<<x>> \o q)[1] = x
  BY <1>1
<1> QED BY <1>2, <1>3, <1>4

\* The end of a concatenation, from within its first part
LEMMA TailOfConcat ==
  ASSUME NEW S, NEW a \in Seq(S), NEW b \in Seq(S), NEW lo \in 1..Len(a) + 1
  PROVE  SubSeq(a \o b, lo, Len(a \o b)) = SubSeq(a, lo, Len(a)) \o b
<1> DEFINE x == SubSeq(a \o b, lo, Len(a \o b))
           y == SubSeq(a, lo, Len(a))
<1>1. PICK m, n : m = Len(a) /\ n = Len(b)
  OBVIOUS
<1>2. m \in Nat /\ n \in Nat /\ lo \in 1..m + 1
  BY <1>1
<1>3. /\ a \o b \in Seq(S) /\ Len(a \o b) = m + n
      /\ \A i \in 1..m + n : (a \o b)[i] = IF i <= m THEN a[i] ELSE b[i - m]
  BY <1>1, ConcatProperties
<1>4. /\ x \in Seq(S) /\ Len(x) = m + n - lo + 1 /\ \A k \in 1..m + n - lo + 1 : x[k] = (a \o b)[lo + k - 1]
  <2>1. lo \in 1..Len(a \o b) + 1 /\ m + n \in lo - 1..Len(a \o b)
    BY <1>2, <1>3
  <2>2. PICK q, hi : q = a \o b /\ hi = m + n
    OBVIOUS
  <2>3. q \in Seq(S) /\ lo \in 1..Len(q) + 1 /\ hi \in lo - 1..Len(q) /\ x = SubSeq(q, lo, hi)
    BY <1>3, <2>1, <2>2
  <2>4. /\ x \in Seq(S) /\ Len(x) = hi - lo + 1 /\ \A k \in 1..hi - lo + 1 : x[k] = q[lo + k - 1]
    <3> HIDE DEF x
    <3> QED BY <2>3, PartOf
  <2> HIDE DEF x
  <2>5. hi - lo + 1 = m + n - lo + 1
    BY <1>2, <2>2
  <2>6. ASSUME NEW k \in 1..m + n - lo + 1 PROVE x[k] = (a \o b)[lo + k - 1]
    BY <2>2, <2>4, <2>5
  <2> QED BY <2>4, <2>5, <2>6
<1>5. /\ y \in Seq(S) /\ Len(y) = m - lo + 1 /\ \A k \in 1..m - lo + 1 : y[k] = a[lo + k - 1]
  <2>1. m \in lo - 1..Len(a)
    BY <1>1, <1>2
  <2> QED BY <1>1, <2>1, PartOf
<1> HIDE DEF x, y
<1>6. /\ y \o b \in Seq(S) /\ Len(y \o b) = m - lo + 1 + n
      /\ \A i \in 1..m - lo + 1 + n : (y \o b)[i] = IF i <= m - lo + 1 THEN y[i] ELSE b[i - (m - lo + 1)]
  <2>1. /\ y \o b \in Seq(S) /\ Len(y \o b) = Len(y) + Len(b)
        /\ \A i \in 1..Len(y) + Len(b) : (y \o b)[i] = IF i <= Len(y) THEN y[i] ELSE b[i - Len(y)]
    BY <1>5, ConcatProperties
  <2> QED BY <1>1, <1>5, <2>1
<1>7. ASSUME NEW k \in 1..m + n - lo + 1 PROVE x[k] = (y \o b)[k]
  <2>1. PICK i : i = lo + k - 1
    OBVIOUS
  <2>2. i \in 1..m + n /\ k \in 1..m - lo + 1 + n
    BY <1>2, <2>1
  <2>3. x[k] = (a \o b)[i]
    BY <1>4, <2>1
  <2>4. (a \o b)[i] = IF i <= m THEN a[i] ELSE b[i - m]
    BY ONLY <1>3, <2>2
  <2>5. (y \o b)[k] = IF k <= m - lo + 1 THEN y[k] ELSE b[k - (m - lo + 1)]
    BY ONLY <1>6, <2>2
  <2>6. CASE i <= m
    <3>1. k \in 1..m - lo + 1 /\ k <= m - lo + 1
      BY <1>2, <2>1, <2>6
    <3>2. y[k] = a[i]
      BY <1>5, <2>1, <3>1
    <3> QED BY <2>3, <2>4, <2>5, <2>6, <3>1, <3>2
  <2>7. CASE ~(i <= m)
    <3>1. ~(k <= m - lo + 1) /\ i - m = k - (m - lo + 1)
      BY <1>2, <2>1, <2>7
    <3>2. b[i - m] = b[k - (m - lo + 1)]
      BY <3>1
    <3> QED BY <2>3, <2>4, <2>5, <2>7, <3>1, <3>2
  <2> QED BY <2>6, <2>7
<1>8. Len(x) = Len(y \o b) /\ Len(x) = m + n - lo + 1
  BY <1>2, <1>4, <1>6
<1>9. x = y \o b
  BY <1>4, <1>6, <1>7, <1>8, SeqEqual
<1> QED BY <1>9 DEF x, y
--------------------------------------------------------------------------------
(* Replies                                                                     *)

\* A reply is as long as its answer says and begins with its header.
LEMMA ReplyShape ==
  ASSUME NEW a \in Answers
  PROVE  /\ Size(a) \in Nat \ {0} /\ HeaderUnits <= Size(a) /\ Size(a) <= HeaderUnits + 1
         /\ Reply(a) \in Seq(Units) /\ Len(Reply(a)) = Size(a) /\ DOMAIN Reply(a) = 1..Size(a)
         /\ Reply(a)[1] = <<a, 1>> /\ \A k \in 1..Size(a) : Reply(a)[k] = <<a, k>>
<1>1. Size(a) \in {HeaderUnits, HeaderUnits + 1} /\ HeaderUnits \in Nat \ {0}
  BY ProxyAssumption DEF Size
<1>2. Size(a) \in Nat \ {0} /\ HeaderUnits <= Size(a) /\ Size(a) <= HeaderUnits + 1 /\ 1 \in 1..Size(a)
  BY <1>1
<1>3. \A k \in 1..Size(a) : <<a, k>> \in Units
  BY <1>1, <1>2 DEF Units
<1>4. Reply(a) = [k \in 1..Size(a) |-> <<a, k>>]
  BY DEF Reply
<1> HIDE DEF Reply
<1>5. Reply(a) \in Seq(Units)
  BY <1>2, <1>3, <1>4
<1>6. DOMAIN Reply(a) = 1..Size(a) /\ \A k \in 1..Size(a) : Reply(a)[k] = <<a, k>>
  BY <1>4
<1>7. Len(Reply(a)) = Size(a)
  BY <1>2, <1>5, <1>6
<1> QED BY <1>2, <1>5, <1>6, <1>7

\* The announced length of whatever a unit belongs to is that of a reply.
LEMMA UnitSize ==
  ASSUME NEW units \in Seq(Units), NEW from \in 1..Len(units)
  PROVE  /\ units[from][1] \in Answers /\ Size(units[from][1]) \in Nat \ {0}
         /\ HeaderUnits <= Size(units[from][1]) /\ Size(units[from][1]) <= HeaderUnits + 1
<1>1. units[from] \in Units
  OBVIOUS
<1>2. units[from][1] \in Answers
  BY <1>1 DEF Units
<1> QED BY <1>2, ReplyShape

\* A message that is whole ends within the buffer.
LEMMA AfterWhole ==
  ASSUME NEW units \in Seq(Units), NEW from \in 1..Len(units) + 1, Whole(units, from)
  PROVE  /\ from <= Len(units) /\ After(units, from) \in from + 1..Len(units) + 1
         /\ After(units, from) = from + Size(units[from][1])
<1>1. HeaderUnits \in Nat \ {0} /\ Len(units) \in Nat
  BY ProxyAssumption
<1>2. from <= Len(units)
  BY <1>1 DEF Whole
<1>3. Size(units[from][1]) \in Nat \ {0}
  BY <1>2, UnitSize
<1>4. Len(units) - from + 1 >= Size(units[from][1])
  BY DEF Whole
<1> QED BY <1>1, <1>2, <1>3, <1>4 DEF After
--------------------------------------------------------------------------------
(* The cutting of a stream                                                     *)

\* One step of Cut
CutStep(units, from, cut) ==
  IF Whole(units, from)
  THEN <<SubSeq(units, from, After(units, from) - 1)>> \o cut[After(units, from)]
  ELSE <<SubSeq(units, from, Len(units))>>

CutsFrom(units, cut, first) ==
  \A from \in first..Len(units) + 1 : cut[from] = CutStep(units, from, cut)

\* The recursion of Cut is well founded: every message has a header.
LEMMA CutFunction ==
  ASSUME NEW units \in Seq(Units)
  PROVE  \E cut : cut = [from \in 1..Len(units) + 1 |-> CutStep(units, from, cut)]
<1> DEFINE N == Len(units) + 1
           T == {i \in 1..N : \E cut : CutsFrom(units, cut, i)}
<1>1. N \in Nat /\ N >= 1 /\ Len(units) \in Nat
  OBVIOUS
<1>2. ASSUME NEW i \in 1..N, NEW f, \A from \in i + 1..N : f[from] = CutStep(units, from, f)
      PROVE  i \in T
  <2> DEFINE g == [from \in i..N |-> IF from = i THEN CutStep(units, i, f) ELSE f[from]]
  <2>1. g[i] = CutStep(units, i, f) /\ \A from \in i + 1..N : g[from] = f[from]
    BY <1>1
  <2> HIDE DEF g
  <2>2. ASSUME NEW from \in i..N PROVE CutStep(units, from, g) = CutStep(units, from, f)
    <3>1. CASE Whole(units, from)
      <4>1. After(units, from) \in i + 1..N
        BY <1>1, <3>1, AfterWhole
      <4> QED BY <2>1, <4>1 DEF CutStep
    <3>2. CASE ~Whole(units, from)
      BY <3>2 DEF CutStep
    <3> QED BY <3>1, <3>2
  <2>3. ASSUME NEW from \in i..N PROVE g[from] = CutStep(units, from, g)
    <3>1. from = i \/ from \in i + 1..N
      BY <1>1
    <3> QED BY <1>2, <2>1, <2>2, <3>1
  <2>4. CutsFrom(units, g, i)
    BY <2>3 DEF CutsFrom
  <2> QED BY <2>4
<1>3. ASSUME NEW i \in 1..N, \A j \in i + 1..N : j \in T PROVE i \in T
  <2>1. CASE i = N
    <3>1. \A from \in i + 1..N : <<>>[from] = CutStep(units, from, <<>>)
      BY <1>1, <2>1
    <3> QED BY <1>2, <3>1
  <2>2. CASE i # N
    <3>1. i + 1 \in i + 1..N
      BY <1>1, <2>2
    <3>2. PICK f : CutsFrom(units, f, i + 1)
      BY <1>3, <3>1
    <3> QED BY <1>2, <3>2 DEF CutsFrom
  <2> QED BY <2>1, <2>2
<1>4. 1 \in T
  <2> HIDE DEF T
  <2>1. 1..N \subseteq T
    BY <1>1, <1>3, DownwardInduction
  <2> QED BY <1>1, <2>1
<1>5. PICK f : CutsFrom(units, f, 1)
  BY <1>4
<1> DEFINE h == [from \in 1..Len(units) + 1 |-> f[from]]
<1>6. ASSUME NEW from \in 1..N PROVE f[from] = CutStep(units, from, h)
  <2>1. CASE Whole(units, from)
    <3>1. After(units, from) \in 1..N
      BY <1>1, <2>1, AfterWhole
    <3>2. h[After(units, from)] = f[After(units, from)]
      BY <3>1
    <3> QED BY <1>5, <3>2 DEF CutsFrom, CutStep
  <2>2. CASE ~Whole(units, from)
    BY <1>5, <2>2 DEF CutsFrom, CutStep
  <2> QED BY <2>1, <2>2
<1>7. h = [from \in 1..Len(units) + 1 |-> CutStep(units, from, h)]
  BY <1>6
<1> QED BY <1>7

LEMMA CutIsChoice ==
  ASSUME NEW units
  PROVE  Cut(units) = (CHOOSE cut : cut = [from \in 1..Len(units) + 1 |-> CutStep(units, from, cut)])[1]
BY DEF Cut, CutStep

LEMMA CutUnfolds ==
  ASSUME NEW units \in Seq(Units)
  PROVE  \E cut : CutsFrom(units, cut, 1) /\ Cut(units) = cut[1]
<1> DEFINE g == CHOOSE cut : cut = [from \in 1..Len(units) + 1 |-> CutStep(units, from, cut)]
<1>1. g = [from \in 1..Len(units) + 1 |-> CutStep(units, from, g)]
  BY CutFunction, Zenon
<1>2. Cut(units) = g[1]
  BY CutIsChoice
<1> HIDE DEF g
<1>3. CutsFrom(units, g, 1)
  BY <1>1 DEF CutsFrom
<1> QED BY <1>2, <1>3

\* Pieces are whole messages up to the last, which is the beginning of one.
IsCut(pieces) ==
  /\ pieces \in Seq(Seq(Units)) /\ pieces # <<>>
  /\ \A i \in 1..Len(pieces) - 1 : Len(pieces[i]) >= HeaderUnits
  /\ Len(pieces[Len(pieces)]) <= HeaderUnits

LEMMA IsCutStep ==
  ASSUME NEW units \in Seq(Units), NEW from \in 1..Len(units) + 1, NEW cut,
         Whole(units, from) => IsCut(cut[After(units, from)])
  PROVE  IsCut(CutStep(units, from, cut))
<1>1. Len(units) \in Nat /\ HeaderUnits \in Nat \ {0}
  BY ProxyAssumption
<1>2. CASE Whole(units, from)
  <2> DEFINE x == SubSeq(units, from, After(units, from) - 1)
             q == cut[After(units, from)]
  <2>1. /\ from <= Len(units) /\ After(units, from) \in from + 1..Len(units) + 1
        /\ After(units, from) = from + Size(units[from][1])
    BY <1>2, AfterWhole
  <2>2. HeaderUnits <= Size(units[from][1]) /\ Size(units[from][1]) \in Nat
    BY <1>1, <2>1, UnitSize
  <2>3. x \in Seq(Units)
    BY <1>1, <2>1
  <2>4. Len(x) = After(units, from) - from
    BY <1>1, <2>1
  <2>5. Len(x) >= HeaderUnits
    BY <1>1, <2>1, <2>2, <2>4
  <2>6. IsCut(q)
    BY <1>2
  <2>7. CutStep(units, from, cut) = <<x>> \o q
    BY <1>2 DEF CutStep
  <2> HIDE DEF x, q
  <2>8. Len(q) \in Nat /\ Len(q) > 0
    BY <2>6 DEF IsCut
  <2> DEFINE p == <<x>> \o q
  <2>9. /\ p \in Seq(Seq(Units)) /\ Len(p) = Len(q) + 1 /\ p[1] = x
        /\ \A i \in 1..Len(q) : p[i + 1] = q[i]
    BY <2>3, <2>6, Before DEF IsCut
  <2> HIDE DEF p
  <2>10. p[Len(p)] = q[Len(q)] /\ p # <<>>
    <3>1. Len(q) \in 1..Len(q)
      BY <2>8
    <3>2. p[Len(q) + 1] = q[Len(q)]
      BY <2>9, <3>1
    <3> QED BY <2>8, <2>9, <3>2
  <2>11. ASSUME NEW i \in 1..Len(p) - 1 PROVE Len(p[i]) >= HeaderUnits
    <3>1. CASE i = 1
      BY <2>5, <2>9, <3>1
    <3>2. CASE i # 1
      <4>1. i - 1 \in 1..Len(q) - 1 /\ i - 1 \in 1..Len(q) /\ (i - 1) + 1 = i
        BY <2>8, <2>9, <3>2
      <4>2. p[(i - 1) + 1] = q[i - 1]
        BY <2>9, <4>1
      <4>3. p[i] = q[i - 1]
        BY <4>1, <4>2
      <4> QED BY <2>6, <4>1, <4>3 DEF IsCut
    <3> QED BY <3>1, <3>2
  <2>12. Len(q[Len(q)]) <= HeaderUnits
    BY <2>6 DEF IsCut
  <2>13. IsCut(p)
    BY <2>9, <2>10, <2>11, <2>12 DEF IsCut
  <2> QED BY <2>7, <2>13 DEF p
<1>3. CASE ~Whole(units, from)
  <2> DEFINE x == SubSeq(units, from, Len(units))
  <2>1. x \in Seq(Units) /\ Len(x) = Len(units) - from + 1
    BY <1>1
  <2>2. Len(x) <= HeaderUnits
    <3>1. CASE from = Len(units) + 1
      BY <1>1, <2>1, <3>1
    <3>2. CASE from <= Len(units)
      <4>1. Size(units[from][1]) \in Nat /\ Size(units[from][1]) <= HeaderUnits + 1
        BY <1>1, <3>2, UnitSize
      <4>2. Len(units) - from + 1 < HeaderUnits \/ Len(units) - from + 1 < Size(units[from][1])
        BY <1>1, <1>3, <4>1 DEF Whole
      <4> QED BY <1>1, <2>1, <4>1, <4>2
    <3> QED BY <1>1, <3>1, <3>2
  <2>3. CutStep(units, from, cut) = <<x>>
    BY <1>3 DEF CutStep
  <2> HIDE DEF x
  <2>4. /\ <<x>> \in Seq(Seq(Units)) /\ <<x>> # <<>> /\ Len(<<x>>) = 1 /\ <<x>>[Len(<<x>>)] = x
        /\ 1..Len(<<x>>) - 1 = {}
    BY <2>1
  <2> QED BY <2>2, <2>3, <2>4 DEF IsCut
<1> QED BY <1>2, <1>3

LEMMA CutShape ==
  ASSUME NEW units \in Seq(Units)
  PROVE  IsCut(Cut(units))
<1> DEFINE N == Len(units) + 1
<1>1. N \in Nat /\ N >= 1
  OBVIOUS
<1>2. PICK cut : CutsFrom(units, cut, 1) /\ Cut(units) = cut[1]
  BY CutUnfolds
<1> DEFINE T == {i \in 1..N : IsCut(cut[i])}
<1>3. ASSUME NEW i \in 1..N, \A j \in i + 1..N : j \in T PROVE i \in T
  <2>1. Whole(units, i) => IsCut(cut[After(units, i)])
    BY <1>3, AfterWhole
  <2>2. cut[i] = CutStep(units, i, cut)
    BY <1>2 DEF CutsFrom
  <2> QED BY <2>1, <2>2, IsCutStep
<1>4. 1 \in T
  <2> HIDE DEF T
  <2>1. 1..N \subseteq T
    BY <1>1, <1>3, DownwardInduction
  <2> QED BY <1>1, <2>1
<1> QED BY <1>2, <1>4
--------------------------------------------------------------------------------
(* A stream that carries the replies to given answers                          *)

\* Where each reply from the m-th on, and the end, is in the stream
Starts(stream, answers, m, at) ==
  /\ at \in [Nat -> Nat] /\ at[m + 1] = 1 /\ at[Len(answers) + 1] = Len(stream) + 1
  /\ \A i, j \in m + 1..Len(answers) + 1 : i <= j => at[i] <= at[j]
  /\ \A j \in m + 1..Len(answers) :
       /\ at[j + 1] = at[j] + Size(answers[j])
       /\ \A k \in 1..Size(answers[j]) : stream[at[j] + k - 1] = <<answers[j], k>>

\* The stream is, one behind the other, the replies behind the m-th.
Carries(stream, answers, m) == \E at : Starts(stream, answers, m, at)

LEMMA EmptyCarries == ASSUME NEW answers \in Seq(Answers) PROVE Carries(<<>>, answers, Len(answers))
<1> DEFINE at == [i \in Nat |-> 1]
<1>1. Len(answers) \in Nat
  OBVIOUS
<1>2. at \in [Nat -> Nat] /\ \A i \in Nat : at[i] = 1
  OBVIOUS
<1> HIDE DEF at
<1>3. Starts(<<>>, answers, Len(answers), at)
  BY <1>1, <1>2 DEF Starts
<1> QED BY <1>3 DEF Carries

\* What the server adds to the stream is the next reply.
LEMMA CarriesNext ==
  ASSUME NEW stream \in Seq(Units), NEW answers \in Seq(Answers), NEW m \in 0..Len(answers),
         NEW a \in Answers, Carries(stream, answers, m)
  PROVE  Carries(stream \o Reply(a), Append(answers, a), m)
<1> DEFINE B == stream \o Reply(a)
           A == Append(answers, a)
           n == Len(answers)
<1>1. PICK at : Starts(stream, answers, m, at)
  BY DEF Carries
<1>2. /\ Size(a) \in Nat \ {0} /\ Reply(a) \in Seq(Units) /\ Len(Reply(a)) = Size(a)
      /\ \A k \in 1..Size(a) : Reply(a)[k] = <<a, k>>
  BY ReplyShape
<1>3. n \in Nat /\ Len(stream) \in Nat /\ m \in Nat /\ m <= n
  OBVIOUS
<1>4. /\ at \in [Nat -> Nat] /\ at[m + 1] = 1 /\ at[n + 1] = Len(stream) + 1
      /\ \A i, j \in m + 1..n + 1 : i <= j => at[i] <= at[j]
      /\ \A j \in m + 1..n : /\ at[j + 1] = at[j] + Size(answers[j])
                             /\ \A k \in 1..Size(answers[j]) : stream[at[j] + k - 1] = <<answers[j], k>>
  BY <1>1 DEF Starts
<1>5. /\ Len(A) = n + 1 /\ A[n + 1] = a /\ \A j \in 1..n : A[j] = answers[j]
  OBVIOUS
<1>6. /\ Len(B) = Len(stream) + Size(a) /\ \A i \in 1..Len(stream) : B[i] = stream[i]
      /\ \A k \in 1..Size(a) : B[Len(stream) + k] = <<a, k>>
  <2>1. Len(B) = Len(stream) + Size(a) /\ \A i \in 1..Len(stream) : B[i] = stream[i]
    <3> HIDE DEF Reply
    <3>1. \A i \in 1..Len(stream) + Len(Reply(a)) :
            B[i] = IF i <= Len(stream) THEN stream[i] ELSE Reply(a)[i - Len(stream)]
      BY <1>2, ConcatProperties
    <3>2. Len(B) = Len(stream) + Len(Reply(a))
      BY <1>2, ConcatProperties
    <3>3. ASSUME NEW i \in 1..Len(stream) PROVE i \in 1..Len(stream) + Len(Reply(a)) /\ i <= Len(stream)
      BY <1>2, <1>3
    <3> QED BY <1>2, <3>1, <3>2, <3>3
  <2>2. \A k \in 1..Len(Reply(a)) : B[Len(stream) + k] = Reply(a)[k]
    BY <1>2
  <2> QED BY <1>2, <2>1, <2>2
<1> HIDE DEF A, B, n
<1> DEFINE new == [at EXCEPT ![n + 2] = Len(stream) + 1 + Size(a)]
<1>7. /\ new \in [Nat -> Nat] /\ new[n + 2] = Len(stream) + 1 + Size(a)
      /\ \A i \in m + 1..n + 1 : new[i] = at[i]
  <2>1. n + 2 \in Nat /\ Len(stream) + 1 + Size(a) \in Nat /\ \A i \in m + 1..n + 1 : i \in Nat /\ i # n + 2
    BY SMTT(60), <1>2, <1>3
  <2>2. at \in [Nat -> Nat]
    BY <1>4
  <2> QED BY <2>1, <2>2
<1> HIDE DEF new
<1>8. new[m + 1] = 1 /\ new[Len(A) + 1] = Len(B) + 1
  <2>1. m + 1 \in m + 1..n + 1 /\ Len(A) + 1 = n + 2 /\ Len(B) + 1 = Len(stream) + 1 + Size(a)
    BY <1>2, <1>3, <1>5, <1>6
  <2>2. new[m + 1] = 1
    BY <1>4, <1>7, <2>1
  <2> QED BY <1>7, <2>1, <2>2
<1>9. ASSUME NEW i \in m + 1..Len(A) + 1, NEW j \in m + 1..Len(A) + 1, i <= j PROVE new[i] <= new[j]
  <2>1. n + 1 \in m + 1..n + 1
    BY <1>3
  <2>2. CASE j <= n + 1
    <3>1. i \in m + 1..n + 1 /\ j \in m + 1..n + 1
      BY <1>3, <1>5, <1>9, <2>2
    <3> QED BY <1>4, <1>7, <1>9, <3>1
  <2>3. CASE j = n + 2 /\ i = n + 2
    <3>1. new[n + 2] \in Nat
      BY <1>3, <1>7
    <3> QED BY <2>3, <3>1
  <2>4. CASE j = n + 2 /\ i <= n + 1
    <3>1. i \in m + 1..n + 1
      BY <1>3, <1>5, <2>4
    <3>2. i \in Nat /\ i <= n + 1
      BY <1>3, <3>1
    <3>3. new[i] = at[i] /\ at[i] <= at[n + 1] /\ at[n + 1] = Len(stream) + 1
      BY <1>4, <1>7, <2>1, <3>1, <3>2
    <3>4. at[i] \in Nat
      BY <1>4, <3>2
    <3>5. new[j] = Len(stream) + 1 + Size(a)
      BY <1>7, <2>4
    <3> QED BY SMTT(60), <1>2, <1>3, <3>3, <3>4, <3>5
  <2> QED BY <1>3, <1>5, <1>9, <2>2, <2>3, <2>4
<1>10. ASSUME NEW j \in m + 1..Len(A)
       PROVE  /\ new[j + 1] = new[j] + Size(A[j])
              /\ \A k \in 1..Size(A[j]) : B[new[j] + k - 1] = <<A[j], k>>
  <2>1. CASE j = n + 1
    <3>1. new[j] = Len(stream) + 1 /\ A[j] = a /\ new[j + 1] = Len(stream) + 1 + Size(a)
      BY <1>3, <1>4, <1>5, <1>7, <2>1
    <3>2. ASSUME NEW k \in 1..Size(a) PROVE B[new[j] + k - 1] = <<a, k>>
      <4>1. new[j] + k - 1 = Len(stream) + k
        BY <1>2, <1>3, <3>1
      <4> QED BY <1>6, <4>1
    <3> QED BY <3>1, <3>2
  <2>2. CASE j # n + 1
    <3>1. j \in m + 1..n /\ j \in m + 1..n + 1 /\ j + 1 \in m + 1..n + 1 /\ n + 1 \in m + 1..n + 1 /\ j \in 1..n
      BY <1>3, <1>5, <2>2
    <3>2. new[j] = at[j] /\ new[j + 1] = at[j + 1] /\ A[j] = answers[j] /\ A[j] \in Answers
      <4>1. answers[j] \in Answers
        BY <3>1 DEF n
      <4> QED BY <1>5, <1>7, <3>1, <4>1
    <3>3. at[j + 1] = at[j] + Size(A[j]) /\ \A k \in 1..Size(A[j]) : stream[at[j] + k - 1] = <<A[j], k>>
      BY <1>4, <3>1, <3>2
    <3>4. /\ at[j + 1] <= Len(stream) + 1 /\ 1 <= at[j] /\ at[j] \in Nat /\ at[j + 1] \in Nat
      <4>1. m + 1 \in m + 1..n + 1 /\ m + 1 <= j
        BY <1>3, <3>1
      <4>2. at[m + 1] <= at[j]
        BY <1>4, <3>1, <4>1
      <4>3. at[j + 1] <= at[n + 1]
        <5>1. j + 1 <= n + 1
          BY <1>3, <3>1
        <5> QED BY <1>4, <3>1, <5>1
      <4>4. at[j] \in Nat /\ at[j + 1] \in Nat
        <5>1. j \in Nat /\ j + 1 \in Nat
          BY <1>3, <3>1
        <5> QED BY <1>4, <5>1
      <4> QED BY <1>4, <4>2, <4>3, <4>4
    <3>5. ASSUME NEW k \in 1..Size(A[j]) PROVE B[at[j] + k - 1] = <<A[j], k>>
      <4>1. Size(A[j]) \in Nat
        BY <3>2, ReplyShape
      <4>2. at[j] + k - 1 \in 1..Len(stream)
        <5>1. at[j + 1] = at[j] + Size(A[j]) /\ k \in 1..Size(A[j])
          BY <3>3
        <5> HIDE DEF Size
        <5>2. PICK x, y, z, l : x = at[j] /\ y = at[j + 1] /\ z = Size(A[j]) /\ l = Len(stream)
          OBVIOUS
        <5>3. x \in Nat /\ y \in Nat /\ z \in Nat /\ l \in Nat /\ y = x + z /\ y <= l + 1 /\ 1 <= x /\ k \in 1..z
          BY <1>3, <3>4, <4>1, <5>1, <5>2
        <5>4. x + k - 1 \in 1..l
          BY ONLY <5>3
        <5> QED BY <5>2, <5>4
      <4> QED BY <1>6, <3>3, <4>2
    <3> QED BY <3>2, <3>3, <3>5
  <2> QED BY <2>1, <2>2
<1>11. Starts(B, A, m, new)
  BY <1>7, <1>8, <1>9, <1>10 DEF Starts
<1> QED BY <1>11 DEF Carries, A, B

\* The pieces that the cutting finds from the j-th reply on: whole replies, and what
\* remains of the events so far.
PiecesFrom(answers, at, events, j, pieces) ==
  /\ pieces \in Seq(Seq(Units))
  /\ \E c \in 0..Len(answers) + 1 - j :
       /\ Len(pieces) = c + 1 /\ at[j + c] <= Len(events) + 1
       /\ \A i \in 1..c : pieces[i] = Reply(answers[j + i - 1])
       /\ pieces[c + 1] = SubSeq(events, at[j + c], Len(events))

LEMMA StartsBounds ==
  ASSUME NEW stream \in Seq(Units), NEW answers \in Seq(Answers), NEW m \in 0..Len(answers), NEW at,
         Starts(stream, answers, m, at), NEW j \in m + 1..Len(answers) + 1
  PROVE  at[j] \in 1..Len(stream) + 1
<1>1. Len(answers) \in Nat /\ Len(stream) \in Nat /\ j \in Nat
  OBVIOUS
<1>2. at[j] \in Nat
  BY <1>1 DEF Starts
<1>3. m + 1 \in m + 1..Len(answers) + 1 /\ Len(answers) + 1 \in m + 1..Len(answers) + 1
  BY <1>1
<1>4. at[m + 1] <= at[j] /\ at[j] <= at[Len(answers) + 1]
  <2>1. m + 1 <= j /\ j <= Len(answers) + 1
    BY <1>1
  <2> QED BY <1>3, <2>1 DEF Starts
<1>5. at[m + 1] = 1 /\ at[Len(answers) + 1] = Len(stream) + 1
  BY DEF Starts
<1> QED BY <1>1, <1>2, <1>4, <1>5

\* One reply of the stream, cut off
LEMMA PieceIsReply ==
  ASSUME NEW events \in Seq(Units), NEW rest \in Seq(Units), NEW answers \in Seq(Answers),
         NEW m \in 0..Len(answers), NEW at, Starts(events \o rest, answers, m, at),
         NEW j \in m + 1..Len(answers) + 1, at[j] <= Len(events) + 1, Whole(events, at[j])
  PROVE  /\ j <= Len(answers) /\ After(events, at[j]) = at[j + 1] /\ at[j + 1] <= Len(events) + 1
         /\ SubSeq(events, at[j], After(events, at[j]) - 1) = Reply(answers[j])
<1> DEFINE B == events \o rest
           n == Len(answers)
           p == Len(events)
<1>1. /\ n \in Nat /\ p \in Nat /\ Len(rest) \in Nat /\ Len(B) = p + Len(rest) /\ B \in Seq(Units)
      /\ \A i \in 1..p : B[i] = events[i]
  <2>1. /\ B \in Seq(Units) /\ Len(B) = p + Len(rest)
        /\ \A i \in 1..p + Len(rest) : B[i] = IF i <= p THEN events[i] ELSE rest[i - p]
    BY ConcatProperties
  <2> QED BY <2>1
<1>2. at[j] \in 1..p + 1
  <2>1. at[j] \in 1..Len(B) + 1
    BY <1>1, StartsBounds
  <2> QED BY <1>1, <2>1
<1>3. /\ at[j] <= p /\ After(events, at[j]) \in at[j] + 1..p + 1
      /\ After(events, at[j]) = at[j] + Size(events[at[j]][1])
  BY <1>2, AfterWhole
<1> HIDE DEF B
<1>4. j <= n
  <2>1. at[n + 1] = Len(B) + 1
    BY DEF Starts, B
  <2>2. j # n + 1
    BY <1>1, <1>3, <2>1
  <2> QED BY <1>1, <2>2
<1>5. /\ at[j + 1] = at[j] + Size(answers[j])
      /\ \A k \in 1..Size(answers[j]) : B[at[j] + k - 1] = <<answers[j], k>>
  <2>1. j \in m + 1..n
    BY <1>1, <1>4
  <2>2. \A i \in m + 1..n : /\ at[i + 1] = at[i] + Size(answers[i])
                           /\ \A k \in 1..Size(answers[i]) : B[at[i] + k - 1] = <<answers[i], k>>
    BY DEF Starts, B
  <2> QED BY <2>1, <2>2
<1>6. j \in 1..n /\ answers[j] \in Answers
  BY <1>1, <1>4
<1>7. /\ Size(answers[j]) \in Nat \ {0} /\ Reply(answers[j]) \in Seq(Units)
      /\ Len(Reply(answers[j])) = Size(answers[j])
      /\ \A k \in 1..Size(answers[j]) : Reply(answers[j])[k] = <<answers[j], k>>
  BY <1>6, ReplyShape
<1> HIDE DEF n
<1>z. PICK z : z = Size(answers[j])
  OBVIOUS
<1>8. events[at[j]] = <<answers[j], 1>>
  <2>1. 1 \in 1..z /\ at[j] + 1 - 1 = at[j] /\ at[j] \in 1..p
    BY SMTT(60), <1>1, <1>2, <1>3, <1>7, <1>z
  <2>2. B[at[j] + 1 - 1] = <<answers[j], 1>>
    BY <1>5, <1>z, <2>1
  <2> QED BY <1>1, <2>1, <2>2
<1>9. After(events, at[j]) = at[j + 1] /\ at[j + 1] <= p + 1
  <2>1. events[at[j]][1] = answers[j]
    BY <1>8
  <2> QED BY <1>3, <1>5, <2>1
<1>10. SubSeq(events, at[j], After(events, at[j]) - 1) = Reply(answers[j])
  <2> DEFINE x == SubSeq(events, at[j], at[j] + z - 1)
  <2>1. at[j] + z - 1 \in Nat /\ at[j] + z - 1 <= p /\ z \in Nat /\ z > 0 /\ at[j] >= 1
    <3>1. z \in Nat /\ z > 0
      BY <1>7, <1>z
    <3>2. at[j + 1] = at[j] + z
      BY <1>5, <1>z
    <3> QED BY SMTT(60), <1>1, <1>2, <1>9, <3>1, <3>2
  <2>2. x \in Seq(Units) /\ Len(x) = z /\ \A k \in 1..z : x[k] = events[at[j] + k - 1]
    <3>1. at[j] \in 1..Len(events) + 1 /\ at[j] + z - 1 \in at[j] - 1..Len(events)
      BY SMTT(60), <1>1, <1>2, <2>1
    <3>2. PICK hi : hi = at[j] + z - 1
      OBVIOUS
    <3>3. /\ x \in Seq(Units) /\ Len(x) = hi - at[j] + 1
          /\ \A k \in 1..hi - at[j] + 1 : x[k] = events[at[j] + k - 1]
      BY ZenonT(60), <3>1, <3>2, PartOf
    <3>4. hi - at[j] + 1 = z
      BY SMTT(60), <1>2, <2>1, <3>2
    <3> QED BY <3>3, <3>4
  <2>3. ASSUME NEW k \in 1..z PROVE x[k] = Reply(answers[j])[k]
    <3>1. at[j] + k - 1 \in 1..p
      <4>1. PICK s : s = at[j]
        OBVIOUS
      <4>2. s \in Nat /\ s >= 1 /\ z \in Nat /\ p \in Nat /\ s + z - 1 <= p
        BY SMTT(60), <1>1, <1>2, <2>1, <4>1
      <4>3. s + k - 1 \in 1..p
        BY ONLY <4>2, k \in 1..z
      <4> QED BY <4>1, <4>3
    <3>2. k \in 1..Size(answers[j])
      BY <1>z
    <3> QED BY <1>1, <1>5, <1>7, <2>2, <3>1, <3>2
  <2> HIDE DEF x
  <2>4. Len(Reply(answers[j])) = z
    BY <1>7, <1>z
  <2>5. x = Reply(answers[j])
    BY <1>7, <2>2, <2>3, <2>4, SeqEqual
  <2>6. After(events, at[j]) - 1 = at[j] + z - 1
    <3>1. at[j + 1] = at[j] + z
      BY <1>5, <1>z
    <3>2. at[j] \in Nat /\ at[j] + z \in Nat
      BY SMTT(60), <1>2, <2>1
    <3>3. After(events, at[j]) = at[j] + z
      BY <1>9, <3>1
    <3> QED BY SMTT(60), <2>1, <3>2, <3>3
  <2> QED BY <2>5, <2>6 DEF x
<1> QED BY <1>4, <1>9, <1>10 DEF n

LEMMA PiecesAreReplies ==
  ASSUME NEW events \in Seq(Units), NEW rest \in Seq(Units), NEW answers \in Seq(Answers),
         NEW m \in 0..Len(answers), NEW at, Starts(events \o rest, answers, m, at)
  PROVE  PiecesFrom(answers, at, events, m + 1, Cut(events))
<1> DEFINE B == events \o rest
<1>1. PICK n : n = Len(answers)
  OBVIOUS
<1>2. PICK p : p = Len(events)
  OBVIOUS
<1>3. n \in Nat /\ p \in Nat /\ m \in Nat /\ m <= n
  BY <1>1, <1>2
<1>4. PICK cut : CutsFrom(events, cut, 1) /\ Cut(events) = cut[1]
  BY CutUnfolds
<1>5. at \in [Nat -> Nat] /\ at[m + 1] = 1
  BY DEF Starts
<1>6. \A j \in m + 1..n + 1 : at[j] \in Nat /\ at[j] >= 1
  <2>1. B \in Seq(Units)
    BY ConcatProperties
  <2>2. \A j \in m + 1..n + 1 : at[j] \in 1..Len(B) + 1
    BY <1>1, <2>1, StartsBounds
  <2> QED BY <2>1, <2>2
<1> HIDE DEF B
<1> DEFINE Good(j) == j > m /\ at[j] <= p + 1 => PiecesFrom(answers, at, events, j, cut[at[j]])
           T == {j \in 1..n + 1 : Good(j)}
<1>7. ASSUME NEW j \in 1..n + 1, \A i \in j + 1..n + 1 : i \in T, j > m, at[j] <= p + 1
      PROVE  PiecesFrom(answers, at, events, j, cut[at[j]])
  <2>1. /\ j \in m + 1..n + 1 /\ j \in m + 1..Len(answers) + 1 /\ at[j] \in 1..p + 1 /\ at[j] \in Nat
        /\ at[j] \in 1..Len(events) + 1
    BY <1>1, <1>2, <1>3, <1>6, <1>7
  <2>2. cut[at[j]] = CutStep(events, at[j], cut)
    BY <1>4, <2>1 DEF CutsFrom
  <2>3. CASE Whole(events, at[j])
    <3> DEFINE x == SubSeq(events, at[j], After(events, at[j]) - 1)
    <3>1. /\ j <= n /\ After(events, at[j]) = at[j + 1] /\ at[j + 1] <= p + 1
          /\ x = Reply(answers[j])
      <4>1. at[j] <= Len(events) + 1
        BY <1>2, <1>7
      <4>2. /\ j <= Len(answers) /\ After(events, at[j]) = at[j + 1] /\ at[j + 1] <= Len(events) + 1
            /\ SubSeq(events, at[j], After(events, at[j]) - 1) = Reply(answers[j])
        BY <2>1, <2>3, <4>1, PieceIsReply
      <4> QED BY <1>1, <1>2, <4>2
    <3>2. j + 1 \in j + 1..n + 1 /\ j \in 1..n
      BY <1>3, <3>1
    <3>3. j + 1 \in T
      BY <1>7, <3>2
    <3>4. j + 1 > m
      BY <1>3, <1>7
    <3>5. PICK q : q = cut[at[j + 1]]
      OBVIOUS
    <3>6. PiecesFrom(answers, at, events, j + 1, q)
      BY <3>1, <3>3, <3>4, <3>5
    <3>7. PICK c \in 0..n + 1 - (j + 1) :
             /\ Len(q) = c + 1 /\ at[j + 1 + c] <= p + 1
             /\ \A i \in 1..c : q[i] = Reply(answers[j + 1 + i - 1])
             /\ q[c + 1] = SubSeq(events, at[j + 1 + c], p)
      BY <1>1, <1>2, <3>6 DEF PiecesFrom
    <3>8. q \in Seq(Seq(Units))
      BY <3>6 DEF PiecesFrom
    <3>9. cut[at[j]] = <<x>> \o q
      BY <2>2, <2>3, <3>1, <3>5 DEF CutStep
    <3>10. x \in Seq(Units)
      <4>1. answers[j] \in Answers
        BY <1>1, <3>2
      <4> QED BY <3>1, <4>1, ReplyShape
    <3> HIDE DEF x
    <3> DEFINE r == <<x>> \o q
    <3>11. /\ r \in Seq(Seq(Units)) /\ Len(r) = Len(q) + 1 /\ r[1] = x
           /\ \A i \in 1..Len(q) : r[i + 1] = q[i]
      BY <3>8, <3>10, Before
    <3> HIDE DEF r
    <3>12. c \in Nat /\ c <= n - j /\ c + 1 \in 0..n + 1 - j /\ Len(r) = c + 1 + 1 /\ j + (c + 1) = j + 1 + c
      BY <1>3, <3>1, <3>7, <3>11
    <3>13. ASSUME NEW i \in 1..c + 1 PROVE r[i] = Reply(answers[j + i - 1])
      <4>1. CASE i = 1
        <5>1. j + i - 1 = j
          BY <4>1
        <5> QED BY <3>1, <3>11, <4>1, <5>1
      <4>2. CASE i # 1
        <5>1. i - 1 \in 1..c /\ i - 1 \in 1..Len(q) /\ (i - 1) + 1 = i /\ j + 1 + (i - 1) - 1 = j + i - 1
          BY <3>7, <3>12, <4>2
        <5>2. r[(i - 1) + 1] = q[i - 1]
          BY <3>11, <5>1
        <5>3. q[i - 1] = Reply(answers[j + 1 + (i - 1) - 1])
          BY <3>7, <5>1
        <5> QED BY <5>1, <5>2, <5>3
      <4> QED BY <4>1, <4>2
    <3>14. r[c + 1 + 1] = SubSeq(events, at[j + (c + 1)], p)
      <4>1. c + 1 \in 1..Len(q)
        BY <3>7, <3>12
      <4>2. r[(c + 1) + 1] = q[c + 1]
        BY <3>11, <4>1
      <4> QED BY <3>7, <3>12, <4>2
    <3>15. at[j + (c + 1)] <= p + 1
      BY <3>7, <3>12
    <3>16. PICK d : d = c + 1
      OBVIOUS
    <3>17. /\ d \in 0..n + 1 - j /\ Len(r) = d + 1 /\ at[j + d] <= p + 1
           /\ \A i \in 1..d : r[i] = Reply(answers[j + i - 1])
           /\ r[d + 1] = SubSeq(events, at[j + d], p)
      BY <3>12, <3>13, <3>14, <3>15, <3>16
    <3>18. PiecesFrom(answers, at, events, j, r)
      BY <1>1, <1>2, <3>11, <3>17 DEF PiecesFrom
    <3> QED BY <3>9, <3>18 DEF r
  <2>4. CASE ~Whole(events, at[j])
    <3> DEFINE x == SubSeq(events, at[j], p)
    <3>1. cut[at[j]] = <<x>>
      BY <1>2, <2>2, <2>4 DEF CutStep
    <3>2. x \in Seq(Units)
      <4>1. p \in at[j] - 1..Len(events)
        BY <1>2, <1>3, <2>1
      <4> QED BY <2>1, <4>1, PartOf
    <3>3. /\ 0 \in 0..n + 1 - j /\ j + 0 = j
      BY <1>3
    <3> HIDE DEF x
    <3>4. <<x>> \in Seq(Seq(Units)) /\ Len(<<x>>) = 0 + 1 /\ <<x>>[0 + 1] = x /\ 1..0 = {}
      BY <3>2
    <3>5. /\ at[j + 0] <= p + 1 /\ <<x>>[0 + 1] = SubSeq(events, at[j + 0], p)
      BY <1>7, <3>3, <3>4 DEF x
    <3>6. PiecesFrom(answers, at, events, j, <<x>>)
      BY <1>1, <1>2, <3>3, <3>4, <3>5 DEF PiecesFrom
    <3> QED BY <3>1, <3>6
  <2> QED BY <2>3, <2>4
<1>8. ASSUME NEW j \in 1..n + 1, \A i \in j + 1..n + 1 : i \in T PROVE j \in T
  BY <1>7, <1>8
<1>9. m + 1 \in T
  <2> HIDE DEF T
  <2>1. n + 1 \in Nat /\ m + 1 \in 1..n + 1
    BY <1>3
  <2>2. 1..n + 1 \subseteq T
    BY <1>8, <2>1, DownwardInduction
  <2> QED BY <2>1, <2>2
<1>10. m + 1 > m /\ at[m + 1] <= p + 1
  BY <1>3, <1>5
<1> QED BY <1>4, <1>5, <1>9, <1>10

\* A stream from one of its replies on carries that reply and those behind it.
LEMMA CarriesRest ==
  ASSUME NEW stream \in Seq(Units), NEW answers \in Seq(Answers), NEW m \in 0..Len(answers),
         NEW at, Starts(stream, answers, m, at), NEW d \in m..Len(answers)
  PROVE  Carries(SubSeq(stream, at[d + 1], Len(stream)), answers, d)
<1>1. PICK n : n = Len(answers)
  OBVIOUS
<1>2. PICK p : p = Len(stream)
  OBVIOUS
<1>3. n \in Nat /\ p \in Nat /\ m \in Nat /\ d \in Nat /\ m <= d /\ d <= n
  BY <1>1, <1>2
<1>4. /\ at \in [Nat -> Nat] /\ at[m + 1] = 1 /\ at[n + 1] = p + 1
      /\ \A i, j \in m + 1..n + 1 : i <= j => at[i] <= at[j]
      /\ \A j \in m + 1..n : /\ at[j + 1] = at[j] + Size(answers[j])
                             /\ \A k \in 1..Size(answers[j]) : stream[at[j] + k - 1] = <<answers[j], k>>
  BY <1>1, <1>2 DEF Starts
<1>5. PICK first : first = at[d + 1]
  OBVIOUS
<1>6. first \in 1..p + 1
  <2>1. d + 1 \in m + 1..Len(answers) + 1
    BY <1>1, <1>3
  <2> QED BY <1>2, <1>5, <2>1, StartsBounds
<1>7. \A j \in d + 1..n + 1 : at[j] \in Nat /\ first <= at[j] /\ at[j] <= p + 1
  <2> TAKE j \in d + 1..n + 1
  <2>1. j \in m + 1..Len(answers) + 1 /\ j \in m + 1..n + 1 /\ d + 1 \in m + 1..n + 1 /\ d + 1 <= j
    BY <1>1, <1>3
  <2>2. at[j] \in 1..p + 1
    BY <1>2, <2>1, StartsBounds
  <2> QED BY <1>3, <1>4, <1>5, <2>1, <2>2
<1> DEFINE rest == SubSeq(stream, first, p)
           new == [i \in Nat |-> IF i \in d + 1..n + 1 THEN at[i] - first + 1 ELSE 0]
<1>8. new \in [Nat -> Nat] /\ \A i \in d + 1..n + 1 : new[i] = at[i] - first + 1
  <2>1. \A i \in d + 1..n + 1 : i \in Nat /\ at[i] - first + 1 \in Nat
    BY <1>3, <1>6, <1>7
  <2> QED BY <2>1
<1>9. /\ Len(rest) = p - first + 1 /\ \A k \in 1..p - first + 1 : rest[k] = stream[first + k - 1]
  <2>1. p \in first - 1..Len(stream) /\ first \in 1..Len(stream) + 1
    BY <1>2, <1>3, <1>6
  <2> QED BY <2>1, PartOf
<1> HIDE DEF rest, new
<1>10. new[d + 1] = 1 /\ new[n + 1] = Len(rest) + 1
  <2>1. d + 1 \in d + 1..n + 1 /\ n + 1 \in d + 1..n + 1
    BY <1>3
  <2>2. new[d + 1] = at[d + 1] - first + 1 /\ new[n + 1] = at[n + 1] - first + 1
    BY <1>8, <2>1
  <2>3. at[d + 1] = first /\ at[n + 1] = p + 1
    BY <1>4, <1>5
  <2>4. new[d + 1] = first - first + 1 /\ new[n + 1] = p + 1 - first + 1
    BY <1>3, <1>6, <2>2, <2>3
  <2> QED BY <1>3, <1>6, <1>9, <2>4
<1>11. ASSUME NEW i \in d + 1..n + 1, NEW j \in d + 1..n + 1, i <= j PROVE new[i] <= new[j]
  <2>1. i \in m + 1..n + 1 /\ j \in m + 1..n + 1
    BY <1>3
  <2>2. at[i] <= at[j] /\ at[i] \in Nat /\ at[j] \in Nat /\ first \in Nat
    <3>1. at[i] <= at[j]
      BY <1>4, <1>11, <2>1
    <3>2. at[i] \in Nat /\ at[j] \in Nat
      BY <1>7
    <3> QED BY <1>6, <3>1, <3>2
  <2>3. new[i] = at[i] - first + 1 /\ new[j] = at[j] - first + 1
    BY <1>8
  <2> QED BY SMTT(60), <2>2, <2>3
<1>12. ASSUME NEW j \in d + 1..n
       PROVE  /\ new[j + 1] = new[j] + Size(answers[j])
              /\ \A k \in 1..Size(answers[j]) : rest[new[j] + k - 1] = <<answers[j], k>>
  <2>1. j \in m + 1..n /\ j \in d + 1..n + 1 /\ j + 1 \in d + 1..n + 1 /\ j \in 1..Len(answers)
    BY <1>1, <1>3
  <2>2. PICK z : z = Size(answers[j])
    OBVIOUS
  <2>3. z \in Nat
    <3>1. answers[j] \in Answers
      BY <2>1
    <3> QED BY <2>2, <3>1, ReplyShape
  <2>4. /\ at[j + 1] = at[j] + z /\ \A k \in 1..z : stream[at[j] + k - 1] = <<answers[j], k>>
    BY <1>4, <2>1, <2>2
  <2>5. /\ at[j] \in Nat /\ at[j + 1] \in Nat /\ first <= at[j] /\ at[j + 1] <= p + 1
        /\ new[j] = at[j] - first + 1 /\ new[j + 1] = at[j + 1] - first + 1
    BY <1>7, <1>8, <2>1
  <2>6. new[j + 1] = new[j] + z
    BY SMTT(60), <1>6, <2>3, <2>4, <2>5
  <2>7. ASSUME NEW k \in 1..z PROVE rest[new[j] + k - 1] = <<answers[j], k>>
    <3>1. PICK x : x = new[j] + k - 1
      OBVIOUS
    <3>2. x \in 1..p - first + 1 /\ first + x - 1 = at[j] + k - 1
      <4>1. PICK y, u : y = at[j] /\ u = new[j]
        OBVIOUS
      <4>2. u = y - first + 1 /\ x = u + k - 1 /\ y \in Nat /\ first \in Nat
        BY <1>6, <2>5, <3>1, <4>1
      <4>3. y \in Nat /\ first <= y /\ y + z <= p + 1 /\ x = y - first + k /\ first \in Nat
        <5>1. first <= y /\ y + z <= p + 1
          BY <2>4, <2>5, <4>1
        <5>2. x = y - first + k
          BY ONLY <4>2, k \in Int
        <5> QED BY <4>2, <5>1, <5>2
      <4>4. x \in 1..p - first + 1 /\ first + x - 1 = y + k - 1
        BY <1>3, <2>3, <4>3
      <4> QED BY <4>1, <4>4
    <3>3. rest[x] = stream[first + x - 1]
      BY <1>9, <3>2
    <3> QED BY <2>4, <3>1, <3>2, <3>3
  <2> QED BY <2>2, <2>6, <2>7
<1>13. Starts(rest, answers, d, new)
  BY <1>1, <1>8, <1>10, <1>11, <1>12 DEF Starts
<1> QED BY <1>2, <1>5, <1>13 DEF Carries, rest

\* However many units of a stream an event brings, the whole messages that are cut
\* out are the next replies, and what is left, with what is still to come, carries
\* the others.
LEMMA CutCarries ==
  ASSUME NEW events \in Seq(Units), NEW rest \in Seq(Units), NEW answers \in Seq(Answers),
         NEW m \in 0..Len(answers), Carries(events \o rest, answers, m)
  PROVE  \E c \in 0..Len(answers) - m :
           /\ Len(Cut(events)) = c + 1
           /\ \A i \in 1..c : Cut(events)[i] = Reply(answers[m + i])
           /\ Carries(Cut(events)[c + 1] \o rest, answers, m + c)
<1>1. PICK at : Starts(events \o rest, answers, m, at)
  BY DEF Carries
<1>2. PiecesFrom(answers, at, events, m + 1, Cut(events))
  BY <1>1, PiecesAreReplies
<1>3. PICK c \in 0..Len(answers) + 1 - (m + 1) :
         /\ Len(Cut(events)) = c + 1 /\ at[m + 1 + c] <= Len(events) + 1
         /\ \A i \in 1..c : Cut(events)[i] = Reply(answers[m + 1 + i - 1])
         /\ Cut(events)[c + 1] = SubSeq(events, at[m + 1 + c], Len(events))
  BY <1>2 DEF PiecesFrom
<1>4. /\ c \in 0..Len(answers) - m /\ m + c \in m..Len(answers) /\ m + 1 + c = m + c + 1
      /\ m + c + 1 \in m + 1..Len(answers) + 1
  OBVIOUS
<1>5. ASSUME NEW i \in 1..c PROVE Cut(events)[i] = Reply(answers[m + i])
  <2>1. m + 1 + i - 1 = m + i
    BY <1>4
  <2> QED BY <1>3, <2>1
<1> DEFINE B == events \o rest
<1>6. B \in Seq(Units) /\ Len(B) = Len(events) + Len(rest)
  BY ConcatProperties
<1>7. Carries(SubSeq(B, at[m + c + 1], Len(B)), answers, m + c)
  BY <1>1, <1>4, <1>6, CarriesRest
<1>8. at[m + c + 1] \in 1..Len(B) + 1 /\ at[m + c + 1] <= Len(events) + 1
  BY <1>1, <1>3, <1>4, <1>6, StartsBounds
<1>9. SubSeq(B, at[m + c + 1], Len(B)) = SubSeq(events, at[m + c + 1], Len(events)) \o rest
  <2>1. PICK lo : lo = at[m + c + 1]
    OBVIOUS
  <2>2. lo \in 1..Len(events) + 1
    BY <1>6, <1>8, <2>1
  <2>3. SubSeq(B, lo, Len(B)) = SubSeq(events, lo, Len(events)) \o rest
    BY <1>6, <2>2, TailOfConcat
  <2> QED BY <2>1, <2>3
<1> HIDE DEF B
<1>10. Carries(Cut(events)[c + 1] \o rest, answers, m + c)
  BY <1>3, <1>4, <1>7, <1>9
<1>11. c \in 0..Len(answers) - m /\ Len(Cut(events)) = c + 1
  BY <1>3, <1>4
<1> QED BY <1>5, <1>10, <1>11
--------------------------------------------------------------------------------
(* Types                                                                       *)

LEMMA SendType ==
  ASSUME TypeOK, NEW w \in Sockets \cup {None}, NEW message \in Notes, Send(w, message)
  PROVE  up' \in [Sockets -> Seq(Notes)]
<1>1. up \in [Sockets -> Seq(Notes)]
  BY DEF TypeOK, Notes
<1>2. CASE w # None /\ ws'[w] = "open"
  <2>1. Append(up[w], message) \in Seq(Notes)
    BY <1>1, <1>2
  <2>2. up' = [up EXCEPT ![w] = Append(@, message)]
    BY <1>2 DEF Send
  <2> QED BY <1>1, <1>2, <2>1, <2>2
<1>3. CASE ~(w # None /\ ws'[w] = "open")
  BY <1>1, <1>3 DEF Send
<1> QED BY <1>2, <1>3

LEMMA TakeType ==
  ASSUME TypeOK, NEW w \in Sockets, Take(w)
  PROVE  /\ up' \in [Sockets -> Seq(Notes)] /\ Head(up[w]) \in Notes
         /\ Head(up[w])[1] = "request" => Head(up[w])[2] \in Requests
<1>1. up \in [Sockets -> Seq(Notes)] /\ up[w] \in Seq(Notes) /\ up[w] # <<>>
  BY DEF TypeOK, Notes, Take
<1>2. Tail(up[w]) \in Seq(Notes) /\ Head(up[w]) \in Notes
  BY <1>1, HeadTailProperties
<1>3. up' = [up EXCEPT ![w] = Tail(@)]
  BY DEF Take
<1> QED BY <1>1, <1>2, <1>3 DEF Notes

LEMMA TellType ==
  ASSUME TypeOK, NEW w \in Sockets \cup {None}, NEW messages \in Seq(Messages), Tell(w, messages)
  PROVE  down' \in [Sockets -> Seq(Messages)]
<1>1. down \in [Sockets -> Seq(Messages)]
  BY DEF TypeOK
<1>2. CASE down' = [down EXCEPT ![w] = @ \o messages]
  <2>1. w \in Sockets => down[w] \o messages \in Seq(Messages)
    BY <1>1
  <2> QED BY <1>1, <1>2, <2>1
<1>3. CASE down' = down
  BY <1>1, <1>3
<1> QED BY <1>2, <1>3 DEF Tell

\* An error of the proxy itself is a message.
LEMMA TroubleType ==
  ASSUME NEW r, Answer(r, "error") \in Answers
  PROVE  Trouble(r) \in Messages /\ <<Trouble(r)>> \in Seq(Messages)
<1>1. /\ Reply(Answer(r, "error")) \in Seq(Units) /\ Len(Reply(Answer(r, "error"))) >= HeaderUnits
  <2>1. /\ Size(Answer(r, "error")) \in Nat /\ HeaderUnits <= Size(Answer(r, "error"))
        /\ Reply(Answer(r, "error")) \in Seq(Units)
        /\ Len(Reply(Answer(r, "error"))) = Size(Answer(r, "error"))
    BY ReplyShape
  <2> QED BY <2>1, ProxyAssumption
<1>2. Trouble(r) \in Messages
  BY <1>1 DEF Trouble, Messages
<1> QED BY <1>2

LEMMA AnswersOf ==
  /\ Answer(None, "error") \in Answers
  /\ \A r \in Requests : \A what \in {"text", "file", "error"} : Answer(r, what) \in Answers
BY DEF Answers

\* What is said about a message that the page has received
LEMMA AnsweredType ==
  ASSUME NEW message \in Messages
  PROVE  /\ Answered(message) \in Answers /\ message.via \in Tcp \cup {None}
         /\ message.units \in Seq(Units)
         /\ Answered(message).to \in Requests \cup {None}
         /\ Answered(message).what = "file" => Answered(message).to \in Requests
<1>1. /\ message.units \in Seq(Units) /\ Len(message.units) >= HeaderUnits /\ message.via \in Tcp \cup {None}
  BY DEF Messages
<1>2. 1 \in 1..Len(message.units)
  BY <1>1, ProxyAssumption
<1>3. Answered(message) \in Answers
  BY <1>1, <1>2, UnitSize DEF Answered
<1>4. ASSUME NEW a \in Answers
      PROVE  a.to \in Requests \cup {None} /\ (a.what = "file" => a.to \in Requests)
  <2>1. CASE a = Answer(None, "error")
    BY <2>1 DEF Answer
  <2>2. CASE a # Answer(None, "error")
    <3>1. PICK r \in Requests, what \in {"text", "file", "error"} : a = Answer(r, what)
      BY <2>2 DEF Answers
    <3> QED BY <3>1 DEF Answer
  <2> QED BY <2>1, <2>2
<1> QED BY <1>1, <1>3, <1>4

\* What a data event leaves in the buffer and sends to the page
LEMMA DataType ==
  ASSUME NEW units \in Seq(Units), NEW t \in Tcp
  PROVE  /\ Last(Cut(units)) \in {u \in Seq(Units) : Len(u) <= HeaderUnits}
         /\ Len(Cut(units)) \in Nat \ {0} /\ Last(Cut(units)) = Cut(units)[Len(Cut(units))]
         /\ [i \in 1..Len(Cut(units)) - 1 |-> [via |-> t, units |-> Cut(units)[i]]] \in Seq(Messages)
<1>1. PICK p : p = Cut(units)
  OBVIOUS
<1>2. IsCut(p)
  BY <1>1, CutShape
<1>3. /\ p \in Seq(Seq(Units)) /\ Len(p) \in Nat \ {0} /\ Len(p) \in 1..Len(p)
      /\ \A i \in 1..Len(p) - 1 : Len(p[i]) >= HeaderUnits
      /\ Len(p[Len(p)]) <= HeaderUnits
  BY <1>2 DEF IsCut
<1>4. p[Len(p)] \in Seq(Units) /\ Last(p) = p[Len(p)]
  BY <1>3 DEF Last
<1>5. ASSUME NEW i \in 1..Len(p) - 1 PROVE [via |-> t, units |-> p[i]] \in Messages
  <2>1. i \in 1..Len(p)
    BY <1>3
  <2>2. p[i] \in Seq(Units) /\ Len(p[i]) >= HeaderUnits
    BY <1>3, <2>1
  <2> QED BY <2>2 DEF Messages
<1>6. [i \in 1..Len(p) - 1 |-> [via |-> t, units |-> p[i]]] \in Seq(Messages)
  <2>1. Len(p) - 1 \in Nat
    BY <1>3
  <2> QED BY <1>5, <2>1
<1> QED BY <1>1, <1>3, <1>4, <1>6

LEMMA TypeInit == Init => TypeOK
<1> SUFFICES ASSUME Init PROVE TypeOK
  OBVIOUS
<1>1. HeaderUnits \in Nat /\ <<>> \in Seq(Units) /\ Len(<<>>) <= HeaderUnits
  BY ProxyAssumption
<1>2. /\ socket \in Sockets \cup {None} /\ {status, overlapped} \subseteq BOOLEAN
      /\ pendingName \in Requests \cup {None} /\ ws \in [Sockets -> SocketStates]
      /\ kind \in [Requests -> RequestKinds \cup {"none"}] /\ on \in [Requests -> Sockets \cup {None}]
      /\ outstanding \subseteq Requests /\ saved \subseteq Requests \X (Requests \cup {None})
  BY DEF Init, SocketStates
<1>3. /\ seen \in [Tcp -> Seq(Seq(Units))] /\ up \in [Sockets -> Seq(Notes)] /\ down \in [Sockets -> Seq(Messages)]
      /\ log \in [Tcp -> Seq(Requests)] /\ out \in [Tcp -> Seq(Units)]
  BY DEF Init
<1>4. buffer \in [Tcp -> {units \in Seq(Units) : Len(units) <= HeaderUnits}]
  BY <1>1 DEF Init
<1>5. /\ gone \subseteq Sockets /\ connections \in [Sockets -> Tcp \cup {None}]
      /\ tcp \in [Tcp -> TcpStates] /\ wsOf \in [Tcp -> Sockets \cup {None}]
      /\ served \in [Tcp -> Nat] /\ serve \in [Tcp -> {"serving", "astray", "left", "closed"}]
      /\ \A t \in Tcp : served[t] <= Len(log[t])
  BY DEF Init, TcpStates
<1> QED BY <1>2, <1>3, <1>4, <1>5 DEF TypeOK, Notes

LEMMA AskType == ASSUME TypeOK, NEW r \in Requests, Ask(r) PROVE TypeOK'
<1>1. <<"request", r>> \in Notes /\ socket \in Sockets \cup {None}
  BY DEF Notes, TypeOK
<1>2. up' \in [Sockets -> Seq(Notes)]
  BY <1>1, SendType DEF Ask
<1>3. /\ kind' \in [Requests -> RequestKinds \cup {"none"}] /\ on' \in [Requests -> Sockets \cup {None}]
      /\ pendingName' \in Requests \cup {None} /\ outstanding' \subseteq Requests
  BY ZenonT(60), ProxyAssumption DEF Ask, TypeOK
<1>4. overlapped' \in BOOLEAN
  BY DEF Ask, TypeOK
<1> QED BY <1>2, <1>3, <1>4 DEF Ask, TypeOK, Notes, proxy, server

LEMMA SocketPageType ==
  ASSUME TypeOK, NEW w \in Sockets, Opened(w) \/ Closed(w)
  PROVE  TypeOK'
<1>1. CASE Opened(w)
  <2>1. <<"connect", None>> \in Notes /\ socket \in Sockets \cup {None}
    BY DEF Notes, TypeOK
  <2>2. up' \in [Sockets -> Seq(Notes)]
    BY <1>1, <2>1, SendType DEF Opened
  <2> QED BY <1>1, <2>2 DEF Opened, TypeOK, SocketStates, Notes, proxy, server
<1>2. CASE Closed(w)
  BY <1>2 DEF Closed, TypeOK, SocketStates, proxy, server
<1> QED BY <1>1, <1>2

LEMMA ReceiveType == ASSUME TypeOK, NEW w \in Sockets, Receive(w) PROVE TypeOK'
<1>1. down \in [Sockets -> Seq(Messages)] /\ down[w] \in Seq(Messages) /\ down[w] # <<>>
  BY DEF TypeOK, Receive
<1>2. PICK message : message = Head(down[w])
  OBVIOUS
<1>3. message \in Messages /\ Tail(down[w]) \in Seq(Messages)
  BY <1>1, <1>2, HeadTailProperties
<1>4. /\ message.via \in Tcp \cup {None} /\ message.units \in Seq(Units)
      /\ Answered(message).what = "file" => Answered(message).to \in Requests
  BY <1>3, AnsweredType
<1>5. down' \in [Sockets -> Seq(Messages)]
  BY <1>1, <1>3 DEF Receive
<1>6. saved' \subseteq Requests \X (Requests \cup {None}) /\ outstanding' \subseteq Requests
  BY <1>2, <1>4 DEF Receive, TypeOK
<1>7. pendingName' \in Requests \cup {None}
  BY DEF Receive, TypeOK
<1>8. seen' \in [Tcp -> Seq(Seq(Units))]
  <2>1. seen \in [Tcp -> Seq(Seq(Units))]
    BY DEF TypeOK
  <2>2. CASE message.via = None
    BY <1>2, <2>1, <2>2 DEF Receive
  <2>3. CASE message.via # None
    <3>1. message.via \in Tcp /\ seen' = [seen EXCEPT ![message.via] = Append(@, message.units)]
      BY <1>2, <1>4, <2>3 DEF Receive
    <3>2. Append(seen[message.via], message.units) \in Seq(Seq(Units))
      BY <1>4, <2>1, <3>1
    <3> QED BY <2>1, <3>1, <3>2
  <2> QED BY <2>2, <2>3
<1> QED BY <1>5, <1>6, <1>7, <1>8 DEF Receive, TypeOK, proxy, server

LEMMA SocketType ==
  ASSUME TypeOK, NEW w \in Sockets,
         Forward(w) \/ NotConnected(w) \/ SocketClosed(w) \/ \E t \in Tcp : OpenTcp(w, t)
  PROVE  TypeOK'
<1>1. Take(w)
  BY DEF Forward, NotConnected, SocketClosed, OpenTcp
<1>2. up' \in [Sockets -> Seq(Notes)]
  BY <1>1, TakeType
<1>3. CASE Forward(w)
  <2>1. PICK t : t = connections[w]
    OBVIOUS
  <2>2. t \in Tcp /\ Head(up[w])[1] = "request"
    BY <1>3, <2>1 DEF Forward, Live
  <2>3. Head(up[w])[2] \in Requests
    BY <1>1, <2>2, TakeType
  <2>4. log' = [log EXCEPT ![t] = Append(@, Head(up[w])[2])]
    BY <1>3, <2>1 DEF Forward
  <2>5. log \in [Tcp -> Seq(Requests)] /\ log[t] \in Seq(Requests)
    BY <2>2 DEF TypeOK
  <2>6. /\ Append(log[t], Head(up[w])[2]) \in Seq(Requests)
        /\ Len(Append(log[t], Head(up[w])[2])) = Len(log[t]) + 1 /\ Len(log[t]) \in Nat
    BY <2>3, <2>5
  <2>7. log' \in [Tcp -> Seq(Requests)] /\ \A u \in Tcp : served[u] <= Len(log'[u])
    BY SMTT(60), <2>2, <2>4, <2>5, <2>6 DEF TypeOK
  <2> QED BY <1>2, <1>3, <2>7 DEF Forward, TypeOK, Notes, page, proxy
<1>4. CASE NotConnected(w)
  <2>1. PICK r : r = Head(up[w])[2]
    OBVIOUS
  <2>2. Answer(r, "error") \in Answers
    BY <1>1, <2>1, AnswersOf, TakeType DEF Notes
  <2>3. <<Trouble(r)>> \in Seq(Messages)
    BY <2>2, TroubleType
  <2>4. down' \in [Sockets -> Seq(Messages)]
    BY <1>4, <2>1, <2>3, TellType DEF NotConnected
  <2> QED BY <1>2, <1>4, <2>4 DEF NotConnected, TypeOK, Notes, page, proxy, server
<1>5. CASE SocketClosed(w)
  <2>1. tcp' \in [Tcp -> TcpStates] /\ connections' \in [Sockets -> Tcp \cup {None}] /\ gone' \subseteq Sockets
    BY <1>5 DEF SocketClosed, TypeOK, TcpStates
  <2> QED BY <1>2, <1>5, <2>1 DEF SocketClosed, TypeOK, Notes, page, server
<1>6. CASE \E t \in Tcp : OpenTcp(w, t)
  <2>1. tcp' \in [Tcp -> TcpStates] /\ wsOf' \in [Tcp -> Sockets \cup {None}]
    BY SMTT(60), <1>6 DEF OpenTcp, TypeOK, TcpStates
  <2> QED BY SMTT(60), <1>2, <1>6, <2>1 DEF OpenTcp, TypeOK, Notes, page, server
<1> QED BY <1>3, <1>4, <1>5, <1>6

\* What EndTcp and the steps of the server leave of the streams
LEMMA EndType ==
  ASSUME TypeOK, NEW t \in Tcp, EndTcp(t)
  PROVE  /\ tcp' \in [Tcp -> TcpStates] /\ connections' \in [Sockets -> Tcp \cup {None}]
         /\ buffer' \in [Tcp -> {units \in Seq(Units) : Len(units) <= HeaderUnits}]
         /\ out' \in [Tcp -> Seq(Units)] /\ UNCHANGED <<gone, wsOf, log, served, serve>>
<1>1. <<>> \in {units \in Seq(Units) : Len(units) <= HeaderUnits} /\ <<>> \in Seq(Units)
  BY ProxyAssumption
<1>2. tcp' \in [Tcp -> TcpStates] /\ connections' \in [Sockets -> Tcp \cup {None}]
  BY DEF EndTcp, TypeOK, TcpStates
<1>3. /\ buffer' \in [Tcp -> {units \in Seq(Units) : Len(units) <= HeaderUnits}]
      /\ out' \in [Tcp -> Seq(Units)]
  BY <1>1 DEF EndTcp, TypeOK
<1> QED BY <1>2, <1>3 DEF EndTcp

LEMMA TcpType == ASSUME TypeOK, NEW t \in Tcp, TcpEvent(t) PROVE TypeOK'
<1>1. wsOf[t] \in Sockets \cup {None}
  BY DEF TypeOK
<1>2. CASE TcpConnected(t)
  <2>1. tcp' \in [Tcp -> TcpStates] /\ connections' \in [Sockets -> Tcp \cup {None}]
    BY <1>1, <1>2 DEF TcpConnected, TypeOK, TcpStates
  <2> QED BY <1>2, <2>1 DEF TcpConnected, TypeOK, page, server
<1>3. CASE TcpFails(t)
  <2>1. down' \in [Sockets -> Seq(Messages)]
    <3>1. <<Trouble(None)>> \in Seq(Messages)
      BY AnswersOf, TroubleType
    <3> QED BY <1>1, <1>3, <3>1, TellType DEF TcpFails
  <2> QED BY <1>3, <2>1, EndType DEF TcpFails, TypeOK, page
<1>4. CASE TcpClosed(t)
  BY <1>4, EndType DEF TcpClosed, TypeOK, page
<1>5. CASE Data(t)
  <2>1. PICK n \in 1..Len(out[t]) :
          LET pieces == Cut(buffer[t] \o SubSeq(out[t], 1, n))
          IN  /\ out' = [out EXCEPT ![t] = SubSeq(@, n + 1, Len(@))]
              /\ buffer' = [buffer EXCEPT ![t] = Last(pieces)]
              /\ Tell(wsOf[t], [i \in 1..Len(pieces) - 1 |-> [via |-> t, units |-> pieces[i]]])
    BY <1>5 DEF Data
  <2>2. /\ out \in [Tcp -> Seq(Units)] /\ out[t] \in Seq(Units)
        /\ buffer \in [Tcp -> {u \in Seq(Units) : Len(u) <= HeaderUnits}] /\ buffer[t] \in Seq(Units)
    BY DEF TypeOK
  <2>3. SubSeq(out[t], 1, n) \in Seq(Units) /\ SubSeq(out[t], n + 1, Len(out[t])) \in Seq(Units)
    <3>1. 1 \in 1..Len(out[t]) + 1 /\ n \in 1 - 1..Len(out[t]) /\ n + 1 \in 1..Len(out[t]) + 1
          /\ Len(out[t]) \in n + 1 - 1..Len(out[t])
      BY <2>2
    <3> QED BY <2>2, <3>1, PartOf
  <2>4. PICK units : units = buffer[t] \o SubSeq(out[t], 1, n)
    OBVIOUS
  <2>5. units \in Seq(Units)
    BY <2>2, <2>3, <2>4
  <2>6. /\ Last(Cut(units)) \in {u \in Seq(Units) : Len(u) <= HeaderUnits}
        /\ [i \in 1..Len(Cut(units)) - 1 |-> [via |-> t, units |-> Cut(units)[i]]] \in Seq(Messages)
    BY <2>5, DataType
  <2>7. /\ out' = [out EXCEPT ![t] = SubSeq(@, n + 1, Len(@))]
        /\ buffer' = [buffer EXCEPT ![t] = Last(Cut(units))]
        /\ Tell(wsOf[t], [i \in 1..Len(Cut(units)) - 1 |-> [via |-> t, units |-> Cut(units)[i]]])
    BY <2>1, <2>4
  <2>8. out' \in [Tcp -> Seq(Units)] /\ buffer' \in [Tcp -> {u \in Seq(Units) : Len(u) <= HeaderUnits}]
    BY <2>2, <2>3, <2>6, <2>7
  <2>9. down' \in [Sockets -> Seq(Messages)]
    BY <1>1, <2>6, <2>7, TellType
  <2> QED BY <1>5, <2>8, <2>9 DEF Data, TypeOK, page
<1> QED BY <1>2, <1>3, <1>4, <1>5 DEF TcpEvent

\* The request that the server reads next, and that its answer is one
LEMMA NextRequest ==
  ASSUME TypeOK, NEW t \in Tcp, served[t] < Len(log[t])
  PROVE  served[t] + 1 \in 1..Len(log[t]) /\ log[t][served[t] + 1] \in Requests
<1>1. log[t] \in Seq(Requests) /\ served[t] \in Nat /\ Len(log[t]) \in Nat
  BY DEF TypeOK
<1>2. served[t] + 1 \in 1..Len(log[t])
  BY <1>1
<1> QED BY <1>1, <1>2

LEMMA OutcomesOf ==
  ASSUME NEW what, NEW outcome \in Outcomes(what)
  PROVE  /\ outcome[1] \in {"text", "file", "error"} /\ outcome[2] \in {"serving", "left", "closed"}
         /\ outcome[1] = "file" => what = "retrieve"
BY DEF Outcomes

LEMMA ServerType ==
  ASSUME TypeOK, NEW t \in Tcp, Serve(t) \/ JoinLate(t) \/ Stray(t) \/ ServerStops
  PROVE  TypeOK'
<1>1. out \in [Tcp -> Seq(Units)] /\ out[t] \in Seq(Units)
  BY SMTT(60) DEF TypeOK
<1>2. CASE Serve(t)
  <2>1. PICK r : r = log[t][served[t] + 1]
    OBVIOUS
  <2>2. r \in Requests /\ served[t] + 1 \in 1..Len(log[t])
    <3>1. served[t] < Len(log[t])
      BY <1>2 DEF Serve
    <3> QED BY <2>1, <3>1, NextRequest
  <2>3. PICK outcome \in Outcomes(kind[r]) :
          /\ out' = [out EXCEPT ![t] = @ \o Reply(Answer(r, outcome[1]))]
          /\ serve' = [serve EXCEPT ![t] = IF outcome[2] = "serving" /\ Overruns(kind[r])
                                           THEN "astray" ELSE outcome[2]]
    BY <1>2, <2>1 DEF Serve
  <2>4. Reply(Answer(r, outcome[1])) \in Seq(Units)
    BY ZenonT(60), <2>2, AnswersOf, OutcomesOf, ReplyShape
  <2>5. out[t] \o Reply(Answer(r, outcome[1])) \in Seq(Units)
    BY <1>1, <2>4
  <2>6. out' \in [Tcp -> Seq(Units)]
    BY <1>1, <2>3, <2>5
  <2>7. serve' \in [Tcp -> {"serving", "astray", "left", "closed"}]
    <3>1. outcome[2] \in {"serving", "left", "closed"}
      BY OutcomesOf
    <3> QED BY <2>3, <3>1 DEF TypeOK
  <2>8. served' \in [Tcp -> Nat] /\ \A u \in Tcp : served'[u] <= Len(log[u])
    <3>1. served' = [served EXCEPT ![t] = @ + 1]
      BY <1>2 DEF Serve
    <3>2. served \in [Tcp -> Nat] /\ \A u \in Tcp : served[u] <= Len(log[u])
      BY DEF TypeOK
    <3>3. served[t] + 1 <= Len(log[t])
      BY <2>2
    <3> QED BY SMTT(60), <3>1, <3>2, <3>3
  <2> QED BY SMTT(60), <1>2, <2>6, <2>7, <2>8 DEF Serve, TypeOK, page, proxy
<1>3. CASE Stray(t)
  <2>1. Reply(Answer(None, "error")) \in Seq(Units)
    BY AnswersOf, ReplyShape
  <2>2. out[t] \o Reply(Answer(None, "error")) \in Seq(Units)
    BY <1>1, <2>1
  <2>3. out' \in [Tcp -> Seq(Units)]
    BY <1>1, <1>3, <2>2 DEF Stray
  <2>4. serve' \in [Tcp -> {"serving", "astray", "left", "closed"}]
    BY <1>3 DEF Stray, TypeOK
  <2> QED BY <1>3, <2>3, <2>4 DEF Stray, TypeOK, page, proxy
<1>4. CASE ServerStops
  BY <1>4 DEF ServerStops, TypeOK, page, proxy
<1>5. CASE JoinLate(t)
  <2>1. served' = [served EXCEPT ![t] = @ + 1] /\ served[t] < Len(log[t])
    BY <1>5 DEF JoinLate
  <2>2. served \in [Tcp -> Nat] /\ Len(log[t]) \in Nat /\ \A u \in Tcp : served[u] <= Len(log[u])
    BY DEF TypeOK
  <2>3. served' \in [Tcp -> Nat] /\ \A u \in Tcp : served'[u] <= Len(log[u])
    BY SMTT(60), <2>1, <2>2
  <2>4. serve' \in [Tcp -> {"serving", "astray", "left", "closed"}]
    BY <1>5 DEF JoinLate, TypeOK
  <2> QED BY SMTT(60), <1>5, <2>3, <2>4 DEF JoinLate, TypeOK, page, proxy
<1> QED BY <1>2, <1>3, <1>4, <1>5

LEMMA TypeStep == TypeOK /\ [Next]_vars => TypeOK'
<1> SUFFICES ASSUME TypeOK, [Next]_vars PROVE TypeOK'
  OBVIOUS
<1>1. CASE UNCHANGED vars
  BY <1>1 DEF vars, page, proxy, server, TypeOK
<1>2. ASSUME ServerStops PROVE TypeOK'
  BY <1>2 DEF ServerStops, TypeOK, page, proxy
<1>3. ASSUME Disconnect PROVE TypeOK'
  <2>1. socket \in Sockets
    BY <1>3 DEF Disconnect, TypeOK
  <2>2. up \in [Sockets -> Seq(Notes)] /\ <<"close", None>> \in Notes
    BY DEF TypeOK, Notes
  <2>3. up' \in [Sockets -> Seq(Notes)]
    BY <1>3, <2>1, <2>2 DEF Disconnect
  <2>4. down' \in [Sockets -> Seq(Messages)]
    BY <1>3, <2>1 DEF Disconnect, TypeOK
  <2> QED BY <1>3, <2>1, <2>3, <2>4 DEF Disconnect, TypeOK, SocketStates, Notes, proxy, server
<1>4. ASSUME NEW w \in Sockets, Connect(w) PROVE TypeOK'
  BY <1>4 DEF Connect, TypeOK, SocketStates, proxy, server
<1>5. ASSUME NEW w \in Sockets, SocketEvent(w) PROVE TypeOK'
  <2>1. CASE Opened(w) \/ Closed(w)
    BY <2>1, SocketPageType
  <2> QED BY <1>5, <2>1, ReceiveType, SocketType DEF SocketEvent
<1> QED BY <1>1, <1>2, <1>3, <1>4, <1>5, AskType, TcpType, ServerType DEF Next, User

\* For any number of WebSockets, connections and requests, every variable keeps its
\* type: in particular no message to the page lacks a header, and after each data
\* event less than a message remains in the buffer of the proxy.
THEOREM TypeCorrect == Spec => []TypeOK
<1> QED BY TypeInit, TypeStep, PTL DEF Spec
--------------------------------------------------------------------------------
(* The map from WebSockets to connections                                      *)

\* Another connection was made for the same WebSocket.
Twin(t) == \E u \in Tcp \ {t} : tcp[u] # "new" /\ wsOf[u] = wsOf[t]

MapInv ==
  /\ TypeOK
  /\ \A t \in Tcp : tcp[t] # "new" => wsOf[t] \in Sockets
  /\ \A w \in Sockets : connections[w] # None => connections[w] \in Live /\ wsOf[connections[w]] = w
  /\ \A t \in Live : connections[wsOf[t]] # t => Twin(t)
  /\ \A t \in Tcp : tcp[t] = "connected" /\ wsOf[t] \in gone => Twin(t)

LEMMA MapInit == Init => MapInv
BY TypeInit DEF Init, MapInv, Live, None

\* A twin remains one, since connections are not undone.
LEMMA TwinStays ==
  ASSUME TypeOK, NEW t \in Tcp, tcp[t] # "new", Twin(t), wsOf'[t] = wsOf[t],
         \A u \in Tcp : tcp[u] # "new" => tcp'[u] # "new" /\ wsOf'[u] = wsOf[u]
  PROVE  Twin(t)'
BY DEF Twin

LEMMA MapOpen ==
  ASSUME MapInv, NEW w \in Sockets, NEW t \in Tcp, OpenTcp(w, t), TypeOK'
  PROVE  MapInv'
<1>1. /\ tcp[t] = "new" /\ tcp' = [tcp EXCEPT ![t] = "connecting"] /\ wsOf' = [wsOf EXCEPT ![t] = w]
      /\ UNCHANGED <<gone, connections>>
  BY DEF OpenTcp
<1>2. tcp \in [Tcp -> TcpStates] /\ wsOf \in [Tcp -> Sockets \cup {None}]
  BY DEF MapInv, TypeOK
<1>3. /\ tcp'[t] = "connecting" /\ wsOf'[t] = w
      /\ \A u \in Tcp \ {t} : tcp'[u] = tcp[u] /\ wsOf'[u] = wsOf[u]
  BY <1>1, <1>2
<1>4. Live' = Live /\ t \notin Live
  BY <1>1, <1>3 DEF Live
<1>5. \A u \in Tcp : tcp[u] # "new" /\ Twin(u) => Twin(u)'
  BY <1>1, <1>3 DEF Twin
<1>6. \A u \in Tcp : tcp'[u] # "new" => wsOf'[u] \in Sockets
  BY <1>3 DEF MapInv
<1>7. \A v \in Sockets : connections'[v] # None => connections'[v] \in Live' /\ wsOf'[connections'[v]] = v
  BY <1>1, <1>3, <1>4 DEF MapInv, Live
<1>8. \A u \in Live' : connections'[wsOf'[u]] # u => Twin(u)'
  BY <1>1, <1>3, <1>4, <1>5 DEF MapInv, Live
<1>9. \A u \in Tcp : tcp'[u] = "connected" /\ wsOf'[u] \in gone' => Twin(u)'
  BY <1>1, <1>3, <1>5 DEF MapInv
<1> QED BY <1>6, <1>7, <1>8, <1>9 DEF MapInv

LEMMA MapSocketClosed ==
  ASSUME MapInv, NEW w \in Sockets, SocketClosed(w), TypeOK'
  PROVE  MapInv'
<1>1. /\ gone' = gone \cup {w} /\ wsOf' = wsOf /\ connections' = [connections EXCEPT ![w] = None]
      /\ tcp' = IF connections[w] = None THEN tcp ELSE [tcp EXCEPT ![connections[w]] = "destroyed"]
  BY DEF SocketClosed
<1>2. tcp \in [Tcp -> TcpStates] /\ connections \in [Sockets -> Tcp \cup {None}]
  BY DEF MapInv, TypeOK
<1>3. /\ \A u \in Tcp : tcp'[u] = IF u = connections[w] THEN "destroyed" ELSE tcp[u]
      /\ \A v \in Sockets : connections'[v] = IF v = w THEN None ELSE connections[v]
  BY <1>1, <1>2 DEF None, Tcp
<1>4. \A u \in Tcp : tcp'[u] = "new" => tcp[u] = "new"
  BY <1>3
<1>5. \A u \in Tcp : tcp[u] # "new" => tcp'[u] # "new"
  BY <1>3
<1>6. \A u \in Tcp : Twin(u) => Twin(u)'
  BY <1>1, <1>5 DEF Twin
<1>7. \A u \in Tcp : u \in Live' <=> u \in Live /\ u # connections[w]
  BY <1>3 DEF Live
<1>8. \A u \in Tcp : tcp'[u] # "new" => wsOf'[u] \in Sockets
  <2> TAKE u \in Tcp
  <2>1. u = connections[w] => tcp[u] # "new"
    BY DEF MapInv, Live, None, Tcp
  <2> QED BY <1>1, <1>3, <2>1 DEF MapInv
<1>9. \A v \in Sockets : connections'[v] # None => connections'[v] \in Live' /\ wsOf'[connections'[v]] = v
  <2> SUFFICES ASSUME NEW v \in Sockets, connections'[v] # None
               PROVE  connections'[v] \in Live' /\ wsOf'[connections'[v]] = v
    OBVIOUS
  <2>1. v # w /\ connections'[v] = connections[v] /\ connections[v] \in Live /\ wsOf[connections[v]] = v
    BY <1>3 DEF MapInv
  <2>2. connections[v] \in Tcp
    BY <2>1 DEF Live
  <2>3. connections[v] # connections[w]
    BY <2>1 DEF MapInv, None, Tcp
  <2> QED BY <1>1, <1>7, <2>1, <2>2, <2>3
<1>10. \A u \in Live' : connections'[wsOf'[u]] # u => Twin(u)'
  <2> SUFFICES ASSUME NEW u \in Live', connections'[wsOf'[u]] # u PROVE Twin(u)'
    OBVIOUS
  <2>1. u \in Tcp /\ u \in Live /\ u # connections[w] /\ wsOf[u] \in Sockets
    BY <1>7 DEF Live, MapInv
  <2>2. connections[wsOf[u]] # u
    BY <1>1, <1>3, <2>1
  <2> QED BY <1>6, <2>1, <2>2 DEF MapInv
<1>11. \A u \in Tcp : tcp'[u] = "connected" /\ wsOf'[u] \in gone' => Twin(u)'
  <2> SUFFICES ASSUME NEW u \in Tcp, tcp'[u] = "connected", wsOf'[u] \in gone' PROVE Twin(u)'
    OBVIOUS
  <2>1. tcp[u] = "connected" /\ u # connections[w] /\ u \in Live
    BY <1>3 DEF Live
  <2>2. CASE wsOf[u] \in gone
    BY <1>6, <2>1, <2>2 DEF MapInv
  <2>3. CASE wsOf[u] = w
    <3>1. connections[wsOf[u]] # u
      BY <2>1, <2>3
    <3> QED BY <1>6, <2>1, <3>1 DEF MapInv
  <2> QED BY <1>1, <2>2, <2>3
<1> QED BY <1>8, <1>9, <1>10, <1>11 DEF MapInv

LEMMA MapConnected ==
  ASSUME MapInv, NEW t \in Tcp, TcpConnected(t), TypeOK'
  PROVE  MapInv'
<1>1. /\ tcp[t] = "connecting" /\ tcp' = [tcp EXCEPT ![t] = IF wsOf[t] \in gone THEN "late" ELSE "connected"]
      /\ connections' = [connections EXCEPT ![wsOf[t]] = t] /\ UNCHANGED <<gone, wsOf>>
  BY DEF TcpConnected
<1>2. tcp \in [Tcp -> TcpStates] /\ connections \in [Sockets -> Tcp \cup {None}] /\ wsOf[t] \in Sockets
  BY <1>1 DEF MapInv, TypeOK
<1>3. /\ tcp'[t] \in {"late", "connected"} /\ (tcp'[t] = "connected" => wsOf[t] \notin gone)
      /\ \A u \in Tcp \ {t} : tcp'[u] = tcp[u]
      /\ \A v \in Sockets : connections'[v] = IF v = wsOf[t] THEN t ELSE connections[v]
  BY <1>1, <1>2
<1>4. \A u \in Tcp : tcp[u] # "new" <=> tcp'[u] # "new"
  BY <1>1, <1>3
<1>5. \A u \in Tcp : Twin(u) => Twin(u)'
  BY <1>1, <1>4 DEF Twin
<1>6. t \notin Live /\ t \in Live' /\ \A u \in Tcp \ {t} : u \in Live' <=> u \in Live
  BY <1>1, <1>3 DEF Live
<1>7. \A u \in Tcp : tcp'[u] # "new" => wsOf'[u] \in Sockets
  BY <1>1, <1>4 DEF MapInv
<1>8. \A v \in Sockets : connections'[v] # None => connections'[v] \in Live' /\ wsOf'[connections'[v]] = v
  <2> SUFFICES ASSUME NEW v \in Sockets, connections'[v] # None
               PROVE  connections'[v] \in Live' /\ wsOf'[connections'[v]] = v
    OBVIOUS
  <2>1. CASE v = wsOf[t]
    BY <1>1, <1>3, <1>6, <2>1
  <2>2. CASE v # wsOf[t]
    <3>1. connections'[v] = connections[v] /\ connections[v] \in Live /\ wsOf[connections[v]] = v
      BY <1>3, <2>2 DEF MapInv
    <3>2. connections[v] \in Tcp \ {t}
      BY <1>6, <3>1 DEF Live
    <3> QED BY <1>1, <1>6, <3>1, <3>2
  <2> QED BY <2>1, <2>2
<1>9. \A u \in Live' : connections'[wsOf'[u]] # u => Twin(u)'
  <2> SUFFICES ASSUME NEW u \in Live', connections'[wsOf'[u]] # u PROVE Twin(u)'
    OBVIOUS
  <2>1. u \in Tcp /\ u # t
    BY <1>1, <1>2, <1>3 DEF Live
  <2>2. u \in Live /\ wsOf[u] \in Sockets
    BY <1>6, <2>1 DEF MapInv, Live
  <2>3. CASE wsOf[u] = wsOf[t]
    <3>1. t \in Tcp \ {u} /\ tcp'[t] # "new" /\ wsOf'[t] = wsOf'[u]
      BY <1>1, <1>3, <2>1, <2>3
    <3> QED BY <3>1 DEF Twin
  <2>4. CASE wsOf[u] # wsOf[t]
    <3>1. connections[wsOf[u]] # u
      BY <1>1, <1>3, <2>2, <2>4
    <3> QED BY <1>5, <2>1, <2>2, <3>1 DEF MapInv
  <2> QED BY <2>3, <2>4
<1>10. \A u \in Tcp : tcp'[u] = "connected" /\ wsOf'[u] \in gone' => Twin(u)'
  BY <1>1, <1>3, <1>5 DEF MapInv
<1> QED BY <1>7, <1>8, <1>9, <1>10 DEF MapInv

LEMMA MapEnd ==
  ASSUME MapInv, NEW t \in Tcp, tcp[t] # "new", EndTcp(t), TypeOK'
  PROVE  MapInv'
<1>1. /\ tcp' = [tcp EXCEPT ![t] = "closed"] /\ connections' = [connections EXCEPT ![wsOf[t]] = None]
      /\ UNCHANGED <<gone, wsOf>>
  BY DEF EndTcp
<1>2. tcp \in [Tcp -> TcpStates] /\ connections \in [Sockets -> Tcp \cup {None}] /\ wsOf[t] \in Sockets
  BY DEF MapInv, TypeOK
<1>3. /\ tcp'[t] = "closed" /\ \A u \in Tcp \ {t} : tcp'[u] = tcp[u]
      /\ \A v \in Sockets : connections'[v] = IF v = wsOf[t] THEN None ELSE connections[v]
  BY <1>1, <1>2
<1>4. \A u \in Tcp : tcp[u] # "new" <=> tcp'[u] # "new"
  BY <1>3
<1>5. \A u \in Tcp : Twin(u) => Twin(u)'
  BY <1>1, <1>4 DEF Twin
<1>6. t \notin Live' /\ \A u \in Tcp \ {t} : u \in Live' <=> u \in Live
  BY <1>3 DEF Live
<1>7. \A u \in Tcp : tcp'[u] # "new" => wsOf'[u] \in Sockets
  BY <1>1, <1>4 DEF MapInv
<1>8. \A v \in Sockets : connections'[v] # None => connections'[v] \in Live' /\ wsOf'[connections'[v]] = v
  <2> SUFFICES ASSUME NEW v \in Sockets, connections'[v] # None
               PROVE  connections'[v] \in Live' /\ wsOf'[connections'[v]] = v
    OBVIOUS
  <2>1. v # wsOf[t] /\ connections'[v] = connections[v] /\ connections[v] \in Live /\ wsOf[connections[v]] = v
    BY <1>3 DEF MapInv
  <2>2. connections[v] \in Tcp \ {t}
    BY <2>1 DEF Live
  <2> QED BY <1>1, <1>6, <2>1, <2>2
<1>9. \A u \in Live' : connections'[wsOf'[u]] # u => Twin(u)'
  <2> SUFFICES ASSUME NEW u \in Live', connections'[wsOf'[u]] # u PROVE Twin(u)'
    OBVIOUS
  <2>1. u \in Tcp /\ u # t
    BY <1>6 DEF Live
  <2>2. u \in Live /\ wsOf[u] \in Sockets
    BY <1>6, <2>1 DEF MapInv, Live
  <2>3. CASE wsOf[u] = wsOf[t]
    <3>1. t \in Tcp \ {u} /\ tcp'[t] # "new" /\ wsOf'[t] = wsOf'[u]
      BY <1>1, <1>3, <2>1, <2>3
    <3> QED BY <3>1 DEF Twin
  <2>4. CASE wsOf[u] # wsOf[t]
    <3>1. connections[wsOf[u]] # u
      BY <1>1, <1>3, <2>2, <2>4
    <3> QED BY <1>5, <2>1, <2>2, <3>1 DEF MapInv
  <2> QED BY <2>3, <2>4
<1>10. \A u \in Tcp : tcp'[u] = "connected" /\ wsOf'[u] \in gone' => Twin(u)'
  BY <1>1, <1>3, <1>5 DEF MapInv
<1> QED BY <1>7, <1>8, <1>9, <1>10 DEF MapInv

LEMMA MapUnchanged ==
  ASSUME MapInv, UNCHANGED <<gone, connections, tcp, wsOf>>, TypeOK'
  PROVE  MapInv'
BY DEF MapInv, Live, Twin

LEMMA MapStep == MapInv /\ [Next]_vars => MapInv'
<1> SUFFICES ASSUME MapInv, [Next]_vars PROVE MapInv'
  OBVIOUS
<1>1. TypeOK /\ TypeOK'
  BY TypeStep DEF MapInv
<1>2. CASE UNCHANGED vars
  BY <1>1, <1>2, MapUnchanged DEF vars, proxy
<1>3. CASE User \/ ServerStops
  BY <1>1, <1>3, MapUnchanged DEF User, Connect, Ask, Disconnect, ServerStops, proxy
<1>4. ASSUME NEW w \in Sockets, SocketEvent(w) PROVE MapInv'
  <2>1. CASE Opened(w) \/ Closed(w) \/ Receive(w) \/ Forward(w) \/ NotConnected(w)
    BY <1>1, <2>1, MapUnchanged DEF Opened, Closed, Receive, Forward, NotConnected, proxy
  <2> QED BY <1>1, <1>4, <2>1, MapOpen, MapSocketClosed DEF SocketEvent
<1>5. ASSUME NEW t \in Tcp, TcpEvent(t) PROVE MapInv'
  <2>1. CASE Data(t)
    BY <1>1, <2>1, MapUnchanged DEF Data
  <2>2. CASE TcpFails(t) \/ TcpClosed(t)
    <3>1. EndTcp(t) /\ tcp[t] # "new"
      BY <2>2 DEF TcpFails, TcpClosed, Live
    <3> QED BY <1>1, <3>1, MapEnd
  <2> QED BY <1>1, <1>5, <2>1, <2>2, MapConnected DEF TcpEvent
<1>6. ASSUME NEW t \in Tcp, Serve(t) \/ JoinLate(t) \/ Stray(t) PROVE MapInv'
  BY <1>1, <1>6, MapUnchanged DEF Serve, JoinLate, Stray, proxy
<1> QED BY <1>2, <1>3, <1>4, <1>5, <1>6 DEF Next

LEMMA MapAlways == Spec => []MapInv
<1> QED BY MapInit, MapStep, PTL DEF Spec

\* For any number of WebSockets and connections, the map leads to connections that
\* live, and one that it does not lead to, or that outlives its WebSocket, has a
\* twin or came late.
THEOREM MapIsLive == Spec => []MapLeadsToLive
<1>1. MapInv => MapLeadsToLive
  BY DEF MapInv, MapLeadsToLive, Twin
<1> QED BY <1>1, MapAlways, PTL
--------------------------------------------------------------------------------
(* What is under way                                                           *)

LEMMA MembersType == ASSUME NEW S, NEW q \in Seq(S) PROVE Members(q) \subseteq S
BY DEF Members

LEMMA MembersAppend ==
  ASSUME NEW S, NEW q \in Seq(S), NEW c \in S
  PROVE  Members(Append(q, c)) = Members(q) \cup {c}
<1>1. /\ DOMAIN q = 1..Len(q) /\ Len(q) \in Nat /\ DOMAIN Append(q, c) = 1..Len(q) + 1
      /\ Append(q, c)[Len(q) + 1] = c /\ \A i \in 1..Len(q) : Append(q, c)[i] = q[i]
  BY AppendProperties
<1> QED BY <1>1 DEF Members

LEMMA MembersTail ==
  ASSUME NEW S, NEW q \in Seq(S), q # <<>>
  PROVE  Members(Tail(q)) \subseteq Members(q) /\ Head(q) \in Members(q)
<1>1. /\ DOMAIN q = 1..Len(q) /\ Len(q) \in Nat /\ Len(q) > 0 /\ Head(q) = q[1]
      /\ DOMAIN Tail(q) = 1..Len(q) - 1 /\ \A i \in 1..Len(q) - 1 : Tail(q)[i] = q[i + 1]
  BY HeadTailProperties
<1> QED BY <1>1 DEF Members

LEMMA MembersConcat ==
  ASSUME NEW S, NEW q \in Seq(S), NEW r \in Seq(S)
  PROVE  Members(q \o r) \subseteq Members(q) \cup Members(r)
<1>1. PICK m, n : m = Len(q) /\ n = Len(r)
  OBVIOUS
<1>2. /\ m \in Nat /\ n \in Nat /\ DOMAIN q = 1..m /\ DOMAIN r = 1..n
  BY <1>1
<1>3. /\ q \o r \in Seq(S) /\ Len(q \o r) = m + n
      /\ \A i \in 1..m + n : (q \o r)[i] = IF i <= m THEN q[i] ELSE r[i - m]
  BY <1>1, ConcatProperties
<1>4. DOMAIN (q \o r) = 1..m + n
  BY <1>3
<1>5. ASSUME NEW i \in 1..m + n PROVE (q \o r)[i] \in Members(q) \cup Members(r)
  <2>1. CASE i <= m
    <3>1. i \in DOMAIN q /\ (q \o r)[i] = q[i]
      BY <1>2, <1>3, <2>1
    <3> QED BY <3>1 DEF Members
  <2>2. CASE ~(i <= m)
    <3>1. i - m \in DOMAIN r /\ (q \o r)[i] = r[i - m]
      BY <1>2, <1>3, <2>2
    <3> QED BY <3>1 DEF Members
  <2> QED BY <2>1, <2>2
<1> QED BY <1>4, <1>5 DEF Members

\* Messages go to WebSockets that were opened, connections are for such, and a
\* message from a connection is on the way to the page that the connection is for.
Started == {"open", "closing", "closed"}

Unused(t) == /\ log[t] = <<>> /\ served[t] = 0 /\ seen[t] = <<>> /\ buffer[t] = <<>> /\ out[t] = <<>>
             /\ serve[t] \in {"serving", "closed"}

PathInv ==
  /\ \A w \in Sockets : up[w] # <<>> => ws[w] \in Started
  /\ \A t \in Tcp : tcp[t] # "new" => ws[wsOf[t]] \in Started
  /\ \A t \in Tcp : tcp[t] = "new" => Unused(t)
  /\ \A w \in Sockets : \A d \in Members(down[w]) : d.via # None => tcp[d.via] # "new" /\ wsOf[d.via] = w
  /\ \A w \in Sockets : \A n \in Members(up[w]) : n[1] = "request" => kind[n[2]] # "none"
  /\ \A t \in Tcp : \A r \in Members(log[t]) : kind[r] # "none"

LEMMA PathInit == Init => PathInv
BY DEF Init, PathInv, Members, Unused

\* What a note on the way to the proxy was before the step
LEMMA SendAdds ==
  ASSUME TypeOK, NEW w \in Sockets \cup {None}, NEW message \in Notes, Send(w, message)
  PROVE  \A v \in Sockets : \/ up'[v] = up[v]
                            \/ /\ v = w /\ ws'[w] = "open" /\ up'[v] = Append(up[v], message)
                               /\ Members(up'[v]) = Members(up[v]) \cup {message}
<1>1. up \in [Sockets -> Seq(Notes)]
  BY DEF TypeOK
<1>2. CASE w # None /\ ws'[w] = "open"
  <2>1. up' = [up EXCEPT ![w] = Append(@, message)] /\ w \in Sockets
    BY <1>2 DEF Send
  <2>2. up'[w] = Append(up[w], message) /\ \A v \in Sockets \ {w} : up'[v] = up[v]
    BY <1>1, <2>1
  <2>3. Members(up'[w]) = Members(up[w]) \cup {message}
    BY <1>1, <2>1, <2>2, MembersAppend
  <2> QED BY <1>2, <2>2, <2>3
<1>3. CASE ~(w # None /\ ws'[w] = "open")
  BY <1>3 DEF Send
<1> QED BY <1>2, <1>3

LEMMA TakeTakes ==
  ASSUME TypeOK, NEW w \in Sockets, Take(w)
  PROVE  /\ up[w] \in Seq(Notes) /\ up[w] # <<>> /\ up'[w] = Tail(up[w])
         /\ Members(up'[w]) \subseteq Members(up[w]) /\ Head(up[w]) \in Members(up[w])
         /\ \A v \in Sockets \ {w} : up'[v] = up[v]
<1>1. up \in [Sockets -> Seq(Notes)] /\ up[w] # <<>> /\ up' = [up EXCEPT ![w] = Tail(@)]
  BY DEF TypeOK, Take
<1>2. up'[w] = Tail(up[w]) /\ up[w] \in Seq(Notes) /\ \A v \in Sockets \ {w} : up'[v] = up[v]
  BY <1>1
<1> QED BY <1>1, <1>2, MembersTail

LEMMA TellAdds ==
  ASSUME TypeOK, NEW w \in Sockets, NEW messages \in Seq(Messages), Tell(w, messages)
  PROVE  /\ \A v \in Sockets \ {w} : down'[v] = down[v]
         /\ ws[w] = "open" => down'[w] = down[w] \o messages
         /\ Members(down'[w]) \subseteq Members(down[w]) \cup Members(messages)
<1>1. down \in [Sockets -> Seq(Messages)] /\ down[w] \in Seq(Messages)
  BY DEF TypeOK
<1>2. CASE ws[w] = "open"
  <2>1. down' = [down EXCEPT ![w] = @ \o messages]
    BY <1>2 DEF Tell
  <2> QED BY <1>1, <2>1, MembersConcat
<1>3. CASE ws[w] # "open"
  <2>1. down' = down
    BY <1>3 DEF Tell
  <2> QED BY <1>3, <2>1
<1> QED BY <1>2, <1>3

LEMMA PathUser ==
  ASSUME TypeOK, PathInv, User
  PROVE  PathInv'
<1>1. ASSUME NEW w \in Sockets, Connect(w) PROVE PathInv'
  <2>1. ws \in [Sockets -> SocketStates] /\ ws[w] = "new" /\ ws' = [ws EXCEPT ![w] = "connecting"]
        /\ UNCHANGED <<kind, seen, up, down, proxy, server>>
    BY <1>1 DEF Connect, TypeOK
  <2>2. \A v \in Sockets \cup {None} : ws[v] \in Started /\ v # w => ws'[v] \in Started
    BY <2>1
  <2>3. \A t \in Tcp : wsOf[t] \in Sockets \cup {None}
    BY DEF TypeOK
  <2>5. ws[w] \notin Started
    BY <2>1 DEF Started
  <2> QED BY <2>1, <2>2, <2>3, <2>5 DEF PathInv, Unused, proxy, server
<1>2. ASSUME NEW r \in Requests, Ask(r) PROVE PathInv'
  <2>1. /\ kind[r] = "none" /\ kind \in [Requests -> RequestKinds \cup {"none"}]
        /\ Send(socket, <<"request", r>>) /\ UNCHANGED <<ws, seen, down, proxy, server>>
    BY <1>2 DEF Ask, TypeOK
  <2>2. kind'[r] # "none" /\ \A q \in Requests \ {r} : kind'[q] = kind[q]
    <3>1. PICK what \in Kinds : kind' = [kind EXCEPT ![r] = what]
      BY <1>2 DEF Ask
    <3> QED BY <2>1, <3>1, ProxyAssumption DEF RequestKinds
  <2>3. \A q : kind[q] # "none" /\ q \in Requests => kind'[q] # "none"
    BY <2>2
  <2>4. \A v \in Sockets : \/ up'[v] = up[v]
                           \/ /\ v = socket /\ ws'[v] = "open"
                              /\ Members(up'[v]) = Members(up[v]) \cup {<<"request", r>>}
    <3>1. PICK message : message = <<"request", r>>
      OBVIOUS
    <3>2. message \in Notes /\ socket \in Sockets \cup {None} /\ Send(socket, message)
      BY <2>1, <3>1 DEF Notes, TypeOK
    <3>3. \A v \in Sockets : \/ up'[v] = up[v]
                              \/ /\ v = socket /\ ws'[socket] = "open" /\ up'[v] = Append(up[v], message)
                                 /\ Members(up'[v]) = Members(up[v]) \cup {message}
      BY <3>2, SendAdds
    <3> QED BY <3>1, <3>3
  <2>5. \A v \in Sockets : \A n \in Members(up[v]) : n[1] = "request" => n[2] \in Requests
    <3> TAKE v \in Sockets
    <3>1. up[v] \in Seq(Notes)
      BY DEF TypeOK
    <3> QED BY <3>1, MembersType DEF Notes
  <2>6. \A v \in Sockets : \A n \in Members(up'[v]) : n[1] = "request" => kind'[n[2]] # "none"
    BY <2>2, <2>3, <2>4, <2>5 DEF PathInv
  <2>7. \A t \in Tcp : \A q \in Members(log[t]) : q \in Requests
    BY DEF TypeOK, Members
  <2>8. \A v \in Sockets : up'[v] # <<>> => ws'[v] \in Started
    BY <2>1, <2>4 DEF PathInv, Started
  <2> QED BY <2>1, <2>3, <2>6, <2>7, <2>8 DEF PathInv, Unused, proxy, server
<1>3. ASSUME Disconnect PROVE PathInv'
  <2>1. /\ socket \in Sockets /\ ws' = [ws EXCEPT ![socket] = "closing"]
        /\ up' = [up EXCEPT ![socket] = Append(@, <<"close", None>>)]
        /\ down' = [down EXCEPT ![socket] = <<>>] /\ UNCHANGED <<kind, seen, proxy, server>>
    BY <1>3 DEF Disconnect, TypeOK
  <2>2. /\ ws \in [Sockets -> SocketStates] /\ up \in [Sockets -> Seq(Notes)] /\ down \in [Sockets -> Seq(Messages)]
        /\ <<"close", None>> \in Notes
    BY DEF TypeOK, Notes
  <2>3. ws'[socket] \in Started /\ \A v \in Sockets \ {socket} : ws'[v] = ws[v]
    BY <2>1, <2>2 DEF Started
  <2>4. /\ Members(up'[socket]) = Members(up[socket]) \cup {<<"close", None>>}
        /\ \A v \in Sockets \ {socket} : up'[v] = up[v]
    <3>1. up'[socket] = Append(up[socket], <<"close", None>>) /\ up[socket] \in Seq(Notes)
      BY <2>1, <2>2
    <3>2. PICK message, queue : message = <<"close", None>> /\ queue = up[socket]
      OBVIOUS
    <3>3. Members(Append(queue, message)) = Members(queue) \cup {message}
      <4>1. queue \in Seq(Notes) /\ message \in Notes
        BY <2>2, <3>1, <3>2
      <4> QED BY ONLY <4>1, MembersAppend
    <3>4. Members(up'[socket]) = Members(up[socket]) \cup {<<"close", None>>}
      BY <3>1, <3>2, <3>3
    <3>5. \A v \in Sockets \ {socket} : up'[v] = up[v]
      BY <2>1, <2>2
    <3> QED BY <3>4, <3>5
  <2>5. \A v \in Sockets : Members(down'[v]) \subseteq Members(down[v])
    BY <2>1, <2>2 DEF Members
  <2>6. \A t \in Tcp : tcp[t] # "new" => ws'[wsOf[t]] \in Started
    <3> TAKE t \in Tcp
    <3> SUFFICES ASSUME tcp[t] # "new" PROVE ws'[wsOf[t]] \in Started
      OBVIOUS
    <3>1. wsOf[t] \in Sockets \cup {None}
      BY DEF TypeOK
    <3>2. CASE wsOf[t] \in Sockets
      BY <2>3, <3>2 DEF PathInv
    <3>3. CASE wsOf[t] = None
      BY <2>1, <2>2, <3>3 DEF PathInv, None, Sockets
    <3> QED BY <3>1, <3>2, <3>3
  <2>7. \A v \in Sockets : up'[v] # <<>> => ws'[v] \in Started
    BY <2>3, <2>4 DEF PathInv
  <2>8. \A v \in Sockets : \A n \in Members(up'[v]) : n[1] = "request" => kind'[n[2]] # "none"
    <3> SUFFICES ASSUME NEW v \in Sockets, NEW n \in Members(up'[v]), n[1] = "request" PROVE kind[n[2]] # "none"
      BY <2>1
    <3>1. n \in Members(up[v])
      BY <2>4
    <3> QED BY <3>1 DEF PathInv
  <2>9. \A v \in Sockets : \A d \in Members(down'[v]) :
          d.via # None => tcp'[d.via] # "new" /\ wsOf'[d.via] = v
    BY SMTT(60), <2>1, <2>5 DEF PathInv, proxy
  <2>10. \A t \in Tcp : /\ tcp'[t] = "new" => Unused(t)'
                        /\ \A q \in Members(log'[t]) : kind'[q] # "none"
                        /\ tcp'[t] # "new" => ws'[wsOf'[t]] \in Started
    BY <2>1, <2>6 DEF PathInv, Unused, proxy, server
  <2> QED BY <2>7, <2>8, <2>9, <2>10 DEF PathInv
<1> QED BY <1>1, <1>2, <1>3 DEF User

\* A message that the page receives comes from a connection for the WebSocket that
\* brings it, or from the proxy itself.
LEMMA ReceiveFrom ==
  ASSUME MapInv, PathInv, NEW w \in Sockets, Receive(w)
  PROVE  /\ down[w] \in Seq(Messages) /\ down[w] # <<>> /\ Head(down[w]) \in Messages
         /\ down'[w] = Tail(down[w]) /\ \A v \in Sockets \ {w} : down'[v] = down[v]
         /\ Members(down'[w]) \subseteq Members(down[w])
         /\ LET t == Head(down[w]).via
            IN  /\ t = None => seen' = seen
                /\ t # None => /\ t \in Tcp /\ tcp[t] # "new" /\ wsOf[t] = w
                               /\ seen'[t] = Append(seen[t], Head(down[w]).units)
                               /\ \A u \in Tcp \ {t} : seen'[u] = seen[u]
<1>1. TypeOK
  BY DEF MapInv
<1>2. /\ down \in [Sockets -> Seq(Messages)] /\ down[w] \in Seq(Messages) /\ down[w] # <<>>
      /\ down' = [down EXCEPT ![w] = Tail(@)] /\ seen \in [Tcp -> Seq(Seq(Units))]
  BY <1>1 DEF TypeOK, Receive
<1>3. /\ Head(down[w]) \in Members(down[w]) /\ Members(Tail(down[w])) \subseteq Members(down[w])
      /\ down'[w] = Tail(down[w])
  BY <1>2, MembersTail
<1>4. Head(down[w]) \in Messages
  BY <1>2, HeadTailProperties
<1>5. PICK message : message = Head(down[w])
  OBVIOUS
<1>6. seen' = IF message.via = None THEN seen ELSE [seen EXCEPT ![message.via] = Append(@, message.units)]
  BY <1>5 DEF Receive
<1>7. message.via # None => message.via \in Tcp /\ tcp[message.via] # "new" /\ wsOf[message.via] = w
  BY <1>3, <1>4, <1>5 DEF PathInv, Messages
<1> QED BY <1>2, <1>3, <1>4, <1>5, <1>6, <1>7

LEMMA PathSocket ==
  ASSUME MapInv, PathInv, NEW w \in Sockets, SocketEvent(w)
  PROVE  PathInv'
<1>1. /\ TypeOK /\ ws \in [Sockets -> SocketStates] /\ up \in [Sockets -> Seq(Notes)]
      /\ wsOf \in [Tcp -> Sockets \cup {None}] /\ tcp \in [Tcp -> TcpStates]
      /\ \A t \in Tcp : tcp[t] # "new" => wsOf[t] \in Sockets
  BY DEF MapInv, TypeOK
<1>2. CASE Opened(w)
  <2>1. /\ ws' = [ws EXCEPT ![w] = "open"] /\ Send(socket, <<"connect", None>>)
        /\ UNCHANGED <<kind, seen, down, proxy, server>>
    BY <1>2 DEF Opened
  <2>2. \A v \in Sockets : ws[v] \in Started => ws'[v] \in Started
    BY <1>1, <2>1 DEF Started
  <2>3. <<"connect", None>> \in Notes /\ socket \in Sockets \cup {None}
    BY <1>1 DEF Notes, TypeOK
  <2>4. \A v \in Sockets : \/ up'[v] = up[v]
                           \/ /\ v = socket /\ ws'[v] = "open"
                              /\ Members(up'[v]) = Members(up[v]) \cup {<<"connect", None>>}
    BY <1>1, <2>1, <2>3, SendAdds
  <2>5. \A v \in Sockets : \A n \in Members(up'[v]) : n[1] = "request" => n \in Members(up[v])
    BY <2>4
  <2>6. \A v \in Sockets : up'[v] # <<>> => ws'[v] \in Started
    BY <2>2, <2>4 DEF PathInv, Started
  <2>7. \A t \in Tcp : tcp[t] # "new" => ws'[wsOf[t]] \in Started
    BY <1>1, <2>2 DEF PathInv
  <2> QED BY <2>1, <2>5, <2>6, <2>7 DEF PathInv, Unused, proxy, server
<1>3. CASE Closed(w)
  <2>1. /\ ws' = [ws EXCEPT ![w] = "closed"] /\ UNCHANGED <<kind, seen, up, down, proxy, server>>
    BY <1>3 DEF Closed
  <2>2. \A v \in Sockets : ws[v] \in Started => ws'[v] \in Started
    BY <1>1, <2>1 DEF Started
  <2>3. \A t \in Tcp : tcp[t] # "new" => ws'[wsOf[t]] \in Started
    BY <1>1, <2>2 DEF PathInv
  <2>4. \A v \in Sockets : up'[v] # <<>> => ws'[v] \in Started
    BY <2>1, <2>2 DEF PathInv
  <2> QED BY <2>1, <2>3, <2>4 DEF PathInv, Unused, proxy, server
<1>4. CASE Receive(w)
  <2>1. UNCHANGED <<ws, kind, up, proxy, server>>
    BY <1>4 DEF Receive
  <2>2. \A v \in Sockets : Members(down'[v]) \subseteq Members(down[v])
    BY <1>4, ReceiveFrom
  <2>3. \A t \in Tcp : tcp[t] = "new" => seen'[t] = seen[t]
    BY <1>4, ReceiveFrom
  <2>4. \A t \in Tcp : tcp'[t] = "new" => Unused(t)'
    BY <2>1, <2>3 DEF PathInv, Unused, proxy, server
  <2>5. \A v \in Sockets : \A d \in Members(down'[v]) : d.via # None => tcp'[d.via] # "new" /\ wsOf'[d.via] = v
    BY <2>1, <2>2 DEF PathInv, proxy
  <2> QED BY <2>1, <2>4, <2>5 DEF PathInv, proxy, server
<1>5. ASSUME Take(w)
      PROVE  \A v \in Sockets : /\ Members(up'[v]) \subseteq Members(up[v])
                                /\ up'[v] # <<>> => up[v] # <<>>
  BY <1>1, <1>5, TakeTakes
<1>6. CASE Forward(w)
  <2>1. /\ Take(w) /\ Head(up[w])[1] = "request" /\ connections[w] \in Live
        /\ UNCHANGED <<page, down, proxy, served, out, serve>>
    BY <1>6 DEF Forward
  <2>2. PICK t, r : t = connections[w] /\ r = Head(up[w])[2]
    OBVIOUS
  <2>3. t \in Tcp /\ tcp[t] # "new" /\ log' = [log EXCEPT ![t] = Append(@, r)]
    BY <1>6, <2>1, <2>2 DEF Forward, Live
  <2>4. r \in Requests /\ kind[r] # "none"
    <3>1. Head(up[w]) \in Members(up[w])
      BY <1>1, <2>1, TakeTakes
    <3> QED BY <1>1, <2>1, <2>2, <3>1, TakeType DEF PathInv
  <2>5. log \in [Tcp -> Seq(Requests)]
    BY <1>1 DEF TypeOK
  <2>6. Members(log'[t]) = Members(log[t]) \cup {r}
    BY <2>3, <2>4, <2>5, MembersAppend
  <2>7. \A u \in Tcp \ {t} : log'[u] = log[u]
    BY <2>3, <2>5
  <2>8. \A u \in Tcp : \A q \in Members(log'[u]) : kind'[q] # "none"
    BY <2>1, <2>4, <2>6, <2>7 DEF PathInv, page
  <2>9. \A u \in Tcp : tcp'[u] = "new" => Unused(u)'
    BY <2>1, <2>3, <2>7 DEF PathInv, Unused, page, proxy
  <2> QED BY <1>5, <2>1, <2>8, <2>9 DEF PathInv, page, proxy
<1>7. CASE NotConnected(w)
  <2>1. PICK r : r = Head(up[w])[2]
    OBVIOUS
  <2>2. Take(w) /\ Tell(w, <<Trouble(r)>>) /\ UNCHANGED <<page, proxy, server>>
    BY <1>7, <2>1 DEF NotConnected
  <2>3. r \in Requests
    BY <1>1, <1>7, <2>1, TakeType DEF NotConnected
  <2>4. <<Trouble(r)>> \in Seq(Messages) /\ Trouble(r) \in Messages
    BY <2>3, AnswersOf, TroubleType
  <2>5. Members(<<Trouble(r)>>) = {Trouble(r)} /\ Trouble(r).via = None
    BY DEF Members, Trouble
  <2>6. \A v \in Sockets : \A d \in Members(down'[v]) : d \in Members(down[v]) \/ d.via = None
    BY <1>1, <2>2, <2>4, <2>5, TellAdds
  <2>7. \A v \in Sockets : \A d \in Members(down'[v]) : d.via # None => tcp'[d.via] # "new" /\ wsOf'[d.via] = v
    BY <2>2, <2>6 DEF PathInv, proxy
  <2> QED BY <1>5, <2>2, <2>7 DEF PathInv, Unused, page, proxy, server
<1>8. CASE SocketClosed(w)
  <2>1. /\ Take(w) /\ UNCHANGED <<page, down, wsOf, buffer, server>>
        /\ tcp' = IF connections[w] = None THEN tcp ELSE [tcp EXCEPT ![connections[w]] = "destroyed"]
    BY <1>8 DEF SocketClosed
  <2>2. \A t \in Tcp : tcp'[t] = "new" <=> tcp[t] = "new"
    <3>1. connections[w] # None => connections[w] \in Tcp /\ tcp[connections[w]] # "new"
      BY DEF MapInv, Live
    <3> QED BY <1>1, <2>1, <3>1
  <2>3. \A v \in Sockets : \A d \in Members(down[v]) : d.via \in Tcp \cup {None}
    <3> TAKE v \in Sockets
    <3>1. down[v] \in Seq(Messages)
      BY <1>1 DEF TypeOK
    <3> QED BY <3>1, MembersType DEF Messages
  <2>4. \A v \in Sockets : \A d \in Members(down'[v]) : d.via # None => tcp'[d.via] # "new" /\ wsOf'[d.via] = v
    BY <2>1, <2>2, <2>3 DEF PathInv
  <2>5. \A t \in Tcp : /\ tcp'[t] = "new" => Unused(t)'
                       /\ tcp'[t] # "new" => ws'[wsOf'[t]] \in Started
    BY <2>1, <2>2 DEF PathInv, Unused, page, server
  <2>6. UNCHANGED <<ws, kind, log>>
    BY <2>1 DEF page, server
  <2>7. /\ \A v \in Sockets : up'[v] # <<>> => ws'[v] \in Started
        /\ \A v \in Sockets : \A n \in Members(up'[v]) : n[1] = "request" => kind'[n[2]] # "none"
    BY <1>5, <2>1, <2>6 DEF PathInv
  <2>8. \A t \in Tcp : \A q \in Members(log'[t]) : kind'[q] # "none"
    BY <2>6 DEF PathInv
  <2> QED BY <2>4, <2>5, <2>7, <2>8 DEF PathInv
<1>9. ASSUME NEW t \in Tcp, OpenTcp(w, t) PROVE PathInv'
  <2>1. /\ Take(w) /\ UNCHANGED <<page, down, gone, connections, buffer, server>>
        /\ tcp[t] = "new" /\ tcp' = [tcp EXCEPT ![t] = "connecting"] /\ wsOf' = [wsOf EXCEPT ![t] = w]
    BY <1>9 DEF OpenTcp
  <2>2. /\ tcp'[t] # "new" /\ wsOf'[t] = w
        /\ \A u \in Tcp \ {t} : tcp'[u] = tcp[u] /\ wsOf'[u] = wsOf[u]
    BY <1>1, <2>1
  <2>3. ws[w] \in Started
    BY <2>1 DEF PathInv, Take
  <2>4. \A v \in Sockets : \A d \in Members(down[v]) : d.via \in Tcp \cup {None}
    <3> TAKE v \in Sockets
    <3>1. down[v] \in Seq(Messages)
      BY <1>1 DEF TypeOK
    <3> QED BY <3>1, MembersType DEF Messages
  <2>5. \A v \in Sockets : \A d \in Members(down'[v]) : d.via # None => tcp'[d.via] # "new" /\ wsOf'[d.via] = v
    BY <2>1, <2>2, <2>4 DEF PathInv
  <2>6. \A u \in Tcp : tcp'[u] # "new" => ws'[wsOf'[u]] \in Started
    BY <2>1, <2>2, <2>3 DEF PathInv, page
  <2>7. \A u \in Tcp : tcp'[u] = "new" => Unused(u)'
    BY <2>1, <2>2 DEF PathInv, Unused, page, server
  <2> QED BY SMTT(60), <1>5, <2>1, <2>5, <2>6, <2>7 DEF PathInv, page, server
<1> QED BY <1>2, <1>3, <1>4, <1>6, <1>7, <1>8, <1>9 DEF SocketEvent

\* A data event sends messages of its connection.
LEMMA DataTells ==
  ASSUME TypeOK, NEW t \in Tcp, Data(t)
  PROVE  \E messages \in Seq(Messages) : Tell(wsOf[t], messages) /\ \A d \in Members(messages) : d.via = t
<1>1. buffer \in [Tcp -> {u \in Seq(Units) : Len(u) <= HeaderUnits}] /\ out \in [Tcp -> Seq(Units)]
  BY DEF TypeOK
<1>2. PICK n \in 1..Len(out[t]) :
        LET pieces == Cut(buffer[t] \o SubSeq(out[t], 1, n))
        IN  Tell(wsOf[t], [i \in 1..Len(pieces) - 1 |-> [via |-> t, units |-> pieces[i]]])
  BY DEF Data
<1>3. PICK units :
        /\ units = buffer[t] \o SubSeq(out[t], 1, n)
        /\ Tell(wsOf[t], [i \in 1..Len(Cut(units)) - 1 |-> [via |-> t, units |-> Cut(units)[i]]])
  BY <1>2
<1>4. SubSeq(out[t], 1, n) \in Seq(Units) /\ buffer[t] \in Seq(Units)
  <2>1. out[t] \in Seq(Units) /\ 1 \in 1..Len(out[t]) + 1 /\ n \in 1 - 1..Len(out[t]) /\ buffer[t] \in Seq(Units)
    BY <1>1
  <2> QED BY <2>1, PartOf
<1>5. units \in Seq(Units)
  BY <1>3, <1>4
<1> DEFINE messages == [i \in 1..Len(Cut(units)) - 1 |-> [via |-> t, units |-> Cut(units)[i]]]
<1>6. messages \in Seq(Messages)
  BY <1>5, DataType
<1>7. \A d \in Members(messages) : d.via = t
  BY DEF Members
<1> HIDE DEF messages
<1>8. Tell(wsOf[t], messages)
  BY <1>3 DEF messages
<1> QED BY <1>6, <1>7, <1>8

LEMMA PathTcp ==
  ASSUME MapInv, PathInv, NEW t \in Tcp, TcpEvent(t) \/ Serve(t) \/ JoinLate(t) \/ Stray(t)
  PROVE  PathInv'
<1>1. /\ TypeOK /\ tcp \in [Tcp -> TcpStates] /\ (tcp[t] # "new" => wsOf[t] \in Sockets)
      /\ buffer \in [Tcp -> {u \in Seq(Units) : Len(u) <= HeaderUnits}] /\ out \in [Tcp -> Seq(Units)]
      /\ served \in [Tcp -> Nat] /\ serve \in [Tcp -> {"serving", "astray", "left", "closed"}]
      /\ tcp[t] # "new"
  BY DEF MapInv, TypeOK, TcpEvent, TcpConnected, TcpFails, TcpClosed, Data, Serve, JoinLate, Stray, Live
<1>2. UNCHANGED <<page, up, wsOf, log>>
  <2>1. CASE TcpConnected(t)
    BY <2>1 DEF TcpConnected, server
  <2>2. CASE TcpFails(t) \/ TcpClosed(t)
    BY <2>2 DEF TcpFails, TcpClosed, EndTcp
  <2>3. CASE Data(t)
    BY <2>3 DEF Data
  <2>4. CASE Serve(t) \/ JoinLate(t) \/ Stray(t)
    BY <2>4 DEF Serve, JoinLate, Stray, proxy
  <2> QED BY <2>1, <2>2, <2>3, <2>4 DEF TcpEvent
<1>3. \A u \in Tcp : tcp'[u] = "new" <=> tcp[u] = "new"
  <2>1. \/ tcp' = tcp
        \/ \E state \in {"late", "connected", "closed"} : tcp' = [tcp EXCEPT ![t] = state]
    <3>1. CASE TcpConnected(t)
      BY <3>1 DEF TcpConnected
    <3>2. CASE TcpFails(t) \/ TcpClosed(t)
      BY <3>2 DEF TcpFails, TcpClosed, EndTcp
    <3>3. CASE Data(t)
      BY <3>3 DEF Data
    <3>4. CASE Serve(t) \/ JoinLate(t) \/ Stray(t)
      BY <3>4 DEF Serve, JoinLate, Stray, proxy
    <3> QED BY <3>1, <3>2, <3>3, <3>4 DEF TcpEvent
  <2> QED BY <1>1, <2>1
<1>4. \A u \in Tcp \ {t} : /\ buffer'[u] = buffer[u] /\ out'[u] = out[u] /\ served'[u] = served[u]
                           /\ serve'[u] = serve[u]
  <2>1. CASE TcpConnected(t)
    BY <2>1 DEF TcpConnected, server
  <2>2. CASE TcpFails(t) \/ TcpClosed(t)
    BY <1>1, <2>2 DEF TcpFails, TcpClosed, EndTcp
  <2>3. CASE Data(t)
    <3>1. UNCHANGED <<served, serve>>
      BY <2>3 DEF Data
    <3>2. \E n, units : out' = [out EXCEPT ![t] = SubSeq(@, n + 1, Len(@))] /\ buffer' = [buffer EXCEPT ![t] = units]
      BY <2>3 DEF Data
    <3> QED BY <1>1, <3>1, <3>2
  <2>4. CASE Serve(t)
    <3>1. UNCHANGED buffer /\ served' = [served EXCEPT ![t] = @ + 1]
      BY <2>4 DEF Serve, proxy
    <3>2. \E units, state : out' = [out EXCEPT ![t] = @ \o units] /\ serve' = [serve EXCEPT ![t] = state]
      BY <2>4 DEF Serve
    <3> QED BY <1>1, <3>1, <3>2
  <2>5. CASE Stray(t)
    BY <1>1, <2>5 DEF Stray, proxy
  <2>6. CASE JoinLate(t)
    BY <1>1, <2>6 DEF JoinLate, proxy
  <2> QED BY <2>1, <2>2, <2>3, <2>4, <2>5, <2>6 DEF TcpEvent
<1>5. \A u \in Tcp : tcp'[u] = "new" => Unused(u)'
  BY SMTT(60), <1>1, <1>2, <1>3, <1>4 DEF PathInv, Unused, page
<1>6. \A v \in Sockets : \A d \in Members(down'[v]) :
        \/ d \in Members(down[v]) \/ d.via = None
        \/ d.via = t /\ v = wsOf[t]
  <2>1. CASE down' = down
    BY <2>1
  <2>2. CASE TcpFails(t)
    <3>1. <<Trouble(None)>> \in Seq(Messages)
      BY AnswersOf, TroubleType
    <3>2. Members(<<Trouble(None)>>) = {Trouble(None)} /\ Trouble(None).via = None
      BY DEF Members, Trouble
    <3>3. Tell(wsOf[t], <<Trouble(None)>>)
      BY <2>2 DEF TcpFails
    <3> QED BY ZenonT(60), <1>1, <3>1, <3>2, <3>3, TellAdds
  <2>3. CASE Data(t)
    <3>1. PICK messages \in Seq(Messages) : Tell(wsOf[t], messages) /\ \A d \in Members(messages) : d.via = t
      BY <1>1, <2>3, DataTells
    <3> QED BY <1>1, <3>1, TellAdds
  <2> QED BY <2>1, <2>2, <2>3 DEF TcpEvent, TcpConnected, TcpClosed, Serve, JoinLate, Stray
<1>7. \A v \in Sockets : \A d \in Members(down'[v]) : d.via # None => tcp'[d.via] # "new" /\ wsOf'[d.via] = v
  <2> SUFFICES ASSUME NEW v \in Sockets, NEW d \in Members(down'[v]), d.via # None
               PROVE  tcp'[d.via] # "new" /\ wsOf'[d.via] = v
    OBVIOUS
  <2>1. CASE d \in Members(down[v])
    <3>1. d.via \in Tcp
      <4>1. down[v] \in Seq(Messages)
        BY <1>1 DEF TypeOK
      <4> QED BY <2>1, <4>1, MembersType DEF Messages
    <3> QED BY <1>2, <1>3, <2>1, <3>1 DEF PathInv
  <2> QED BY <1>1, <1>2, <1>3, <1>6, <2>1
<1>8. \A u \in Tcp : tcp'[u] # "new" => ws'[wsOf'[u]] \in Started
  BY <1>2, <1>3 DEF PathInv, page
<1> QED BY SMTT(60), <1>2, <1>5, <1>7, <1>8 DEF PathInv, page

LEMMA PathStep == MapInv /\ PathInv /\ [Next]_vars => PathInv'
<1> SUFFICES ASSUME MapInv, PathInv, [Next]_vars PROVE PathInv'
  OBVIOUS
<1>1. TypeOK
  BY DEF MapInv
<1>2. CASE UNCHANGED vars
  BY <1>2 DEF vars, page, proxy, server, PathInv, Unused
<1>3. CASE ServerStops
  BY <1>3 DEF ServerStops, page, proxy, PathInv, Unused
<1> QED BY <1>1, <1>2, <1>3, PathUser, PathSocket, PathTcp DEF Next

LEMMA PathAlways == Spec => [](MapInv /\ PathInv)
<1>1. Init => MapInv /\ PathInv
  BY MapInit, PathInit
<1>2. (MapInv /\ PathInv) /\ [Next]_vars => (MapInv /\ PathInv)'
  BY MapStep, PathStep
<1> QED BY <1>1, <1>2, PTL DEF Spec
--------------------------------------------------------------------------------
(* Replies on the way to the page                                              *)

\* Where in a queue the replies from a connection behind the k-th, up to the m-th,
\* are: in order, and nothing else from it
Places(queue, t, answers, k, m, pos) ==
  /\ pos \in [Nat -> Nat]
  /\ \A j \in k + 1..m : /\ pos[j] \in 1..Len(queue)
                         /\ queue[pos[j]] = [via |-> t, units |-> Reply(answers[j])]
  /\ \A i, j \in k + 1..m : i < j => pos[i] < pos[j]
  /\ \A p \in 1..Len(queue) : queue[p].via = t => \E j \in k + 1..m : p = pos[j]

Carried(queue, t, answers, k, m) == \E pos : Places(queue, t, answers, k, m, pos)

\* Messages of others, and the next replies, as they are put behind a queue
Others(more, t) == \A p \in 1..Len(more) : more[p].via # t
Replies(more, t, answers, m) ==
  \A p \in 1..Len(more) : more[p] = [via |-> t, units |-> Reply(answers[m + p])]

\* A queue without messages from a connection carries none of its replies.
LEMMA CarriedNone ==
  ASSUME NEW queue \in Seq(Messages), NEW t, NEW answers, NEW k \in Nat, Others(queue, t)
  PROVE  Carried(queue, t, answers, k, k)
<1> DEFINE pos == [i \in Nat |-> 0]
<1>1. pos \in [Nat -> Nat] /\ k + 1..k = {}
  OBVIOUS
<1>2. \A p \in 1..Len(queue) : queue[p].via # t
  BY DEF Others
<1>3. Places(queue, t, answers, k, k, pos)
  BY <1>1, <1>2 DEF Places
<1> QED BY <1>3 DEF Carried

\* Messages of others behind it do not matter.
LEMMA CarriedOthers ==
  ASSUME NEW queue \in Seq(Messages), NEW more \in Seq(Messages), NEW t, NEW answers,
         NEW k \in Nat, NEW m \in Nat, Others(more, t), Carried(queue, t, answers, k, m)
  PROVE  Carried(queue \o more, t, answers, k, m)
<1>1. PICK pos : Places(queue, t, answers, k, m, pos)
  BY DEF Carried
<1>2. PICK n, l, new : n = Len(queue) /\ l = Len(more) /\ new = queue \o more
  OBVIOUS
<1>3. /\ n \in Nat /\ l \in Nat /\ Len(new) = n + l
      /\ \A p \in 1..n + l : new[p] = IF p <= n THEN queue[p] ELSE more[p - n]
  BY <1>2, ConcatProperties
<1>4. \A p \in 1..l : more[p].via # t
  BY <1>2 DEF Others
<1>5. /\ pos \in [Nat -> Nat]
      /\ \A j \in k + 1..m : pos[j] \in 1..n /\ queue[pos[j]] = [via |-> t, units |-> Reply(answers[j])]
      /\ \A i, j \in k + 1..m : i < j => pos[i] < pos[j]
      /\ \A p \in 1..n : queue[p].via = t => \E j \in k + 1..m : p = pos[j]
  BY <1>1, <1>2 DEF Places
<1>6. ASSUME NEW j \in k + 1..m
      PROVE  pos[j] \in 1..n + l /\ new[pos[j]] = [via |-> t, units |-> Reply(answers[j])]
  <2>1. PICK p : p = pos[j]
    OBVIOUS
  <2>2. p \in 1..n /\ queue[p] = [via |-> t, units |-> Reply(answers[j])]
    BY <1>5, <2>1
  <2>3. p \in 1..n + l /\ p <= n
    <3>1. n \in Nat /\ l \in Nat
      BY <1>3
    <3>2. p \in 1..n
      BY <2>2
    <3> QED BY <3>1, <3>2
  <2> QED BY <1>3, <2>1, <2>2, <2>3
<1>7. ASSUME NEW p \in 1..n + l, new[p].via = t PROVE \E j \in k + 1..m : p = pos[j]
  <2>1. CASE p <= n
    <3>1. p \in 1..n /\ queue[p].via = t
      BY <1>3, <1>7, <2>1
    <3> QED BY <1>5, <3>1
  <2>2. CASE ~(p <= n)
    <3>1. p - n \in 1..l /\ new[p] = more[p - n]
      BY <1>3, <2>2
    <3> QED BY <1>4, <1>7, <3>1
  <2> QED BY <2>1, <2>2
<1>8. Places(new, t, answers, k, m, pos)
  BY <1>3, <1>5, <1>6, <1>7 DEF Places
<1> QED BY <1>2, <1>8 DEF Carried

\* The next replies, put behind it, are the last of those it carries.
LEMMA CarriedMore ==
  ASSUME NEW queue \in Seq(Messages), NEW more \in Seq(Messages), NEW t, NEW answers,
         NEW k \in Nat, NEW m \in Nat, k <= m, Carried(queue, t, answers, k, m),
         Replies(more, t, answers, m)
  PROVE  Carried(queue \o more, t, answers, k, m + Len(more))
<1>1. PICK pos : Places(queue, t, answers, k, m, pos)
  BY DEF Carried
<1>2. PICK n, l, new : n = Len(queue) /\ l = Len(more) /\ new = queue \o more
  OBVIOUS
<1>3. n \in Nat /\ l \in Nat /\ Len(new) = n + l
  BY <1>2, ConcatProperties
<1>4. \A p \in 1..n + l : new[p] = IF p <= n THEN queue[p] ELSE more[p - n]
  BY <1>2, ConcatProperties
<1>5. pos \in [Nat -> Nat] /\ \A j \in k + 1..m : pos[j] \in 1..n
  BY <1>1, <1>2 DEF Places
<1>6. \A j \in k + 1..m : queue[pos[j]] = [via |-> t, units |-> Reply(answers[j])]
  BY <1>1 DEF Places
<1>7. \A i, j \in k + 1..m : i < j => pos[i] < pos[j]
  BY <1>1 DEF Places
<1>8. \A p \in 1..n : queue[p].via = t => \E j \in k + 1..m : p = pos[j]
  BY <1>1, <1>2 DEF Places
<1> DEFINE at == [j \in Nat |-> IF j <= m THEN pos[j] ELSE n + (j - m)]
<1>9. at \in [Nat -> Nat] /\ \A j \in Nat : at[j] = IF j <= m THEN pos[j] ELSE n + (j - m)
  <2>1. ASSUME NEW j \in Nat PROVE (IF j <= m THEN pos[j] ELSE n + (j - m)) \in Nat
    <3>1. pos[j] \in Nat
      BY <1>5
    <3>2. CASE j <= m
      BY <3>1, <3>2
    <3>3. CASE ~(j <= m)
      <4>1. n + (j - m) \in Nat
        BY <1>3, <3>3
      <4> QED BY <3>3, <4>1
    <3> QED BY <3>2, <3>3
  <2> QED BY <2>1
<1> HIDE DEF at
<1>10. ASSUME NEW j \in k + 1..m + l
       PROVE  /\ j \in Nat
              /\ j <= m => j \in k + 1..m /\ at[j] = pos[j] /\ pos[j] \in 1..n
              /\ j > m => at[j] = n + (j - m) /\ j - m \in 1..l
  <2>1. j \in Nat
    BY <1>3
  <2>2. j <= m => j \in k + 1..m
    BY <2>1
  <2>3. j > m => j - m \in 1..l /\ ~(j <= m)
    BY <1>3, <2>1
  <2>4. j <= m => at[j] = pos[j] /\ pos[j] \in 1..n
    BY <1>5, <1>9, <2>1, <2>2
  <2>5. j > m => at[j] = n + (j - m)
    BY <1>9, <2>1, <2>3
  <2> QED BY <2>1, <2>2, <2>3, <2>4, <2>5
<1>11. ASSUME NEW j \in k + 1..m + l
       PROVE  at[j] \in 1..n + l /\ new[at[j]] = [via |-> t, units |-> Reply(answers[j])]
  <2>1. PICK p : p = at[j]
    OBVIOUS
  <2>2. CASE j <= m
    <3>1. j \in k + 1..m /\ p = pos[j] /\ p \in 1..n
      BY <1>10, <2>1, <2>2
    <3>2. p \in 1..n + l /\ p <= n
      BY <1>3, <3>1
    <3>3. new[p] = queue[p] /\ queue[p] = [via |-> t, units |-> Reply(answers[j])]
      BY <1>4, <1>6, <3>1, <3>2
    <3> QED BY <2>1, <3>2, <3>3
  <2>3. CASE j > m
    <3>1. PICK d : d = j - m
      OBVIOUS
    <3>2. d \in 1..l /\ p = n + d
      BY <1>10, <2>1, <2>3, <3>1
    <3>3. p \in 1..n + l /\ ~(p <= n) /\ p - n = d
      BY <1>3, <3>2
    <3>4. m + d = j
      BY <1>10, <3>1
    <3>5. new[p] = more[d] /\ more[d] = [via |-> t, units |-> Reply(answers[m + d])]
      BY <1>2, <1>4, <3>2, <3>3 DEF Replies
    <3> QED BY <2>1, <3>3, <3>4, <3>5
  <2>4. j \in Nat
    BY <1>10
  <2> QED BY <2>2, <2>3, <2>4
<1>12. ASSUME NEW i \in k + 1..m + l, NEW j \in k + 1..m + l, i < j PROVE at[i] < at[j]
  <2>1. /\ i \in Nat /\ j \in Nat
        /\ i <= m => i \in k + 1..m /\ at[i] = pos[i] /\ pos[i] \in 1..n
        /\ i > m => at[i] = n + (i - m)
        /\ j <= m => j \in k + 1..m /\ at[j] = pos[j]
        /\ j > m => at[j] = n + (j - m)
    BY <1>10
  <2>2. CASE j <= m
    <3>1. i <= m
      BY <1>12, <2>1, <2>2
    <3> QED BY <1>7, <1>12, <2>1, <2>2, <3>1
  <2>3. CASE i <= m /\ j > m
    <3>1. PICK a, b : a = at[i] /\ b = at[j]
      OBVIOUS
    <3>2. a \in 1..n /\ b = n + (j - m)
      BY <2>1, <2>3, <3>1
    <3>3. a < b
      BY <1>3, <2>1, <2>3, <3>2
    <3> QED BY <3>1, <3>3
  <2>4. CASE i > m
    <3>1. j > m
      BY <1>12, <2>1, <2>4
    <3>2. n + (i - m) < n + (j - m)
      BY <1>3, <1>12, <2>1
    <3> QED BY <2>1, <2>4, <3>1, <3>2
  <2>5. (j <= m \/ j > m) /\ (i <= m \/ i > m)
    BY <2>1
  <2> QED BY <2>2, <2>3, <2>4, <2>5
<1>13. ASSUME NEW p \in 1..n + l, new[p].via = t PROVE \E j \in k + 1..m + l : p = at[j]
  <2>1. CASE p <= n
    <3>1. p \in 1..n
      BY <1>3, <2>1
    <3>2. queue[p].via = t
      BY <1>4, <1>13, <2>1
    <3>3. PICK j \in k + 1..m : p = pos[j]
      BY <1>8, <3>1, <3>2
    <3>4. j \in k + 1..m + l /\ j <= m
      BY <1>3
    <3> QED BY <1>10, <3>3, <3>4
  <2>2. CASE ~(p <= n)
    <3>1. PICK j : j = m + (p - n)
      OBVIOUS
    <3>2. j \in k + 1..m + l /\ j > m /\ n + (j - m) = p
      BY <1>3, <2>2, <3>1
    <3>3. at[j] = n + (j - m)
      BY <1>10, <3>2
    <3> QED BY <3>2, <3>3
  <2> QED BY <2>1, <2>2
<1>14. Places(new, t, answers, k, m + l, at)
  BY <1>3, <1>9, <1>11, <1>12, <1>13 DEF Places
<1> QED BY <1>2, <1>14 DEF Carried

\* What is behind the first message, if the replies from the q-th on are
Behind(queue, t, q, m, pos) ==
  /\ \A j \in q + 1..m : pos[j] > 1
  /\ \A p \in 2..Len(queue) : queue[p].via = t => \E j \in q + 1..m : p = pos[j]

LEMMA PlacesBehind ==
  ASSUME NEW queue \in Seq(Messages), queue # <<>>, NEW t, NEW answers, NEW k \in Nat, NEW m \in Nat,
         NEW q \in Nat, q >= k, NEW pos, Places(queue, t, answers, k, m, pos), Behind(queue, t, q, m, pos)
  PROVE  Carried(Tail(queue), t, answers, q, m)
<1>1. PICK n, new : n = Len(queue) /\ new = Tail(queue)
  OBVIOUS
<1>2. n \in Nat /\ n > 0 /\ n - 1 \in Nat /\ Len(new) = n - 1
  BY <1>1, HeadTailProperties
<1>3. \A p \in 1..n - 1 : new[p] = queue[p + 1]
  BY <1>1, HeadTailProperties
<1>4. pos \in [Nat -> Nat] /\ \A j \in k + 1..m : pos[j] \in 1..n
  BY <1>1 DEF Places
<1>5. \A j \in k + 1..m : queue[pos[j]] = [via |-> t, units |-> Reply(answers[j])]
  BY DEF Places
<1>6. \A i, j \in k + 1..m : i < j => pos[i] < pos[j]
  BY DEF Places
<1> DEFINE at == [j \in Nat |-> IF pos[j] > 0 THEN pos[j] - 1 ELSE 0]
<1>7. at \in [Nat -> Nat] /\ \A j \in Nat : pos[j] > 0 => at[j] = pos[j] - 1
  <2>1. ASSUME NEW j \in Nat PROVE (IF pos[j] > 0 THEN pos[j] - 1 ELSE 0) \in Nat
    <3>1. PICK p : p = pos[j]
      OBVIOUS
    <3>2. p \in Nat
      BY <1>4, <3>1
    <3>3. (IF p > 0 THEN p - 1 ELSE 0) \in Nat
      BY <3>2
    <3> QED BY <3>1, <3>3
  <2> QED BY <2>1
<1> HIDE DEF at
<1>8. ASSUME NEW j \in q + 1..m
      PROVE  /\ j \in k + 1..m /\ pos[j] \in 2..n /\ at[j] = pos[j] - 1 /\ at[j] \in 1..n - 1
             /\ new[at[j]] = [via |-> t, units |-> Reply(answers[j])]
  <2>1. j \in k + 1..m /\ j \in Nat
    OBVIOUS
  <2>2. PICK p : p = pos[j]
    OBVIOUS
  <2>3. p \in 1..n /\ p > 1
    BY <1>4, <2>1, <2>2 DEF Behind
  <2>4. p - 1 \in 1..n - 1 /\ p - 1 + 1 = p /\ p \in 2..n /\ p > 0
    BY <1>2, <2>3
  <2>5. at[j] = p - 1
    BY <1>7, <2>1, <2>2, <2>4
  <2>6. new[p - 1] = queue[p]
    BY <1>3, <2>4
  <2>7. queue[p] = [via |-> t, units |-> Reply(answers[j])]
    BY <1>5, <2>1, <2>2
  <2> QED BY <2>1, <2>2, <2>4, <2>5, <2>6, <2>7
<1>9. ASSUME NEW i \in q + 1..m, NEW j \in q + 1..m, i < j PROVE at[i] < at[j]
  <2>1. pos[i] < pos[j]
    BY <1>6, <1>8, <1>9
  <2>2. PICK a, b : a = pos[i] /\ b = pos[j]
    OBVIOUS
  <2>3. a \in 2..n /\ b \in 2..n /\ a < b /\ at[i] = a - 1 /\ at[j] = b - 1
    BY <1>8, <2>1, <2>2
  <2>4. a - 1 < b - 1
    BY <1>2, <2>3
  <2> QED BY <2>3, <2>4
<1>10. ASSUME NEW p \in 1..n - 1, new[p].via = t PROVE \E j \in q + 1..m : p = at[j]
  <2>1. p + 1 \in 2..n
    BY <1>2
  <2>2. queue[p + 1].via = t
    BY <1>3, <1>10
  <2>3. PICK j \in q + 1..m : p + 1 = pos[j]
    BY <1>1, <2>1, <2>2 DEF Behind
  <2>4. at[j] = pos[j] - 1
    BY <1>8
  <2>5. p + 1 - 1 = p
    OBVIOUS
  <2> QED BY <2>3, <2>4, <2>5
<1>11. Places(new, t, answers, q, m, at)
  BY <1>2, <1>7, <1>8, <1>9, <1>10 DEF Places
<1> QED BY <1>1, <1>11 DEF Carried

\* Without a first message of another, the same replies are left; without one of
\* its own, which is the next reply, all but that one.
LEMMA CarriedTail ==
  ASSUME NEW queue \in Seq(Messages), queue # <<>>, NEW t, NEW answers, NEW k \in Nat, NEW m \in Nat,
         Carried(queue, t, answers, k, m)
  PROVE  /\ Head(queue).via # t => Carried(Tail(queue), t, answers, k, m)
         /\ Head(queue).via = t => /\ k + 1 <= m /\ Head(queue).units = Reply(answers[k + 1])
                                   /\ Carried(Tail(queue), t, answers, k + 1, m)
<1>1. PICK pos : Places(queue, t, answers, k, m, pos)
  BY DEF Carried
<1>2. PICK n : n = Len(queue)
  OBVIOUS
<1>3. n \in Nat /\ 1 \in 1..n /\ Head(queue) = queue[1]
  BY <1>2, HeadTailProperties
<1>4. pos \in [Nat -> Nat] /\ \A j \in k + 1..m : pos[j] \in 1..n
  BY <1>1, <1>2 DEF Places
<1>5. \A j \in k + 1..m : queue[pos[j]] = [via |-> t, units |-> Reply(answers[j])]
  BY <1>1 DEF Places
<1>6. \A i, j \in k + 1..m : i < j => pos[i] < pos[j]
  BY <1>1 DEF Places
<1>7. \A p \in 1..n : queue[p].via = t => \E j \in k + 1..m : p = pos[j]
  BY <1>1, <1>2 DEF Places
<1>8. CASE Head(queue).via # t
  <2>1. ASSUME NEW j \in k + 1..m PROVE pos[j] > 1
    <3>1. PICK p : p = pos[j]
      OBVIOUS
    <3>2. p \in 1..n
      BY <1>4, <3>1
    <3>3. queue[p] = [via |-> t, units |-> Reply(answers[j])]
      BY <1>5, <3>1
    <3>4. p # 1
      BY <1>3, <1>8, <3>3
    <3>5. p > 1
      BY <1>3, <3>2, <3>4
    <3> QED BY <3>1, <3>5
  <2>2. 2..n \subseteq 1..n
    OBVIOUS
  <2>3. Behind(queue, t, k, m, pos)
    BY <1>2, <1>7, <2>1, <2>2 DEF Behind
  <2>4. k >= k
    OBVIOUS
  <2>5. Carried(Tail(queue), t, answers, k, m)
    BY <1>1, <2>3, <2>4, PlacesBehind
  <2> QED BY <1>8, <2>5
<1>9. CASE Head(queue).via = t
  <2>1. PICK j \in k + 1..m : 1 = pos[j]
    BY <1>3, <1>7, <1>9
  <2>2. \A i \in k + 1..m : i # j => i > j
    <3> SUFFICES ASSUME NEW i \in k + 1..m, i < j PROVE FALSE
      OBVIOUS
    <3>1. PICK p : p = pos[i]
      OBVIOUS
    <3>2. p \in 1..n /\ p < 1
      BY <1>4, <1>6, <2>1, <3>1
    <3> QED BY <1>3, <3>2
  <2>3. j = k + 1 /\ k + 1 <= m /\ k + 1 \in Nat
    <3>1. k + 1 \in k + 1..m /\ ~(k + 1 > j)
      OBVIOUS
    <3> QED BY <2>2, <3>1
  <2>4. Head(queue).units = Reply(answers[k + 1])
    <3>1. queue[1] = [via |-> t, units |-> Reply(answers[k + 1])]
      BY <1>5, <2>1, <2>3
    <3> QED BY <1>3, <3>1
  <2>5. PICK q : q = k + 1
    OBVIOUS
  <2>6. q \in Nat /\ q >= k /\ j = q
    BY <2>3, <2>5
  <2>7. ASSUME NEW i \in q + 1..m PROVE pos[i] > 1
    <3>1. i \in k + 1..m /\ j < i
      BY <2>5, <2>6
    <3> QED BY <1>6, <2>1, <3>1
  <2>8. ASSUME NEW p \in 2..n, queue[p].via = t PROVE \E i \in q + 1..m : p = pos[i]
    <3>1. p \in 1..n /\ p # 1
      OBVIOUS
    <3>2. PICK i \in k + 1..m : p = pos[i]
      BY <1>7, <2>8, <3>1
    <3>3. i # j
      BY <2>1, <3>1, <3>2
    <3>4. i \in q + 1..m
      BY <2>5, <2>6, <3>3
    <3> QED BY <3>2, <3>4
  <2>9. Behind(queue, t, q, m, pos)
    BY <1>2, <2>7, <2>8 DEF Behind
  <2>10. Carried(Tail(queue), t, answers, q, m)
    BY <1>1, <2>6, <2>9, PlacesBehind
  <2> QED BY <1>9, <2>3, <2>4, <2>5, <2>10
<1> QED BY <1>8, <1>9

\* Later answers do not matter.
LEMMA CarriedAnswers ==
  ASSUME NEW queue, NEW t, NEW answers \in Seq(Answers), NEW a \in Answers,
         NEW k \in Nat, NEW m \in 0..Len(answers), Carried(queue, t, answers, k, m)
  PROVE  Carried(queue, t, Append(answers, a), k, m)
<1>1. PICK pos : Places(queue, t, answers, k, m, pos)
  BY DEF Carried
<1>2. \A j \in k + 1..m : Append(answers, a)[j] = answers[j]
  OBVIOUS
<1>3. Places(queue, t, Append(answers, a), k, m, pos)
  BY <1>1, <1>2 DEF Places
<1> QED BY <1>3 DEF Carried
--------------------------------------------------------------------------------
(* The order of the replies: what the server has answered on a connection, of   *)
(* which the first m replies have left the stream and the first Len(seen[t])    *)
(* have been handled                                                            *)

\* The answers are to the requests in their order, and one to nothing behind them
\* if the last request that was read overran its header.
Answering(t, answers) ==
  /\ \A j \in 1..Len(answers) : j <= served[t] =>
       answers[j].to = log[t][j] /\ (answers[j].what = "file" => kind[log[t][j]] = "retrieve")
  /\ \A j \in 1..Len(answers) : j > served[t] =>
       answers[j] = Answer(None, "error") /\ \E i \in 1..served[t] : kind[log[t][i]] = "wide"
  /\ serve[t] \in {"serving", "astray"} => Len(answers) = served[t]
  /\ serve[t] = "astray" => served[t] >= 1 /\ kind[log[t][served[t]]] = "wide"

OnStream(t, answers, m) == tcp[t] # "closed" => Carries(buffer[t] \o out[t], answers, m)

Handled(t, answers, m) ==
  Len(seen[t]) <= m /\ \A i \in 1..Len(seen[t]) : seen[t][i] = Reply(answers[i])

OnWay(t, answers, m) ==
  tcp[t] # "new" /\ ws[wsOf[t]] = "open" => Carried(down[wsOf[t]], t, answers, Len(seen[t]), m)

Orders(t) ==
  \E answers \in Seq(Answers) : \E m \in 0..Len(answers) :
    Answering(t, answers) /\ OnStream(t, answers, m) /\ Handled(t, answers, m) /\ OnWay(t, answers, m)

\* A step that leaves a connection alone: it may close it, put a request behind its
\* log, end its server, and move messages of others to the page.
LogKept(t) ==
  \A j \in 1..Len(log[t]) : log'[t][j] = log[t][j] /\ kind'[log[t][j]] = kind[log[t][j]]

Passes(t) ==
  LET queue == down[wsOf[t]]
      new == down'[wsOf[t]]
  IN  \/ new = queue
      \/ \E more \in Seq(Messages) : Others(more, t) /\ new = queue \o more
      \/ queue # <<>> /\ Head(queue).via # t /\ new = Tail(queue)

ServerKept(t) ==
  /\ served'[t] = served[t] /\ serve'[t] \in {serve[t], "left", "closed"} /\ LogKept(t)
  /\ tcp'[t] = "closed" \/ (tcp[t] # "closed" /\ buffer'[t] = buffer[t] /\ out'[t] = out[t])

WayKept(t) ==
  /\ seen'[t] = seen[t]
  /\ tcp'[t] # "new" /\ ws'[wsOf'[t]] = "open" =>
       tcp[t] # "new" /\ ws[wsOf[t]] = "open" /\ wsOf'[t] = wsOf[t] /\ Passes(t)

LEMMA AnsweringKept ==
  ASSUME TypeOK, NEW t \in Tcp, NEW answers \in Seq(Answers), Answering(t, answers),
         served'[t] = served[t], serve'[t] \in {serve[t], "left", "closed"}, LogKept(t)
  PROVE  Answering(t, answers)'
<1>1. served[t] \in Nat /\ served[t] <= Len(log[t]) /\ Len(log[t]) \in Nat
  BY DEF TypeOK
<1>2. PICK n : n = served[t]
  OBVIOUS
<1>3. \A j \in 1..n : log'[t][j] = log[t][j] /\ kind'[log[t][j]] = kind[log[t][j]]
  BY <1>1, <1>2 DEF LogKept
<1>4. n \in Nat /\ served'[t] = n /\ Len(answers) \in Nat
  BY <1>1, <1>2
<1>5. /\ \A j \in 1..Len(answers) : j <= n =>
           answers[j].to = log[t][j] /\ (answers[j].what = "file" => kind[log[t][j]] = "retrieve")
      /\ \A j \in 1..Len(answers) : j > n =>
           answers[j] = Answer(None, "error") /\ \E i \in 1..n : kind[log[t][i]] = "wide"
      /\ serve[t] \in {"serving", "astray"} => Len(answers) = n
      /\ serve[t] = "astray" => n >= 1 /\ kind[log[t][n]] = "wide"
  BY <1>2 DEF Answering
<1>6. \A j \in 1..Len(answers) : j <= n =>
        answers[j].to = log'[t][j] /\ (answers[j].what = "file" => kind'[log'[t][j]] = "retrieve")
  <2> SUFFICES ASSUME NEW j \in 1..Len(answers), j <= n
               PROVE  answers[j].to = log'[t][j] /\ (answers[j].what = "file" => kind'[log'[t][j]] = "retrieve")
    OBVIOUS
  <2>1. j \in 1..n
    BY <1>4
  <2> QED BY <1>3, <1>5, <2>1
<1>7. \A j \in 1..Len(answers) : j > n =>
        answers[j] = Answer(None, "error") /\ \E i \in 1..n : kind'[log'[t][i]] = "wide"
  BY <1>3, <1>5
<1>8. serve'[t] = "astray" => n >= 1 /\ kind'[log'[t][n]] = "wide"
  <2> SUFFICES ASSUME serve'[t] = "astray" PROVE n >= 1 /\ kind'[log'[t][n]] = "wide"
    OBVIOUS
  <2>1. n >= 1 /\ kind[log[t][n]] = "wide"
    BY <1>5
  <2>2. n \in 1..n
    BY <1>4, <2>1
  <2> QED BY <1>3, <2>1, <2>2
<1>9. serve'[t] \in {"serving", "astray"} => Len(answers) = n
  BY <1>5
<1> QED BY <1>4, <1>5, <1>6, <1>7, <1>8, <1>9 DEF Answering

LEMMA WayStays ==
  ASSUME TypeOK, NEW t \in Tcp, tcp[t] # "new" => wsOf[t] \in Sockets, WayKept(t),
         NEW answers \in Seq(Answers), NEW m \in 0..Len(answers), OnWay(t, answers, m)
  PROVE  OnWay(t, answers, m)'
<1> SUFFICES ASSUME tcp'[t] # "new", ws'[wsOf'[t]] = "open"
             PROVE  Carried(down'[wsOf[t]], t, answers, Len(seen[t]), m)
  BY DEF OnWay, WayKept
<1>1. PICK queue, new, k : queue = down[wsOf[t]] /\ new = down'[wsOf[t]] /\ k = Len(seen[t])
  OBVIOUS
<1>2. /\ Carried(queue, t, answers, k, m)
      /\ \/ new = queue
         \/ \E more \in Seq(Messages) : Others(more, t) /\ new = queue \o more
         \/ queue # <<>> /\ Head(queue).via # t /\ new = Tail(queue)
  BY <1>1 DEF OnWay, WayKept, Passes
<1>3. queue \in Seq(Messages) /\ k \in Nat /\ m \in Nat
  <2>1. wsOf[t] \in Sockets
    BY DEF WayKept
  <2>2. down \in [Sockets -> Seq(Messages)] /\ seen[t] \in Seq(Seq(Units))
    BY DEF TypeOK
  <2> QED BY <1>1, <2>1, <2>2
<1>4. Carried(new, t, answers, k, m)
  <2>1. CASE new = queue
    BY <1>2, <2>1
  <2>2. CASE \E more \in Seq(Messages) : Others(more, t) /\ new = queue \o more
    BY <1>2, <1>3, <2>2, CarriedOthers
  <2>3. CASE queue # <<>> /\ Head(queue).via # t /\ new = Tail(queue)
    BY <1>2, <1>3, <2>3, CarriedTail
  <2> QED BY <1>2, <2>1, <2>2, <2>3
<1> QED BY <1>1, <1>4

LEMMA OrdersKept ==
  ASSUME TypeOK, NEW t \in Tcp, tcp[t] # "new" => wsOf[t] \in Sockets, Orders(t),
         ServerKept(t), WayKept(t)
  PROVE  Orders(t)'
<1>0. PICK answers \in Seq(Answers) : \E m \in 0..Len(answers) :
        Answering(t, answers) /\ OnStream(t, answers, m) /\ Handled(t, answers, m) /\ OnWay(t, answers, m)
  BY DEF Orders
<1>1. PICK m \in 0..Len(answers) :
        Answering(t, answers) /\ OnStream(t, answers, m) /\ Handled(t, answers, m) /\ OnWay(t, answers, m)
  BY <1>0
<1>2. Answering(t, answers)'
  BY <1>1, AnsweringKept DEF ServerKept
<1>3. OnStream(t, answers, m)'
  BY <1>1 DEF OnStream, ServerKept
<1>4. Handled(t, answers, m)'
  BY <1>1 DEF Handled, WayKept
<1>5. OnWay(t, answers, m)'
  BY <1>1, WayStays
<1> QED BY <1>2, <1>3, <1>4, <1>5 DEF Orders

OrderInv == \A t \in Tcp : Orders(t)

\* On a connection that was just opened, as on one that was not yet, nothing was
\* answered.
LEMMA OrderInit == Init => OrderInv
<1> SUFFICES ASSUME Init, NEW t \in Tcp PROVE Orders(t)
  BY DEF OrderInv
<1> DEFINE answers == <<>>
<1>1. answers \in Seq(Answers) /\ Len(answers) = 0 /\ seen[t] = <<>> /\ Len(seen[t]) = 0 /\ 0 \in 0..Len(answers)
  BY DEF Init
<1>2. Answering(t, answers)
  BY <1>1 DEF Answering, Init
<1>3. OnStream(t, answers, 0)
  <2>1. Carries(<<>>, answers, Len(answers))
    BY <1>1, EmptyCarries
  <2>2. buffer[t] \o out[t] = <<>>
    BY DEF Init
  <2> QED BY <1>1, <2>1, <2>2 DEF OnStream
<1>4. Handled(t, answers, 0) /\ OnWay(t, answers, 0)
  BY <1>1 DEF Handled, OnWay, Init
<1> HIDE DEF answers
<1> QED BY <1>1, <1>2, <1>3, <1>4 DEF Orders

LEMMA OrdersOpened ==
  ASSUME NEW t \in Tcp, Unused(t)', down'[wsOf'[t]] \in Seq(Messages), Others(down'[wsOf'[t]], t)
  PROVE  Orders(t)'
<1> DEFINE answers == <<>>
<1>1. answers \in Seq(Answers) /\ Len(answers) = 0 /\ Len(seen'[t]) = 0 /\ 0 \in 0..Len(answers)
  BY DEF Unused
<1>2. Answering(t, answers)'
  BY <1>1 DEF Answering, Unused
<1>3. OnStream(t, answers, 0)'
  <2>1. Carries(<<>>, answers, Len(answers))
    BY <1>1, EmptyCarries
  <2>2. buffer'[t] \o out'[t] = <<>>
    BY DEF Unused
  <2> QED BY <1>1, <2>1, <2>2 DEF OnStream
<1>4. Handled(t, answers, 0)'
  BY <1>1 DEF Handled
<1>5. OnWay(t, answers, 0)'
  BY <1>1, CarriedNone DEF OnWay
<1> HIDE DEF answers
<1> QED BY <1>1, <1>2, <1>3, <1>4, <1>5 DEF Orders

\* What the steps are the same in
LEMMA SameServer ==
  ASSUME TypeOK, NEW t \in Tcp, UNCHANGED <<kind, buffer, server>>,
         tcp'[t] = tcp[t] \/ tcp'[t] = "closed" \/ tcp[t] # "closed"
  PROVE  ServerKept(t)
BY DEF ServerKept, LogKept, server

LEMMA SameWay ==
  ASSUME TypeOK, NEW t \in Tcp, UNCHANGED <<ws, seen, down, wsOf>>, tcp'[t] # "new" => tcp[t] # "new"
  PROVE  WayKept(t)
BY DEF WayKept, Passes

\* What the proxy says itself is not of a connection.
LEMMA TroubleOther ==
  ASSUME NEW r, NEW t \in Tcp PROVE Others(<<Trouble(r)>>, t)
BY DEF Others, Trouble, Tcp, None

LEMMA TellPasses ==
  ASSUME TypeOK, NEW t \in Tcp, wsOf[t] \in Sockets, NEW w \in Sockets,
         NEW messages \in Seq(Messages), Others(messages, t), Tell(w, messages)
  PROVE  Passes(t)
<1>1. down \in [Sockets -> Seq(Messages)]
  BY DEF TypeOK
<1>2. \/ down' = down
      \/ down' = [down EXCEPT ![w] = @ \o messages]
  BY DEF Tell
<1>3. CASE down' = down
  BY <1>3 DEF Passes
<1>4. CASE down' = [down EXCEPT ![w] = @ \o messages]
  <2>1. CASE wsOf[t] = w
    <3>1. down'[wsOf[t]] = down[wsOf[t]] \o messages
      BY <1>1, <1>4, <2>1
    <3> QED BY <3>1 DEF Passes
  <2>2. CASE wsOf[t] # w
    <3>1. down'[wsOf[t]] = down[wsOf[t]]
      BY <1>1, <1>4, <2>2
    <3> QED BY <3>1 DEF Passes
  <2> QED BY <2>1, <2>2
<1> QED BY <1>2, <1>3, <1>4

\* The page's own steps, and the end of the server, leave every connection alone.
LEMMA OrderUser ==
  ASSUME MapInv, PathInv, OrderInv, User \/ ServerStops, NEW t \in Tcp
  PROVE  Orders(t)'
<1>1. /\ TypeOK /\ ws \in [Sockets -> SocketStates] /\ wsOf[t] \in Sockets \cup {None} /\ log[t] \in Seq(Requests)
      /\ (tcp[t] # "new" => wsOf[t] \in Sockets /\ ws[wsOf[t]] \in Started) /\ Orders(t)
  BY DEF MapInv, TypeOK, PathInv, OrderInv
<1>2. ASSUME NEW w \in Sockets, Connect(w) PROVE Orders(t)'
  <2>1. ws' = [ws EXCEPT ![w] = "connecting"] /\ UNCHANGED <<kind, seen, up, down, proxy, server>>
    BY <1>2 DEF Connect
  <2>2. ServerKept(t)
    BY <1>1, <2>1, SameServer DEF proxy
  <2>3. WayKept(t)
    BY <1>1, <2>1 DEF WayKept, Passes, proxy
  <2> QED BY <1>1, <2>2, <2>3, OrdersKept
<1>3. ASSUME NEW r \in Requests, Ask(r) PROVE Orders(t)'
  <2>1. kind[r] = "none" /\ UNCHANGED <<ws, seen, down, proxy, server>>
    BY <1>3 DEF Ask
  <2>2. \A q \in Requests \ {r} : kind'[q] = kind[q]
    <3>1. PICK what \in Kinds : kind' = [kind EXCEPT ![r] = what]
      BY <1>3 DEF Ask
    <3>2. kind \in [Requests -> RequestKinds \cup {"none"}]
      BY <1>1 DEF TypeOK
    <3> QED BY <3>1, <3>2
  <2>3. \A j \in 1..Len(log[t]) : log[t][j] \in Requests /\ kind[log[t][j]] # "none"
    BY <1>1 DEF PathInv, Members
  <2>4. LogKept(t)
    BY <2>1, <2>2, <2>3 DEF LogKept, server
  <2>5. ServerKept(t)
    BY <2>1, <2>4 DEF ServerKept, proxy, server
  <2>6. WayKept(t)
    BY <1>1, <2>1, SameWay DEF proxy
  <2> QED BY <1>1, <2>5, <2>6, OrdersKept
<1>4. ASSUME Disconnect PROVE Orders(t)'
  <2>1. /\ socket \in Sockets /\ ws' = [ws EXCEPT ![socket] = "closing"]
        /\ down' = [down EXCEPT ![socket] = <<>>] /\ UNCHANGED <<kind, seen, proxy, server>>
    BY <1>1, <1>4 DEF Disconnect, TypeOK
  <2>2. ServerKept(t)
    BY <1>1, <2>1, SameServer DEF proxy
  <2>3. down \in [Sockets -> Seq(Messages)]
    BY <1>1 DEF TypeOK
  <2>4. WayKept(t)
    BY <1>1, <2>1, <2>3 DEF WayKept, Passes, proxy
  <2> QED BY <1>1, <2>2, <2>4, OrdersKept
<1>5. ASSUME ServerStops PROVE Orders(t)'
  <2>1. serve' = [u \in Tcp |-> "closed"] /\ UNCHANGED <<page, up, down, proxy, log, served, out>>
    BY <1>5 DEF ServerStops
  <2>2. ServerKept(t)
    BY <2>1 DEF ServerKept, LogKept, page, proxy
  <2>3. WayKept(t)
    BY <1>1, <2>1, SameWay DEF page, proxy
  <2> QED BY <1>1, <2>2, <2>3, OrdersKept
<1> QED BY <1>2, <1>3, <1>4, <1>5 DEF User

\* The page handles a message of one connection: it is the next reply.
LEMMA OrderReceive ==
  ASSUME MapInv, PathInv, OrderInv, NEW w \in Sockets, Receive(w), NEW t \in Tcp
  PROVE  Orders(t)'
<1>1. TypeOK /\ (tcp[t] # "new" => wsOf[t] \in Sockets) /\ Orders(t)
  BY DEF MapInv, OrderInv
<1>2. ws[w] = "open" /\ UNCHANGED <<ws, kind, proxy, server>>
  BY DEF Receive
<1>3. /\ down[w] \in Seq(Messages) /\ down[w] # <<>> /\ Head(down[w]) \in Messages
      /\ down'[w] = Tail(down[w]) /\ \A v \in Sockets \ {w} : down'[v] = down[v]
  BY ReceiveFrom
<1>4. PICK message : message = Head(down[w])
  OBVIOUS
<1>5. /\ message.via = None => seen' = seen
      /\ message.via # None => /\ message.via \in Tcp /\ tcp[message.via] # "new" /\ wsOf[message.via] = w
                               /\ seen'[message.via] = Append(seen[message.via], message.units)
                               /\ \A u \in Tcp \ {message.via} : seen'[u] = seen[u]
  BY <1>4, ReceiveFrom
<1>6. t # None
  BY DEF Tcp, None
<1>7. ServerKept(t)
  BY <1>1, <1>2, SameServer DEF proxy
<1>8. CASE message.via # t
  <2>1. seen'[t] = seen[t]
    BY <1>5, <1>8
  <2>2. tcp[t] # "new" => Passes(t)
    BY <1>1, <1>3, <1>4, <1>8 DEF Passes
  <2>3. WayKept(t)
    BY <1>2, <2>1, <2>2 DEF WayKept, proxy
  <2> QED BY <1>1, <1>7, <2>3, OrdersKept
<1>9. CASE message.via = t
  <2>1. /\ tcp[t] # "new" /\ wsOf[t] = w /\ seen'[t] = Append(seen[t], message.units)
    BY <1>5, <1>6, <1>9
  <2>2. PICK answers \in Seq(Answers) : \E m \in 0..Len(answers) :
          Answering(t, answers) /\ OnStream(t, answers, m) /\ Handled(t, answers, m) /\ OnWay(t, answers, m)
    BY <1>1 DEF Orders
  <2>3. PICK m \in 0..Len(answers) :
          Answering(t, answers) /\ OnStream(t, answers, m) /\ Handled(t, answers, m) /\ OnWay(t, answers, m)
    BY <2>2
  <2>4. PICK queue, k : queue = down[w] /\ k = Len(seen[t])
    OBVIOUS
  <2>5. k \in Nat /\ m \in Nat /\ seen[t] \in Seq(Seq(Units)) /\ message.units \in Seq(Units)
    BY <1>1, <1>3, <1>4, <2>4 DEF TypeOK, Messages
  <2>6. Carried(queue, t, answers, k, m)
    BY <1>2, <2>1, <2>3, <2>4 DEF OnWay
  <2>7. /\ k + 1 <= m /\ message.units = Reply(answers[k + 1])
        /\ Carried(Tail(queue), t, answers, k + 1, m)
    <3>1. queue \in Seq(Messages) /\ queue # <<>> /\ Head(queue) = message
      BY <1>3, <1>4, <2>4
    <3> QED BY <1>9, <2>5, <2>6, <3>1, CarriedTail
  <2>8. /\ Len(seen'[t]) = k + 1 /\ seen'[t][k + 1] = Reply(answers[k + 1])
        /\ \A i \in 1..k : seen'[t][i] = seen[t][i]
    BY <2>1, <2>4, <2>5, <2>7, AppendProperties
  <2>9. Answering(t, answers)'
    BY <1>1, <1>7, <2>3, AnsweringKept DEF ServerKept
  <2>10. OnStream(t, answers, m)'
    BY <1>2, <2>3 DEF OnStream, proxy, server
  <2>11. Handled(t, answers, m)'
    <3>1. \A i \in 1..k : seen[t][i] = Reply(answers[i])
      BY <2>3, <2>4 DEF Handled
    <3>2. ASSUME NEW i \in 1..k + 1 PROVE seen'[t][i] = Reply(answers[i])
      <4>1. i \in 1..k \/ i = k + 1
        BY <2>5
      <4> QED BY <2>8, <3>1, <4>1
    <3> QED BY <2>7, <2>8, <3>2 DEF Handled
  <2>12. OnWay(t, answers, m)'
    BY <1>2, <1>3, <2>1, <2>4, <2>7, <2>8 DEF OnWay, proxy
  <2> QED BY <2>9, <2>10, <2>11, <2>12 DEF Orders
<1> QED BY <1>8, <1>9

LEMMA OrderSocket ==
  ASSUME MapInv, PathInv, OrderInv, NEW w \in Sockets, SocketEvent(w), NEW t \in Tcp
  PROVE  Orders(t)'
<1>1. /\ TypeOK /\ ws \in [Sockets -> SocketStates] /\ tcp \in [Tcp -> TcpStates] /\ up \in [Sockets -> Seq(Notes)]
      /\ wsOf \in [Tcp -> Sockets \cup {None}]
      /\ (tcp[t] # "new" => wsOf[t] \in Sockets /\ ws[wsOf[t]] \in Started) /\ Orders(t)
  BY DEF MapInv, TypeOK, PathInv, OrderInv
<1>2. CASE Opened(w) \/ Closed(w)
  <2>1. /\ ws[w] \in {"connecting", "closing"} /\ UNCHANGED <<kind, seen, down, proxy, server>>
        /\ \/ ws' = [ws EXCEPT ![w] = "open"] /\ ws[w] = "connecting"
           \/ ws' = [ws EXCEPT ![w] = "closed"]
    BY <1>2 DEF Opened, Closed
  <2>2. ServerKept(t)
    BY <1>1, <2>1, SameServer DEF proxy
  <2>3. tcp[t] # "new" /\ ws'[wsOf[t]] = "open" => ws[wsOf[t]] = "open"
    BY <1>1, <2>1 DEF Started
  <2>4. WayKept(t)
    BY <2>1, <2>3 DEF WayKept, Passes, proxy
  <2> QED BY <1>1, <2>2, <2>4, OrdersKept
<1>3. CASE Forward(w)
  <2>1. /\ Take(w) /\ Head(up[w])[1] = "request" /\ connections[w] \in Live
        /\ log' = [log EXCEPT ![connections[w]] = Append(@, Head(up[w])[2])]
        /\ UNCHANGED <<page, down, proxy, served, out, serve>>
    BY <1>3 DEF Forward
  <2>2. log \in [Tcp -> Seq(Requests)] /\ connections[w] \in Tcp
    BY <1>1, <2>1 DEF TypeOK, Live
  <2>3. PICK r : r = Head(up[w])[2]
    OBVIOUS
  <2>4. r \in Requests
    BY <1>1, <2>1, <2>3, TakeType
  <2>5. log'[t] = log[t] \/ log'[t] = Append(log[t], r)
    BY <2>1, <2>2, <2>3
  <2>6. \A j \in 1..Len(log[t]) : log'[t][j] = log[t][j]
    BY <2>2, <2>4, <2>5, AppendProperties
  <2>7. LogKept(t)
    BY <2>1, <2>6 DEF LogKept, page
  <2>8. ServerKept(t)
    BY <2>1, <2>7 DEF ServerKept, proxy
  <2>9. WayKept(t)
    BY <1>1, <2>1, SameWay DEF page, proxy
  <2> QED BY <1>1, <2>8, <2>9, OrdersKept
<1>4. CASE NotConnected(w)
  <2>1. PICK r : r = Head(up[w])[2]
    OBVIOUS
  <2>2. Take(w) /\ Tell(w, <<Trouble(r)>>) /\ UNCHANGED <<page, proxy, server>>
    BY <1>4, <2>1 DEF NotConnected
  <2>3. r \in Requests
    BY <1>1, <1>4, <2>1, TakeType DEF NotConnected
  <2>4. <<Trouble(r)>> \in Seq(Messages)
    BY <2>3, AnswersOf, TroubleType
  <2>5. tcp[t] # "new" => Passes(t)
    BY <1>1, <2>2, <2>4, TroubleOther, TellPasses
  <2>6. WayKept(t)
    BY <2>2, <2>5 DEF WayKept, page, proxy
  <2>7. ServerKept(t)
    BY <1>1, <2>2, SameServer DEF page, proxy
  <2> QED BY <1>1, <2>6, <2>7, OrdersKept
<1>5. CASE SocketClosed(w)
  <2>1. /\ UNCHANGED <<page, down, wsOf, buffer, server>>
        /\ tcp' = IF connections[w] = None THEN tcp ELSE [tcp EXCEPT ![connections[w]] = "destroyed"]
    BY <1>5 DEF SocketClosed
  <2>2. /\ tcp'[t] = tcp[t] \/ tcp[t] # "closed"
        /\ tcp'[t] # "new" => tcp[t] # "new"
    <3>1. connections[w] # None => connections[w] \in Tcp /\ tcp[connections[w]] \in {"connected", "late"}
      BY DEF MapInv, Live
    <3> QED BY <1>1, <2>1, <3>1
  <2>3. UNCHANGED <<ws, seen, kind>>
    BY <2>1 DEF page
  <2>4. ServerKept(t)
    BY <1>1, <2>1, <2>2, <2>3, SameServer
  <2>5. WayKept(t)
    BY <1>1, <2>1, <2>2, <2>3, SameWay
  <2> QED BY <1>1, <2>4, <2>5, OrdersKept
<1>6. ASSUME NEW u \in Tcp, OpenTcp(w, u) PROVE Orders(t)'
  <2>1. /\ tcp[u] = "new" /\ tcp' = [tcp EXCEPT ![u] = "connecting"] /\ wsOf' = [wsOf EXCEPT ![u] = w]
        /\ UNCHANGED <<page, down, gone, connections, buffer, server>>
    BY <1>6 DEF OpenTcp
  <2>2. UNCHANGED <<ws, seen, kind, log, served, out, serve>>
    BY <2>1 DEF page, server
  <2>3. CASE t = u
    <3>1. Unused(t)'
      BY <2>1, <2>2, <2>3 DEF PathInv, Unused
    <3>2. seen[t] \in Seq(Seq(Units)) /\ down[w] \in Seq(Messages) /\ wsOf'[t] = w
      BY <1>1, <2>1, <2>3 DEF TypeOK
    <3>3. Others(down[w], t)
      <4>1. \A d \in Members(down[w]) : d.via # t
        <5>1. t # None
          BY DEF Tcp, None
        <5> QED BY <2>1, <2>3, <5>1 DEF PathInv
      <4> QED BY <3>2, <4>1 DEF Others, Members
    <3>4. seen'[t] \in Seq(Seq(Units)) /\ down'[wsOf'[t]] \in Seq(Messages) /\ Others(down'[wsOf'[t]], t)
      BY <2>1, <2>2, <3>2, <3>3
    <3> QED BY <3>1, <3>4, OrdersOpened
  <2>4. CASE t # u
    <3>1. tcp'[t] = tcp[t] /\ wsOf'[t] = wsOf[t]
      BY <1>1, <2>1, <2>4
    <3>2. ServerKept(t)
      BY <1>1, <2>1, <2>2, <3>1, SameServer
    <3>3. WayKept(t)
      BY <2>1, <2>2, <3>1 DEF WayKept, Passes
    <3> QED BY <1>1, <3>2, <3>3, OrdersKept
  <2> QED BY <2>3, <2>4
<1> QED BY <1>2, <1>3, <1>4, <1>5, <1>6, OrderReceive DEF SocketEvent

\* What a data event cuts out of the stream are the next replies.
LEMMA OrderData ==
  ASSUME MapInv, OrderInv, NEW t \in Tcp, Data(t)
  PROVE  Orders(t)' /\ \A u \in Tcp \ {t} : tcp[u] # "new" => Passes(u)
<1>1. /\ TypeOK /\ out[t] \in Seq(Units) /\ buffer[t] \in Seq(Units) /\ out \in [Tcp -> Seq(Units)]
      /\ DOMAIN buffer = Tcp /\ tcp[t] \in {"connected", "late"} /\ wsOf[t] \in Sockets /\ Orders(t)
      /\ \A u \in Tcp : tcp[u] # "new" => wsOf[u] \in Sockets
  BY DEF MapInv, TypeOK, Data, Live, OrderInv
<1>2. UNCHANGED <<page, up, gone, connections, tcp, wsOf, log, served, serve>>
  BY DEF Data
<1>3. PICK n \in 1..Len(out[t]) :
        LET pieces == Cut(buffer[t] \o SubSeq(out[t], 1, n))
        IN  /\ out' = [out EXCEPT ![t] = SubSeq(@, n + 1, Len(@))]
            /\ buffer' = [buffer EXCEPT ![t] = Last(pieces)]
            /\ Tell(wsOf[t], [i \in 1..Len(pieces) - 1 |-> [via |-> t, units |-> pieces[i]]])
  BY DEF Data
<1>4. PICK first, rest, events, pieces :
        /\ first = SubSeq(out[t], 1, n) /\ rest = SubSeq(out[t], n + 1, Len(out[t]))
        /\ events = buffer[t] \o first /\ pieces = Cut(events)
  OBVIOUS
<1> DEFINE messages == [i \in 1..Len(pieces) - 1 |-> [via |-> t, units |-> pieces[i]]]
<1>5. out'[t] = rest /\ buffer'[t] = Last(pieces) /\ Tell(wsOf[t], messages)
  BY <1>1, <1>3, <1>4
<1>6. first \in Seq(Units) /\ rest \in Seq(Units) /\ first \o rest = out[t]
  <2>1. PICK q, l : q = out[t] /\ l = Len(q)
    OBVIOUS
  <2>2. q \in Seq(Units) /\ l \in Nat /\ n \in 1..l
    BY <1>1, <2>1
  <2>3. 1 \in 1..l + 1 /\ n \in 1 - 1..l /\ n + 1 \in 1..l + 1 /\ l \in n + 1 - 1..l /\ l \in n..l
    BY <2>2
  <2>4. SubSeq(q, 1, n) \in Seq(Units) /\ SubSeq(q, n + 1, l) \in Seq(Units)
    BY <2>1, <2>2, <2>3, PartOf
  <2>5. SubSeq(q, 1, n) \o SubSeq(q, n + 1, l) = SubSeq(q, 1, l)
    BY <2>1, <2>2, <2>3, ConcatAdjacentSubSeq
  <2>6. SubSeq(q, 1, l) = q
    BY <2>1, <2>2, SubSeqFull
  <2> QED BY <1>4, <2>1, <2>4, <2>5, <2>6
<1>7. events \in Seq(Units) /\ events \o rest = buffer[t] \o out[t]
  <2>1. events \in Seq(Units)
    BY <1>1, <1>4, <1>6, ConcatProperties
  <2>2. (buffer[t] \o first) \o rest = buffer[t] \o (first \o rest)
    <3>1. PICK base : base = buffer[t]
      OBVIOUS
    <3>2. base \in Seq(Units) /\ first \in Seq(Units) /\ rest \in Seq(Units)
      BY <1>1, <1>6, <3>1
    <3>3. (base \o first) \o rest = base \o (first \o rest)
      BY <3>2, ConcatAssociative, SMTT(30)
    <3> QED BY <3>1, <3>3
  <2> QED BY <1>4, <1>6, <2>1, <2>2
<1>8. messages \in Seq(Messages) /\ Last(pieces) = pieces[Len(pieces)] /\ Len(pieces) \in Nat \ {0}
  BY ZenonT(60), <1>4, <1>7, DataType
<1>9. \A p \in 1..Len(messages) : messages[p] = [via |-> t, units |-> pieces[p]]
  <2>1. DOMAIN messages = 1..Len(pieces) - 1
    OBVIOUS
  <2>2. DOMAIN messages = 1..Len(messages)
    <3> HIDE DEF messages
    <3> QED BY <1>8
  <2> QED BY <2>1, <2>2
<1>10. Len(messages) = Len(pieces) - 1
  <2>1. DOMAIN messages = 1..Len(pieces) - 1 /\ Len(pieces) - 1 \in Nat
    BY <1>8
  <2>2. DOMAIN messages = 1..Len(messages) /\ Len(messages) \in Nat
    <3> HIDE DEF messages
    <3> QED BY <1>8
  <2> HIDE DEF messages
  <2>3. \A a, b \in Nat : 1..a = 1..b => a = b
    OBVIOUS
  <2> QED BY <2>1, <2>2, <2>3
<1> HIDE DEF messages
<1>11. \A u \in Tcp \ {t} : tcp[u] # "new" => Passes(u)
  <2> SUFFICES ASSUME NEW u \in Tcp \ {t}, tcp[u] # "new" PROVE Passes(u)
    OBVIOUS
  <2>1. Others(messages, u)
    <3>1. ASSUME NEW p \in 1..Len(messages) PROVE messages[p].via # u
      <4>0. messages[p] = [via |-> t, units |-> pieces[p]]
        BY <1>9, Zenon
      <4>1. messages[p].via = t
        BY <4>0
      <4> QED BY <4>1
    <3> QED BY <3>1 DEF Others
  <2> QED BY <1>1, <1>5, <1>8, <2>1, TellPasses
<1>12. PICK answers \in Seq(Answers) : \E m \in 0..Len(answers) :
         Answering(t, answers) /\ OnStream(t, answers, m) /\ Handled(t, answers, m) /\ OnWay(t, answers, m)
  BY <1>1 DEF Orders
<1>13. PICK m \in 0..Len(answers) :
         Answering(t, answers) /\ OnStream(t, answers, m) /\ Handled(t, answers, m) /\ OnWay(t, answers, m)
  BY <1>12
<1>14. PICK c \in 0..Len(answers) - m :
         /\ Len(pieces) = c + 1
         /\ \A i \in 1..c : pieces[i] = Reply(answers[m + i])
         /\ Carries(pieces[c + 1] \o rest, answers, m + c)
  <2>1. Carries(events \o rest, answers, m)
    BY <1>1, <1>7, <1>13 DEF OnStream
  <2>2. \E c \in 0..Len(answers) - m :
          /\ Len(Cut(events)) = c + 1
          /\ \A i \in 1..c : Cut(events)[i] = Reply(answers[m + i])
          /\ Carries(Cut(events)[c + 1] \o rest, answers, m + c)
    <3>1. events \in Seq(Units) /\ rest \in Seq(Units)
      BY <1>6, <1>7
    <3> QED BY <2>1, <3>1, CutCarries, Zenon
  <2>3. pieces = Cut(events)
    BY <1>4
  <2> QED BY <2>2, <2>3
<1>15. m + c \in 0..Len(answers) /\ c \in Nat /\ m \in Nat /\ m <= m + c /\ Len(messages) = c
  BY <1>10, <1>14
<1>16. Answering(t, answers)'
  BY <1>2, <1>13 DEF Answering, page
<1>17. OnStream(t, answers, m + c)'
  BY <1>5, <1>8, <1>14 DEF OnStream
<1>18. Handled(t, answers, m + c)'
  <2>1. Len(seen[t]) <= m /\ Len(seen[t]) \in Nat
    BY <1>1, <1>13 DEF Handled, TypeOK
  <2>2. Len(seen[t]) <= m + c
    BY <1>15, <2>1
  <2> QED BY <1>2, <1>13, <2>2 DEF Handled, page
<1>19. OnWay(t, answers, m + c)'
  <2> SUFFICES ASSUME ws[wsOf[t]] = "open" PROVE Carried(down'[wsOf[t]], t, answers, Len(seen[t]), m + c)
    BY <1>2 DEF OnWay, page
  <2>1. PICK queue, k : queue = down[wsOf[t]] /\ k = Len(seen[t])
    OBVIOUS
  <2>2. queue \in Seq(Messages) /\ k \in Nat /\ k <= m
    BY <1>1, <1>13, <2>1 DEF TypeOK, Handled
  <2>3. down'[wsOf[t]] = queue \o messages
    <3>1. down' = [down EXCEPT ![wsOf[t]] = @ \o messages] /\ down \in [Sockets -> Seq(Messages)]
      BY <1>1, <1>5 DEF Tell, TypeOK
    <3> QED BY <1>1, <2>1, <3>1
  <2>4. Replies(messages, t, answers, m)
    BY <1>9, <1>14, <1>15 DEF Replies
  <2>5. Carried(queue, t, answers, k, m)
    BY <1>1, <1>13, <2>1 DEF OnWay
  <2>6. Carried(queue \o messages, t, answers, k, m + Len(messages))
    BY <1>8, <1>15, <2>2, <2>4, <2>5, CarriedMore
  <2> QED BY <1>15, <2>1, <2>3, <2>6
<1>20. Orders(t)'
  BY <1>15, <1>16, <1>17, <1>18, <1>19 DEF Orders
<1> QED BY <1>11, <1>20

\* A further answer goes to the end of the stream.
LEMMA OrdersNext ==
  ASSUME TypeOK, NEW t \in Tcp, NEW answers \in Seq(Answers), NEW a \in Answers, NEW m \in 0..Len(answers),
         tcp[t] \in {"connected", "late"}, OnStream(t, answers, m), Handled(t, answers, m), OnWay(t, answers, m),
         Answering(t, Append(answers, a))', UNCHANGED <<page, down, proxy>>,
         out'[t] = out[t] \o Reply(a)
  PROVE  Orders(t)'
<1>1. /\ buffer[t] \in Seq(Units) /\ out[t] \in Seq(Units) /\ Reply(a) \in Seq(Units)
      /\ seen[t] \in Seq(Seq(Units))
  BY ReplyShape DEF TypeOK
<1>2. /\ Append(answers, a) \in Seq(Answers) /\ m \in 0..Len(Append(answers, a))
      /\ \A j \in 1..Len(answers) : Append(answers, a)[j] = answers[j]
  OBVIOUS
<1>3. OnStream(t, Append(answers, a), m)'
  <2>1. PICK stream : stream = buffer[t] \o out[t]
    OBVIOUS
  <2>2. stream \in Seq(Units)
    BY <1>1, <2>1
  <2>3. Carries(stream, answers, m)
    BY <2>1 DEF OnStream
  <2>4. Carries(stream \o Reply(a), Append(answers, a), m)
    BY <2>2, <2>3, CarriesNext
  <2>5. (buffer[t] \o out[t]) \o Reply(a) = buffer[t] \o (out[t] \o Reply(a))
    <3>1. PICK x, y, z : x = buffer[t] /\ y = out[t] /\ z = Reply(a)
      OBVIOUS
    <3>2. x \in Seq(Units) /\ y \in Seq(Units) /\ z \in Seq(Units)
      BY <1>1, <3>1
    <3>3. (x \o y) \o z = x \o (y \o z)
      BY <3>2, ConcatAssociative, SMTT(30)
    <3> QED BY <3>1, <3>3
  <2>6. buffer'[t] \o out'[t] = stream \o Reply(a)
    BY <2>1, <2>5 DEF proxy
  <2> QED BY <2>4, <2>6 DEF OnStream
<1>4. Handled(t, Append(answers, a), m)'
  <2>1. Len(seen[t]) \in Nat /\ Len(seen[t]) <= m /\ \A i \in 1..Len(seen[t]) : seen[t][i] = Reply(answers[i])
    <3>1. Len(seen[t]) \in Nat
      BY <1>1
    <3> QED BY <3>1 DEF Handled
  <2>2. \A i \in 1..Len(seen[t]) : i \in 1..Len(answers)
    BY <2>1
  <2> QED BY <1>2, <2>1, <2>2 DEF Handled, page
<1>5. OnWay(t, Append(answers, a), m)'
  <2> SUFFICES ASSUME tcp[t] # "new", ws[wsOf[t]] = "open"
               PROVE  Carried(down[wsOf[t]], t, Append(answers, a), Len(seen[t]), m)
    BY DEF OnWay, page, proxy
  <2>1. Carried(down[wsOf[t]], t, answers, Len(seen[t]), m) /\ Len(seen[t]) \in Nat
    BY <1>1 DEF OnWay
  <2> QED BY <2>1, CarriedAnswers
<1> QED BY <1>2, <1>3, <1>4, <1>5 DEF Orders

LEMMA OrderServe ==
  ASSUME TypeOK, NEW t \in Tcp, Orders(t), Serve(t)
  PROVE  Orders(t)'
<1>1. /\ t \in Live /\ serve[t] = "serving" /\ served[t] < Len(log[t])
      /\ served' = [served EXCEPT ![t] = @ + 1] /\ UNCHANGED <<page, up, down, proxy, log>>
  BY DEF Serve
<1>2. PICK n, r : n = served[t] /\ r = log[t][n + 1]
  OBVIOUS
<1>3. PICK outcome \in Outcomes(kind[r]) :
        /\ out' = [out EXCEPT ![t] = @ \o Reply(Answer(r, outcome[1]))]
        /\ serve' = [serve EXCEPT ![t] = IF outcome[2] = "serving" /\ Overruns(kind[r])
                                         THEN "astray" ELSE outcome[2]]
  BY <1>2 DEF Serve
<1>4. /\ n \in Nat /\ r \in Requests /\ out \in [Tcp -> Seq(Units)] /\ served \in [Tcp -> Nat]
      /\ serve \in [Tcp -> {"serving", "astray", "left", "closed"}]
  BY <1>1, <1>2, NextRequest DEF TypeOK
<1>5. PICK a : a = Answer(r, outcome[1])
  OBVIOUS
<1>6. /\ a \in Answers /\ a.to = r /\ a.what = outcome[1]
      /\ outcome[2] \in {"serving", "left", "closed"} /\ (a.what = "file" => kind[r] = "retrieve")
  BY ZenonT(60), <1>4, <1>5, AnswersOf, OutcomesOf DEF Answer
<1>7. PICK answers \in Seq(Answers) : \E m \in 0..Len(answers) :
        Answering(t, answers) /\ OnStream(t, answers, m) /\ Handled(t, answers, m) /\ OnWay(t, answers, m)
  BY DEF Orders
<1>8. PICK m \in 0..Len(answers) :
        Answering(t, answers) /\ OnStream(t, answers, m) /\ Handled(t, answers, m) /\ OnWay(t, answers, m)
  BY <1>7
<1>9. PICK all : all = Append(answers, a)
  OBVIOUS
<1>10. Len(answers) = n
  BY <1>1, <1>2, <1>8 DEF Answering
<1>11. /\ Len(all) = n + 1 /\ all[n + 1] = a /\ \A j \in 1..n : all[j] = answers[j]
       /\ served'[t] = n + 1
  BY <1>1, <1>2, <1>4, <1>6, <1>9, <1>10, AppendProperties
<1>12. \A j \in 1..n : answers[j].to = log[t][j] /\ (answers[j].what = "file" => kind[log[t][j]] = "retrieve")
  BY <1>2, <1>8, <1>10 DEF Answering
<1>13. ASSUME NEW j \in 1..n + 1
       PROVE  all[j].to = log[t][j] /\ (all[j].what = "file" => kind[log[t][j]] = "retrieve")
  <2>1. j \in 1..n \/ j = n + 1
    BY <1>4
  <2> QED BY <1>2, <1>6, <1>11, <1>12, <2>1
<1>14. UNCHANGED <<kind, log>>
  BY <1>1 DEF page
<1>15. serve'[t] = "astray" => kind[r] = "wide"
  BY <1>3, <1>4, <1>6 DEF Overruns
<1>16. Answering(t, all)'
  <2>1. \A j \in 1..n + 1 : ~(j > n + 1)
    BY <1>4
  <2>2. n + 1 <= n + 1 /\ n + 1 >= 1
    BY <1>4
  <2>3. serve'[t] \in {"serving", "astray"} => Len(all) = served'[t]
    BY <1>11
  <2>4. \A j \in 1..Len(all) : j <= served'[t] =>
          all[j].to = log'[t][j] /\ (all[j].what = "file" => kind'[log'[t][j]] = "retrieve")
    BY <1>11, <1>13, <1>14
  <2>5. \A j \in 1..Len(all) : ~(j > served'[t])
    BY <1>11, <2>1
  <2>6. serve'[t] = "astray" => served'[t] >= 1 /\ kind'[log'[t][served'[t]]] = "wide"
    BY <1>2, <1>11, <1>14, <1>15, <2>2
  <2> QED BY <2>3, <2>4, <2>5, <2>6 DEF Answering
<1>17. out'[t] = out[t] \o Reply(a)
  BY <1>3, <1>4, <1>5
<1>18. tcp[t] \in {"connected", "late"}
  BY <1>1 DEF Live
<1> QED BY <1>1, <1>6, <1>8, <1>9, <1>16, <1>17, <1>18, OrdersNext

LEMMA OrderStray ==
  ASSUME TypeOK, NEW t \in Tcp, Orders(t), Stray(t)
  PROVE  Orders(t)'
<1>1. t \in Live /\ serve[t] = "astray" /\ UNCHANGED <<page, up, down, proxy, log, served>>
  BY DEF Stray
<1>2. /\ served[t] \in Nat /\ out \in [Tcp -> Seq(Units)] /\ tcp[t] \in {"connected", "late"}
      /\ serve \in [Tcp -> {"serving", "astray", "left", "closed"}]
  BY <1>1 DEF TypeOK, Live
<1>3. PICK answers \in Seq(Answers) : \E m \in 0..Len(answers) :
        Answering(t, answers) /\ OnStream(t, answers, m) /\ Handled(t, answers, m) /\ OnWay(t, answers, m)
  BY DEF Orders
<1>4. PICK m \in 0..Len(answers) :
        Answering(t, answers) /\ OnStream(t, answers, m) /\ Handled(t, answers, m) /\ OnWay(t, answers, m)
  BY <1>3
<1>5. PICK n : n = served[t]
  OBVIOUS
<1>6. /\ n \in Nat /\ served'[t] = n /\ UNCHANGED <<kind, log>>
  BY <1>1, <1>2, <1>5 DEF page
<1>7. /\ Len(answers) = n /\ n >= 1 /\ kind[log[t][n]] = "wide"
      /\ \A j \in 1..n : answers[j].to = log[t][j] /\ (answers[j].what = "file" => kind[log[t][j]] = "retrieve")
  BY <1>1, <1>4, <1>5, <1>6 DEF Answering
<1>8. CASE /\ out' = [out EXCEPT ![t] = @ \o Reply(Answer(None, "error"))]
           /\ serve' = [serve EXCEPT ![t] = "closed"]
  <2>1. PICK a, all : a = Answer(None, "error") /\ all = Append(answers, a)
    OBVIOUS
  <2>2. a \in Answers
    BY <2>1, AnswersOf
  <2>3. Len(all) = n + 1 /\ all[n + 1] = a /\ \A j \in 1..n : all[j] = answers[j]
    BY <1>7, <2>1, <2>2, AppendProperties
  <2>4. Answering(t, all)'
    <3>1. n <= n + 1 /\ n \in 1..n
      BY <1>6, <1>7
    <3>2. \A j \in 1..n + 1 : j <= n =>
            all[j].to = log'[t][j] /\ (all[j].what = "file" => kind'[log'[t][j]] = "retrieve")
      <4> SUFFICES ASSUME NEW j \in 1..n + 1, j <= n
                   PROVE  all[j].to = log[t][j] /\ (all[j].what = "file" => kind[log[t][j]] = "retrieve")
        BY <1>6
      <4>1. j \in 1..n
        BY <1>6
      <4> QED BY <1>7, <2>3, <4>1
    <3>3. \A j \in 1..n + 1 : j > n =>
            all[j] = Answer(None, "error") /\ \E i \in 1..n : kind'[log'[t][i]] = "wide"
      <4> SUFFICES ASSUME NEW j \in 1..n + 1, j > n
                   PROVE  all[j] = Answer(None, "error") /\ \E i \in 1..n : kind[log[t][i]] = "wide"
        BY <1>6
      <4>1. j = n + 1
        BY <1>6
      <4> QED BY <1>7, <2>1, <2>3, <3>1, <4>1
    <3>4. serve'[t] = "closed"
      BY <1>2, <1>8
    <3> QED BY <1>6, <2>3, <3>1, <3>2, <3>3, <3>4 DEF Answering
  <2>5. out'[t] = out[t] \o Reply(a)
    BY <1>2, <1>8, <2>1
  <2> QED BY <1>1, <1>2, <1>4, <2>1, <2>2, <2>4, <2>5, OrdersNext
<1>9. CASE serve' = [serve EXCEPT ![t] = "left"] /\ UNCHANGED out
  <2>1. serve'[t] = "left"
    BY <1>2, <1>9
  <2>2. Answering(t, answers)'
    BY <1>1, <1>4, <1>6, <2>1 DEF Answering
  <2>3. OnStream(t, answers, m)' /\ Handled(t, answers, m)' /\ OnWay(t, answers, m)'
    BY <1>1, <1>4, <1>9 DEF OnStream, Handled, OnWay, page, proxy
  <2> QED BY <2>2, <2>3 DEF Orders
<1> QED BY <1>8, <1>9 DEF Stray

\* A request that is never answered is the last that is read.
LEMMA OrderJoinLate ==
  ASSUME TypeOK, NEW t \in Tcp, Orders(t), JoinLate(t)
  PROVE  Orders(t)'
<1>1. /\ serve[t] = "serving" /\ serve'[t] = "left" /\ served'[t] = served[t] + 1
      /\ served[t] \in Nat /\ UNCHANGED <<page, up, down, proxy, log, out>>
  BY DEF JoinLate, TypeOK
<1>2. PICK answers \in Seq(Answers) : \E m \in 0..Len(answers) :
        Answering(t, answers) /\ OnStream(t, answers, m) /\ Handled(t, answers, m) /\ OnWay(t, answers, m)
  BY DEF Orders
<1>3. PICK m \in 0..Len(answers) :
        Answering(t, answers) /\ OnStream(t, answers, m) /\ Handled(t, answers, m) /\ OnWay(t, answers, m)
  BY <1>2
<1>4. Answering(t, answers)'
  <2>1. PICK n : n = served[t]
    OBVIOUS
  <2>2. /\ n \in Nat /\ served'[t] = n + 1 /\ Len(answers) = n /\ UNCHANGED <<kind, log>>
        /\ serve'[t] = "left"
    BY <1>1, <1>3, <2>1 DEF Answering, page
  <2>3. \A j \in 1..Len(answers) :
          answers[j].to = log[t][j] /\ (answers[j].what = "file" => kind[log[t][j]] = "retrieve")
    BY <1>3, <2>1, <2>2 DEF Answering
  <2>4. \A j \in 1..Len(answers) : ~(j > served'[t])
    BY <2>2
  <2> QED BY <2>2, <2>3, <2>4 DEF Answering
<1>5. OnStream(t, answers, m)' /\ Handled(t, answers, m)' /\ OnWay(t, answers, m)'
  BY <1>1, <1>3 DEF OnStream, Handled, OnWay, page, proxy
<1> QED BY <1>4, <1>5 DEF Orders

LEMMA OrderTcp ==
  ASSUME MapInv, PathInv, OrderInv, NEW u \in Tcp, TcpEvent(u) \/ Serve(u) \/ JoinLate(u) \/ Stray(u), NEW t \in Tcp
  PROVE  Orders(t)'
<1>1. /\ TypeOK /\ tcp \in [Tcp -> TcpStates] /\ (tcp[t] # "new" => wsOf[t] \in Sockets)
      /\ (tcp[u] # "new" => wsOf[u] \in Sockets) /\ Orders(t)
      /\ buffer \in [Tcp -> {q \in Seq(Units) : Len(q) <= HeaderUnits}] /\ out \in [Tcp -> Seq(Units)]
      /\ served \in [Tcp -> Nat] /\ serve \in [Tcp -> {"serving", "astray", "left", "closed"}]
  BY DEF MapInv, TypeOK, OrderInv
<1>2. CASE TcpConnected(u)
  <2>1. /\ tcp[u] = "connecting" /\ UNCHANGED <<page, up, down, gone, wsOf, buffer, server>>
        /\ \E state \in {"late", "connected"} : tcp' = [tcp EXCEPT ![u] = state]
    BY <1>2 DEF TcpConnected
  <2>2. tcp'[t] = tcp[t] \/ (tcp[t] # "closed" /\ tcp[t] # "new")
    BY <1>1, <2>1
  <2>3. ServerKept(t)
    BY <1>1, <2>1, <2>2, SameServer DEF page
  <2>4. WayKept(t)
    BY <1>1, <2>1, <2>2, SameWay DEF page
  <2> QED BY <1>1, <2>3, <2>4, OrdersKept
<1>3. CASE TcpFails(u) \/ TcpClosed(u)
  <2>1. EndTcp(u) /\ tcp[u] # "new" /\ UNCHANGED page
    BY <1>3 DEF TcpFails, TcpClosed, Live
  <2>2. /\ tcp' = [tcp EXCEPT ![u] = "closed"] /\ buffer' = [buffer EXCEPT ![u] = <<>>]
        /\ out' = [out EXCEPT ![u] = <<>>] /\ UNCHANGED <<wsOf, log, served, serve, kind, ws, seen>>
    BY <2>1 DEF EndTcp, page
  <2>3. tcp'[t] = "closed" \/ (tcp'[t] = tcp[t] /\ buffer'[t] = buffer[t] /\ out'[t] = out[t])
    BY <1>1, <2>2
  <2>4. ServerKept(t)
    BY <2>2, <2>3 DEF ServerKept, LogKept
  <2>5. tcp[t] # "new" => Passes(t)
    <3>1. CASE TcpFails(u)
      <4>1. Tell(wsOf[u], <<Trouble(None)>>)
        BY <3>1 DEF TcpFails
      <4>2. <<Trouble(None)>> \in Seq(Messages)
        BY AnswersOf, TroubleType
      <4> QED BY <1>1, <2>1, <4>1, <4>2, TroubleOther, TellPasses
    <3>2. CASE TcpClosed(u)
      BY <3>2 DEF TcpClosed, Passes
    <3> QED BY <1>3, <3>1, <3>2
  <2>6. tcp'[t] # "new" => tcp[t] # "new"
    BY <1>1, <2>1, <2>2
  <2>7. WayKept(t)
    BY <2>2, <2>5, <2>6 DEF WayKept
  <2> QED BY <1>1, <2>4, <2>7, OrdersKept
<1>4. CASE Data(u)
  <2>1. CASE t = u
    BY <1>4, <2>1, OrderData
  <2>2. CASE t # u
    <3>1. /\ UNCHANGED <<page, up, gone, connections, tcp, wsOf, log, served, serve>>
          /\ \E n, units : out' = [out EXCEPT ![u] = SubSeq(@, n + 1, Len(@))] /\ buffer' = [buffer EXCEPT ![u] = units]
      BY <1>4 DEF Data
    <3>2. buffer'[t] = buffer[t] /\ out'[t] = out[t]
      BY <1>1, <2>2, <3>1
    <3>3. ServerKept(t)
      BY <3>1, <3>2 DEF ServerKept, LogKept, page
    <3>4. tcp[t] # "new" => Passes(t)
      BY <1>4, <2>2, OrderData
    <3>5. WayKept(t)
      BY <3>1, <3>4 DEF WayKept, page
    <3> QED BY <1>1, <3>3, <3>5, OrdersKept
  <2> QED BY <2>1, <2>2
<1>5. CASE Serve(u) \/ JoinLate(u) \/ Stray(u)
  <2>1. CASE t = u
    BY SMTT(60), <1>1, <1>5, <2>1, OrderServe, OrderJoinLate, OrderStray
  <2>2. CASE t # u
    <3>1. UNCHANGED <<page, down, proxy, log>>
      BY <1>5 DEF Serve, JoinLate, Stray
    <3>2. out'[t] = out[t] /\ serve'[t] = serve[t] /\ served'[t] = served[t]
      <4>1. CASE Serve(u)
        <5>1. /\ served' = [served EXCEPT ![u] = @ + 1]
              /\ \E units, state : out' = [out EXCEPT ![u] = @ \o units] /\ serve' = [serve EXCEPT ![u] = state]
          BY <4>1 DEF Serve
        <5> QED BY <1>1, <2>2, <5>1
      <4>2. CASE Stray(u)
        BY <1>1, <2>2, <4>2 DEF Stray
      <4>3. CASE JoinLate(u)
        BY <1>1, <2>2, <4>3 DEF JoinLate
      <4> QED BY <1>5, <4>1, <4>2, <4>3
    <3>3. ServerKept(t)
      BY <3>1, <3>2 DEF ServerKept, LogKept, page, proxy
    <3>4. WayKept(t)
      BY <1>1, <3>1, SameWay DEF page, proxy
    <3> QED BY <1>1, <3>3, <3>4, OrdersKept
  <2> QED BY <2>1, <2>2
<1> QED BY <1>2, <1>3, <1>4, <1>5 DEF TcpEvent

LEMMA OrderStep == MapInv /\ PathInv /\ OrderInv /\ [Next]_vars => OrderInv'
<1> SUFFICES ASSUME MapInv, PathInv, OrderInv, [Next]_vars, NEW t \in Tcp PROVE Orders(t)'
  BY DEF OrderInv
<1>1. CASE UNCHANGED vars
  <2>1. Orders(t)
    BY DEF OrderInv
  <2> QED BY <1>1, <2>1 DEF vars, page, proxy, server, Orders, Answering, OnStream, Handled, OnWay
<1> QED BY <1>1, OrderUser, OrderSocket, OrderTcp DEF Next

LEMMA OrderAlways == Spec => [](MapInv /\ PathInv /\ OrderInv)
<1>1. Init => MapInv /\ PathInv /\ OrderInv
  BY MapInit, PathInit, OrderInit
<1>2. (MapInv /\ PathInv /\ OrderInv) /\ [Next]_vars => (MapInv /\ PathInv /\ OrderInv)'
  BY MapStep, PathStep, OrderStep
<1> QED BY <1>1, <1>2, PTL DEF Spec

LEMMA OrdersAnswer ==
  ASSUME TypeOK, NEW t \in Tcp, Orders(t), NEW i \in 1..Len(seen[t]),
         \A j \in 1..i - 1 : j \in 1..Len(log[t]) => kind[log[t][j]] # "wide"
  PROVE  /\ i \in 1..Len(log[t])
         /\ \E what \in {"text", "file", "error"} : seen[t][i] = Reply(Answer(log[t][i], what))
<1>1. PICK answers \in Seq(Answers) : \E m \in 0..Len(answers) :
        Answering(t, answers) /\ OnStream(t, answers, m) /\ Handled(t, answers, m) /\ OnWay(t, answers, m)
  BY DEF Orders
<1>2. PICK m \in 0..Len(answers) : Answering(t, answers) /\ Handled(t, answers, m)
  BY <1>1
<1>3. PICK n, l, k : n = served[t] /\ l = Len(log[t]) /\ k = Len(seen[t])
  OBVIOUS
<1>4. n \in Nat /\ l \in Nat /\ n <= l /\ k \in Nat /\ log[t] \in Seq(Requests)
  BY <1>3 DEF TypeOK
<1>5. i \in Nat /\ i \in 1..Len(answers) /\ seen[t][i] = Reply(answers[i])
  <2>1. k <= m
    BY <1>2, <1>3 DEF Handled
  <2>2. i \in 1..k
    BY <1>3
  <2>3. i \in 1..Len(answers)
    BY <1>4, <2>1, <2>2
  <2> QED BY <1>2, <2>3 DEF Handled
<1>6. i <= n
  <2> SUFFICES ASSUME i > n PROVE FALSE
    BY <1>4, <1>5
  <2>1. PICK j \in 1..n : kind[log[t][j]] = "wide"
    BY <1>2, <1>3, <1>5 DEF Answering
  <2>2. j \in 1..i - 1 /\ j \in 1..l
    BY <1>4, <1>5
  <2> QED BY <1>3, <2>1, <2>2
<1>7. i \in 1..l
  BY <1>4, <1>5, <1>6
<1>8. answers[i].to = log[t][i]
  BY <1>2, <1>3, <1>5, <1>6 DEF Answering
<1>9. answers[i] \in Answers /\ log[t][i] \in Requests
  BY <1>3, <1>4, <1>5, <1>7
<1>10. answers[i] # Answer(None, "error")
  BY <1>8, <1>9 DEF Answer, None, Requests
<1>11. PICK r \in Requests, what \in {"text", "file", "error"} : answers[i] = Answer(r, what)
  BY <1>9, <1>10 DEF Answers
<1>12. r = log[t][i]
  BY <1>8, <1>11 DEF Answer
<1> QED BY <1>3, <1>5, <1>7, <1>11, <1>12

\* However the streams are cut into data events, and whatever is opened, closed or
\* lost meanwhile, the page handles from each connection the whole replies to the
\* requests that were forwarded on it, in their order.
THEOREM RepliesInOrder == Spec => []AnsweredInOrder
<1>1. MapInv /\ PathInv /\ OrderInv => AnsweredInOrder
  <2> SUFFICES ASSUME TypeOK, NEW t \in Tcp, Orders(t), NEW i \in DOMAIN seen[t],
                      \A j \in 1..i - 1 : j \in DOMAIN log[t] => kind[log[t][j]] # "wide"
               PROVE  /\ i \in DOMAIN log[t]
                      /\ \E what \in {"text", "file", "error"} : seen[t][i] = Reply(Answer(log[t][i], what))
    BY DEF AnsweredInOrder, MapInv, OrderInv
  <2>1. DOMAIN seen[t] = 1..Len(seen[t]) /\ DOMAIN log[t] = 1..Len(log[t])
    <3>1. seen[t] \in Seq(Seq(Units)) /\ log[t] \in Seq(Requests)
      BY DEF TypeOK
    <3> QED BY <3>1
  <2> QED BY <2>1, OrdersAnswer
<1> QED BY <1>1, OrderAlways, PTL
--------------------------------------------------------------------------------
(* The names of files: where a request is, from the page to its reply           *)

Asked(r, w) == <<"request", r>> \in Members(up[w])
Logged(r, t) == r \in Members(log[t])

\* A request is at one place of one queue.
Once(queue) == \A i, j \in DOMAIN queue : queue[i] = queue[j] /\ queue[i][1] = "request" => i = j

\* A request goes the way of the WebSocket it was sent on, and waits for its reply.
UpNamed ==
  \A w \in Sockets : /\ Once(up[w])
                     /\ \A r \in Requests : Asked(r, w) => on[r] = w /\ r \in outstanding

LogNamed ==
  \A t \in Tcp : /\ Distinct(log[t])
                 /\ \A r \in Requests : Logged(r, t) =>
                      /\ on[r] = wsOf[t] /\ \A w \in Sockets : ~Asked(r, w)
                      /\ \A u \in Tcp \ {t} : ~Logged(r, u)

Waits ==
  \A t \in Tcp : \A q \in 1..Len(log[t]) :
    q > Len(seen[t]) /\ ws[wsOf[t]] = "open" => log[t][q] \in outstanding

\* What the proxy says itself is about a request that it did not forward.
Refused(r) == /\ r \in Requests /\ kind[r] # "none"
              /\ \A t \in Tcp : ~Logged(r, t)
              /\ \A w \in Sockets : ~Asked(r, w)

Troubles ==
  \A w \in Sockets : \A d \in Members(down[w]) :
    d.via = None => d = Trouble(None) \/ \E r \in Requests : d = Trouble(r) /\ Refused(r)

Sent == /\ \A r \in Requests : on[r] # None => ws[on[r]] \in Started
        /\ \A r \in outstanding : on[r] # None /\ kind[r] # "none"

OneName == ~overlapped => \A r \in outstanding : kind[r] = "retrieve" /\ ws[on[r]] = "open" => r = pendingName

NameInv == UpNamed /\ LogNamed /\ Waits /\ Troubles /\ Sent /\ OneName /\ SavedUnderItsName

LEMMA NameInit == Init => NameInv
BY DEF Init, NameInv, UpNamed, LogNamed, Waits, Troubles, Sent, OneName, SavedUnderItsName, Once, Distinct,
       Asked, Logged, Members

LEMMA OnceAppend ==
  ASSUME NEW queue \in Seq(Notes), NEW n \in Notes, Once(queue), n[1] = "request" => n \notin Members(queue)
  PROVE  Once(Append(queue, n))
<1>1. /\ DOMAIN queue = 1..Len(queue) /\ Len(queue) \in Nat /\ DOMAIN Append(queue, n) = 1..Len(queue) + 1
      /\ Append(queue, n)[Len(queue) + 1] = n /\ \A i \in 1..Len(queue) : Append(queue, n)[i] = queue[i]
  BY AppendProperties
<1> QED BY <1>1 DEF Once, Members

LEMMA OnceTail ==
  ASSUME NEW queue \in Seq(Notes), queue # <<>>, Once(queue)
  PROVE  /\ Once(Tail(queue))
         /\ Head(queue)[1] = "request" => Head(queue) \notin Members(Tail(queue))
<1>1. /\ DOMAIN queue = 1..Len(queue) /\ Len(queue) \in Nat /\ Len(queue) > 0 /\ Head(queue) = queue[1]
      /\ DOMAIN Tail(queue) = 1..Len(queue) - 1 /\ \A i \in 1..Len(queue) - 1 : Tail(queue)[i] = queue[i + 1]
  BY HeadTailProperties
<1> QED BY <1>1 DEF Once, Members

\* A step that neither asks, nor forwards, nor receives: it may close or open a
\* WebSocket, take notes from its queue and put messages on the way to the page.
UpKept ==
  \A w \in Sockets : Once(up'[w]) /\ \A r \in Requests : <<"request", r>> \in Members(up'[w]) => Asked(r, w)

DownKept ==
  \A w \in Sockets : \A d \in Members(down'[w]) :
    d.via = None => \/ d \in Members(down[w]) \/ d = Trouble(None)
                    \/ \E r \in Requests : d = Trouble(r) /\ Refused(r)'

WsKept == \A w \in Sockets : ws[w] \in Started => ws'[w] \in Started /\ (ws'[w] = "open" => ws[w] = "open")

LEMMA NameKept ==
  ASSUME TypeOK, PathInv, NameInv, UpKept, DownKept, WsKept,
         UNCHANGED <<kind, on, outstanding, pendingName, overlapped, saved, log, seen>>,
         \A t \in Tcp : tcp[t] # "new" => wsOf'[t] = wsOf[t] /\ wsOf[t] \in Sockets
  PROVE  NameInv'
<1>1. UpNamed'
  BY DEF NameInv, UpNamed, UpKept, Asked
<1>2. \A r \in Requests : Refused(r) => Refused(r)'
  BY DEF Refused, UpKept, Asked, Logged
<1>3. \A t \in Tcp : log[t] # <<>> => tcp[t] # "new"
  BY DEF PathInv, Unused
<1>4. LogNamed'
  <2> SUFFICES ASSUME NEW t \in Tcp, NEW r \in Requests, Logged(r, t)
               PROVE  /\ on[r] = wsOf'[t] /\ \A w \in Sockets : ~Asked(r, w)'
                      /\ \A u \in Tcp \ {t} : ~Logged(r, u)
    BY DEF NameInv, LogNamed, Logged
  <2>1. log[t] # <<>>
    BY DEF Logged, Members
  <2>2. wsOf'[t] = wsOf[t]
    BY <1>3, <2>1
  <2> QED BY <2>2 DEF NameInv, LogNamed, UpKept, Asked
<1>5. Waits'
  <2> SUFFICES ASSUME NEW t \in Tcp, NEW q \in 1..Len(log[t]), q > Len(seen[t]), ws'[wsOf'[t]] = "open"
               PROVE  log[t][q] \in outstanding
    BY DEF Waits
  <2>1. log[t] # <<>>
    OBVIOUS
  <2>2. wsOf'[t] = wsOf[t] /\ wsOf[t] \in Sockets /\ ws[wsOf[t]] \in Started
    BY <1>3, <2>1 DEF PathInv
  <2>3. ws[wsOf[t]] = "open"
    BY <2>2 DEF WsKept
  <2> QED BY <2>3 DEF NameInv, Waits
<1>6. Troubles'
  <2> SUFFICES ASSUME NEW w \in Sockets, NEW d \in Members(down'[w]), d.via = None
               PROVE  d = Trouble(None) \/ \E r \in Requests : d = Trouble(r) /\ Refused(r)'
    BY DEF Troubles, Trouble
  <2>1. \/ d \in Members(down[w]) \/ d = Trouble(None)
        \/ \E r \in Requests : d = Trouble(r) /\ Refused(r)'
    BY DEF DownKept
  <2>2. d \in Members(down[w]) => d = Trouble(None) \/ \E r \in Requests : d = Trouble(r) /\ Refused(r)
    BY DEF NameInv, Troubles
  <2> QED BY <1>2, <2>1, <2>2
<1>7. \A r \in Requests : on[r] # None => on[r] \in Sockets
  BY DEF TypeOK
<1>8. Sent'
  BY <1>7 DEF NameInv, Sent, WsKept
<1>9. OneName'
  <2> SUFFICES ASSUME ~overlapped, NEW r \in outstanding, kind[r] = "retrieve", ws'[on[r]] = "open"
               PROVE  r = pendingName
    BY DEF OneName
  <2>1. r \in Requests /\ on[r] # None
    BY DEF NameInv, Sent, TypeOK
  <2>2. on[r] \in Sockets /\ ws[on[r]] \in Started
    BY <1>7, <2>1 DEF NameInv, Sent
  <2>3. ws[on[r]] = "open"
    BY <2>2 DEF WsKept
  <2> QED BY <2>3 DEF NameInv, OneName
<1>10. SavedUnderItsName'
  BY DEF NameInv, SavedUnderItsName
<1> QED BY <1>1, <1>4, <1>5, <1>6, <1>8, <1>9, <1>10 DEF NameInv

\* Taking a note from a queue, and sending one that is no request
LEMMA TakeKeeps ==
  ASSUME TypeOK, NameInv, NEW w \in Sockets, Take(w)
  PROVE  UpKept /\ (Head(up[w])[1] = "request" => Head(up[w]) \notin Members(up'[w]))
<1>1. /\ up[w] \in Seq(Notes) /\ up[w] # <<>> /\ up'[w] = Tail(up[w])
      /\ Members(up'[w]) \subseteq Members(up[w]) /\ \A v \in Sockets \ {w} : up'[v] = up[v]
  BY TakeTakes
<1>2. \A v \in Sockets : Once(up[v])
  BY DEF NameInv, UpNamed
<1>3. Once(up'[w]) /\ (Head(up[w])[1] = "request" => Head(up[w]) \notin Members(up'[w]))
  BY <1>1, <1>2, OnceTail
<1> QED BY <1>1, <1>2, <1>3 DEF UpKept, Asked

LEMMA SendKeeps ==
  ASSUME TypeOK, NameInv, NEW w \in Sockets \cup {None}, NEW what \in {"connect", "close"},
         \/ Send(w, <<what, None>>)
         \/ w \in Sockets /\ up' = [up EXCEPT ![w] = Append(@, <<what, None>>)]
  PROVE  UpKept
<1>1. up \in [Sockets -> Seq(Notes)] /\ <<what, None>> \in Notes
  BY DEF TypeOK, Notes
<1>2. \A v \in Sockets : up'[v] = up[v] \/ up'[v] = Append(up[v], <<what, None>>)
  BY <1>1 DEF Send
<1>3. ASSUME NEW v \in Sockets, up'[v] = Append(up[v], <<what, None>>)
      PROVE  Once(up'[v]) /\ \A r \in Requests : <<"request", r>> \in Members(up'[v]) => Asked(r, v)
  <2>1. Once(up[v]) /\ up[v] \in Seq(Notes)
    BY <1>1 DEF NameInv, UpNamed
  <2>2. Once(up'[v])
    BY <1>1, <1>3, <2>1, OnceAppend
  <2>3. Members(up'[v]) = Members(up[v]) \cup {<<what, None>>}
    BY <1>1, <1>3, <2>1, MembersAppend
  <2> QED BY <2>2, <2>3 DEF Asked
<1>4. \A v \in Sockets : Once(up[v])
  BY DEF NameInv, UpNamed
<1> QED BY <1>2, <1>3, <1>4 DEF UpKept, Asked

LEMMA NameSocket ==
  ASSUME MapInv, PathInv, NameInv, NEW w \in Sockets,
         \/ Connect(w) \/ Disconnect \/ Opened(w) \/ Closed(w) \/ NotConnected(w) \/ SocketClosed(w)
         \/ \E t \in Tcp : OpenTcp(w, t)
  PROVE  NameInv'
<1>1. /\ TypeOK /\ ws \in [Sockets -> SocketStates] /\ \A t \in Tcp : tcp[t] # "new" => wsOf[t] \in Sockets
  BY DEF MapInv, TypeOK
<1>2. UNCHANGED up => UpKept
  BY DEF UpKept, NameInv, UpNamed, Asked
<1>3. UNCHANGED down => DownKept
  BY DEF DownKept
<1>4. UNCHANGED ws => WsKept
  BY DEF WsKept
<1>5. CASE Connect(w)
  <2>1. /\ ws[w] = "new" /\ ws' = [ws EXCEPT ![w] = "connecting"]
        /\ UNCHANGED <<pendingName, kind, on, outstanding, saved, overlapped, seen, up, down, wsOf, log>>
    BY <1>5 DEF Connect, proxy, server
  <2>2. WsKept
    BY <1>1, <2>1 DEF WsKept, Started
  <2> QED BY <1>1, <1>2, <1>3, <2>1, <2>2, NameKept
<1>6. CASE Disconnect
  <2>1. /\ socket \in Sockets /\ ws' = [ws EXCEPT ![socket] = "closing"]
        /\ up' = [up EXCEPT ![socket] = Append(@, <<"close", None>>)]
        /\ down' = [down EXCEPT ![socket] = <<>>]
        /\ UNCHANGED <<pendingName, kind, on, outstanding, saved, overlapped, seen, wsOf, log>>
    BY <1>1, <1>6 DEF Disconnect, TypeOK, proxy, server
  <2>2. WsKept
    BY <1>1, <2>1 DEF WsKept, Started
  <2>3. UpKept
    BY <1>1, <2>1, SendKeeps
  <2>4. DownKept
    <3>1. down \in [Sockets -> Seq(Messages)]
      BY <1>1 DEF TypeOK
    <3>2. \A v \in Sockets : Members(down'[v]) \subseteq Members(down[v])
      BY <2>1, <3>1 DEF Members
    <3> QED BY <3>2 DEF DownKept
  <2> QED BY <1>1, <2>1, <2>2, <2>3, <2>4, NameKept
<1>7. CASE Opened(w) \/ Closed(w)
  <2>1. /\ \/ ws' = [ws EXCEPT ![w] = "open"] /\ ws[w] = "connecting"
           \/ ws' = [ws EXCEPT ![w] = "closed"]
        /\ UNCHANGED <<pendingName, kind, on, outstanding, saved, overlapped, seen, down, wsOf, log>>
    BY <1>7 DEF Opened, Closed, proxy, server
  <2>2. WsKept
    BY <1>1, <2>1 DEF WsKept, Started
  <2>3. UpKept
    <3>1. CASE Opened(w)
      <4>1. Send(socket, <<"connect", None>>) /\ socket \in Sockets \cup {None}
        BY <1>1, <3>1 DEF Opened, TypeOK
      <4> QED BY <1>1, <4>1, SendKeeps
    <3>2. CASE Closed(w)
      BY <1>2, <3>2 DEF Closed
    <3> QED BY <1>7, <3>1, <3>2
  <2> QED BY <1>1, <1>3, <2>1, <2>2, <2>3, NameKept
<1>8. CASE NotConnected(w)
  <2>1. PICK r : r = Head(up[w])[2]
    OBVIOUS
  <2>2. /\ Take(w) /\ Head(up[w])[1] = "request" /\ Tell(w, <<Trouble(r)>>)
        /\ UNCHANGED <<ws, pendingName, kind, on, outstanding, saved, overlapped, seen, wsOf, log>>
    BY <1>8, <2>1 DEF NotConnected, page, proxy, server
  <2>3. Head(up[w]) \in Members(up[w]) /\ Head(up[w]) \in Notes /\ r \in Requests
    BY <1>1, <2>1, <2>2, TakeType, TakeTakes
  <2>4. Head(up[w]) = <<"request", r>>
    BY <2>1, <2>2, <2>3 DEF Notes
  <2>5. UpKept /\ <<"request", r>> \notin Members(up'[w])
    BY <1>1, <2>2, <2>4, TakeKeeps
  <2>6. Asked(r, w) /\ on[r] = w
    BY <2>3, <2>4 DEF Asked, NameInv, UpNamed
  <2>7. \A v \in Sockets \ {w} : ~Asked(r, v)
    BY <2>3, <2>6 DEF NameInv, UpNamed
  <2>8. \A v \in Sockets : <<"request", r>> \notin Members(up'[v])
    BY <2>3, <2>5, <2>7 DEF UpKept
  <2>9. \A t \in Tcp : ~Logged(r, t)
    BY <2>3, <2>6 DEF NameInv, LogNamed
  <2>10. kind[r] # "none"
    <3>1. <<"request", r>>[1] = "request" /\ <<"request", r>>[2] = r
      OBVIOUS
    <3> QED BY <2>6, <3>1 DEF PathInv, Asked
  <2>11. Refused(r)'
    BY <2>2, <2>3, <2>8, <2>9, <2>10 DEF Refused, Logged, Asked
  <2>12. DownKept
    <3>1. <<Trouble(r)>> \in Seq(Messages) /\ Members(<<Trouble(r)>>) = {Trouble(r)}
      BY <2>3, AnswersOf, TroubleType DEF Members
    <3>2. \A v \in Sockets : \A d \in Members(down'[v]) : d \in Members(down[v]) \/ d = Trouble(r)
      BY ZenonT(60), <1>1, <2>2, <3>1, TellAdds
    <3> QED BY <2>3, <2>11, <3>2 DEF DownKept
  <2> QED BY <1>1, <1>4, <2>2, <2>5, <2>12, NameKept
<1>9. CASE SocketClosed(w) \/ \E t \in Tcp : OpenTcp(w, t)
  <2>1. /\ Take(w)
        /\ UNCHANGED <<ws, pendingName, kind, on, outstanding, saved, overlapped, seen, down, log>>
    BY <1>9 DEF SocketClosed, OpenTcp, page, server
  <2>2. \A t \in Tcp : tcp[t] # "new" => wsOf'[t] = wsOf[t]
    <3>1. wsOf \in [Tcp -> Sockets \cup {None}]
      BY <1>1 DEF TypeOK
    <3> QED BY <1>9, <3>1 DEF SocketClosed, OpenTcp
  <2> QED BY <1>1, <1>3, <1>4, <2>1, <2>2, TakeKeeps, NameKept
<1> QED BY <1>5, <1>6, <1>7, <1>8, <1>9

LEMMA NameTcp ==
  ASSUME MapInv, PathInv, NameInv, NEW t \in Tcp, TcpEvent(t) \/ Serve(t) \/ JoinLate(t) \/ Stray(t) \/ ServerStops
  PROVE  NameInv'
<1>1. TypeOK /\ (tcp[t] # "new" => wsOf[t] \in Sockets) /\ \A u \in Tcp : tcp[u] # "new" => wsOf[u] \in Sockets
  BY DEF MapInv
<1>2. UNCHANGED <<page, up, wsOf, log>>
  <2>1. CASE TcpConnected(t)
    BY <2>1 DEF TcpConnected, server
  <2>2. CASE TcpFails(t) \/ TcpClosed(t)
    BY <2>2 DEF TcpFails, TcpClosed, EndTcp
  <2>3. CASE Data(t)
    BY SMTT(60), <2>3 DEF Data
  <2>4. CASE Serve(t) \/ JoinLate(t) \/ Stray(t) \/ ServerStops
    BY <2>4 DEF Serve, JoinLate, Stray, ServerStops, proxy
  <2> QED BY <2>1, <2>2, <2>3, <2>4 DEF TcpEvent
<1>3. UNCHANGED <<ws, kind, on, outstanding, pendingName, overlapped, saved, log, seen, up, wsOf>>
  BY <1>2 DEF page
<1>4. UpKept /\ WsKept
  BY <1>3 DEF UpKept, WsKept, NameInv, UpNamed, Asked
<1>5. DownKept
  <2>1. CASE TcpFails(t)
    <3>1. Tell(wsOf[t], <<Trouble(None)>>) /\ tcp[t] # "new"
      BY <2>1 DEF TcpFails, Live
    <3>2. <<Trouble(None)>> \in Seq(Messages) /\ Members(<<Trouble(None)>>) = {Trouble(None)}
      BY AnswersOf, TroubleType DEF Members
    <3>3. \A v \in Sockets : \A d \in Members(down'[v]) : d \in Members(down[v]) \/ d = Trouble(None)
      <4>1. TypeOK /\ wsOf[t] \in Sockets
        BY <1>1, <3>1
      <4>2. /\ \A v \in Sockets \ {wsOf[t]} : down'[v] = down[v]
            /\ Members(down'[wsOf[t]]) \subseteq Members(down[wsOf[t]]) \cup Members(<<Trouble(None)>>)
        BY <3>1, <3>2, <4>1, TellAdds
      <4> QED BY <3>2, <4>2
    <3> QED BY <3>3 DEF DownKept
  <2>2. CASE Data(t)
    <3>1. tcp[t] # "new"
      BY <2>2 DEF Data, Live
    <3>2. PICK messages \in Seq(Messages) : Tell(wsOf[t], messages) /\ \A d \in Members(messages) : d.via = t
      BY <1>1, <2>2, DataTells
    <3>3. t # None
      BY DEF Tcp, None
    <3>4. \A v \in Sockets : \A d \in Members(down'[v]) : d \in Members(down[v]) \/ d.via = t
      <4>1. TypeOK /\ wsOf[t] \in Sockets
        BY <1>1, <3>1
      <4>2. /\ \A v \in Sockets \ {wsOf[t]} : down'[v] = down[v]
            /\ Members(down'[wsOf[t]]) \subseteq Members(down[wsOf[t]]) \cup Members(messages)
        BY <3>2, <4>1, TellAdds
      <4> QED BY <3>2, <4>2
    <3> QED BY <3>3, <3>4 DEF DownKept
  <2>3. CASE down' = down
    BY <2>3 DEF DownKept
  <2> QED BY <2>1, <2>2, <2>3 DEF TcpEvent, TcpConnected, TcpClosed, Serve, JoinLate, Stray, ServerStops
<1> QED BY <1>1, <1>3, <1>4, <1>5, NameKept

\* A request that the user makes is new everywhere.
LEMMA NameAsk ==
  ASSUME MapInv, PathInv, NameInv, NEW r \in Requests, Ask(r)
  PROVE  NameInv'
<1>1. /\ TypeOK /\ kind \in [Requests -> RequestKinds \cup {"none"}] /\ on \in [Requests -> Sockets \cup {None}]
      /\ up \in [Sockets -> Seq(Notes)] /\ outstanding \subseteq Requests /\ socket \in Sockets \cup {None}
      /\ log \in [Tcp -> Seq(Requests)]
  BY DEF MapInv, TypeOK
<1>2. /\ kind[r] = "none" /\ Send(socket, <<"request", r>>)
      /\ UNCHANGED <<ws, socket, status, saved, seen, down, proxy, server>>
      /\ IF up' # up THEN on' = [on EXCEPT ![r] = socket] /\ outstanding' = outstanding \cup {r}
                     ELSE UNCHANGED <<on, outstanding>>
  BY DEF Ask
<1>3. PICK what \in Kinds :
        /\ kind' = [kind EXCEPT ![r] = what]
        /\ pendingName' = IF what = "retrieve" THEN r ELSE pendingName
        /\ overlapped' = (overlapped \/ (what = "retrieve" /\ \E q \in outstanding :
                                           kind[q] = "retrieve" /\ ws[on[q]] = "open"))
  BY DEF Ask
<1>4. kind'[r] = what /\ what # "none" /\ \A q \in Requests \ {r} : kind'[q] = kind[q]
  BY <1>1, <1>3, ProxyAssumption DEF RequestKinds
<1>5. /\ \A q \in Requests \ {r} : on'[q] = on[q] /\ (q \in outstanding' <=> q \in outstanding)
      /\ outstanding \subseteq outstanding' /\ outstanding' \subseteq outstanding \cup {r}
  BY <1>1, <1>2
<1>6. r \notin outstanding
  BY <1>2 DEF NameInv, Sent
<1>7. \A t \in Tcp : ~Logged(r, t)
  BY <1>2 DEF PathInv, Logged
<1>8. \A v \in Sockets : ~Asked(r, v)
  <2> SUFFICES ASSUME NEW v \in Sockets, <<"request", r>> \in Members(up[v]) PROVE FALSE
    BY DEF Asked
  <2>1. <<"request", r>>[1] = "request" /\ <<"request", r>>[2] = r
    OBVIOUS
  <2> QED BY <1>2, <2>1 DEF PathInv
<1>9. \A v \in Sockets : \/ up'[v] = up[v]
                         \/ /\ v = socket /\ ws[v] = "open" /\ up'[v] = Append(up[v], <<"request", r>>)
                            /\ Members(up'[v]) = Members(up[v]) \cup {<<"request", r>>}
  <2>1. <<"request", r>> \in Notes
    BY DEF Notes
  <2> QED BY ZenonT(60), <1>1, <1>2, <2>1, SendAdds
<1>10. ASSUME NEW v \in Sockets, up'[v] = Append(up[v], <<"request", r>>)
       PROVE  up' # up
  <2>1. up[v] \in Seq(Notes) /\ Len(Append(up[v], <<"request", r>>)) = Len(up[v]) + 1 /\ Len(up[v]) \in Nat
    <3>1. up[v] \in Seq(Notes) /\ <<"request", r>> \in Notes
      BY <1>1 DEF Notes
    <3> QED BY <3>1, AppendProperties
  <2>2. Len(up[v]) + 1 # Len(up[v])
    BY <2>1
  <2> QED BY <1>10, <2>1, <2>2
<1>11. \A q \in Requests \ {r} : \A v \in Sockets : Asked(q, v)' <=> Asked(q, v)
  BY <1>9 DEF Asked
<1>12. UpNamed'
  <2>1. ASSUME NEW v \in Sockets PROVE Once(up'[v])
    <3>1. Once(up[v]) /\ <<"request", r>> \notin Members(up[v]) /\ up[v] \in Seq(Notes) /\ <<"request", r>> \in Notes
      BY <1>1, <1>8 DEF NameInv, UpNamed, Asked, Notes
    <3> QED BY <1>9, <3>1, OnceAppend
  <2>2. ASSUME NEW v \in Sockets, NEW q \in Requests, Asked(q, v)' PROVE on'[q] = v /\ q \in outstanding'
    <3>1. CASE q = r
      <4>1. v = socket /\ up' # up
        BY <1>8, <1>9, <1>10, <2>2, <3>1 DEF Asked
      <4> QED BY <1>1, <1>2, <3>1, <4>1
    <3>2. CASE q # r
      <4>1. on[q] = v /\ q \in outstanding
        BY <1>11, <2>2, <3>2 DEF NameInv, UpNamed
      <4> QED BY <1>5, <3>2, <4>1
    <3> QED BY <3>1, <3>2
  <2> QED BY <2>1, <2>2 DEF UpNamed
<1>13. \A q \in Requests : \A t \in Tcp : Logged(q, t) => q # r
  BY <1>7
<1>14. UNCHANGED <<log, wsOf>>
  BY <1>2 DEF proxy, server
<1>15. LogNamed'
  <2> SUFFICES ASSUME NEW t \in Tcp, NEW q \in Requests, Logged(q, t)
               PROVE  /\ on'[q] = wsOf[t] /\ \A w \in Sockets : ~Asked(q, w)'
                      /\ \A u \in Tcp \ {t} : ~Logged(q, u)
    BY <1>14 DEF NameInv, LogNamed, Logged
  <2>1. q # r
    BY <1>13
  <2> QED BY <1>5, <1>11, <2>1 DEF NameInv, LogNamed
<1>16. Waits'
  <2> SUFFICES ASSUME NEW t \in Tcp, NEW q \in 1..Len(log[t]), q > Len(seen[t]), ws[wsOf[t]] = "open"
               PROVE  log[t][q] \in outstanding'
    BY <1>2, <1>14 DEF Waits
  <2> QED BY <1>5 DEF NameInv, Waits
<1>17. Troubles'
  <2> SUFFICES ASSUME NEW w \in Sockets, NEW d \in Members(down[w]), d.via = None
               PROVE  d = Trouble(None) \/ \E q \in Requests : d = Trouble(q) /\ Refused(q)'
    BY <1>2 DEF Troubles, Trouble
  <2>1. d = Trouble(None) \/ \E q \in Requests : d = Trouble(q) /\ Refused(q)
    BY DEF NameInv, Troubles
  <2>2. ASSUME NEW q \in Requests, Refused(q) PROVE Refused(q)'
    <3>1. q # r
      BY <1>2, <2>2 DEF Refused
    <3> QED BY <1>4, <1>11, <1>14, <2>2, <3>1 DEF Refused, Logged
  <2> QED BY <2>1, <2>2
<1>18. Sent'
  <2>1. ASSUME NEW q \in Requests, on'[q] # None PROVE ws'[on'[q]] \in Started
    <3>1. CASE q = r
      <4>1. CASE up' # up
        <5>1. on'[q] = socket /\ socket \in Sockets
          BY <1>1, <1>2, <2>1, <3>1, <4>1
        <5>2. ws[socket] = "open"
          BY <1>1, <1>2, <4>1 DEF Send
        <5> QED BY <1>2, <5>1, <5>2 DEF Started
      <4>2. CASE up' = up
        BY <1>2, <2>1, <4>2 DEF NameInv, Sent
      <4> QED BY <4>1, <4>2
    <3>2. CASE q # r
      BY <1>2, <1>5, <2>1, <3>2 DEF NameInv, Sent
    <3> QED BY <3>1, <3>2
  <2>2. ASSUME NEW q \in outstanding' PROVE on'[q] # None /\ kind'[q] # "none"
    <3>1. CASE q = r
      <4>1. up' # up
        BY <1>2, <1>6, <2>2, <3>1
      <4>2. socket # None
        BY <1>2, <4>1 DEF Send
      <4> QED BY <1>1, <1>2, <1>4, <3>1, <4>1, <4>2
    <3>2. CASE q # r
      <4>1. q \in Requests /\ q \in outstanding
        BY <1>1, <1>5, <2>2, <3>2
      <4> QED BY <1>4, <1>5, <3>2, <4>1 DEF NameInv, Sent
    <3> QED BY <3>1, <3>2
  <2> QED BY <2>1, <2>2 DEF Sent
<1>19. OneName'
  <2> SUFFICES ASSUME ~overlapped', NEW q \in outstanding', kind'[q] = "retrieve", ws[on'[q]] = "open"
               PROVE  q = pendingName'
    BY <1>2 DEF OneName
  <2>1. CASE q = r
    BY <1>3, <1>4, <2>1
  <2>2. CASE q # r
    <3>1. q \in outstanding /\ kind[q] = "retrieve" /\ ws[on[q]] = "open"
      BY <1>1, <1>4, <1>5, <2>2
    <3>2. what # "retrieve" /\ ~overlapped
      BY <1>3, <3>1
    <3> QED BY <1>3, <3>1, <3>2 DEF NameInv, OneName
  <2> QED BY <2>1, <2>2
<1>20. SavedUnderItsName'
  BY <1>2, <1>3 DEF NameInv, SavedUnderItsName
<1> QED BY <1>12, <1>15, <1>16, <1>17, <1>18, <1>19, <1>20 DEF NameInv

LEMMA NameForward ==
  ASSUME MapInv, PathInv, NameInv, NEW w \in Sockets, Forward(w)
  PROVE  NameInv'
<1>1. /\ TypeOK /\ log \in [Tcp -> Seq(Requests)] /\ up[w] \in Seq(Notes)
      /\ \A t \in Tcp : seen[t] \in Seq(Seq(Units))
  BY DEF MapInv, TypeOK
<1>2. /\ Take(w) /\ Head(up[w])[1] = "request" /\ connections[w] \in Live
      /\ UNCHANGED <<page, down, proxy, served, out, serve>>
  BY DEF Forward
<1>3. PICK t, r : t = connections[w] /\ r = Head(up[w])[2]
  OBVIOUS
<1>4. t \in Tcp /\ log' = [log EXCEPT ![t] = Append(@, r)]
  BY <1>2, <1>3 DEF Forward, Live
<1>5. wsOf[t] = w
  <2>1. connections[w] # None
    BY <1>3, <1>4 DEF Tcp, None
  <2> QED BY <1>3, <2>1 DEF MapInv
<1>6. Head(up[w]) \in Members(up[w]) /\ Head(up[w]) \in Notes /\ r \in Requests
  BY <1>1, <1>2, <1>3, TakeType, TakeTakes
<1>7. Head(up[w]) = <<"request", r>>
  BY <1>2, <1>3, <1>6 DEF Notes
<1>8. UpKept /\ <<"request", r>> \notin Members(up'[w])
  BY <1>1, <1>2, <1>7, TakeKeeps
<1>9. Asked(r, w) /\ on[r] = w /\ r \in outstanding
  BY <1>6, <1>7 DEF Asked, NameInv, UpNamed
<1>10. \A v \in Sockets : <<"request", r>> \notin Members(up'[v])
  <2>1. \A v \in Sockets \ {w} : ~Asked(r, v)
    BY <1>6, <1>9 DEF NameInv, UpNamed
  <2> QED BY <1>6, <1>8, <2>1 DEF UpKept
<1>11. \A u \in Tcp : ~Logged(r, u)
  BY <1>6, <1>9 DEF NameInv, LogNamed
<1>12. UNCHANGED <<ws, kind, on, outstanding, pendingName, overlapped, saved, seen, down, wsOf>>
  BY <1>2 DEF page, proxy
<1>13. /\ log'[t] = Append(log[t], r) /\ \A u \in Tcp \ {t} : log'[u] = log[u]
  BY <1>1, <1>4
<1>14. Distinct(log'[t]) /\ Members(log'[t]) = Members(log[t]) \cup {r}
  <2>1. Distinct(log[t]) /\ r \notin Members(log[t]) /\ log[t] \in Seq(Requests)
    BY <1>1, <1>4, <1>11 DEF NameInv, LogNamed, Logged
  <2> QED BY <1>6, <1>13, <2>1, DistinctAppend
<1>15. \A q \in Requests : \A u \in Tcp : Logged(q, u)' <=> Logged(q, u) \/ (q = r /\ u = t)
  BY <1>4, <1>13, <1>14 DEF Logged
<1>16. UpNamed'
  BY <1>8, <1>12 DEF NameInv, UpNamed, UpKept, Asked
<1>17. LogNamed'
  <2>1. ASSUME NEW u \in Tcp PROVE Distinct(log'[u])
    BY <1>13, <1>14 DEF NameInv, LogNamed
  <2>2. ASSUME NEW u \in Tcp, NEW q \in Requests, Logged(q, u)'
        PROVE  /\ on'[q] = wsOf'[u] /\ \A v \in Sockets : ~Asked(q, v)'
               /\ \A x \in Tcp \ {u} : ~Logged(q, x)'
    <3>1. CASE q = r
      <4>1. u = t
        BY <1>11, <1>15, <2>2, <3>1
      <4> QED BY <1>5, <1>9, <1>10, <1>11, <1>12, <1>15, <3>1, <4>1 DEF Asked
    <3>2. CASE q # r
      <4>1. Logged(q, u)
        BY <1>15, <2>2, <3>2
      <4>2. on[q] = wsOf[u] /\ (\A v \in Sockets : ~Asked(q, v)) /\ \A x \in Tcp \ {u} : ~Logged(q, x)
        BY <4>1 DEF NameInv, LogNamed
      <4> QED BY <1>8, <1>12, <1>15, <3>2, <4>2 DEF UpKept, Asked
    <3> QED BY <3>1, <3>2
  <2> QED BY <2>1, <2>2 DEF LogNamed
<1>18. Waits'
  <2> SUFFICES ASSUME NEW u \in Tcp, NEW q \in 1..Len(log'[u]), q > Len(seen[u]), ws[wsOf[u]] = "open"
               PROVE  log'[u][q] \in outstanding
    BY <1>12 DEF Waits
  <2>1. CASE u = t
    <3>1. PICK n, old : n = Len(log[t]) /\ old = log[t]
      OBVIOUS
    <3>2. n \in Nat /\ old \in Seq(Requests)
      BY <1>1, <1>4, <3>1
    <3>3. Len(log'[t]) = n + 1 /\ log'[t][n + 1] = r /\ \A j \in 1..n : log'[t][j] = old[j]
      BY <1>6, <1>13, <3>1, <3>2, AppendProperties
    <3>4. q \in 1..n \/ q = n + 1
      BY <2>1, <3>2, <3>3
    <3>5. CASE q \in 1..n
      <4>1. log[t][q] \in outstanding
        BY <1>4, <2>1, <3>1, <3>5 DEF NameInv, Waits
      <4> QED BY <2>1, <3>1, <3>3, <3>5, <4>1
    <3> QED BY <1>9, <2>1, <3>3, <3>4, <3>5
  <2>2. CASE u # t
    BY <1>13, <2>2 DEF NameInv, Waits
  <2> QED BY <2>1, <2>2
<1>19. Troubles'
  <2> SUFFICES ASSUME NEW v \in Sockets, NEW d \in Members(down[v]), d.via = None
               PROVE  d = Trouble(None) \/ \E q \in Requests : d = Trouble(q) /\ Refused(q)'
    BY <1>12 DEF Troubles, Trouble
  <2>1. d = Trouble(None) \/ \E q \in Requests : d = Trouble(q) /\ Refused(q)
    BY DEF NameInv, Troubles
  <2>2. ASSUME NEW q \in Requests, Refused(q) PROVE Refused(q)'
    <3>1. q # r
      BY <1>9, <2>2 DEF Refused
    <3> QED BY <1>8, <1>12, <1>15, <2>2, <3>1 DEF Refused, UpKept, Asked
  <2> QED BY <2>1, <2>2
<1>20. Sent' /\ OneName' /\ SavedUnderItsName'
  BY SMTT(60), <1>12 DEF NameInv, Sent, OneName, SavedUnderItsName
<1> QED BY <1>16, <1>17, <1>18, <1>19, <1>20 DEF NameInv

\* What the page receives: an error of the proxy about a request that it refused or
\* about none, or from a connection the next reply.
LEMMA ReceivedIs ==
  ASSUME MapInv, PathInv, OrderInv, NameInv, NEW w \in Sockets, Receive(w),
         NEW message, message = Head(down[w]), NEW a, a = Answered(message)
  PROVE  \/ a = Answer(None, "error")
         \/ message.via = None /\ \E r \in Requests : a = Answer(r, "error") /\ Refused(r)
         \/ LET t == message.via
                k == Len(seen[t]) + 1
            IN  /\ t \in Tcp /\ k \in 1..Len(log[t]) /\ wsOf[t] = w /\ ws[w] = "open"
                /\ a.to = log[t][k] /\ (a.what = "file" => kind[log[t][k]] = "retrieve")
<1>1. TypeOK /\ ws[w] = "open"
  BY DEF MapInv, Receive
<1>2. /\ down[w] \in Seq(Messages) /\ down[w] # <<>> /\ message \in Messages /\ message \in Members(down[w])
  BY ReceiveFrom, MembersTail
<1>3. ASSUME NEW b \in Answers, message.units = Reply(b) PROVE a = b
  <2>1. Reply(b)[1] = <<b, 1>>
    BY SMTT(60), ReplyShape
  <2> QED BY <1>3, <2>1 DEF Answered
<1>4. CASE message.via = None
  <2>1. message = Trouble(None) \/ \E r \in Requests : message = Trouble(r) /\ Refused(r)
    BY <1>2, <1>4 DEF NameInv, Troubles
  <2>2. ASSUME NEW r \in Requests \cup {None}, message = Trouble(r) PROVE a = Answer(r, "error")
    <3>1. Answer(r, "error") \in Answers
      BY AnswersOf
    <3>2. message.units = Reply(Answer(r, "error"))
      BY SMTT(60), <2>2 DEF Trouble
    <3> QED BY <1>3, <3>1, <3>2
  <2> QED BY <1>4, <2>1, <2>2
<1>5. CASE message.via # None
  <2>1. PICK t : t = message.via
    OBVIOUS
  <2>2. t \in Tcp /\ tcp[t] # "new" /\ wsOf[t] = w
    BY <1>5, <2>1, ReceiveFrom
  <2>3. PICK answers \in Seq(Answers) : \E m \in 0..Len(answers) :
          Answering(t, answers) /\ OnStream(t, answers, m) /\ Handled(t, answers, m) /\ OnWay(t, answers, m)
    BY <2>2 DEF OrderInv, Orders
  <2>4. PICK m \in 0..Len(answers) : Answering(t, answers) /\ OnWay(t, answers, m)
    BY <2>3
  <2>5. PICK k, n, l : k = Len(seen[t]) /\ n = served[t] /\ l = Len(log[t])
    OBVIOUS
  <2>6. k \in Nat /\ n \in Nat /\ l \in Nat /\ n <= l
    <3>1. /\ seen[t] \in Seq(Seq(Units)) /\ log[t] \in Seq(Requests) /\ served[t] \in Nat /\ served[t] <= Len(log[t])
      BY <1>1, <2>2 DEF TypeOK
    <3> QED BY <2>5, <3>1
  <2>7. Carried(down[w], t, answers, k, m)
    BY <1>1, <2>2, <2>4, <2>5 DEF OnWay
  <2>8. k + 1 <= m /\ message.units = Reply(answers[k + 1])
    <3>1. PICK queue : queue = down[w]
      OBVIOUS
    <3>2. queue \in Seq(Messages) /\ queue # <<>> /\ Head(queue) = message /\ m \in Nat
      BY <1>2, <3>1
    <3>3. Carried(queue, t, answers, k, m) /\ Head(queue).via = t
      BY <2>1, <2>7, <3>1, <3>2
    <3> QED BY <2>6, <3>2, <3>3, CarriedTail
  <2>9. k + 1 \in 1..Len(answers)
    BY <2>6, <2>8
  <2>10. a = answers[k + 1]
    BY SMTT(60), <1>3, <2>8, <2>9
  <2>11. CASE k + 1 <= n
    <3>1. k + 1 \in 1..l
      BY <2>6, <2>11
    <3>2. a.to = log[t][k + 1] /\ (a.what = "file" => kind[log[t][k + 1]] = "retrieve")
      BY SMTT(60), <2>4, <2>5, <2>9, <2>10, <2>11 DEF Answering
    <3> QED BY <1>1, <2>1, <2>2, <2>5, <3>1, <3>2
  <2>12. CASE k + 1 > n
    <3>1. a = Answer(None, "error")
      BY SMTT(60), <2>4, <2>5, <2>9, <2>10, <2>12 DEF Answering
    <3> QED BY <3>1
  <2> QED BY <2>6, <2>11, <2>12
<1> QED BY <1>4, <1>5

LEMMA ReceivedSeen ==
  ASSUME MapInv, PathInv, NEW w \in Sockets, Receive(w), NEW t \in Tcp, t = Head(down[w]).via
  PROVE  Len(seen'[t]) = Len(seen[t]) + 1
<1>1. PICK message : message = Head(down[w])
  OBVIOUS
<1>2. t # None
  BY DEF Tcp, None
<1>3. message \in Messages /\ seen'[t] = Append(seen[t], message.units)
  BY SMTT(60), <1>1, <1>2, ReceiveFrom
<1>4. seen[t] \in Seq(Seq(Units)) /\ message.units \in Seq(Units)
  BY <1>3 DEF MapInv, TypeOK, Messages
<1> QED BY <1>3, <1>4, AppendProperties

LEMMA NameReceive ==
  ASSUME MapInv, PathInv, OrderInv, NameInv, NEW w \in Sockets, Receive(w)
  PROVE  NameInv'
<1>1. /\ TypeOK /\ outstanding \subseteq Requests /\ \A t \in Tcp : seen[t] \in Seq(Seq(Units)) /\ log[t] \in Seq(Requests)
      /\ \A t \in Tcp : DOMAIN log[t] = 1..Len(log[t]) /\ Len(seen[t]) \in Nat
  BY DEF MapInv, TypeOK
<1>2. PICK message, a : message = Head(down[w]) /\ a = Answered(message)
  OBVIOUS
<1>3. /\ outstanding' = outstanding \ {a.to}
      /\ saved' = IF a.what = "file" THEN saved \cup {<<a.to, pendingName>>} ELSE saved
      /\ pendingName' = IF a.what = "file" THEN None ELSE pendingName
      /\ UNCHANGED <<socket, status, ws, kind, on, overlapped, up, proxy, server>>
  BY <1>2 DEF Receive, TakesName
<1>4. UNCHANGED <<ws, kind, on, overlapped, up, log, wsOf>>
  BY <1>3 DEF proxy, server
<1>5. /\ \A v \in Sockets : Members(down'[v]) \subseteq Members(down[v])
      /\ \A u \in Tcp : \/ seen'[u] = seen[u]
                        \/ u = message.via /\ Len(seen'[u]) = Len(seen[u]) + 1
  <2>1. /\ message \in Messages /\ Members(down'[w]) \subseteq Members(down[w])
        /\ \A v \in Sockets \ {w} : down'[v] = down[v]
    BY SMTT(60), <1>2, ReceiveFrom
  <2>2. /\ message.via = None => seen' = seen
        /\ message.via # None => /\ message.via \in Tcp
                                 /\ seen'[message.via] = Append(seen[message.via], message.units)
                                 /\ \A u \in Tcp \ {message.via} : seen'[u] = seen[u]
    BY <1>2, ReceiveFrom
  <2>3. message.units \in Seq(Units)
    BY <2>1 DEF Messages
  <2>4. ASSUME NEW u \in Tcp, u = message.via PROVE Len(seen'[u]) = Len(seen[u]) + 1
    <3>1. u # None
      BY DEF Tcp, None
    <3>2. seen'[u] = Append(seen[u], message.units)
      BY <2>2, <2>4, <3>1
    <3> QED BY <1>1, <2>3, <3>2, AppendProperties
  <2>5. ASSUME NEW u \in Tcp, u # message.via PROVE seen'[u] = seen[u]
    BY <2>2, <2>5
  <2> QED BY <2>1, <2>4, <2>5
<1>6. \/ a = Answer(None, "error")
      \/ message.via = None /\ \E r \in Requests : a = Answer(r, "error") /\ Refused(r)
      \/ \E t \in Tcp : \E k \in 1..Len(log[t]) :
           /\ t = message.via /\ k = Len(seen[t]) + 1 /\ wsOf[t] = w /\ ws[w] = "open"
           /\ a.to = log[t][k] /\ (a.what = "file" => kind[log[t][k]] = "retrieve")
  BY <1>2, ReceivedIs
<1>7. \A r \in Requests : r = a.to => \A v \in Sockets : ~Asked(r, v)
  <2> SUFFICES ASSUME NEW r \in Requests, r = a.to PROVE \A v \in Sockets : ~Asked(r, v)
    OBVIOUS
  <2>1. CASE a = Answer(None, "error")
    BY <2>1 DEF Answer, None, Requests
  <2>2. CASE \E q \in Requests : a = Answer(q, "error") /\ Refused(q)
    BY <2>2 DEF Answer, Refused
  <2>3. CASE \E t \in Tcp : \E k \in 1..Len(log[t]) : a.to = log[t][k]
    <3>1. PICK t \in Tcp : Logged(r, t)
      BY <1>1, <2>3 DEF Logged, Members
    <3> QED BY <3>1 DEF NameInv, LogNamed
  <2> QED BY <1>6, <2>1, <2>2, <2>3
<1>8. UpNamed'
  BY <1>3, <1>4, <1>7 DEF NameInv, UpNamed, Asked
<1>9. LogNamed'
  BY <1>4 DEF NameInv, LogNamed, Logged, Asked
<1>10. Waits'
  <2> SUFFICES ASSUME NEW u \in Tcp, NEW q \in 1..Len(log[u]), q > Len(seen'[u]), ws[wsOf[u]] = "open"
               PROVE  log[u][q] \in outstanding /\ log[u][q] # a.to
    BY <1>3, <1>4 DEF Waits
  <2>1. log[u][q] \in Requests /\ Logged(log[u][q], u) /\ q \in Nat
    BY <1>1 DEF Logged, Members
  <2>2. q > Len(seen[u])
    <3>1. PICK k, l : k = Len(seen[u]) /\ l = Len(seen'[u])
      OBVIOUS
    <3>2. k \in Nat /\ (l = k \/ l = k + 1) /\ q > l
      BY <1>1, <1>5, <3>1
    <3> QED BY <2>1, <3>1, <3>2
  <2>3. log[u][q] \in outstanding
    BY <2>2 DEF NameInv, Waits
  <2>4. log[u][q] # a.to
    <3>1. CASE a = Answer(None, "error")
      BY <2>1, <3>1 DEF Answer, None, Requests
    <3>2. CASE \E r \in Requests : a = Answer(r, "error") /\ Refused(r)
      BY <2>1, <3>2 DEF Answer, Refused
    <3>3. ASSUME NEW t \in Tcp, NEW k \in 1..Len(log[t]), t = message.via, k = Len(seen[t]) + 1, a.to = log[t][k]
          PROVE  log[u][q] # a.to
      <4>1. CASE u = t
        <5>1. k # q
          <6>1. Len(seen'[t]) = k
            BY <1>2, <3>3, ReceivedSeen
          <6> QED BY <2>1, <4>1, <6>1
        <5>2. Distinct(log[t]) /\ k \in DOMAIN log[t] /\ q \in DOMAIN log[t]
          BY <1>1, <4>1 DEF NameInv, LogNamed
        <5> QED BY <3>3, <4>1, <5>1, <5>2 DEF Distinct
      <4>2. CASE u # t
        <5>1. Logged(log[t][k], t) /\ log[t][k] \in Requests
          BY <1>1 DEF Logged, Members
        <5> QED BY <2>1, <3>3, <4>2, <5>1 DEF NameInv, LogNamed
      <4> QED BY <4>1, <4>2
    <3> QED BY <1>6, <3>1, <3>2, <3>3
  <2> QED BY <2>3, <2>4
<1>11. Troubles'
  <2> SUFFICES ASSUME NEW v \in Sockets, NEW d \in Members(down'[v]), d.via = None
               PROVE  d = Trouble(None) \/ \E q \in Requests : d = Trouble(q) /\ Refused(q)'
    BY DEF Troubles, Trouble
  <2>1. d = Trouble(None) \/ \E q \in Requests : d = Trouble(q) /\ Refused(q)
    BY <1>5 DEF NameInv, Troubles
  <2>2. \A q \in Requests : Refused(q) => Refused(q)'
    BY <1>4 DEF Refused, Logged, Asked
  <2> QED BY <2>1, <2>2
<1>12. Sent'
  BY <1>3, <1>4 DEF NameInv, Sent
<1>13. ASSUME a.what = "file", ~overlapped
       PROVE  a.to \in outstanding /\ kind[a.to] = "retrieve" /\ ws[on[a.to]] = "open" /\ a.to = pendingName
  <2>1. a # Answer(None, "error") /\ \A r : a # Answer(r, "error")
    BY <1>13 DEF Answer
  <2>2. PICK t \in Tcp, k \in Nat :
          /\ k \in 1..Len(log[t]) /\ t = message.via /\ k = Len(seen[t]) + 1 /\ wsOf[t] = w /\ ws[w] = "open"
          /\ a.to = log[t][k] /\ kind[log[t][k]] = "retrieve"
    BY <1>6, <1>13, <2>1
  <2>3. k > Len(seen[t])
    BY <1>1, <2>2
  <2>4. a.to \in outstanding
    BY <2>2, <2>3 DEF NameInv, Waits
  <2>5. Logged(a.to, t)
    BY <1>1, <2>2 DEF Logged, Members
  <2>6. on[a.to] = w
    BY <1>1, <2>2, <2>4, <2>5 DEF NameInv, LogNamed
  <2> QED BY <1>13, <2>2, <2>4, <2>6 DEF NameInv, OneName
<1>14. OneName'
  <2> SUFFICES ASSUME ~overlapped, NEW r \in outstanding, r # a.to, kind[r] = "retrieve", ws[on[r]] = "open"
               PROVE  r = pendingName'
    BY <1>3, <1>4 DEF OneName
  <2>1. r = pendingName
    BY DEF NameInv, OneName
  <2>2. a.what # "file"
    BY <1>13, <2>1
  <2> QED BY <1>3, <2>1, <2>2
<1>15. SavedUnderItsName'
  <2> SUFFICES ASSUME ~overlapped, NEW file \in saved' PROVE file[1] = file[2]
    BY <1>4 DEF SavedUnderItsName
  <2>1. file \in saved \/ (a.what = "file" /\ file = <<a.to, pendingName>>)
    BY <1>3
  <2> QED BY <1>13, <2>1 DEF NameInv, SavedUnderItsName
<1> QED BY <1>8, <1>9, <1>10, <1>11, <1>12, <1>14, <1>15 DEF NameInv

LEMMA NameStep == MapInv /\ PathInv /\ OrderInv /\ NameInv /\ [Next]_vars => NameInv'
<1> SUFFICES ASSUME MapInv, PathInv, OrderInv, NameInv, [Next]_vars PROVE NameInv'
  OBVIOUS
<1>1. CASE UNCHANGED vars
  <2>1. /\ UNCHANGED <<kind, on, outstanding, saved, overlapped, pendingName, ws, seen>>
        /\ UNCHANGED <<up, down, log, wsOf>>
    BY <1>1 DEF vars, page, proxy, server
  <2>2. \A r, w : Asked(r, w)' = Asked(r, w) /\ Logged(r, w)' = Logged(r, w)
    BY <2>1 DEF Asked, Logged
  <2>3. UpNamed' = UpNamed
    BY <2>1, <2>2 DEF UpNamed
  <2>4. LogNamed' = LogNamed
    BY <2>1, <2>2 DEF LogNamed
  <2>5. Waits' = Waits
    BY <2>1 DEF Waits
  <2>6. Troubles' = Troubles
    BY <2>1, <2>2 DEF Troubles, Refused
  <2>7. Sent' = Sent
    BY <2>1 DEF Sent
  <2>8. OneName' = OneName /\ SavedUnderItsName' = SavedUnderItsName
    BY <2>1 DEF OneName, SavedUnderItsName
  <2> QED BY <2>3, <2>4, <2>5, <2>6, <2>7, <2>8 DEF NameInv
<1>2. CASE User
  <2>1. Disconnect => socket \in Sockets
    BY DEF Disconnect, MapInv, TypeOK
  <2> QED BY <1>2, <2>1, NameSocket, NameAsk DEF User
<1>3. CASE \E w \in Sockets : SocketEvent(w)
  BY <1>3, NameSocket, NameForward, NameReceive DEF SocketEvent
<1>4. CASE \E t \in Tcp : TcpEvent(t) \/ Serve(t) \/ JoinLate(t) \/ Stray(t)
  BY <1>4, NameTcp
<1>5. CASE ServerStops
  BY <1>5, NameTcp DEF ServerStops
<1> QED BY <1>1, <1>2, <1>3, <1>4, <1>5 DEF Next

\* Whatever other requests, errors, reconnections and exceptions come between, files
\* that are asked for one after the other are saved under their own names: a request
\* and its reply go the way of one WebSocket and one connection, and a request whose
\* reply is still to come is the one that is named.
THEOREM NamesKept == Spec => []SavedUnderItsName
<1> DEFINE I == MapInv /\ PathInv /\ OrderInv /\ NameInv
<1>1. Init => I
  BY MapInit, PathInit, OrderInit, NameInit
<1>2. I /\ [Next]_vars => I'
  BY MapStep, PathStep, OrderStep, NameStep
<1>3. I => SavedUnderItsName
  BY DEF NameInv
<1> HIDE DEF I
<1> QED BY <1>1, <1>2, <1>3, PTL DEF Spec
================================================================================
