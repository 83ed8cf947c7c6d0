------------------------------- MODULE CodecProofs -----------------------------
(* Theorems about the codecs, for bytes of any width, any dictionary of codes  *)
(* that can be told apart, and any data: the dictionary file is read back, and *)
(* every decoder gives back what was compressed.                               *)
EXTENDS CodecOptimized, ListLemmas, FiniteSetTheorems

Bits == {0, 1}
BitSeqs == Seq(Bits)
--------------------------------------------------------------------------------
(* Induction and recursion                                                     *)

LEMMA InductionUpTo ==
  ASSUME NEW n \in Nat, NEW T, 0 \in T, \A k \in 1..n : k - 1 \in T => k \in T
  PROVE  0..n \subseteq T
<1> DEFINE U == {k \in Nat : k <= n => k \in T}
<1>1. 0 \in U
  OBVIOUS
<1>2. ASSUME NEW k \in Nat, k \in U PROVE k + 1 \in U
  <2> SUFFICES ASSUME k + 1 <= n PROVE k + 1 \in T
    OBVIOUS
  <2>1. k + 1 \in 1..n /\ (k + 1) - 1 = k /\ k \in T
    BY <1>2
  <2> QED BY <2>1
<1> HIDE DEF U
<1>3. Nat \subseteq U
  BY <1>1, <1>2, InductionOverSet
<1> QED BY <1>3 DEF U

\* The largest number of an initial segment, and of a set that has it
LEMMA MaxUpTo ==
  ASSUME NEW n \in Nat, NEW s, s \subseteq 1..n + 1, n + 1 \in s
  PROVE  Max(s) = n + 1
<1>1. \A y \in s : n + 1 >= y
  OBVIOUS
<1>2. \A x \in s : (\A y \in s : x >= y) => x = n + 1
  OBVIOUS
<1> QED BY <1>1, <1>2 DEF Max

\* A set of numbers up to n that is not empty has a largest.
LEMMA MaxIn ==
  ASSUME NEW n \in Nat, NEW s, s \subseteq 1..n, s # {}
  PROVE  Max(s) \in s /\ \A y \in s : Max(s) >= y
<1> DEFINE T == {k \in 0..n : s \cap 1..k # {} => \E x \in s : x <= k /\ \A y \in s \cap 1..k : x >= y}
<1>1. 0 \in T
  OBVIOUS
<1>2. ASSUME NEW k \in 1..n, k - 1 \in T PROVE k \in T
  <2> SUFFICES ASSUME s \cap 1..k # {}
               PROVE  \E x \in s : x <= k /\ \A y \in s \cap 1..k : x >= y
    OBVIOUS
  <2>1. CASE k \in s
    BY <2>1
  <2>2. CASE k \notin s
    <3>1. s \cap 1..k = s \cap 1..k - 1
      BY <2>2
    <3>2. PICK x \in s : x <= k - 1 /\ \A y \in s \cap 1..k - 1 : x >= y
      BY <1>2, <3>1
    <3> QED BY <3>1, <3>2
  <2> QED BY <2>1, <2>2
<1> HIDE DEF T
<1>3. n \in T
  BY <1>1, <1>2, InductionUpTo
<1>4. \E x \in s : \A y \in s : x >= y
  BY <1>3 DEF T
<1> QED BY <1>4 DEF Max

\* Folding from the left is a recursion over the sets of positions; it has a solution.
IsFold(f, base, n, step) ==
  \A s \in SUBSET (1..n) : f[s] = IF s = {} THEN base ELSE step[<<f[s \ {Max(s)}], Max(s)>>]

LEMMA FoldExists ==
  ASSUME NEW S, NEW base \in S, NEW n \in Nat, NEW step \in [S \X (1..n) -> S]
  PROVE  \E f \in [SUBSET (1..n) -> S] : IsFold(f, base, n, step)
<1> DEFINE HasFold(k) == \E f \in [SUBSET (1..k) -> S] : IsFold(f, base, k, step)
           T == {k \in 0..n : HasFold(k)}
<1>1. 0 \in T
  <2> DEFINE f == [s \in SUBSET (1..0) |-> base]
  <2>1. f \in [SUBSET (1..0) -> S] /\ IsFold(f, base, 0, step)
    BY DEF IsFold
  <2> HIDE DEF f
  <2>2. HasFold(0)
    BY <2>1
  <2> HIDE DEF HasFold
  <2> QED BY <2>2
<1>2. ASSUME NEW k \in 1..n, k - 1 \in T PROVE k \in T
  <2>1. PICK f \in [SUBSET (1..k - 1) -> S] : IsFold(f, base, k - 1, step)
    BY <1>2
  <2> DEFINE g == [s \in SUBSET (1..k) |-> IF k \in s THEN step[<<f[s \ {k}], k>>] ELSE f[s]]
  <2>2. ASSUME NEW s \in SUBSET (1..k) PROVE s \ {k} \in SUBSET (1..k - 1)
    OBVIOUS
  <2>3. g \in [SUBSET (1..k) -> S]
    <3>1. ASSUME NEW s \in SUBSET (1..k) PROVE g[s] \in S
      <4>1. CASE k \in s
        <5>1. f[s \ {k}] \in S
          BY <2>2
        <5> QED BY <4>1, <5>1
      <4>2. CASE k \notin s
        <5>1. s = s \ {k}
          BY <4>2
        <5> QED BY <2>2, <4>2, <5>1
      <4> QED BY <4>1, <4>2
    <3> QED BY <3>1
  <2>4. ASSUME NEW s \in SUBSET (1..k)
        PROVE  g[s] = IF s = {} THEN base ELSE step[<<g[s \ {Max(s)}], Max(s)>>]
    <3>1. CASE k \in s
      <4>1. k - 1 \in Nat /\ (k - 1) + 1 = k
        OBVIOUS
      <4>2. Max(s) = k
        BY <3>1, <4>1, MaxUpTo
      <4>3. g[s] = step[<<f[s \ {k}], k>>]
        BY <3>1
      <4>4. s \ {k} \in SUBSET (1..k) /\ k \notin s \ {k}
        OBVIOUS
      <4>5. g[s \ {k}] = f[s \ {k}]
        BY <4>4
      <4> QED BY <3>1, <4>2, <4>3, <4>5
    <3>2. CASE k \notin s
      <4>1. s \in SUBSET (1..k - 1) /\ g[s] = f[s]
        BY <3>2
      <4>2. f[s] = IF s = {} THEN base ELSE step[<<f[s \ {Max(s)}], Max(s)>>]
        BY <2>1, <4>1 DEF IsFold
      <4>3. k \notin s \ {Max(s)} /\ s \ {Max(s)} \in SUBSET (1..k)
        BY <3>2
      <4>4. g[s \ {Max(s)}] = f[s \ {Max(s)}]
        BY <4>3
      <4> QED BY <4>1, <4>2, <4>4
    <3> QED BY <3>1, <3>2
  <2> HIDE DEF g
  <2>5. IsFold(g, base, k, step)
    BY <2>4 DEF IsFold
  <2>6. HasFold(k)
    BY <2>3, <2>5
  <2> HIDE DEF HasFold
  <2> QED BY <2>6
<1> HIDE DEF T
<1>3. n \in T
  BY <1>1, <1>2, InductionUpTo
<1> QED BY <1>3 DEF T

LEMMA Segment ==
  ASSUME NEW n \in Nat, NEW k \in 1..n
  PROVE  1..k \in SUBSET (1..n) /\ 1..k # {} /\ Max(1..k) = k /\ (1..k) \ {k} = 1..k - 1
<1>1. k - 1 \in Nat /\ (k - 1) + 1 = k /\ 1..k \subseteq 1..(k - 1) + 1 /\ (k - 1) + 1 \in 1..k
  OBVIOUS
<1>2. Max(1..k) = (k - 1) + 1
  BY <1>1, MaxUpTo
<1> QED BY <1>1, <1>2

\* A number, by the numbers of the bits up to each position
LEMMA NumberTrace ==
  ASSUME NEW bits \in BitSeqs
  PROVE  \E v \in [0..Len(bits) -> Nat] :
           /\ v[0] = 0 /\ \A k \in 1..Len(bits) : v[k] = (2 * v[k - 1]) + bits[k]
           /\ Number(bits) = v[Len(bits)]
<1> DEFINE n == Len(bits)
           step == [p \in Nat \X (1..n) |-> (2 * p[1]) + bits[p[2]]]
<1>1. n \in Nat /\ DOMAIN bits = 1..n /\ \A k \in 1..n : bits[k] \in Bits
  BY DEF BitSeqs
<1>2. step \in [Nat \X (1..n) -> Nat]
  BY <1>1 DEF Bits
<1> HIDE DEF n, step
<1>3. PICK f \in [SUBSET (1..n) -> Nat] : IsFold(f, 0, n, step)
  <2>1. 0 \in Nat
    OBVIOUS
  <2> QED BY <1>1, <1>2, <2>1, FoldExists
<1>4. ASSUME NEW s \in SUBSET (1..n), s # {}
      PROVE  f[s] = (2 * f[s \ {Max(s)}]) + bits[Max(s)]
  <2>1. Max(s) \in 1..n /\ f[s \ {Max(s)}] \in Nat
    BY <1>1, <1>4, MaxIn
  <2>2. step[<<f[s \ {Max(s)}], Max(s)>>] = (2 * f[s \ {Max(s)}]) + bits[Max(s)]
    BY <2>1 DEF step
  <2> QED BY <1>3, <1>4, <2>2 DEF IsFold
<1>5. f = [s \in SUBSET DOMAIN bits |-> IF s = {} THEN 0 ELSE (2 * f[s \ {Max(s)}]) + bits[Max(s)]]
  BY <1>1, <1>3, <1>4 DEF IsFold
<1>6. PICK g : /\ g = [s \in SUBSET DOMAIN bits |-> IF s = {} THEN 0 ELSE (2 * g[s \ {Max(s)}]) + bits[Max(s)]]
               /\ Number(bits) = g[DOMAIN bits]
  BY <1>5, Zenon DEF Number, FoldLeft, MapThenFoldSet
<1> DEFINE v == [k \in 0..n |-> g[1..k]]
<1>7. v[0] = 0 /\ \A k \in 1..n : v[k] = (2 * v[k - 1]) + bits[k]
  <2>1. v[0] = g[{}] /\ {} \in SUBSET DOMAIN bits
    BY <1>1
  <2>2. ASSUME NEW k \in 1..n PROVE v[k] = (2 * v[k - 1]) + bits[k]
    <3>1. k \in 0..n /\ k - 1 \in 0..n
      BY <1>1
    <3>2. g[1..k] = (2 * g[(1..k) \ {Max(1..k)}]) + bits[Max(1..k)]
      BY <1>1, <1>6, Segment
    <3> QED BY <1>1, <3>1, <3>2, Segment
  <2> QED BY <1>6, <2>1, <2>2
<1>8. Number(bits) = v[n]
  BY <1>1, <1>6
<1> HIDE DEF v
<1> DEFINE T == {k \in 0..n : v[k] \in Nat}
<1>9. 0..n \subseteq T
  <2>1. 0 \in T
    BY <1>1, <1>7
  <2>2. ASSUME NEW k \in 1..n, k - 1 \in T PROVE k \in T
    BY <1>1, <1>7, <2>2 DEF Bits
  <2> HIDE DEF T
  <2> QED BY <1>1, <2>1, <2>2, InductionUpTo
<1>10. v \in [0..n -> Nat]
  BY <1>9 DEF v
<1> QED BY <1>7, <1>8, <1>10 DEF n

\* A sequence of sequences, by what is put together up to each of them
LEMMA FlattenTrace ==
  ASSUME NEW S, NEW seqs \in Seq(Seq(S))
  PROVE  \E v \in [0..Len(seqs) -> Seq(S)] :
           /\ v[0] = <<>> /\ \A k \in 1..Len(seqs) : v[k] = v[k - 1] \o seqs[k]
           /\ FlattenSeq(seqs) = v[Len(seqs)]
<1> DEFINE n == Len(seqs)
           IsTrace(f, k) == \A i \in 1..k : f[i] = IF i = 1 THEN seqs[i] ELSE f[i - 1] \o seqs[i]
           HasTrace(k) == \E f \in [1..k -> Seq(S)] : IsTrace(f, k)
<1>1. n \in Nat /\ \A k \in 1..n : seqs[k] \in Seq(S)
  OBVIOUS
<1>2. CASE n = 0
  <2> DEFINE v == [k \in 0..0 |-> <<>>]
  <2>1. seqs = <<>>
    BY <1>2
  <2>2. v \in [0..0 -> Seq(S)] /\ v[0] = <<>>
    OBVIOUS
  <2>3. FlattenSeq(seqs) = <<>> /\ Len(seqs) = 0
    BY <1>2, <2>1 DEF FlattenSeq
  <2> HIDE DEF v
  <2> QED BY <2>2, <2>3
<1>3. CASE n # 0
  <2> HIDE DEF n
  <2> DEFINE T == {k \in 0..n : HasTrace(k)}
  <2>1. HasTrace(0)
    <3>1. [i \in 1..0 |-> <<>>] \in [1..0 -> Seq(S)] /\ IsTrace([i \in 1..0 |-> <<>>], 0)
      OBVIOUS
    <3> QED BY <3>1
  <2>2. ASSUME NEW k \in 1..n, HasTrace(k - 1) PROVE HasTrace(k)
    <3>1. PICK f \in [1..k - 1 -> Seq(S)] : IsTrace(f, k - 1)
      BY <2>2
    <3> DEFINE last == IF k = 1 THEN seqs[k] ELSE f[k - 1] \o seqs[k]
               g == [i \in 1..k |-> IF i < k THEN f[i] ELSE last]
    <3>2. k = 1 \/ k - 1 \in 1..k - 1
      OBVIOUS
    <3>3. last \in Seq(S)
      BY <1>1, <3>2, ConcatProperties
    <3> HIDE DEF last
    <3>4. g \in [1..k -> Seq(S)] /\ g[k] = last
      BY <1>1, <3>3
    <3>5. ASSUME NEW i \in 1..k - 1 PROVE g[i] = f[i] /\ i \in 1..k /\ (i # 1 => i - 1 \in 1..k - 1)
      OBVIOUS
    <3> HIDE DEF g
    <3>6. ASSUME NEW i \in 1..k PROVE g[i] = IF i = 1 THEN seqs[i] ELSE g[i - 1] \o seqs[i]
      <4>1. CASE i = k
        BY <3>2, <3>4, <3>5, <4>1 DEF last
      <4>2. CASE i # k
        <5>1. i \in 1..k - 1
          BY <4>2
        <5> QED BY <3>1, <3>5, <5>1
      <4> QED BY <4>1, <4>2
    <3>7. IsTrace(g, k)
      BY <3>6
    <3> HIDE DEF IsTrace
    <3> QED BY <3>4, <3>7
  <2> HIDE DEF HasTrace
  <2>3. 0 \in T /\ \A k \in 1..n : k - 1 \in T => k \in T
    BY <1>1, <2>1, <2>2
  <2>4. n \in T
    <3> HIDE DEF T
    <3>1. 0..n \subseteq T
      BY <1>1, <2>3, InductionUpTo
    <3> QED BY <1>1, <3>1
  <2>5. PICK f \in [1..n -> Seq(S)] : IsTrace(f, n)
    BY <2>4 DEF HasTrace
  <2>6. f = [i \in 1..Len(seqs) |-> IF i = 1 THEN seqs[i] ELSE f[i - 1] \o seqs[i]]
    BY <2>5 DEF n
  <2>7. PICK g : /\ g = [i \in 1..Len(seqs) |-> IF i = 1 THEN seqs[i] ELSE g[i - 1] \o seqs[i]]
                 /\ FlattenSeq(seqs) = g[Len(seqs)]
    BY <1>3, <2>6, Zenon DEF FlattenSeq, n
  <2> DEFINE v == [k \in 0..n |-> IF k = 0 THEN <<>> ELSE g[k]]
  <2>8. v[0] = <<>> /\ FlattenSeq(seqs) = v[n]
    BY <1>1, <1>3, <2>7 DEF n
  <2>9. ASSUME NEW k \in 1..n PROVE v[k] = v[k - 1] \o seqs[k]
    <3>1. v[k] = g[k] /\ k - 1 \in 0..n
      BY <1>1
    <3>2. g[k] = IF k = 1 THEN seqs[k] ELSE g[k - 1] \o seqs[k]
      BY <2>7 DEF n
    <3>3. CASE k = 1
      <4>1. v[k - 1] = <<>> /\ seqs[k] \in Seq(S)
        BY <1>1, <3>1, <3>3
      <4> HIDE DEF v
      <4> QED BY <3>1, <3>2, <3>3, <4>1, ConcatEmptySeq
    <3>4. CASE k # 1
      <4>1. v[k - 1] = g[k - 1]
        BY <1>1, <3>1, <3>4
      <4> HIDE DEF v
      <4> QED BY <3>1, <3>2, <3>4, <4>1
    <3> QED BY <3>3, <3>4
  <2> HIDE DEF v
  <2> DEFINE U == {k \in 0..n : v[k] \in Seq(S)}
  <2>10. 0..n \subseteq U
    <3>1. 0 \in U
      <4>1. v[0] \in Seq(S)
        BY <2>8, EmptySeq, Zenon
      <4> QED BY <1>1, <4>1
    <3>2. ASSUME NEW k \in 1..n, k - 1 \in U PROVE k \in U
      <4>1. v[k - 1] \in Seq(S) /\ seqs[k] \in Seq(S) /\ v[k] = v[k - 1] \o seqs[k]
        BY <1>1, <2>9, <3>2
      <4>2. v[k] \in Seq(S)
        BY <4>1, ConcatProperties
      <4> QED BY <1>1, <4>2
    <3> HIDE DEF U
    <3> QED BY <1>1, <3>1, <3>2, InductionUpTo
  <2>11. v \in [0..n -> Seq(S)]
    BY <2>10 DEF v
  <2> QED BY <2>8, <2>9, <2>11 DEF n
<1> QED BY <1>2, <1>3
--------------------------------------------------------------------------------
(* Decoding, one bit after the other                                           *)

\* The position of a code, 0 if it is none
Found(code, codes) == SelectInSeq(codes, LAMBDA c : c = code)

LEMMA FoundFirst ==
  ASSUME NEW codes \in Seq(BitSeqs), NEW code
  PROVE  /\ Found(code, codes) \in 0..Len(codes)
         /\ Found(code, codes) # 0 => codes[Found(code, codes)] = code
         /\ Found(code, codes) = 0 => \A i \in 1..Len(codes) : codes[i] # code
<1> DEFINE I == {i \in 1..Len(codes) : codes[i] = code}
<1>1. Found(code, codes) = IF I # {} THEN Min(I) ELSE 0
  BY DEF Found, SelectInSeq
<1>2. CASE I = {}
  <2>1. Found(code, codes) = 0 /\ \A i \in 1..Len(codes) : codes[i] # code
    BY <1>1, <1>2
  <2>2. Len(codes) \in Nat
    OBVIOUS
  <2> HIDE DEF I
  <2> QED BY <2>1, <2>2
<1>3. CASE I # {}
  <2>1. I \subseteq Nat
    OBVIOUS
  <2>2. \A i \in I : i \in 1..Len(codes) /\ codes[i] = code
    OBVIOUS
  <2> HIDE DEF I
  <2>3. \E x \in I : \A y \in I : x <= y
    BY <1>3, <2>1, LeastElement
  <2>4. Min(I) \in I
    BY <2>3 DEF Min
  <2>5. Found(code, codes) = Min(I)
    BY <1>1, <1>3
  <2> QED BY <2>2, <2>4, <2>5
<1> QED BY <1>2, <1>3

\* One bit more
Extend(found, bit, codes) ==
  LET code == Append(found.code, bit)
  IN  IF Found(code, codes) # 0
      THEN [code |-> <<>>, data |-> Append(found.data, Found(code, codes) - 1)]
      ELSE [found EXCEPT !.code = code]

Nothing == [code |-> <<>>, data |-> <<>>]
States == [code : BitSeqs, data : Seq(Bytes)]

\* A code for each byte
IsTable(codes) == codes \in Seq(BitSeqs) /\ Len(codes) = Power[Width]

LEMMA ExtendType ==
  ASSUME NEW codes, IsTable(codes), NEW found \in States, NEW bit \in Bits
  PROVE  Extend(found, bit, codes) \in States
<1>1. found.code \in BitSeqs /\ found.data \in Seq(Bytes) /\ codes \in Seq(BitSeqs)
  BY DEF States, IsTable
<1>2. Append(found.code, bit) \in BitSeqs
  BY <1>1, AppendProperties DEF BitSeqs
<1>3. CASE Found(Append(found.code, bit), codes) # 0
  <2>1. Found(Append(found.code, bit), codes) - 1 \in Bytes
    BY <1>1, <1>3, FoundFirst DEF IsTable, Bytes
  <2>2. Append(found.data, Found(Append(found.code, bit), codes) - 1) \in Seq(Bytes)
    BY <1>1, <2>1, AppendProperties
  <2>3. <<>> \in BitSeqs
    BY EmptySeq DEF BitSeqs
  <2> QED BY <1>3, <2>2, <2>3 DEF Extend, States
<1>4. CASE Found(Append(found.code, bit), codes) = 0
  BY <1>2, <1>4 DEF Extend, States
<1> QED BY <1>3, <1>4

\* What has been found after each bit
IsReading(v, bits, codes) ==
  /\ v \in [0..Len(bits) -> States]
  /\ v[0] = Nothing /\ \A k \in 1..Len(bits) : v[k] = Extend(v[k - 1], bits[k], codes)

LEMMA NothingType == Nothing \in States
BY EmptySeq DEF Nothing, States, BitSeqs

LEMMA DecodeTrace ==
  ASSUME NEW bits \in BitSeqs, NEW codes, IsTable(codes)
  PROVE  \E v : IsReading(v, bits, codes) /\ Decode(bits, codes) = v[Len(bits)].data
<1> DEFINE n == Len(bits)
           step == [p \in States \X (1..n) |-> Extend(p[1], bits[p[2]], codes)]
<1>1. n \in Nat /\ DOMAIN bits = 1..n /\ \A k \in 1..n : bits[k] \in Bits
  BY DEF BitSeqs
<1>2. step \in [States \X (1..n) -> States]
  BY <1>1, ExtendType
<1> HIDE DEF n, step
<1>3. PICK f \in [SUBSET (1..n) -> States] : IsFold(f, Nothing, n, step)
  BY <1>1, <1>2, NothingType, FoldExists
<1>4. ASSUME NEW s \in SUBSET (1..n), s # {}
      PROVE  f[s] = Extend(f[s \ {Max(s)}], bits[Max(s)], codes)
  <2>1. Max(s) \in 1..n /\ f[s \ {Max(s)}] \in States
    BY <1>1, <1>4, MaxIn
  <2>2. step[<<f[s \ {Max(s)}], Max(s)>>] = Extend(f[s \ {Max(s)}], bits[Max(s)], codes)
    BY <2>1 DEF step
  <2> QED BY <1>3, <1>4, <2>2 DEF IsFold
<1>5. f = [s \in SUBSET DOMAIN bits |->
             IF s = {} THEN Nothing ELSE Extend(f[s \ {Max(s)}], bits[Max(s)], codes)]
  BY <1>1, <1>3, <1>4 DEF IsFold
<1>6. PICK g : /\ g = [s \in SUBSET DOMAIN bits |->
                         IF s = {} THEN Nothing ELSE Extend(g[s \ {Max(s)}], bits[Max(s)], codes)]
               /\ Decode(bits, codes) = g[DOMAIN bits].data
  BY <1>5, Zenon DEF Decode, FoldLeft, MapThenFoldSet, Extend, Found, Nothing
<1> DEFINE v == [k \in 0..n |-> g[1..k]]
<1>7. v[0] = Nothing /\ \A k \in 1..n : v[k] = Extend(v[k - 1], bits[k], codes)
  <2>1. v[0] = g[{}] /\ {} \in SUBSET DOMAIN bits
    BY <1>1
  <2>2. ASSUME NEW k \in 1..n PROVE v[k] = Extend(v[k - 1], bits[k], codes)
    <3>1. k \in 0..n /\ k - 1 \in 0..n
      BY <1>1
    <3>2. g[1..k] = Extend(g[(1..k) \ {Max(1..k)}], bits[Max(1..k)], codes)
      BY <1>1, <1>6, Segment
    <3> QED BY <1>1, <3>1, <3>2, Segment
  <2> QED BY <1>6, <2>1, <2>2
<1>8. Decode(bits, codes) = v[n].data
  BY <1>1, <1>6
<1> HIDE DEF v
<1> DEFINE T == {k \in 0..n : v[k] \in States}
<1>9. 0..n \subseteq T
  <2>1. 0 \in T
    BY <1>1, <1>7, NothingType
  <2>2. ASSUME NEW k \in 1..n, k - 1 \in T PROVE k \in T
    BY <1>1, <1>7, <2>2, ExtendType
  <2> HIDE DEF T
  <2> QED BY <1>1, <2>1, <2>2, InductionUpTo
<1>10. v \in [0..n -> States]
  BY <1>9 DEF v
<1> QED BY <1>7, <1>8, <1>10 DEF n, IsReading
--------------------------------------------------------------------------------
(* Numbers and their bits                                                      *)

LEMMA DivMod ==
  ASSUME NEW x \in Nat, NEW d \in Nat \ {0}
  PROVE  x \div d \in Nat /\ x % d \in 0..d - 1 /\ x = d * (x \div d) + (x % d)
OBVIOUS
LEMMA Quotient ==
  ASSUME NEW x \in Nat, NEW d \in Nat \ {0}, NEW q \in Nat, NEW r \in 0..d - 1, x = d * q + r
  PROVE  x \div d = q /\ x % d = r
OBVIOUS
LEMMA Halves ==
  ASSUME NEW x \in Nat, NEW p \in Nat \ {0}
  PROVE  (x \div p) \div 2 = x \div (2 * p)
<1> DEFINE q == x \div p
           h == q \div 2
           r == x % p
<1>1. q \in Nat /\ r \in 0..p - 1 /\ x = p * q + r
  BY DivMod
<1> HIDE DEF q, r
<1>2. h \in Nat /\ q = 2 * h + (q % 2) /\ q % 2 \in {0, 1}
  BY <1>1
<1> HIDE DEF h
<1>3. PICK b \in {0, 1} : q = 2 * h + b
  BY <1>2
<1>4. (p * b) + r \in 0..(2 * p) - 1 /\ 2 * p \in Nat \ {0}
  BY <1>1, <1>3
<1>5. x = (2 * p) * h + ((p * b) + r)
  <2>1. p * (2 * h + b) = (2 * p) * h + p * b
   BY <1>1, <1>2, <1>3
  <2> QED BY <1>1, <1>2, <1>3, <2>1
<1>6. x \div (2 * p) = h
  BY <1>2, <1>4, <1>5, Quotient
<1> QED BY <1>6 DEF h, q

\* The powers of two are what their recursion says.
LEMMA Powers ==
  /\ Power[0] = 1 /\ \A n \in 1..Width : Power[n] = 2 * Power[n - 1]
  /\ \A n \in 0..Width : Power[n] \in Nat /\ Power[n] > n
<1> DEFINE IsPower(f, n) == \A i \in 0..n : f[i] = IF i = 0 THEN 1 ELSE 2 * f[i - 1]
           HasPower(n) == \E f \in [0..n -> Nat] : IsPower(f, n)
           T == {n \in 0..Width : HasPower(n)}
<1>1. Width \in Nat \ {0}
  BY WidthAssumption
<1>2. HasPower(0)
  <2>1. [i \in 0..0 |-> 1] \in [0..0 -> Nat] /\ IsPower([i \in 0..0 |-> 1], 0)
    OBVIOUS
  <2> QED BY <2>1
<1>3. ASSUME NEW n \in 1..Width, HasPower(n - 1) PROVE HasPower(n)
  <2>1. PICK f \in [0..n - 1 -> Nat] : IsPower(f, n - 1)
    BY <1>3
  <2> DEFINE g == [i \in 0..n |-> IF i < n THEN f[i] ELSE 2 * f[n - 1]]
  <2>2. g \in [0..n -> Nat]
    OBVIOUS
  <2>3. ASSUME NEW i \in 0..n PROVE g[i] = IF i = 0 THEN 1 ELSE 2 * g[i - 1]
    BY <2>1
  <2> HIDE DEF g
  <2>4. IsPower(g, n)
    BY <2>3
  <2> HIDE DEF IsPower
  <2> QED BY <2>2, <2>4
<1>4. T = 0..Width
  <2> HIDE DEF HasPower
  <2>1. 0 \in T /\ \A n \in 1..Width : n - 1 \in T => n \in T
    BY <1>1, <1>2, <1>3
  <2>2. 0..Width \subseteq T
    <3> HIDE DEF T
    <3> QED BY <1>1, <2>1, InductionUpTo
  <2> QED BY <2>2
<1>5. PICK f \in [0..Width -> Nat] : IsPower(f, Width)
  <2> HIDE DEF HasPower
  <2>1. HasPower(Width)
    BY <1>1, <1>4
  <2> QED BY <2>1 DEF HasPower
<1>6. f = [n \in 0..Width |-> IF n = 0 THEN 1 ELSE 2 * f[n - 1]]
  BY <1>5
<1>7. Power = [n \in 0..Width |-> IF n = 0 THEN 1 ELSE 2 * Power[n - 1]]
  BY <1>6, Zenon DEF Power
<1>8. Power[0] = 1 /\ \A n \in 1..Width : Power[n] = 2 * Power[n - 1]
  BY <1>1, <1>7
<1> DEFINE U == {n \in 0..Width : Power[n] \in Nat /\ Power[n] > n}
<1>9. 0 \in U /\ \A n \in 1..Width : n - 1 \in U => n \in U
  BY <1>1, <1>8
<1>10. 0..Width \subseteq U
  <2> HIDE DEF U
  <2> QED BY <1>1, <1>9, InductionUpTo
<1> QED BY <1>8, <1>10

\* What dividing by a power of two leaves is halved by the next bit.
LEMMA ShiftOne ==
  ASSUME NEW x \in Nat, NEW i \in 1..Width
  PROVE  /\ x \div Power[Width - i] \in Nat
         /\ (x \div Power[Width - i]) \div 2 = x \div Power[Width - (i - 1)]
<1>1. Width \in Nat \ {0} /\ Width - i \in 0..Width /\ Width - (i - 1) \in 1..Width
      /\ (Width - (i - 1)) - 1 = Width - i
  BY WidthAssumption
<1>2. Power[Width - i] \in Nat \ {0} /\ Power[Width - (i - 1)] = 2 * Power[Width - i]
  <2>1. Power[Width - i] \in Nat /\ Power[Width - i] > Width - i
    BY <1>1, Powers
  <2>2. Power[Width - (i - 1)] = 2 * Power[(Width - (i - 1)) - 1]
    BY <1>1, Powers
  <2> QED BY <1>1, <2>1, <2>2
<1> QED BY <1>2, Halves, DivMod

LEMMA BitsOfType ==
  ASSUME NEW byte \in Bytes
  PROVE  BitsOf(byte) \in BitSeqs /\ Len(BitsOf(byte)) = Width
<1>1. byte \in Nat /\ Width \in Nat
  BY Powers, WidthAssumption DEF Bytes
<1>2. ASSUME NEW i \in 1..Width PROVE (byte \div Power[Width - i]) % 2 \in Bits
  BY <1>1, ShiftOne DEF Bits
<1> QED BY <1>1, <1>2 DEF BitsOf, BitSeqs

\* The bits of the number of Width bits are these bits.
LEMMA BitsOfNumber ==
  ASSUME NEW bits \in BitSeqs, Len(bits) = Width
  PROVE  Number(bits) \in Bytes /\ BitsOf(Number(bits)) = bits
<1> DEFINE x == Number(bits)
<1>1. PICK v \in [0..Width -> Nat] :
        /\ v[0] = 0 /\ \A k \in 1..Width : v[k] = (2 * v[k - 1]) + bits[k]
        /\ x = v[Width]
  BY NumberTrace
<1>2. Width \in Nat \ {0} /\ \A k \in 1..Width : bits[k] \in Bits
  BY WidthAssumption DEF BitSeqs
<1> HIDE DEF x
<1> DEFINE T == {k \in 0..Width : v[k] < Power[k]}
<1>3. 0..Width \subseteq T
  <2>1. 0 \in T
    BY <1>1, <1>2, Powers
  <2>2. ASSUME NEW k \in 1..Width, k - 1 \in T PROVE k \in T
    <3>1. k - 1 \in 0..Width /\ v[k - 1] \in Nat /\ Power[k - 1] \in Nat /\ v[k - 1] < Power[k - 1]
      BY <1>2, <2>2, Powers
    <3>2. v[k] = (2 * v[k - 1]) + bits[k] /\ Power[k] = 2 * Power[k - 1] /\ bits[k] \in {0, 1}
      BY <1>1, <1>2, Powers DEF Bits
    <3> QED BY <3>1, <3>2
  <2> HIDE DEF T
  <2> QED BY <1>2, <2>1, <2>2, InductionUpTo
<1>4. x \in Bytes
  <2>1. v[Width] < Power[Width] /\ v[Width] \in Nat /\ Power[Width] \in Nat
    BY <1>2, <1>3, Powers
  <2> QED BY <1>1, <2>1 DEF Bytes
<1> DEFINE U == {d \in 0..Width : v[Width - d] = x \div Power[d]}
<1>5. 0..Width \subseteq U
  <2>1. 0 \in U
    BY <1>1, <1>2, Powers
  <2>2. ASSUME NEW d \in 1..Width, d - 1 \in U PROVE d \in U
    <3> DEFINE i == Width - (d - 1)
    <3>1. i \in 1..Width /\ Width - i = d - 1 /\ Width - (i - 1) = d /\ i - 1 = Width - d /\ i - 1 \in 0..Width
      BY <1>2
    <3>2. v[i] = x \div Power[d - 1]
      BY <2>2
    <3> HIDE DEF i
    <3>3. v[i] \div 2 = x \div Power[d] /\ x \in Nat
      <4>1. x \in Nat
        BY <1>1, <1>2
      <4>2. (x \div Power[Width - i]) \div 2 = x \div Power[Width - (i - 1)]
        BY <3>1, <4>1, ShiftOne
      <4> QED BY <3>1, <3>2, <4>1, <4>2
    <3>4. v[i] = (2 * v[i - 1]) + bits[i] /\ bits[i] \in {0, 1} /\ v[i - 1] \in Nat
      BY <1>1, <1>2, <3>1 DEF Bits
    <3>5. v[i] \div 2 = v[i - 1]
      <4>1. PICK q \in Nat, b \in {0, 1} : q = v[i - 1] /\ b = bits[i] /\ v[i] = (2 * q) + b
        BY <3>4
      <4>2. ((2 * q) + b) \div 2 = q
        OBVIOUS
      <4> QED BY <4>1, <4>2
    <3> QED BY <3>1, <3>3, <3>5
  <2> HIDE DEF U
  <2> QED BY <1>2, <2>1, <2>2, InductionUpTo
<1>6. ASSUME NEW i \in 1..Width PROVE BitsOf(x)[i] = bits[i]
  <2>1. Width - i \in 0..Width /\ Width - (Width - i) = i
    BY <1>2
  <2>2. x \div Power[Width - i] = v[i]
    BY <1>5, <2>1
  <2>3. v[i] = (2 * v[i - 1]) + bits[i] /\ bits[i] \in {0, 1} /\ v[i - 1] \in Nat
    BY <1>1, <1>2 DEF Bits
  <2>4. v[i] % 2 = bits[i]
    BY <2>3
  <2> QED BY <2>2, <2>4 DEF BitsOf
<1>7. BitsOf(x) = bits
  <2>1. BitsOf(x) \in BitSeqs /\ Len(BitsOf(x)) = Width
    BY <1>4, BitsOfType
  <2> QED BY <1>6, <2>1, SeqEqual DEF BitSeqs
<1> QED BY <1>4, <1>7 DEF x

\* And the number of the bits of a byte is the byte.
LEMMA NumberOfBits ==
  ASSUME NEW byte \in Bytes
  PROVE  Number(BitsOf(byte)) = byte
<1> DEFINE bits == BitsOf(byte)
<1>1. bits \in BitSeqs /\ Len(bits) = Width
  BY BitsOfType
<1>2. PICK v \in [0..Width -> Nat] :
        /\ v[0] = 0 /\ \A k \in 1..Width : v[k] = (2 * v[k - 1]) + bits[k]
        /\ Number(bits) = v[Width]
  BY <1>1, NumberTrace
<1>3. Width \in Nat \ {0} /\ byte \in Nat /\ Power[Width] \in Nat /\ byte < Power[Width]
  BY WidthAssumption, Powers DEF Bytes
<1> DEFINE T == {k \in 0..Width : v[k] = byte \div Power[Width - k]}
<1>4. 0..Width \subseteq T
  <2>1. 0 \in T
    <3>1. byte \div Power[Width] = 0
      BY <1>3
    <3> QED BY <1>2, <1>3, <3>1
  <2>2. ASSUME NEW k \in 1..Width, k - 1 \in T PROVE k \in T
    <3> DEFINE q == byte \div Power[Width - k]
    <3>1. q \in Nat /\ q \div 2 = v[k - 1]
      BY <1>3, <2>2, ShiftOne
    <3>2. bits[k] = q % 2
      BY DEF BitsOf
    <3>3. v[k] = (2 * v[k - 1]) + bits[k]
      BY <1>2
    <3> HIDE DEF q, bits
    <3>4. v[k] = q
      BY <3>1, <3>2, <3>3
    <3> QED BY <3>4 DEF q
  <2> HIDE DEF T
  <2> QED BY <1>3, <2>1, <2>2, InductionUpTo
<1>5. v[Width] = byte \div Power[0]
  BY <1>3, <1>4
<1> QED BY <1>2, <1>3, <1>5, Powers

\* A number less than Width has no bit in front of its last ones.
LEMMA SmallNumber ==
  ASSUME NEW n \in 0..Width - 1, NEW i \in 1..Width - n
  PROVE  BitsOf(n)[i] = 0
<1>1. Width - i \in 0..Width /\ n <= Width - i /\ n \in Nat /\ i \in 1..Width
  BY WidthAssumption
<1>2. Power[Width - i] \in Nat /\ n < Power[Width - i]
  BY <1>1, Powers
<1>3. n \div Power[Width - i] = 0
  BY <1>1, <1>2
<1> QED BY <1>1, <1>3 DEF BitsOf
--------------------------------------------------------------------------------
(* Sequences put together, and what they begin with                            *)

Starts(p, s) == Len(p) <= Len(s) /\ \A i \in 1..Len(p) : s[i] = p[i]

LEMMA StartsIsPrefix ==
  ASSUME NEW S, NEW p \in Seq(S), NEW s \in Seq(S)
  PROVE  /\ IsPrefix(p, s) <=> Starts(p, s)
         /\ Starts(p, s) => SubSeq(s, 1, Len(p)) = p
<1>1. SubSeq(p, 1, Len(p)) = p
  BY SubSeqFull
<1>2. ASSUME Len(p) <= Len(s)
      PROVE  /\ SubSeq(s, 1, Len(p)) \in Seq(S) /\ Len(SubSeq(s, 1, Len(p))) = Len(p)
             /\ \A i \in 1..Len(p) : SubSeq(s, 1, Len(p))[i] = s[i]
  BY <1>2
<1>3. Starts(p, s) => SubSeq(s, 1, Len(p)) = p
  BY <1>2, SeqEqual DEF Starts
<1>4. ASSUME IsPrefix(p, s) PROVE Starts(p, s)
  <2>1. Len(p) <= Len(s) /\ p = SubSeq(s, 1, Len(p))
    BY <1>1, <1>4 DEF IsPrefix
  <2> QED BY <1>2, <2>1 DEF Starts
<1> QED BY <1>1, <1>3, <1>4 DEF IsPrefix, Starts

\* Where each of the sequences ends
IsPlaced(o, seqs) ==
  /\ o \in [0..Len(seqs) -> Nat]
  /\ o[0] = 0 /\ \A k \in 1..Len(seqs) : o[k] = o[k - 1] + Len(seqs[k])
  /\ Len(FlattenSeq(seqs)) = o[Len(seqs)] /\ \A k \in 0..Len(seqs) : o[k] <= o[Len(seqs)]
  /\ \A k \in 1..Len(seqs) : \A i \in 1..Len(seqs[k]) : FlattenSeq(seqs)[o[k - 1] + i] = seqs[k][i]

LEMMA FlattenAt ==
  ASSUME NEW S, NEW seqs \in Seq(Seq(S))
  PROVE  FlattenSeq(seqs) \in Seq(S) /\ \E o : IsPlaced(o, seqs)
<1> DEFINE n == Len(seqs)
<1>1. n \in Nat /\ \A k \in 1..n : seqs[k] \in Seq(S) /\ Len(seqs[k]) \in Nat
  OBVIOUS
<1>2. PICK v \in [0..n -> Seq(S)] :
        /\ v[0] = <<>> /\ \A k \in 1..n : v[k] = v[k - 1] \o seqs[k]
        /\ FlattenSeq(seqs) = v[n]
  BY FlattenTrace
<1> DEFINE o == [k \in 0..n |-> Len(v[k])]
<1>3. o \in [0..n -> Nat] /\ \A k \in 0..n : o[k] = Len(v[k])
  BY <1>1, <1>2
<1> HIDE DEF n, o
<1>4. ASSUME NEW k \in 1..n
      PROVE  /\ k - 1 \in 0..n /\ k \in 0..n /\ o[k] = o[k - 1] + Len(seqs[k])
             /\ \A i \in 1..o[k - 1] : v[k][i] = v[k - 1][i]
             /\ \A i \in 1..Len(seqs[k]) : v[k][o[k - 1] + i] = seqs[k][i]
  <2>1. k - 1 \in 0..n /\ k \in 0..n
    BY <1>1
  <2>2. v[k - 1] \in Seq(S) /\ seqs[k] \in Seq(S) /\ v[k] = v[k - 1] \o seqs[k]
    BY <1>1, <1>2, <2>1
  <2>3. PICK p \in Seq(S), q \in Seq(S), a \in Nat, b \in Nat :
          p = v[k - 1] /\ q = seqs[k] /\ a = Len(p) /\ b = Len(q)
    BY <2>2
  <2>4. v[k] = p \o q
    BY <2>2, <2>3
  <2>5. Len(p \o q) = a + b /\ \A i \in 1..a + b : (p \o q)[i] = IF i <= a THEN p[i] ELSE q[i - a]
    <3>1. /\ Len(p \o q) = Len(p) + Len(q)
          /\ \A i \in 1..Len(p) + Len(q) : (p \o q)[i] = IF i <= Len(p) THEN p[i] ELSE q[i - Len(p)]
      BY ConcatProperties
    <3> QED BY <2>3, <3>1
  <2>6. o[k - 1] = a /\ o[k] = a + b /\ Len(seqs[k]) = b
    BY <1>3, <2>1, <2>3, <2>4, <2>5
  <2>7. ASSUME NEW i \in 1..a PROVE v[k][i] = v[k - 1][i]
    <3>1. i \in 1..a + b /\ i <= a
      OBVIOUS
    <3>2. (p \o q)[i] = p[i]
      BY <2>5, <3>1
    <3> QED BY <2>3, <2>4, <3>2
  <2>8. ASSUME NEW i \in 1..b PROVE v[k][a + i] = seqs[k][i]
    <3>1. a + i \in 1..a + b /\ ~(a + i <= a) /\ (a + i) - a = i
      OBVIOUS
    <3> QED BY <2>3, <2>4, <2>5, <3>1
  <2> QED BY <2>1, <2>6, <2>7, <2>8
<1> DEFINE Kept(m) == \A k \in 0..m : o[k] <= o[m] /\ \A i \in 1..o[k] : v[m][i] = v[k][i]
           T == {m \in 0..n : Kept(m)}
<1>5. Kept(0)
  BY <1>1, <1>3
<1>6. ASSUME NEW m \in 1..n, Kept(m - 1) PROVE Kept(m)
  <2> SUFFICES ASSUME NEW k \in 0..m PROVE o[k] <= o[m] /\ \A i \in 1..o[k] : v[m][i] = v[k][i]
    OBVIOUS
  <2>1. CASE k = m
    BY <1>3, <1>4, <2>1
  <2>2. CASE k # m
    <3>1. k \in 0..m - 1 /\ k \in 0..n /\ m - 1 \in 0..n
      BY <1>1, <2>2
    <3>2. o[k] <= o[m - 1] /\ \A i \in 1..o[k] : v[m - 1][i] = v[k][i]
      BY <1>6, <3>1
    <3>3. o[m] = o[m - 1] + Len(seqs[m]) /\ Len(seqs[m]) \in Nat /\ o[m - 1] \in Nat /\ o[k] \in Nat
      BY <1>1, <1>3, <1>4, <3>1
    <3> QED BY <1>4, <3>2, <3>3
  <2> QED BY <2>1, <2>2
<1>7. Kept(n)
  <2> HIDE DEF Kept
  <2>1. 0 \in T /\ \A m \in 1..n : m - 1 \in T => m \in T
    BY <1>1, <1>5, <1>6
  <2> HIDE DEF T
  <2>2. 0..n \subseteq T
    BY <1>1, <2>1, InductionUpTo
  <2> QED BY <1>1, <2>2 DEF T
<1>8. ASSUME NEW k \in 1..n, NEW i \in 1..Len(seqs[k]) PROVE v[n][o[k - 1] + i] = seqs[k][i]
  <2>1. v[k][o[k - 1] + i] = seqs[k][i] /\ k \in 0..n
    BY <1>4
  <2>2. o[k - 1] + i \in 1..o[k]
    <3>1. o[k - 1] \in Nat /\ o[k] = o[k - 1] + Len(seqs[k]) /\ Len(seqs[k]) \in Nat
      BY <1>1, <1>3, <1>4
    <3> QED BY <3>1
  <2> QED BY <1>7, <2>1, <2>2
<1>9. o[0] = 0
  BY <1>1, <1>2, <1>3
<1>10. FlattenSeq(seqs) \in Seq(S) /\ Len(FlattenSeq(seqs)) = o[n]
  BY <1>1, <1>2, <1>3
<1>11. IsPlaced(o, seqs)
  BY <1>2, <1>3, <1>4, <1>7, <1>8, <1>9, <1>10 DEF IsPlaced, n
<1> QED BY <1>10, <1>11

\* The bits of a byte are where Width times the bytes before it are counted.
LEMMA UnpackAt ==
  ASSUME NEW data \in Seq(Bytes)
  PROVE  /\ Unpack(data) \in BitSeqs /\ Len(Unpack(data)) = Width * Len(data)
         /\ \A k \in 1..Len(data) : \A i \in 1..Width :
              Unpack(data)[(Width * (k - 1)) + i] = BitsOf(data[k])[i]
<1> DEFINE seqs == [i \in DOMAIN data |-> BitsOf(data[i])]
           n == Len(data)
<1>1. n \in Nat /\ Width \in Nat /\ \A k \in 1..n : data[k] \in Bytes
  BY WidthAssumption
<1>2. seqs \in Seq(BitSeqs) /\ Len(seqs) = n /\ \A k \in 1..n : seqs[k] = BitsOf(data[k]) /\ Len(seqs[k]) = Width
  <2>1. DOMAIN data = 1..n
    OBVIOUS
  <2>2. \A k \in 1..n : BitsOf(data[k]) \in BitSeqs /\ Len(BitsOf(data[k])) = Width
    BY <1>1, BitsOfType
  <2> HIDE DEF n
  <2> QED BY <1>1, <2>1, <2>2
<1> HIDE DEF seqs
<1>3. FlattenSeq(seqs) \in BitSeqs /\ \E o : IsPlaced(o, seqs)
  BY <1>2, FlattenAt DEF BitSeqs
<1>4. PICK o : IsPlaced(o, seqs)
  BY <1>3
<1> DEFINE T == {k \in 0..n : o[k] = Width * k}
<1>5. 0..n \subseteq T
  <2>1. 0 \in T
    BY <1>1, <1>4 DEF IsPlaced
  <2>2. ASSUME NEW k \in 1..n, k - 1 \in T PROVE k \in T
    <3>1. o[k] = o[k - 1] + Width /\ o[k - 1] = Width * (k - 1)
      BY <1>2, <1>4, <2>2 DEF IsPlaced
    <3>2. k \in Int /\ Width * (k - 1) + Width = Width * k
      BY <1>1
    <3> QED BY <3>1, <3>2
  <2> HIDE DEF T
  <2> QED BY <1>1, <2>1, <2>2, InductionUpTo
<1>6. Unpack(data) = FlattenSeq(seqs)
  BY DEF Unpack, seqs
<1>7. Len(Unpack(data)) = Width * n
  <2>1. Len(FlattenSeq(seqs)) = o[n]
    BY <1>2, <1>4 DEF IsPlaced
  <2>2. o[n] = Width * n
    BY <1>1, <1>5
  <2> QED BY <1>6, <2>1, <2>2
<1>8. ASSUME NEW k \in 1..n, NEW i \in 1..Width
      PROVE  Unpack(data)[(Width * (k - 1)) + i] = BitsOf(data[k])[i]
  <2>1. o[k - 1] = Width * (k - 1)
    BY <1>1, <1>5
  <2>2. FlattenSeq(seqs)[o[k - 1] + i] = seqs[k][i]
    BY <1>2, <1>4 DEF IsPlaced
  <2> QED BY <1>2, <1>6, <2>1, <2>2
<1> QED BY <1>3, <1>6, <1>7, <1>8
\* Every position is one of a bit in a byte.
LEMMA PositionOf ==
  ASSUME NEW m \in Nat, NEW p \in 1..Width * m
  PROVE  \E k \in 1..m : \E i \in 1..Width : p = (Width * (k - 1)) + i
<1> DEFINE q == (p - 1) \div Width
           r == (p - 1) % Width
<1>1. Width \in Nat \ {0} /\ p \in Nat \ {0} /\ p <= Width * m
  BY WidthAssumption
<1>2. q \in Nat /\ r \in 0..Width - 1 /\ p - 1 = (Width * q) + r
  <2>1. p - 1 \in Nat
    BY <1>1
  <2> QED BY <1>1, <2>1, DivMod
<1> HIDE DEF q, r
<1>3. q < m
  <2>1. Width * q < Width * m
    BY <1>1, <1>2
  <2> QED BY <1>1, <1>2, <2>1
<1>4. q + 1 \in 1..m /\ r + 1 \in 1..Width /\ (q + 1) - 1 = q /\ p = (Width * q) + (r + 1)
  BY <1>1, <1>2, <1>3
<1> QED BY <1>4

\* What is packed is unpacked again.
LEMMA PackAt ==
  ASSUME NEW bits \in BitSeqs, NEW m \in Nat, Len(bits) = Width * m
  PROVE  /\ Pack(bits) \in Seq(Bytes) /\ Len(Pack(bits)) = m
         /\ \A k \in 1..m : \A i \in 1..Width : BitsOf(Pack(bits)[k])[i] = bits[(Width * (k - 1)) + i]
<1> DEFINE part(k) == SubSeq(bits, Width * (k - 1) + 1, Width * k)
<1>1. Width \in Nat \ {0} /\ Len(bits) \div Width = m
  <2>1. Width \in Nat \ {0} /\ Len(bits) \in Nat /\ 0 \in 0..Width - 1 /\ Len(bits) = Width * m + 0
    BY WidthAssumption
  <2> QED BY <2>1, Quotient
<1>2. ASSUME NEW k \in 1..m
      PROVE  /\ part(k) \in BitSeqs /\ Len(part(k)) = Width
             /\ \A i \in 1..Width : part(k)[i] = bits[(Width * (k - 1)) + i]
  <2>1. PICK a \in Nat : a = Width * (k - 1)
    BY <1>1
  <2>2. Width * k = a + Width
    BY <1>1, <2>1
  <2>3. a + Width <= Len(bits)
    <3>1. Width * k <= Width * m
      BY <1>1
    <3> QED BY <2>2, <3>1
  <2>4. \A i \in a + 1..a + Width : bits[i] \in Bits
    BY <1>1, <2>1, <2>3 DEF BitSeqs
  <2> DEFINE s == SubSeq(bits, a + 1, a + Width)
  <2>5. /\ s \in Seq(Bits) /\ Len(s) = IF a + 1 <= a + Width THEN (a + Width) - (a + 1) + 1 ELSE 0
        /\ \A i \in 1..(a + Width) - (a + 1) + 1 : s[i] = bits[(a + 1) + i - 1]
    <3>1. a + 1 \in Int /\ a + Width \in Int
      BY <1>1, <2>1
    <3> HIDE DEF s
    <3> QED BY <2>4, <3>1, SubSeqProperties DEF s
  <2> HIDE DEF s
  <2>6. Len(s) = Width /\ \A i \in 1..Width : s[i] = bits[a + i]
    <3>1. (a + Width) - (a + 1) + 1 = Width /\ a + 1 <= a + Width
      BY <1>1, <2>1
    <3>2. \A i \in 1..Width : (a + 1) + i - 1 = a + i
      BY <1>1, <2>1
    <3> QED BY <2>5, <3>1, <3>2
  <2>7. part(k) = s
    BY <2>1, <2>2 DEF s
  <2> HIDE DEF part
  <2> QED BY <2>1, <2>5, <2>6, <2>7 DEF BitSeqs
<1>3. Pack(bits) = [k \in 1..m |-> Number(part(k))]
  BY <1>1 DEF Pack
<1> HIDE DEF part
<1>4. ASSUME NEW k \in 1..m PROVE Number(part(k)) \in Bytes /\ BitsOf(Number(part(k))) = part(k)
  BY <1>2, BitsOfNumber
<1>5. Pack(bits) \in Seq(Bytes) /\ Len(Pack(bits)) = m /\ \A k \in 1..m : Pack(bits)[k] = Number(part(k))
  BY <1>3, <1>4
<1> QED BY <1>2, <1>4, <1>5

LEMMA UnpackPack ==
  ASSUME NEW bits \in BitSeqs, NEW m \in Nat, Len(bits) = Width * m,
         NEW data \in Seq(Bytes), Starts(Pack(bits), data)
  PROVE  Starts(bits, Unpack(data)) /\ (Len(data) = m => Unpack(data) = bits)
<1>1. Width \in Nat \ {0} /\ Len(data) \in Nat
  BY WidthAssumption
<1>2. m <= Len(data) /\ \A k \in 1..m : data[k] = Pack(bits)[k]
  BY PackAt DEF Starts
<1>3. Unpack(data) \in BitSeqs /\ Len(Unpack(data)) = Width * Len(data)
  BY UnpackAt
<1>4. Len(bits) <= Len(Unpack(data))
  <2>1. Width * m <= Width * Len(data)
    BY <1>1, <1>2
  <2> QED BY <1>3, <2>1
<1>5. ASSUME NEW p \in 1..Len(bits) PROVE Unpack(data)[p] = bits[p]
  <2>1. PICK k \in 1..m, i \in 1..Width : p = (Width * (k - 1)) + i
    BY PositionOf
  <2>2. k \in 1..Len(data)
    BY <1>1, <1>2
  <2>3. Unpack(data)[(Width * (k - 1)) + i] = BitsOf(data[k])[i]
    BY <2>2, UnpackAt
  <2>4. BitsOf(data[k])[i] = bits[(Width * (k - 1)) + i]
    BY <1>2, PackAt
  <2> QED BY <2>1, <2>3, <2>4
<1>6. ASSUME Len(data) = m PROVE Unpack(data) = bits
  BY <1>3, <1>5, <1>6, SeqEqual DEF BitSeqs
<1> QED BY <1>4, <1>5, <1>6 DEF Starts

\* Padding makes whole bytes.
LEMMA PaddingFits ==
  ASSUME NEW n \in Nat
  PROVE  /\ Padding(n) \in 0..Width - 1 /\ Padding(n) \in Bytes
         /\ \E m \in Nat : n + Padding(n) = Width * m /\ (Padding(n) # 0 => m > 0)
         /\ \A m \in Nat : n = Width * m => Padding(n) = 0
<1> DEFINE q == n \div Width
           r == n % Width
<1>1. Width \in Nat \ {0} /\ Power[Width] \in Nat /\ Power[Width] > Width
  BY WidthAssumption, Powers
<1>2. q \in Nat /\ r \in 0..Width - 1 /\ n = (Width * q) + r
  BY <1>1, DivMod
<1>3. Padding(n) = (Width - r) % Width
  BY DEF Padding
<1> HIDE DEF q, r
<1>4. CASE r = 0
  <2>1. Padding(n) = 0
    BY <1>1, <1>3, <1>4
  <2>2. n + 0 = Width * q
    BY <1>1, <1>2, <1>4
  <2> QED BY <1>1, <1>2, <2>1, <2>2 DEF Bytes
<1>5. CASE r # 0
  <2>1. Padding(n) = Width - r
    BY <1>1, <1>2, <1>3, <1>5
  <2>2. n + (Width - r) = Width * (q + 1) /\ q + 1 \in Nat /\ q + 1 > 0
    BY <1>1, <1>2
  <2>3. ASSUME NEW m \in Nat, n = Width * m PROVE FALSE
    <3>1. 0 \in 0..Width - 1 /\ n = (Width * m) + 0
      BY <1>1, <2>3
    <3>2. n % Width = 0
      BY <1>1, <3>1, Quotient
    <3> QED BY <1>5, <3>2 DEF r
  <2>4. Padding(n) \in 0..Width - 1 /\ Padding(n) \in Bytes
    BY <1>1, <1>2, <1>5, <2>1 DEF Bytes
  <2>5. \E m \in Nat : n + Padding(n) = Width * m /\ (Padding(n) # 0 => m > 0)
    BY <2>1, <2>2
  <2> QED BY <2>3, <2>4, <2>5
<1> QED BY <1>4, <1>5
--------------------------------------------------------------------------------
(* Codes are found again                                                       *)

LEMMA TableOf ==
  ASSUME NEW codes, PrefixCode(codes)
  PROVE  /\ IsTable(codes) /\ codes \in Seq(BitSeqs) /\ DOMAIN codes = 1..Power[Width]
         /\ \A i \in 1..Power[Width] : codes[i] \in BitSeqs /\ Len(codes[i]) \in Nat \ {0}
         /\ \A i, j \in 1..Power[Width] : Starts(codes[i], codes[j]) => i = j
         /\ \A byte \in Bytes : byte + 1 \in 1..Power[Width]
<1>1. codes \in Seq(BitSeqs) /\ Len(codes) = Power[Width] /\ DOMAIN codes = 1..Power[Width]
  BY DEF PrefixCode, BitSeqs, Bits
<1>2. \A i \in 1..Power[Width] : codes[i] \in BitSeqs /\ codes[i] # <<>>
  BY <1>1 DEF PrefixCode
<1>3. \A i \in 1..Power[Width] : Len(codes[i]) \in Nat \ {0}
  BY <1>2, EmptySeq DEF BitSeqs
<1>4. ASSUME NEW i \in 1..Power[Width], NEW j \in 1..Power[Width], Starts(codes[i], codes[j]) PROVE i = j
  <2>1. IsPrefix(codes[i], codes[j])
    BY <1>2, <1>4, StartsIsPrefix DEF BitSeqs
  <2> QED BY <1>1, <2>1 DEF PrefixCode
<1>5. ASSUME NEW byte \in Bytes PROVE byte + 1 \in 1..Power[Width]
  <2>1. Power[Width] \in Nat /\ Width \in Nat
    BY Powers, WidthAssumption
  <2> QED BY <2>1 DEF Bytes
<1> QED BY <1>1, <1>2, <1>3, <1>4, <1>5 DEF IsTable

\* The codes that Encode puts together
CodesOf(data, codes) == [i \in DOMAIN data |-> codes[data[i] + 1]]

LEMMA EncodeAt ==
  ASSUME NEW codes, PrefixCode(codes), NEW data \in Seq(Bytes)
  PROVE  /\ Encode(data, codes) \in BitSeqs
         /\ \E o : IsPlaced(o, CodesOf(data, codes))
         /\ Len(CodesOf(data, codes)) = Len(data)
         /\ \A k \in 1..Len(data) : CodesOf(data, codes)[k] = codes[data[k] + 1]
         /\ Encode(data, codes) = FlattenSeq(CodesOf(data, codes))
<1>1. \A k \in 1..Len(data) : codes[data[k] + 1] \in BitSeqs
  <2>1. \A k \in 1..Len(data) : data[k] \in Bytes
    OBVIOUS
  <2> QED BY <2>1, TableOf
<1>2. CodesOf(data, codes) \in Seq(BitSeqs) /\ Len(CodesOf(data, codes)) = Len(data)
      /\ \A k \in 1..Len(data) : CodesOf(data, codes)[k] = codes[data[k] + 1]
  <2>1. DOMAIN data = 1..Len(data) /\ Len(data) \in Nat
    OBVIOUS
  <2> QED BY <1>1, <2>1 DEF CodesOf
<1>3. Encode(data, codes) = FlattenSeq(CodesOf(data, codes))
  BY DEF Encode, CodesOf
<1> HIDE DEF CodesOf
<1>4. FlattenSeq(CodesOf(data, codes)) \in Seq(Bits) /\ \E o : IsPlaced(o, CodesOf(data, codes))
  BY <1>2, FlattenAt DEF BitSeqs
<1> QED BY <1>2, <1>3, <1>4 DEF BitSeqs

\* The bits of a sequence up to one of them
LEMMA PartOf ==
  ASSUME NEW S, NEW c \in Seq(S), NEW i \in 1..Len(c)
  PROVE  /\ Append(SubSeq(c, 1, i - 1), c[i]) = SubSeq(c, 1, i)
         /\ SubSeq(c, 1, i) \in Seq(S) /\ Len(SubSeq(c, 1, i)) = i /\ Starts(SubSeq(c, 1, i), c)
<1>1. /\ SubSeq(c, 1, i) \in Seq(S) /\ Len(SubSeq(c, 1, i)) = i
      /\ \A j \in 1..i : SubSeq(c, 1, i)[j] = c[j]
  OBVIOUS
<1>2. /\ SubSeq(c, 1, i - 1) \in Seq(S) /\ Len(SubSeq(c, 1, i - 1)) = i - 1
      /\ \A j \in 1..i - 1 : SubSeq(c, 1, i - 1)[j] = c[j]
  OBVIOUS
<1> DEFINE p == SubSeq(c, 1, i - 1)
           s == SubSeq(c, 1, i)
<1> HIDE DEF p, s
<1>3. Append(p, c[i]) = s
  <2>1. c[i] \in S /\ p \in Seq(S) /\ s \in Seq(S) /\ Len(p) = i - 1 /\ Len(s) = i
    BY <1>1, <1>2 DEF p, s
  <2>2. /\ Append(p, c[i]) \in Seq(S) /\ Len(Append(p, c[i])) = Len(p) + 1
        /\ \A j \in 1..Len(p) : Append(p, c[i])[j] = p[j]
        /\ Append(p, c[i])[Len(p) + 1] = c[i]
    BY <2>1, AppendProperties
  <2>3. ASSUME NEW j \in 1..i PROVE Append(p, c[i])[j] = s[j]
    <3>1. CASE j = i
      BY <1>1, <2>1, <2>2, <3>1 DEF s
    <3>2. CASE j # i
      <4>1. j \in 1..i - 1
        BY <3>2
      <4> QED BY <1>1, <1>2, <2>1, <2>2, <4>1 DEF p, s
    <3> QED BY <3>1, <3>2
  <2> QED BY <2>1, <2>2, <2>3, SeqEqual
<1> QED BY <1>1, <1>3 DEF Starts, p, s

\* From the end of one code to the end of the next
CodeAt(c, bits, a) == a + Len(c) <= Len(bits) /\ \A i \in 1..Len(c) : bits[a + i] = c[i]
ReadsCode(v, a, n, byte) ==
  v[a].code = <<>> => v[a + n].code = <<>> /\ v[a + n].data = Append(v[a].data, byte)

LEMMA ReadCode ==
  ASSUME NEW codes, PrefixCode(codes), NEW bits \in BitSeqs, NEW v, IsReading(v, bits, codes),
         NEW byte \in Bytes, NEW a \in 0..Len(bits), CodeAt(codes[byte + 1], bits, a)
  PROVE  ReadsCode(v, a, Len(codes[byte + 1]), byte)
<1> SUFFICES ASSUME v[a].code = <<>>
             PROVE  /\ v[a + Len(codes[byte + 1])].code = <<>>
                    /\ v[a + Len(codes[byte + 1])].data = Append(v[a].data, byte)
  BY DEF ReadsCode
<1> DEFINE c == codes[byte + 1]
           n == Len(c)
           d == v[a].data
<1>1. /\ n \in Nat \ {0} /\ c \in Seq(Bits) /\ byte + 1 \in 1..Power[Width] /\ Len(bits) \in Nat
      /\ byte \in Nat /\ codes \in Seq(BitSeqs) /\ Len(codes) = Power[Width] /\ Power[Width] \in Nat
      /\ a \in Nat
  <2>1. Power[Width] \in Nat
    BY Powers, WidthAssumption
  <2> QED BY <2>1, TableOf DEF BitSeqs, Bytes, IsTable
<1>2. v[a] = [code |-> <<>>, data |-> d]
  <2>1. v[a] \in States
    BY DEF IsReading
  <2> QED BY <2>1 DEF States
<1> HIDE DEF d
<1> HIDE DEF c, n
<1>3. ASSUME NEW i \in 1..n
      PROVE  /\ a + (i - 1) = (a + i) - 1 /\ a + i \in 1..Len(bits) /\ bits[a + i] = c[i]
             /\ v[a + i] = Extend(v[(a + i) - 1], bits[a + i], codes)
  BY <1>1 DEF c, n, CodeAt, IsReading
<1>4. ASSUME NEW i \in 1..n PROVE Found(SubSeq(c, 1, i), codes) = IF i = n THEN byte + 1 ELSE 0
  <2> DEFINE p == SubSeq(c, 1, i)
  <2>1. /\ Found(p, codes) \in 0..Power[Width]
        /\ Found(p, codes) # 0 => codes[Found(p, codes)] = p
        /\ Found(p, codes) = 0 => \A j \in 1..Power[Width] : codes[j] # p
    BY <1>1, FoundFirst
  <2>2. Len(p) = i /\ Starts(p, c)
    BY <1>1, PartOf DEF n
  <2> HIDE DEF p
  <2>3. ASSUME Found(p, codes) # 0 PROVE Found(p, codes) = byte + 1 /\ i = n
    <3>1. Found(p, codes) \in 1..Power[Width] /\ codes[Found(p, codes)] = p
      BY <1>1, <2>1, <2>3
    <3>2. Found(p, codes) = byte + 1
      BY <1>1, <2>2, <3>1, TableOf DEF c
    <3> QED BY <2>2, <3>1, <3>2 DEF c, n
  <2>4. ASSUME i = n PROVE Found(p, codes) # 0
    <3>1. p = c
      BY <1>1, <2>4, SubSeqFull DEF n, p
    <3> QED BY <1>1, <2>1, <3>1 DEF c
  <2> QED BY <2>3, <2>4 DEF p
<1>5. ASSUME NEW i \in 1..n, v[a + (i - 1)] = [code |-> SubSeq(c, 1, i - 1), data |-> d]
      PROVE  v[a + i] = IF i = n THEN [code |-> <<>>, data |-> Append(d, byte)]
                        ELSE [code |-> SubSeq(c, 1, i), data |-> d]
  <2>1. Append(SubSeq(c, 1, i - 1), c[i]) = SubSeq(c, 1, i)
    BY <1>1, PartOf DEF n
  <2>2. v[a + i] = Extend([code |-> SubSeq(c, 1, i - 1), data |-> d], c[i], codes)
    BY <1>3, <1>5
  <2>3. CASE i = n
    <3>1. Found(SubSeq(c, 1, i), codes) = byte + 1 /\ byte + 1 # 0 /\ (byte + 1) - 1 = byte
      BY <1>1, <1>4, <2>3
    <3> QED BY <2>1, <2>2, <2>3, <3>1 DEF Extend
  <2>4. CASE i # n
    <3>1. Found(SubSeq(c, 1, i), codes) = 0
      BY <1>4, <2>4
    <3> QED BY <2>1, <2>2, <2>4, <3>1 DEF Extend
  <2> QED BY <2>3, <2>4
<1> DEFINE T == {i \in 0..n - 1 : v[a + i] = [code |-> SubSeq(c, 1, i), data |-> d]}
<1>6. n - 1 \in T
  <2>1. 0 \in T
    <3>1. SubSeq(c, 1, 0) = <<>>
      BY SubSeqEmpty
    <3> QED BY <1>2, <1>1, <3>1
  <2>2. ASSUME NEW i \in 1..n - 1, i - 1 \in T PROVE i \in T
    <3>1. i \in 1..n /\ i # n
      BY <1>1
    <3>2. v[a + (i - 1)] = [code |-> SubSeq(c, 1, i - 1), data |-> d]
      BY <2>2
    <3>3. v[a + i] = [code |-> SubSeq(c, 1, i), data |-> d]
      BY <1>5, <3>1, <3>2
    <3> QED BY <3>3
  <2> HIDE DEF T
  <2>3. n - 1 \in Nat
    BY <1>1
  <2>4. 0..n - 1 \subseteq T
    BY <2>1, <2>2, <2>3, InductionUpTo
  <2> QED BY <2>3, <2>4
<1>7. n \in 1..n
  BY <1>1
<1>8. v[a + n] = [code |-> <<>>, data |-> Append(d, byte)]
  BY <1>5, <1>6, <1>7
<1> QED BY <1>8 DEF c, n, d
\* What has been found stays; more of it comes behind.
LEMMA ReadingGrows ==
  ASSUME NEW codes, IsTable(codes), NEW bits \in BitSeqs, NEW v, IsReading(v, bits, codes),
         NEW a \in 0..Len(bits)
  PROVE  Starts(v[a].data, v[Len(bits)].data)
<1> DEFINE n == Len(bits)
           T == {k \in 0..n : k >= a => Starts(v[a].data, v[k].data)}
<1>1. n \in Nat /\ \A k \in 0..n : v[k] \in States /\ v[k].data \in Seq(Bytes)
  <2>1. n \in Nat /\ \A k \in 0..n : v[k] \in States
    BY DEF IsReading, BitSeqs
  <2> HIDE DEF n
  <2> QED BY <2>1 DEF States
<1>2. 0 \in T
  BY <1>1 DEF Starts
<1>3. ASSUME NEW k \in 1..n, k - 1 \in T PROVE k \in T
  <2> SUFFICES ASSUME k >= a PROVE Starts(v[a].data, v[k].data)
    OBVIOUS
  <2>1. CASE k = a
    BY <1>1, <2>1 DEF Starts
  <2>2. CASE k # a
    <3>1. Starts(v[a].data, v[k - 1].data) /\ k - 1 \in 0..n
      BY <1>1, <1>3, <2>2
    <3>2. v[k] = Extend(v[k - 1], bits[k], codes)
      BY DEF IsReading
    <3>3. CASE v[k].data = v[k - 1].data
      BY <3>1, <3>3
    <3>4. CASE v[k].data # v[k - 1].data
      <4>1. PICK byte : v[k].data = Append(v[k - 1].data, byte)
        <5>1. v[k - 1] \in States
          BY <1>1, <3>1
        <5>2. CASE Found(Append(v[k - 1].code, bits[k]), codes) # 0
          BY <3>2, <5>2 DEF Extend
        <5>3. CASE Found(Append(v[k - 1].code, bits[k]), codes) = 0
          <6>1. v[k] = [v[k - 1] EXCEPT !.code = Append(v[k - 1].code, bits[k])]
            BY <3>2, <5>3 DEF Extend
          <6> QED BY <3>4, <5>1, <6>1 DEF States
        <5> QED BY <5>2, <5>3
      <4>2. PICK d \in Seq(Bytes) : d = v[k - 1].data
        BY <1>1, <3>1
      <4>3. Len(Append(d, byte)) = Len(d) + 1 /\ \A i \in 1..Len(d) : Append(d, byte)[i] = d[i]
        OBVIOUS
      <4>4. PICK e \in Seq(Bytes) : e = v[a].data
        BY <1>1
      <4>5. Starts(e, Append(d, byte))
        BY <3>1, <4>2, <4>3, <4>4 DEF Starts
      <4> QED BY <4>1, <4>2, <4>4, <4>5
    <3> QED BY <3>3, <3>4
  <2> QED BY <2>1, <2>2
<1>4. n \in T
  <2> HIDE DEF T, n
  <2>1. 0..n \subseteq T
    BY <1>1, <1>2, <1>3, InductionUpTo
  <2> QED BY <1>1, <2>1
<1> QED BY <1>1, <1>4 DEF T

\* Bits that begin with the codes of the data are decoded to something that begins
\* with the data, and to the data if no bits follow.
LEMMA DecodeEncode ==
  ASSUME NEW codes, PrefixCode(codes), NEW data \in Seq(Bytes), NEW bits \in BitSeqs,
         Starts(Encode(data, codes), bits)
  PROVE  /\ Decode(bits, codes) \in Seq(Bytes) /\ Starts(data, Decode(bits, codes))
         /\ Len(bits) = Len(Encode(data, codes)) => Decode(bits, codes) = data
<1> DEFINE seqs == CodesOf(data, codes)
           n == Len(data)
<1>1. IsTable(codes) /\ n \in Nat /\ \A k \in 1..n : data[k] \in Bytes
  BY TableOf
<1>2. PICK v : IsReading(v, bits, codes) /\ Decode(bits, codes) = v[Len(bits)].data
  BY <1>1, DecodeTrace
<1>3. PICK o : IsPlaced(o, seqs)
  BY EncodeAt
<1>4. /\ Len(seqs) = n /\ \A k \in 1..n : seqs[k] = codes[data[k] + 1]
      /\ Encode(data, codes) = FlattenSeq(seqs) /\ Encode(data, codes) \in BitSeqs
  BY EncodeAt
<1> HIDE DEF seqs, n
<1>5. /\ \A k \in 0..n : o[k] \in 0..o[n]
      /\ \A k \in 1..n : o[k] = o[k - 1] + Len(seqs[k])
      /\ Len(FlattenSeq(seqs)) = o[n] /\ o[n] \in Nat /\ o[0] = 0
      /\ \A k \in 1..n : \A i \in 1..Len(seqs[k]) : FlattenSeq(seqs)[o[k - 1] + i] = seqs[k][i]
  <2>1. n \in 0..n
    BY <1>1
  <2> QED BY <1>3, <1>4, <2>1 DEF IsPlaced
<1>6. o[n] <= Len(bits) /\ Len(bits) \in Nat /\ \A p \in 1..o[n] : bits[p] = FlattenSeq(seqs)[p]
  BY <1>4, <1>5 DEF Starts, BitSeqs
<1> DEFINE T == {k \in 0..n : v[o[k]].code = <<>> /\ v[o[k]].data = SubSeq(data, 1, k)}
<1>7. 0 \in T
  <2>1. SubSeq(data, 1, 0) = <<>>
    BY SubSeqEmpty
  <2>2. v[0] = Nothing
    BY <1>2 DEF IsReading
  <2>3. v[0].code = <<>> /\ v[0].data = <<>>
    BY <2>2 DEF Nothing
  <2>4. v[o[0]].code = <<>> /\ v[o[0]].data = SubSeq(data, 1, 0)
    BY <1>5, <2>1, <2>3
  <2> QED BY <1>1, <2>4
<1>8. ASSUME NEW k \in 1..n, k - 1 \in T PROVE k \in T
  <2> DEFINE a == o[k - 1]
             d == SubSeq(data, 1, k - 1)
             byte == data[k]
             c == codes[byte + 1]
  <2>1. k - 1 \in 0..n /\ k \in 0..n /\ byte \in Bytes /\ a \in Nat /\ o[k] <= o[n] /\ o[k] \in Nat
    BY <1>1, <1>5
  <2>2. Len(c) \in Nat \ {0}
    BY <2>1, TableOf
  <2>3. o[k] = a + Len(c) /\ seqs[k] = c
    BY <1>4, <1>5
  <2>4. v[a].code = <<>> /\ v[a].data = d
    BY <1>8
  <2> HIDE DEF a, d, byte
  <2>5. a + Len(c) <= Len(bits)
    BY <1>5, <1>6, <2>1, <2>2, <2>3
  <2>6. ASSUME NEW i \in 1..Len(c) PROVE bits[a + i] = c[i]
    <3>1. a + i \in 1..o[n]
      BY <1>5, <2>1, <2>2, <2>3
    <3>2. FlattenSeq(seqs)[a + i] = seqs[k][i]
      BY <1>5, <2>3 DEF a
    <3> QED BY <1>6, <2>3, <3>1, <3>2
  <2>7. v[a + Len(c)].code = <<>> /\ v[a + Len(c)].data = Append(d, byte)
    <3>1. CodeAt(c, bits, a)
      BY <2>5, <2>6 DEF CodeAt
    <3>2. a \in 0..Len(bits)
      BY <1>5, <1>6, <2>1, <2>2, <2>5
    <3>3. byte \in Bytes /\ IsReading(v, bits, codes)
      BY <1>2, <2>1
    <3>4. ReadsCode(v, a, Len(c), byte)
      BY <3>1, <3>2, <3>3, ReadCode
    <3> QED BY <2>4, <3>4 DEF ReadsCode
  <2>8. Append(d, byte) = SubSeq(data, 1, k)
    BY PartOf DEF n, d, byte
  <2> QED BY <2>1, <2>3, <2>7, <2>8
<1>9. v[o[n]].data = data
  <2> HIDE DEF T
  <2>1. n \in T
    <3>1. 0..n \subseteq T
      BY <1>1, <1>7, <1>8, InductionUpTo
    <3> QED BY <1>1, <3>1
  <2>2. SubSeq(data, 1, n) = data
    BY SubSeqFull DEF n
  <2> QED BY <2>1, <2>2 DEF T
<1>10. Starts(data, Decode(bits, codes))
  <2>1. o[n] \in 0..Len(bits)
    BY <1>5, <1>6
  <2>2. Starts(v[o[n]].data, v[Len(bits)].data)
    BY <1>1, <1>2, <2>1, ReadingGrows
  <2> QED BY <1>2, <1>9, <2>2
<1>11. ASSUME Len(bits) = Len(Encode(data, codes)) PROVE Decode(bits, codes) = data
  <2>1. Len(bits) = o[n]
    BY <1>4, <1>5, <1>11
  <2> QED BY <1>2, <1>9, <2>1
<1>12. Decode(bits, codes) \in Seq(Bytes)
  <2>1. v[Len(bits)] \in States
    BY <1>2, <1>6 DEF IsReading
  <2> QED BY <1>2, <2>1 DEF States
<1> QED BY <1>10, <1>11, <1>12

\* What the decoders make of bits and of bytes is bytes.
LEMMA DecodeType ==
  ASSUME NEW codes, IsTable(codes), NEW bits \in BitSeqs
  PROVE  Decode(bits, codes) \in Seq(Bytes)
<1>1. PICK v : IsReading(v, bits, codes) /\ Decode(bits, codes) = v[Len(bits)].data
  BY DecodeTrace
<1>2. v[Len(bits)] \in States
  BY <1>1 DEF IsReading, BitSeqs
<1> QED BY <1>1, <1>2 DEF States

\* The bits of data, and zeros up to a whole byte
LEMMA PaddedBits ==
  ASSUME NEW codes, PrefixCode(codes), NEW data \in Seq(Bytes), NEW bits, bits = Encode(data, codes),
         NEW left, left = Padding(Len(bits))
  PROVE  /\ bits \in BitSeqs /\ bits \o Zeros(left) \in BitSeqs /\ left \in 0..Width - 1 /\ left \in Bytes
         /\ Len(bits \o Zeros(left)) = Len(bits) + left /\ Starts(bits, bits \o Zeros(left))
         /\ \E m \in Nat : Len(bits \o Zeros(left)) = Width * m /\ (left # 0 => m > 0)
         /\ bits \o Zeros(0) = bits
<1>1. bits \in BitSeqs /\ Len(bits) \in Nat
  BY EncodeAt DEF BitSeqs
<1>2. left \in 0..Width - 1 /\ left \in Bytes /\ \E m \in Nat : Len(bits) + left = Width * m /\ (left # 0 => m > 0)
  BY <1>1, PaddingFits
<1>3. ASSUME NEW n \in Nat PROVE Zeros(n) \in BitSeqs /\ Len(Zeros(n)) = n
  BY DEF Zeros, BitSeqs, Bits
<1>4. left \in Nat
  BY <1>2, WidthAssumption
<1>5. /\ bits \o Zeros(left) \in BitSeqs /\ Len(bits \o Zeros(left)) = Len(bits) + left
      /\ Starts(bits, bits \o Zeros(left))
  <2> DEFINE z == Zeros(left)
  <2>1. z \in Seq(Bits) /\ Len(z) = left
    BY <1>3, <1>4 DEF BitSeqs
  <2> HIDE DEF z
  <2>2. /\ bits \o z \in Seq(Bits) /\ Len(bits \o z) = Len(bits) + Len(z)
        /\ \A i \in 1..Len(bits) + Len(z) : (bits \o z)[i] = IF i <= Len(bits) THEN bits[i] ELSE z[i - Len(bits)]
    BY <1>1, <2>1, ConcatProperties DEF BitSeqs
  <2>3. Starts(bits, bits \o z)
    BY <1>1, <1>4, <2>1, <2>2 DEF Starts
  <2> QED BY <2>1, <2>2, <2>3 DEF z, BitSeqs
<1>6. bits \o Zeros(0) = bits
  <2>1. Zeros(0) = <<>>
    BY <1>3, EmptySeq DEF BitSeqs
  <2> QED BY <1>1, <2>1, ConcatEmptySeq DEF BitSeqs
<1> QED BY <1>1, <1>2, <1>5, <1>6
LEMMA StartsTransitive ==
  ASSUME NEW S, NEW p \in Seq(S), NEW q \in Seq(S), NEW r \in Seq(S), Starts(p, q), Starts(q, r)
  PROVE  Starts(p, r)
BY DEF Starts

LEMMA EncodeLength ==
  ASSUME NEW codes, PrefixCode(codes), NEW data \in Seq(Bytes)
  PROVE  /\ Len(Encode(data, codes)) \in Nat
         /\ data = <<>> => Len(Encode(data, codes)) = 0
         /\ data # <<>> => Len(Encode(data, codes)) > 0
<1> DEFINE seqs == CodesOf(data, codes)
           n == Len(data)
<1>1. PICK o : IsPlaced(o, seqs)
  BY EncodeAt
<1>2. /\ Len(seqs) = n /\ \A k \in 1..n : seqs[k] = codes[data[k] + 1]
      /\ Encode(data, codes) = FlattenSeq(seqs) /\ Encode(data, codes) \in BitSeqs
  BY EncodeAt
<1> HIDE DEF seqs
<1>3. n \in Nat /\ Len(FlattenSeq(seqs)) = o[n] /\ o[n] \in Nat /\ o[0] = 0
  BY <1>1, <1>2 DEF IsPlaced
<1>4. ASSUME data # <<>> PROVE o[n] > 0
  <2>1. 1 \in 1..n /\ 1 \in 0..n
    BY <1>3, <1>4, EmptySeq
  <2>2. data[1] \in Bytes
    BY <2>1
  <2>3. Len(seqs[1]) \in Nat \ {0}
    BY <1>2, <2>1, <2>2, TableOf
  <2>4. o[1] = o[1 - 1] + Len(seqs[1]) /\ o[1] <= o[n]
    BY <1>1, <1>2, <2>1 DEF IsPlaced
  <2> QED BY <1>3, <2>3, <2>4
<1>5. ASSUME data = <<>> PROVE n = 0
  BY <1>5
<1> HIDE DEF n
<1> QED BY <1>2, <1>3, <1>4, <1>5

\* Whatever is compressed comes back as it was from the decoder of the browser's
\* proxy and from that of the server, which only leaves alone what nothing was
\* compressed to: compress and decompress of compression.c and decompress of
\* decompressor.js, for bytes of any width and any dictionary whose codes can be
\* told apart.
THEOREM CompressionLosesNothing ==
  ASSUME NEW codes, PrefixCode(codes), NEW data \in Seq(Bytes)
  PROVE  /\ Compress(data, codes) \in Seq(Bytes) /\ Compress(data, codes) # <<>>
         /\ DecompressJS(Compress(data, codes), codes) = data
         /\ data # <<>> => Decompress(Compress(data, codes), codes) = data
<1> DEFINE bits == Encode(data, codes)
           left == Padding(Len(bits))
           padded == bits \o Zeros(left)
           packed == Pack(padded)
           compressed == Append(packed, left)
<1>1. Compress(data, codes) = compressed
  BY DEF Compress
<1>2. /\ bits \in BitSeqs /\ padded \in BitSeqs /\ left \in 0..Width - 1 /\ left \in Bytes
      /\ Len(padded) = Len(bits) + left /\ Starts(bits, padded)
      /\ \E m \in Nat : Len(padded) = Width * m /\ (left # 0 => m > 0)
  BY PaddedBits
<1>3. Len(bits) \in Nat /\ Width \in Nat \ {0} /\ left \in Nat
  BY <1>2, EncodeLength, WidthAssumption
<1>4. data = <<>> => Len(bits) = 0
  BY EncodeLength
<1>5. data # <<>> => Len(bits) > 0
  BY EncodeLength
<1>6. Decode(bits, codes) = data
  BY <1>2, DecodeEncode DEF Starts, BitSeqs
<1> HIDE DEF bits, left, padded
<1>7. PICK m \in Nat : Len(padded) = Width * m
  BY <1>2
<1>8. packed \in Seq(Bytes) /\ Len(packed) = m
  BY <1>2, <1>7, PackAt
<1> HIDE DEF packed
<1>9. /\ compressed \in Seq(Bytes) /\ compressed # <<>> /\ Len(compressed) = m + 1
      /\ compressed[m + 1] = left /\ Starts(packed, compressed)
  <2>1. /\ compressed \in Seq(Bytes) /\ compressed # <<>> /\ Len(compressed) = Len(packed) + 1
        /\ \A i \in 1..Len(packed) : compressed[i] = packed[i]
        /\ compressed[Len(packed) + 1] = left
    BY <1>2, <1>8, AppendProperties
  <2> HIDE DEF compressed
  <2>2. Len(packed) \in Nat
    BY <1>8
  <2>3. Starts(packed, compressed)
    BY <2>1, <2>2 DEF Starts
  <2> QED BY <1>8, <2>1, <2>3
<1> HIDE DEF compressed
<1>10. TotalBits(compressed) = Len(bits)
  <2>1. TotalBits(compressed) = ((m + 1) - 1) * Width - left
    BY <1>9 DEF TotalBits
  <2>2. ((m + 1) - 1) * Width = Width * m
    BY <1>3
  <2> QED BY <1>2, <1>3, <1>7, <2>1, <2>2
<1>11. Starts(padded, Unpack(compressed)) /\ Unpack(compressed) \in BitSeqs
  BY <1>2, <1>7, <1>9, UnpackPack, UnpackAt DEF packed
<1>12. Starts(bits, Unpack(compressed))
  BY <1>2, <1>11, StartsTransitive DEF BitSeqs
<1>13. SubSeq(Unpack(compressed), 1, TotalBits(compressed)) = bits
  BY <1>2, <1>10, <1>11, <1>12, StartsIsPrefix DEF BitSeqs
<1>14. DecompressJS(compressed, codes) = data
  <2>1. CASE data = <<>>
    BY <1>4, <1>10, <2>1 DEF DecompressJS
  <2>2. CASE data # <<>>
    <3>1. TotalBits(compressed) > 0 /\ ~(TotalBits(compressed) <= 0)
      BY <1>3, <1>5, <1>10, <2>2
    <3> QED BY <1>6, <1>9, <1>13, <3>1 DEF DecompressJS
  <2> QED BY <2>1, <2>2
<1>15. ASSUME data # <<>> PROVE Decompress(compressed, codes) = data
  <2>1. Len(bits) <= Width * Len(compressed)
    <3>1. Len(bits) <= Width * m
      BY <1>2, <1>3, <1>7
    <3>2. Width * m <= Width * (m + 1)
      BY <1>3
    <3> QED BY <1>3, <1>9, <3>1, <3>2
  <2>2. TotalBits(compressed) \in 1..Width * Len(compressed)
    <3>1. Width * Len(compressed) \in Int
      BY <1>3, <1>9
    <3> QED BY <1>3, <1>5, <1>10, <1>15, <2>1, <3>1
  <2> QED BY <1>6, <1>13, <2>2 DEF Decompress
<1> QED BY <1>1, <1>9, <1>14, <1>15

\* What either decoder makes of any bytes
LEMMA DecompressType ==
  ASSUME NEW codes, IsTable(codes), NEW data \in Seq(Bytes)
  PROVE  Decompress(data, codes) \in Seq(Bytes) /\ DecompressJS(data, codes) \in Seq(Bytes)
<1>1. Unpack(data) \in BitSeqs /\ Len(Unpack(data)) = Width * Len(data)
  BY UnpackAt
<1>2. Width \in Nat \ {0} /\ Len(data) \in Nat
  BY WidthAssumption
<1>3. ASSUME NEW n \in 1..Width * Len(data) PROVE Decode(SubSeq(Unpack(data), 1, n), codes) \in Seq(Bytes)
  <2>1. SubSeq(Unpack(data), 1, n) \in BitSeqs
    <3>1. \A i \in 1..n : Unpack(data)[i] \in Bits
      <4>1. PICK len \in Nat : len = Width * Len(data)
        BY <1>2
      <4> QED BY <1>1, <4>1 DEF BitSeqs
    <3>2. 1 \in Int /\ n \in Int
      OBVIOUS
    <3> QED BY <3>1, <3>2, SubSeqProperties DEF BitSeqs
  <2> QED BY <2>1, DecodeType
<1>4. ASSUME data # <<>> PROVE TotalBits(data) \in Int /\ TotalBits(data) <= Width * Len(data)
  <2>1. PICK len \in Nat \ {0} : len = Len(data)
    BY <1>2, <1>4, EmptySeq
  <2>2. data[len] \in Nat
    <3>1. data[len] \in Bytes /\ Power[Width] \in Nat
      BY <2>1, Powers, WidthAssumption
    <3> QED BY <3>1 DEF Bytes
  <2>3. TotalBits(data) = (len - 1) * Width - data[len]
    BY <2>1 DEF TotalBits
  <2>4. (len - 1) * Width \in Int /\ (len - 1) * Width <= Width * len
    BY <1>2
  <2> QED BY <1>2, <2>1, <2>2, <2>3, <2>4
<1>5. Decompress(data, codes) \in Seq(Bytes)
  BY <1>3 DEF Decompress
<1>6. DecompressJS(data, codes) \in Seq(Bytes)
  <2>1. CASE data = <<>> \/ TotalBits(data) <= 0
    BY <2>1, EmptySeq DEF DecompressJS
  <2>2. CASE ~(data = <<>> \/ TotalBits(data) <= 0)
    <3>1. TotalBits(data) \in 1..Width * Len(data)
      <4>1. Width * Len(data) \in Int
        BY <1>2
      <4> QED BY <1>4, <2>2, <4>1
    <3> QED BY <1>3, <2>2, <3>1 DEF DecompressJS
  <2> QED BY <2>1, <2>2
<1> QED BY <1>5, <1>6

\* Both decoders do the same where there are bits to decode.
LEMMA DecodersSame ==
  ASSUME NEW codes, NEW data \in Seq(Bytes), data # <<>>, TotalBits(data) > 0
  PROVE  Decompress(data, codes) = DecompressJS(data, codes)
<1>1. Width \in Nat \ {0} /\ Power[Width] \in Nat
  BY WidthAssumption, Powers
<1>2. PICK len \in Nat \ {0} : len = Len(data)
  BY EmptySeq
<1>3. data[len] \in Nat
  <2>1. data[len] \in Bytes
    BY <1>2
  <2> QED BY <1>1, <2>1 DEF Bytes
<1>4. TotalBits(data) = (len - 1) * Width - data[len]
  BY <1>2 DEF TotalBits
<1>5. (len - 1) * Width \in Int /\ (len - 1) * Width <= Width * len /\ Width * len \in Int
  BY <1>1
<1>6. TotalBits(data) \in 1..Width * len /\ ~(TotalBits(data) <= 0)
  BY <1>3, <1>4, <1>5
<1> QED BY <1>2, <1>6 DEF Decompress, DecompressJS
--------------------------------------------------------------------------------
(* The dictionary is read back                                                 *)

\* What stands at a place is what is cut out there.
LEMMA CutOut ==
  ASSUME NEW S, NEW s \in Seq(S), NEW p \in Seq(S), NEW a \in Nat, CodeAt(p, s, a)
  PROVE  SubSeq(s, a + 1, a + Len(p)) = p
<1> DEFINE n == Len(p)
           r == SubSeq(s, a + 1, a + n)
<1>1. n \in Nat /\ Len(s) \in Nat /\ a + n <= Len(s) /\ \A i \in 1..n : s[a + i] = p[i]
  BY DEF CodeAt
<1> HIDE DEF n
<1>2. \A i \in a + 1..a + n : s[i] \in S
  BY <1>1
<1>3. /\ r \in Seq(S) /\ Len(r) = IF a + 1 <= a + n THEN (a + n) - (a + 1) + 1 ELSE 0
      /\ \A i \in 1..(a + n) - (a + 1) + 1 : r[i] = s[(a + 1) + i - 1]
  <2>1. a + 1 \in Int /\ a + n \in Int
    BY <1>1
  <2> HIDE DEF r
  <2> QED BY <1>2, <2>1, SubSeqProperties DEF r
<1> HIDE DEF r
<1>4. Len(r) = n /\ \A i \in 1..n : r[i] = p[i]
  <2>1. (a + n) - (a + 1) + 1 = n /\ (a + 1 <= a + n <=> n # 0)
    BY <1>1
  <2>2. \A i \in 1..n : (a + 1) + i - 1 = a + i
    BY <1>1
  <2> QED BY <1>1, <1>3, <2>1, <2>2
<1> QED BY <1>3, <1>4, SeqEqual DEF n, r

LEMMA SizeOfRest ==
  ASSUME NEW n \in Nat, NEW s \in SUBSET (1..n)
  PROVE  /\ Cardinality(s) \in 0..n /\ (s = {} <=> Cardinality(s) = 0)
         /\ s # {} => s \ {Max(s)} \in SUBSET (1..n) /\ Cardinality(s \ {Max(s)}) = Cardinality(s) - 1
<1>1. IsFiniteSet(1..n) /\ Cardinality(1..n) = n
  BY FS_Interval
<1>2. IsFiniteSet(s) /\ Cardinality(s) <= n /\ Cardinality(s) \in Nat
  BY <1>1, FS_Subset, FS_CardinalityType
<1>3. s = {} <=> Cardinality(s) = 0
  BY <1>2, FS_EmptySet
<1>4. ASSUME s # {} PROVE Cardinality(s \ {Max(s)}) = Cardinality(s) - 1
  BY <1>2, <1>4, MaxIn, FS_RemoveElement
<1>5. Cardinality(s) \in 0..n
  BY <1>2
<1>6. s \ {Max(s)} \in SUBSET (1..n)
  OBVIOUS
<1> QED BY <1>3, <1>4, <1>5, <1>6

\* A fold that takes no notice of the items goes through one state after the other.
IsSteps(g, state, n) ==
  \A s \in SUBSET (1..n) : s # {} => \A k \in 1..n : g[s \ {Max(s)}] = state[k - 1] => g[s] = state[k]

LEMMA FoldBySize ==
  ASSUME NEW n \in Nat, NEW state, NEW g, g[{}] = state[0], IsSteps(g, state, n)
  PROVE  g[1..n] = state[n]
<1> DEFINE T == {k \in 0..n : g[1..k] = state[k]}
<1>1. 0 \in T
  <2>1. 1..0 = {}
    OBVIOUS
  <2> QED BY <2>1
<1>2. ASSUME NEW k \in 1..n, k - 1 \in T PROVE k \in T
  <2>1. g[(1..k) \ {Max(1..k)}] = state[k - 1]
    BY <1>2, Segment
  <2>2. g[1..k] = state[k]
    BY <2>1, Segment DEF IsSteps
  <2> QED BY <2>2
<1> HIDE DEF T
<1>3. 0..n \subseteq T
  BY <1>1, <1>2, InductionUpTo
<1> QED BY <1>3 DEF T

\* Where the entries are in the bits of the file
IsIndex(o, bits, codes) ==
  /\ o \in [0..Len(codes) -> Nat] /\ o[0] = 0
  /\ \A k \in 1..Len(codes) :
       /\ o[k] = (o[k - 1] + Width) + Len(codes[k]) /\ o[k] <= Len(bits)
       /\ SubSeq(bits, o[k - 1] + 1, o[k - 1] + Width) = BitsOf(Len(codes[k]))
       /\ SubSeq(bits, (o[k - 1] + Width) + 1, (o[k - 1] + Width) + Len(codes[k])) = codes[k]

LEMMA EntriesAt ==
  ASSUME NEW codes, NEW file \in Seq(Bytes), IsDictionary(file, codes)
  PROVE  \E o : IsIndex(o, Unpack(file), codes)
<1> DEFINE seqs == [i \in DOMAIN codes |-> BitsOf(Len(codes[i])) \o codes[i]]
           bits == Unpack(file)
           n == Len(codes)
<1>1. /\ PrefixCode(codes) /\ n \in Nat /\ DOMAIN codes = 1..n /\ Width \in Nat
      /\ \A i \in 1..n : codes[i] \in BitSeqs /\ Len(codes[i]) \in Nat /\ Len(codes[i]) \in Bytes
  <2>1. Power[Width] \in Nat /\ n = Power[Width] /\ PrefixCode(codes) /\ Width \in Nat
    BY Powers, WidthAssumption, TableOf DEF IsDictionary, IsTable
  <2>2. DOMAIN codes = 1..n
    BY <2>1, TableOf
  <2> QED BY <2>1, <2>2, TableOf DEF IsDictionary
<1> HIDE DEF n
<1>2. ASSUME NEW i \in 1..n
      PROVE  /\ seqs[i] \in BitSeqs /\ Len(seqs[i]) = Width + Len(codes[i])
             /\ BitsOf(Len(codes[i])) \in BitSeqs /\ Len(BitsOf(Len(codes[i]))) = Width
             /\ \A j \in 1..Width : seqs[i][j] = BitsOf(Len(codes[i]))[j]
             /\ \A j \in 1..Len(codes[i]) : seqs[i][Width + j] = codes[i][j]
  <2>1. PICK p \in Seq(Bits), c \in Seq(Bits) : p = BitsOf(Len(codes[i])) /\ c = codes[i]
    BY <1>1, BitsOfType DEF BitSeqs
  <2>2. seqs[i] = p \o c
    BY <1>1, <2>1
  <2>3. Len(p) = Width /\ Len(c) \in Nat
    BY <1>1, <2>1, BitsOfType
  <2>4. /\ p \o c \in Seq(Bits) /\ Len(p \o c) = Len(p) + Len(c)
        /\ \A j \in 1..Len(p) + Len(c) : (p \o c)[j] = IF j <= Len(p) THEN p[j] ELSE c[j - Len(p)]
    BY ConcatProperties
  <2>5. \A j \in 1..Width : (p \o c)[j] = p[j]
    BY <1>1, <2>3, <2>4
  <2>6. ASSUME NEW j \in 1..Len(c) PROVE (p \o c)[Width + j] = c[j]
    <3>1. Width + j \in 1..Width + Len(c) /\ ~(Width + j <= Width) /\ (Width + j) - Width = j
      BY <1>1, <2>3
    <3> QED BY <2>3, <2>4, <3>1
  <2> HIDE DEF seqs
  <2> QED BY <2>1, <2>2, <2>3, <2>4, <2>5, <2>6 DEF BitSeqs
<1>3. seqs \in Seq(BitSeqs) /\ Len(seqs) = n
  <2>1. seqs \in [1..n -> BitSeqs]
    <3>1. DOMAIN seqs = 1..n /\ seqs = [i \in 1..n |-> seqs[i]]
      BY <1>1
    <3> HIDE DEF seqs
    <3> QED BY <1>2, <3>1
  <2> HIDE DEF seqs
  <2> QED BY <1>1, <2>1
<1>4. Entries(codes) = FlattenSeq(seqs)
  BY DEF Entries
<1> HIDE DEF seqs
<1>5. FlattenSeq(seqs) \in Seq(Bits) /\ \E o : IsPlaced(o, seqs)
  BY <1>3, FlattenAt DEF BitSeqs
<1>6. PICK o : IsPlaced(o, seqs)
  BY <1>5
<1>7. bits \in Seq(Bits) /\ Len(bits) \in Nat /\ Starts(FlattenSeq(seqs), bits)
  <2>1. bits \in Seq(Bits)
    BY UnpackAt DEF BitSeqs
  <2> HIDE DEF bits
  <2>2. IsPrefix(FlattenSeq(seqs), bits)
    BY <1>4 DEF IsDictionary, bits
  <2> QED BY <1>5, <2>1, <2>2, StartsIsPrefix
<1> HIDE DEF bits
<1>8. /\ o \in [0..n -> Nat] /\ o[0] = 0 /\ o[n] = Len(FlattenSeq(seqs)) /\ o[n] \in Nat
      /\ \A k \in 0..n : o[k] <= o[n]
      /\ \A k \in 1..n : o[k] = o[k - 1] + Len(seqs[k])
      /\ \A k \in 1..n : \A i \in 1..Len(seqs[k]) : FlattenSeq(seqs)[o[k - 1] + i] = seqs[k][i]
  BY <1>1, <1>3, <1>6 DEF IsPlaced
<1>9. ASSUME NEW k \in 1..n
      PROVE  /\ o[k] = (o[k - 1] + Width) + Len(codes[k]) /\ o[k] <= Len(bits)
             /\ SubSeq(bits, o[k - 1] + 1, o[k - 1] + Width) = BitsOf(Len(codes[k]))
             /\ SubSeq(bits, (o[k - 1] + Width) + 1, (o[k - 1] + Width) + Len(codes[k])) = codes[k]
  <2>1. PICK a \in Nat, l \in Nat, p \in Seq(Bits), c \in Seq(Bits) :
          a = o[k - 1] /\ l = Len(c) /\ p = BitsOf(Len(codes[k])) /\ c = codes[k]
    <3>1. o[k - 1] \in Nat /\ Len(codes[k]) \in Nat
      BY <1>1, <1>8
    <3>2. codes[k] \in Seq(Bits) /\ BitsOf(Len(codes[k])) \in Seq(Bits)
      BY <1>1, <1>2 DEF BitSeqs
    <3> QED BY <3>1, <3>2
  <2>2. Len(seqs[k]) = Width + l /\ Len(p) = Width
    BY <1>2, <2>1
  <2>3. o[k] = a + (Width + l) /\ o[k] <= o[n] /\ o[n] <= Len(bits)
    <3>1. o[k] = o[k - 1] + Len(seqs[k]) /\ o[k] <= o[n]
      BY <1>1, <1>8
    <3>2. o[n] <= Len(bits)
      BY <1>7, <1>8 DEF Starts
    <3> QED BY <2>1, <2>2, <3>1, <3>2
  <2>4. PICK e \in Nat, len \in Nat : e = o[n] /\ len = Len(bits)
    BY <1>7, <1>8
  <2>5. a + (Width + l) <= e /\ e <= len
    BY <2>4, <2>3
  <2>6. ASSUME NEW i \in 1..Width + l PROVE a + i \in 1..Len(bits) /\ bits[a + i] = seqs[k][i]
    <3>1. a + i \in 1..o[n] /\ a + i \in 1..Len(bits)
      BY <1>1, <2>4, <2>5
    <3>2. FlattenSeq(seqs)[a + i] = seqs[k][i]
      BY <1>8, <2>1, <2>2
    <3> QED BY <1>7, <1>8, <3>1, <3>2 DEF Starts
  <2>7. CodeAt(p, bits, a)
    <3>1. \A i \in 1..Width : i \in 1..Width + l /\ seqs[k][i] = p[i]
      BY <1>1, <1>2, <2>1
    <3>2. a + Width <= Len(bits)
      BY <1>1, <2>4, <2>3, <2>5
    <3> QED BY <2>2, <2>6, <3>1, <3>2 DEF CodeAt
  <2>8. CodeAt(c, bits, a + Width)
    <3>1. ASSUME NEW i \in 1..l PROVE bits[(a + Width) + i] = c[i]
      <4>1. Width + i \in 1..Width + l /\ a + (Width + i) = (a + Width) + i
        BY <1>1, <2>1
      <4>2. seqs[k][Width + i] = c[i]
        BY <1>2, <2>1
      <4> QED BY <2>6, <4>1, <4>2
    <3>2. (a + Width) + l <= Len(bits)
      BY <1>1, <2>4, <2>3, <2>5
    <3> QED BY <2>1, <3>1, <3>2 DEF CodeAt
  <2>9. SubSeq(bits, a + 1, a + Width) = p
    BY <1>7, <2>1, <2>2, <2>7, CutOut
  <2>10. SubSeq(bits, (a + Width) + 1, (a + Width) + l) = c
    <3>1. a + Width \in Nat
      BY <1>1, <2>1
    <3> QED BY <1>7, <2>1, <2>8, <3>1, CutOut
  <2>11. o[k] = (a + Width) + l /\ o[k] <= Len(bits)
    BY <1>1, <2>4, <2>3, <2>5
  <2> QED BY <2>1, <2>9, <2>10, <2>11
<1>10. IsIndex(o, bits, codes)
  BY <1>8, <1>9 DEF IsIndex, n
<1> QED BY <1>10 DEF bits
\* One entry more, as create_map and as loadDictionary read it
ReadEntry(read, bits) ==
  LET length == Number(SubSeq(bits, read.count + 1, read.count + Width))
      from == read.count + Width
  IN  [count |-> from + length,
       codes |-> Append(read.codes, SubSeq(bits, from + 1, from + length))]

LoadEntry(read, bits) ==
  LET from == read.count + Width
      length == IF from > Len(bits) THEN 0 ELSE Number(SubSeq(bits, from - Width + 1, from))
  IN  [count |-> from + length,
       codes |-> Append(read.codes, IF from + length > Len(bits) THEN <<>>
                                    ELSE SubSeq(bits, from + 1, from + length))]

\* Both read the codes that are there, one after the other.
LEMMA ReadEntries ==
  ASSUME NEW codes, NEW file \in Seq(Bytes), IsDictionary(file, codes)
  PROVE  \E state : /\ state[0] = [count |-> 0, codes |-> <<>>]
                    /\ state[Power[Width]].codes = codes
                    /\ \A k \in 1..Power[Width] : /\ state[k] = ReadEntry(state[k - 1], Unpack(file))
                                                  /\ state[k] = LoadEntry(state[k - 1], Unpack(file))
<1> DEFINE bits == Unpack(file)
           n == Power[Width]
<1>1. /\ PrefixCode(codes) /\ codes \in Seq(BitSeqs) /\ Len(codes) = n /\ n \in Nat /\ Width \in Nat
      /\ \A k \in 1..n : Len(codes[k]) \in Nat /\ Len(codes[k]) \in Bytes
  <2>1. PrefixCode(codes) /\ DOMAIN codes = 1..n /\ n \in Nat /\ Width \in Nat
    BY Powers, WidthAssumption, TableOf DEF IsDictionary
  <2> QED BY <2>1, TableOf DEF IsDictionary, IsTable
<1>2. PICK o : IsIndex(o, bits, codes)
  BY EntriesAt
<1>3. Len(bits) \in Nat
  <2>1. bits \in BitSeqs
    BY UnpackAt
  <2> QED BY <2>1 DEF BitSeqs
<1> HIDE DEF bits, n
<1> DEFINE state == [k \in 0..n |-> [count |-> o[k], codes |-> SubSeq(codes, 1, k)]]
<1>4. state[0] = [count |-> 0, codes |-> <<>>]
  <2>1. SubSeq(codes, 1, 0) = <<>>
    BY SubSeqEmpty
  <2> QED BY <1>1, <1>2, <2>1 DEF IsIndex
<1>5. state[n].codes = codes
  <2>1. SubSeq(codes, 1, n) = codes
    BY <1>1, SubSeqFull
  <2> QED BY <1>1, <2>1
<1>6. ASSUME NEW k \in 1..n
      PROVE  state[k] = ReadEntry(state[k - 1], bits) /\ state[k] = LoadEntry(state[k - 1], bits)
  <2>1. PICK a \in Nat, l \in Nat : a = o[k - 1] /\ l = Len(codes[k])
    <3>1. k - 1 \in 0..n
      BY <1>1
    <3> QED BY <1>1, <1>2, <3>1 DEF IsIndex
  <2>2. /\ o[k] = (a + Width) + l /\ o[k] <= Len(bits) /\ SubSeq(bits, a + 1, a + Width) = BitsOf(l)
        /\ SubSeq(bits, (a + Width) + 1, (a + Width) + l) = codes[k]
    BY <1>1, <1>2, <2>1 DEF IsIndex
  <2>3. Number(BitsOf(l)) = l
    BY <1>1, <2>1, NumberOfBits
  <2>4. state[k - 1] = [count |-> a, codes |-> SubSeq(codes, 1, k - 1)]
        /\ state[k] = [count |-> (a + Width) + l, codes |-> SubSeq(codes, 1, k)]
    <3>1. k - 1 \in 0..n /\ k \in 0..n
      BY <1>1
    <3>2. state[k - 1] = [count |-> o[k - 1], codes |-> SubSeq(codes, 1, k - 1)]
          /\ state[k] = [count |-> o[k], codes |-> SubSeq(codes, 1, k)]
      BY <3>1
    <3> HIDE DEF state
    <3> QED BY <2>1, <2>2, <3>2
  <2>5. Append(SubSeq(codes, 1, k - 1), codes[k]) = SubSeq(codes, 1, k)
    BY <1>1, PartOf
  <2> HIDE DEF state
  <2>6. state[k - 1].count = a /\ state[k - 1].codes = SubSeq(codes, 1, k - 1)
    BY <2>4
  <2>7. state[k] = ReadEntry(state[k - 1], bits)
    BY <2>2, <2>3, <2>4, <2>5, <2>6 DEF ReadEntry
  <2>8. ~(a + Width > Len(bits)) /\ ~((a + Width) + l > Len(bits)) /\ (a + Width) - Width + 1 = a + 1
    <3>1. (a + Width) + l <= Len(bits)
      BY <2>2
    <3> QED BY <1>1, <1>3, <3>1
  <2>9. state[k] = LoadEntry(state[k - 1], bits)
    BY <2>2, <2>3, <2>4, <2>5, <2>6, <2>8 DEF LoadEntry
  <2> QED BY <2>7, <2>9
<1> HIDE DEF state
<1> QED BY <1>4, <1>5, <1>6 DEF bits, n

\* Both sides read the same codes from a dictionary file: those that its entries
\* say, as create_map of compression.c and loadDictionary of decompressor.js do.
THEOREM DictionaryReadBack ==
  ASSUME NEW codes, NEW file \in Seq(Bytes), IsDictionary(file, codes)
  PROVE  CreateMap(file) = codes /\ LoadDictionary(file) = codes
<1> DEFINE bits == Unpack(file)
           n == Power[Width]
           base == [count |-> 0, codes |-> <<>>]
           items == [b \in 1..Power[Width] |-> b]
<1>1. PICK state : /\ state[0] = base /\ state[n].codes = codes
                   /\ \A k \in 1..n : /\ state[k] = ReadEntry(state[k - 1], bits)
                                      /\ state[k] = LoadEntry(state[k - 1], bits)
  BY ReadEntries
<1>2. n \in Nat /\ DOMAIN items = 1..n
  BY Powers, WidthAssumption
<1> HIDE DEF n
<1> DEFINE f == [s \in SUBSET (1..n) |-> state[Cardinality(s)]]
<1>3. ASSUME NEW s \in SUBSET (1..n), s # {}
      PROVE  f[s] = ReadEntry(f[s \ {Max(s)}], bits) /\ f[s] = LoadEntry(f[s \ {Max(s)}], bits)
  <2>1. s \ {Max(s)} \in SUBSET (1..n) /\ Cardinality(s \ {Max(s)}) = Cardinality(s) - 1
        /\ Cardinality(s) \in 1..n
    <3>1. /\ Cardinality(s) \in 0..n /\ Cardinality(s) # 0
          /\ s \ {Max(s)} \in SUBSET (1..n) /\ Cardinality(s \ {Max(s)}) = Cardinality(s) - 1
      BY <1>2, <1>3, SizeOfRest
    <3> QED BY <1>2, <3>1
  <2>2. f[s] = state[Cardinality(s)] /\ f[s \ {Max(s)}] = state[Cardinality(s) - 1]
    BY <2>1
  <2> HIDE DEF f
  <2> QED BY <1>1, <2>1, <2>2
<1>4. f[{}] = base
  BY <1>1, <1>2, SizeOfRest
<1>5. f = [s \in SUBSET DOMAIN items |-> IF s = {} THEN base ELSE ReadEntry(f[s \ {Max(s)}], bits)]
  BY <1>2, <1>3, <1>4
<1>6. f = [s \in SUBSET DOMAIN items |-> IF s = {} THEN base ELSE LoadEntry(f[s \ {Max(s)}], bits)]
  BY <1>2, <1>3, <1>4
<1> HIDE DEF f
<1>7. PICK g : /\ g = [s \in SUBSET DOMAIN items |->
                         IF s = {} THEN base ELSE ReadEntry(g[s \ {Max(s)}], bits)]
               /\ CreateMap(file) = g[DOMAIN items].codes
  BY <1>5, Zenon DEF CreateMap, FoldLeft, MapThenFoldSet, ReadEntry
<1>8. PICK h : /\ h = [s \in SUBSET DOMAIN items |->
                         IF s = {} THEN base ELSE LoadEntry(h[s \ {Max(s)}], bits)]
               /\ LoadDictionary(file) = h[DOMAIN items].codes
  BY <1>6, Zenon DEF LoadDictionary, FoldLeft, MapThenFoldSet, LoadEntry
<1> HIDE DEF items, base, bits
<1>9. g[1..n] = state[n]
  <2>1. g[{}] = state[0]
    BY <1>1, <1>2, <1>7
  <2>2. IsSteps(g, state, n)
    BY <1>1, <1>2, <1>7 DEF IsSteps
  <2> QED BY <1>2, <2>1, <2>2, FoldBySize
<1>10. h[1..n] = state[n]
  <2>1. h[{}] = state[0]
    BY <1>1, <1>2, <1>8
  <2>2. IsSteps(h, state, n)
    BY <1>1, <1>2, <1>8 DEF IsSteps
  <2> QED BY <1>2, <2>1, <2>2, FoldBySize
<1> QED BY <1>1, <1>2, <1>7, <1>8, <1>9, <1>10
--------------------------------------------------------------------------------
(* The codecs that do not send the number of padding bits                      *)

\* A node of the trie holds the byte whose code ends there.
LEMMA TrieAt ==
  ASSUME NEW codes, PrefixCode(codes)
  PROVE  /\ <<>> \in DOMAIN Trie(codes)
         /\ \A node \in DOMAIN Trie(codes) :
              /\ Found(node, codes) = 0 => Trie(codes)[node] = Inner
              /\ Found(node, codes) # 0 =>
                   Trie(codes)[node] = Found(node, codes) - 1 /\ Trie(codes)[node] # Inner
<1> DEFINE trie == Trie(codes)
           n == Power[Width]
           BytesAt(node) == {i - 1 : i \in {j \in DOMAIN codes : codes[j] = node}}
<1>1. /\ n \in Nat \ {0} /\ DOMAIN codes = 1..n /\ codes \in Seq(BitSeqs) /\ Len(codes) = n
      /\ \A i \in 1..n : codes[i] \in BitSeqs
      /\ \A i, j \in 1..n : Starts(codes[i], codes[j]) => i = j
  <2>1. n \in Nat \ {0}
    BY Powers, WidthAssumption
  <2>2. codes \in Seq(BitSeqs) /\ Len(codes) = n
    BY TableOf DEF IsTable
  <2> QED BY <2>1, <2>2, TableOf
<1>2. /\ DOMAIN trie = UNION {Prefixes(codes[i]) : i \in DOMAIN codes}
      /\ \A node \in DOMAIN trie : trie[node] = IF BytesAt(node) = {} THEN Inner ELSE Max(BytesAt(node))
  BY DEF Trie
<1>3. <<>> \in DOMAIN trie
  <2>1. 1 \in DOMAIN codes /\ Len(codes[1]) \in Nat
    BY <1>1 DEF BitSeqs
  <2>2. SubSeq(codes[1], 1, 0) = <<>>
    BY SubSeqEmpty
  <2>3. <<>> \in Prefixes(codes[1])
    BY <2>1, <2>2 DEF Prefixes
  <2> HIDE DEF trie
  <2> QED BY <1>2, <2>1, <2>3
<1> HIDE DEF trie, n
<1>4. ASSUME NEW node \in DOMAIN trie
      PROVE  /\ Found(node, codes) = 0 => trie[node] = Inner
             /\ Found(node, codes) # 0 => trie[node] = Found(node, codes) - 1 /\ trie[node] # Inner
  <2>1. CASE Found(node, codes) = 0
    <3>1. BytesAt(node) = {}
      BY <1>1, <2>1, FoundFirst
    <3> QED BY <1>2, <2>1, <3>1
  <2>2. CASE Found(node, codes) # 0
    <3>1. PICK f \in 1..n : f = Found(node, codes) /\ codes[f] = node
      BY <1>1, <2>2, FoundFirst
    <3>2. ASSUME NEW j \in DOMAIN codes, codes[j] = node PROVE j = f
      <4>1. Starts(codes[j], codes[f])
        <5>1. node \in Seq(Bits)
          BY <1>1, <3>1 DEF BitSeqs
        <5> QED BY <3>1, <3>2, <5>1 DEF Starts
      <4> QED BY <1>1, <3>2, <4>1
    <3>3. {j \in DOMAIN codes : codes[j] = node} = {f}
      BY <1>1, <3>1, <3>2
    <3>4. BytesAt(node) = {f - 1}
      BY <3>3
    <3>5. f - 1 \in Nat
      BY <1>1
    <3>6. Max({f - 1}) = f - 1
      BY <3>5 DEF Max
    <3>7. trie[node] = f - 1
      BY <1>2, <3>4, <3>6
    <3> QED BY <2>2, <3>1, <3>5, <3>7 DEF Inner
  <2> QED BY <2>1, <2>2
<1> QED BY <1>3, <1>4 DEF trie

Walks == [valid : BOOLEAN, node : BitSeqs, data : Seq(Bytes)]
AtRoot == [valid |-> TRUE, node |-> <<>>, data |-> <<>>]
WalkOn(walk, bit, trie) == Follow(walk, Append(walk.node, bit), trie)

LEMMA WalkType ==
  ASSUME NEW codes, PrefixCode(codes), NEW walk \in Walks, NEW bit \in Bits
  PROVE  WalkOn(walk, bit, Trie(codes)) \in Walks
<1> DEFINE trie == Trie(codes)
           node == Append(walk.node, bit)
<1>1. walk.node \in BitSeqs /\ walk.data \in Seq(Bytes) /\ node \in BitSeqs /\ <<>> \in BitSeqs
  <2>1. walk.node \in BitSeqs /\ walk.data \in Seq(Bytes)
    BY DEF Walks
  <2> QED BY <2>1, AppendProperties, EmptySeq DEF BitSeqs
<1>2. ASSUME node \in DOMAIN trie, trie[node] # Inner PROVE Append(walk.data, trie[node]) \in Seq(Bytes)
  <2>1. IsTable(codes) /\ codes \in Seq(BitSeqs) /\ Power[Width] \in Nat
    BY TableOf, Powers, WidthAssumption
  <2>2. Found(node, codes) # 0 /\ trie[node] = Found(node, codes) - 1
    BY <1>2, TrieAt
  <2>3. Found(node, codes) \in 0..Power[Width]
    BY <2>1, FoundFirst DEF IsTable
  <2>4. trie[node] \in Bytes
    BY <2>1, <2>2, <2>3 DEF Bytes
  <2> HIDE DEF trie, node
  <2> QED BY <1>1, <2>4, AppendProperties
<1> HIDE DEF trie, node
<1>3. Follow(walk, node, trie) \in Walks
  <2>1. CASE ~walk.valid \/ node \notin DOMAIN trie
    BY <2>1 DEF Follow, Walks
  <2>2. CASE ~(~walk.valid \/ node \notin DOMAIN trie)
    <3>1. CASE trie[node] = Inner
      BY <1>1, <2>2, <3>1 DEF Follow, Walks
    <3>2. CASE trie[node] # Inner
      <4>1. Append(walk.data, trie[node]) \in Seq(Bytes)
        BY <1>2, <2>2, <3>2
      <4>2. Follow(walk, node, trie) = [walk EXCEPT !.node = <<>>, !.data = Append(walk.data, trie[node])]
        BY <2>2, <3>2 DEF Follow
      <4> QED BY <1>1, <4>1, <4>2 DEF Walks
    <3> QED BY <3>1, <3>2
  <2> QED BY <2>1, <2>2
<1> QED BY <1>3 DEF WalkOn, node, trie

\* Where the walk is after each bit
LEMMA WalkTrace ==
  ASSUME NEW codes, PrefixCode(codes), NEW data \in Seq(Bytes)
  PROVE  \E w : /\ w[0] = AtRoot
                /\ \A k \in 1..Len(Unpack(data)) : w[k] = WalkOn(w[k - 1], Unpack(data)[k], Trie(codes))
                /\ DecompressTrie(data, Trie(codes)) =
                     LET walk == w[Len(Unpack(data))] IN IF walk.valid THEN walk.data ELSE data
<1> DEFINE bits == Unpack(data)
           trie == Trie(codes)
           n == Len(bits)
           step == [p \in Walks \X (1..n) |-> WalkOn(p[1], bits[p[2]], trie)]
<1>1. n \in Nat /\ DOMAIN bits = 1..n /\ \A k \in 1..n : bits[k] \in Bits
  <2>1. bits \in BitSeqs
    BY UnpackAt
  <2> HIDE DEF bits
  <2> QED BY <2>1 DEF BitSeqs
<1>2. step \in [Walks \X (1..n) -> Walks]
  BY <1>1, WalkType
<1> HIDE DEF n, step
<1>3. PICK f \in [SUBSET (1..n) -> Walks] : IsFold(f, AtRoot, n, step)
  <2>1. AtRoot \in Walks
    BY EmptySeq DEF AtRoot, Walks, BitSeqs
  <2> QED BY <1>1, <1>2, <2>1, FoldExists
<1>4. ASSUME NEW s \in SUBSET (1..n), s # {}
      PROVE  f[s] = WalkOn(f[s \ {Max(s)}], bits[Max(s)], trie)
  <2>1. Max(s) \in 1..n /\ f[s \ {Max(s)}] \in Walks
    BY <1>1, <1>4, MaxIn
  <2>2. step[<<f[s \ {Max(s)}], Max(s)>>] = WalkOn(f[s \ {Max(s)}], bits[Max(s)], trie)
    BY <2>1 DEF step
  <2> QED BY <1>3, <1>4, <2>2 DEF IsFold
<1>5. f = [s \in SUBSET DOMAIN bits |->
             IF s = {} THEN AtRoot ELSE WalkOn(f[s \ {Max(s)}], bits[Max(s)], trie)]
  BY <1>1, <1>3, <1>4 DEF IsFold
<1>6. PICK g : /\ g = [s \in SUBSET DOMAIN bits |->
                         IF s = {} THEN AtRoot ELSE WalkOn(g[s \ {Max(s)}], bits[Max(s)], trie)]
               /\ DecompressTrie(data, trie) = IF g[DOMAIN bits].valid THEN g[DOMAIN bits].data ELSE data
  BY <1>5, Zenon DEF DecompressTrie, FoldLeft, MapThenFoldSet, WalkOn, AtRoot
<1> DEFINE w == [k \in 0..n |-> g[1..k]]
<1>7. w[0] = AtRoot /\ \A k \in 1..n : w[k] = WalkOn(w[k - 1], bits[k], trie)
  <2>1. w[0] = g[{}] /\ {} \in SUBSET DOMAIN bits
    BY <1>1
  <2>2. ASSUME NEW k \in 1..n PROVE w[k] = WalkOn(w[k - 1], bits[k], trie)
    <3>1. k \in 0..n /\ k - 1 \in 0..n
      BY <1>1
    <3>2. g[1..k] = WalkOn(g[(1..k) \ {Max(1..k)}], bits[Max(1..k)], trie)
      BY <1>1, <1>6, Segment
    <3> QED BY <1>1, <3>1, <3>2, Segment
  <2> QED BY <1>6, <2>1, <2>2
<1>8. DecompressTrie(data, trie) = IF w[n].valid THEN w[n].data ELSE data
  BY <1>1, <1>6
<1> HIDE DEF w
<1> QED BY <1>7, <1>8 DEF n
\* In all bits, those of the padding too, the trie of compression_opt.c finds what
\* the search through the codes of compression_optimized.c finds, if both bits go
\* on from each of its inner nodes.
THEOREM TrieFindsTheSame ==
  ASSUME NEW codes, PrefixCode(codes), Complete(codes), NEW data \in Seq(Bytes)
  PROVE  DecompressTrie(data, Trie(codes)) = DecompressAll(data, codes)
<1> DEFINE bits == Unpack(data)
           trie == Trie(codes)
           n == Len(bits)
<1>1. /\ bits \in BitSeqs /\ n \in Nat /\ IsTable(codes)
      /\ \A k \in 1..n : bits[k] \in Bits
  <2>1. bits \in BitSeqs
    BY UnpackAt
  <2> HIDE DEF bits
  <2> QED BY <2>1, TableOf DEF BitSeqs
<1>2. PICK v : IsReading(v, bits, codes) /\ Decode(bits, codes) = v[n].data
  BY <1>1, DecodeTrace
<1>3. PICK w : /\ w[0] = AtRoot /\ \A k \in 1..n : w[k] = WalkOn(w[k - 1], bits[k], trie)
               /\ DecompressTrie(data, trie) = IF w[n].valid THEN w[n].data ELSE data
  BY WalkTrace
<1>4. /\ <<>> \in DOMAIN trie
      /\ \A node \in DOMAIN trie : /\ Found(node, codes) = 0 => trie[node] = Inner
                                   /\ Found(node, codes) # 0 => trie[node] = Found(node, codes) - 1 /\ trie[node] # Inner
      /\ \A node \in DOMAIN trie : trie[node] = Inner => {Append(node, 0), Append(node, 1)} \subseteq DOMAIN trie
  BY TrieAt DEF Complete
<1>5. Found(<<>>, codes) = 0
  <2>1. codes \in Seq(BitSeqs) /\ Power[Width] \in Nat
    BY TableOf, Powers, WidthAssumption
  <2>2. CASE Found(<<>>, codes) # 0
    <3>1. Found(<<>>, codes) \in 1..Power[Width] /\ codes[Found(<<>>, codes)] = <<>>
      BY <1>1, <2>1, <2>2, FoundFirst DEF IsTable
    <3> QED BY <3>1, TableOf
  <2> QED BY <2>2
<1> HIDE DEF bits, trie, n
<1> DEFINE Same(k) == /\ w[k] = [valid |-> TRUE, node |-> v[k].code, data |-> v[k].data]
                      /\ v[k].code \in DOMAIN trie /\ Found(v[k].code, codes) = 0
           T == {k \in 0..n : Same(k)}
<1>6. Same(0)
  <2>1. v[0] = Nothing
    BY <1>2 DEF IsReading
  <2>2. v[0].code = <<>> /\ v[0].data = <<>>
    BY <2>1 DEF Nothing
  <2> QED BY <1>3, <1>4, <1>5, <2>2 DEF AtRoot
<1>7. ASSUME NEW k \in 1..n, Same(k - 1) PROVE Same(k)
  <2> DEFINE c == Append(v[k - 1].code, bits[k])
  <2>1. v[k] = Extend(v[k - 1], bits[k], codes) /\ v[k - 1] \in States
    <3>1. k - 1 \in 0..n
      BY <1>1
    <3> QED BY <1>2, <3>1 DEF IsReading, n
  <2>2. w[k] = Follow([valid |-> TRUE, node |-> v[k - 1].code, data |-> v[k - 1].data], c, trie)
    BY <1>3, <1>7 DEF WalkOn
  <2>3. c \in DOMAIN trie
    <3>1. trie[v[k - 1].code] = Inner
      BY <1>4, <1>7
    <3>2. bits[k] = 0 \/ bits[k] = 1
      BY <1>1 DEF Bits
    <3> QED BY <1>4, <1>7, <3>1, <3>2
  <2> HIDE DEF c
  <2>4. CASE Found(c, codes) = 0
    <3>1. trie[c] = Inner
      BY <1>4, <2>3, <2>4
    <3>2. w[k] = [valid |-> TRUE, node |-> c, data |-> v[k - 1].data]
      BY <2>2, <2>3, <3>1 DEF Follow
    <3>3. v[k] = [v[k - 1] EXCEPT !.code = c]
      BY <2>1, <2>4 DEF Extend, c
    <3>4. v[k].code = c /\ v[k].data = v[k - 1].data
      BY <2>1, <3>3 DEF States
    <3> QED BY <2>3, <2>4, <3>2, <3>4
  <2>5. CASE Found(c, codes) # 0
    <3>1. trie[c] = Found(c, codes) - 1 /\ trie[c] # Inner
      BY <1>4, <2>3, <2>5
    <3>2. w[k] = [valid |-> TRUE, node |-> <<>>, data |-> Append(v[k - 1].data, Found(c, codes) - 1)]
      BY <2>2, <2>3, <3>1 DEF Follow
    <3>3. v[k] = [code |-> <<>>, data |-> Append(v[k - 1].data, Found(c, codes) - 1)]
      BY <2>1, <2>5 DEF Extend, c
    <3>4. v[k].code = <<>> /\ v[k].data = Append(v[k - 1].data, Found(c, codes) - 1)
      BY <3>3
    <3> QED BY <1>4, <1>5, <3>2, <3>4
  <2> QED BY <2>4, <2>5
<1>8. Same(n)
  <2> HIDE DEF Same
  <2>1. 0 \in T /\ \A k \in 1..n : k - 1 \in T => k \in T
    BY <1>1, <1>6, <1>7
  <2> HIDE DEF T
  <2>2. 0..n \subseteq T
    BY <1>1, <2>1, InductionUpTo
  <2> QED BY <1>1, <2>2 DEF T
<1>9. w[n].valid /\ w[n].data = v[n].data
  BY <1>8
<1> QED BY <1>2, <1>3, <1>9 DEF DecompressAll, bits, trie

\* Bytes that begin with the codes of the data are decoded to bytes that begin with
\* the data.
LEMMA DecodesPayload ==
  ASSUME NEW codes, PrefixCode(codes), NEW data \in Seq(Bytes), NEW packed \in Seq(Bytes),
         Starts(Encode(data, codes), Unpack(packed))
  PROVE  /\ IsPrefix(data, DecompressAll(packed, codes))
         /\ Len(Unpack(packed)) = Len(Encode(data, codes)) => DecompressAll(packed, codes) = data
<1>1. Unpack(packed) \in BitSeqs
  BY UnpackAt
<1>2. /\ Decode(Unpack(packed), codes) \in Seq(Bytes) /\ Starts(data, Decode(Unpack(packed), codes))
      /\ Len(Unpack(packed)) = Len(Encode(data, codes)) => Decode(Unpack(packed), codes) = data
  BY <1>1, DecodeEncode
<1> QED BY <1>2, StartsIsPrefix DEF DecompressAll

\* Packed and unpacked, bits are as they were.
LEMMA PackedBits ==
  ASSUME NEW bits \in BitSeqs, NEW m \in Nat, Len(bits) = Width * m
  PROVE  Pack(bits) \in Seq(Bytes) /\ Unpack(Pack(bits)) = bits
<1>1. Pack(bits) \in Seq(Bytes) /\ Len(Pack(bits)) = m
  BY PackAt
<1> DEFINE packed == Pack(bits)
<1>2. Starts(Pack(bits), packed)
  BY <1>1 DEF Starts
<1>3. packed \in Seq(Bytes) /\ Len(packed) = m
  BY <1>1
<1>4. Unpack(packed) = bits
  <2> HIDE DEF packed
  <2> QED BY <1>2, <1>3, UnpackPack
<1> QED BY <1>1, <1>4

\* Where the trie's compress_optimized shortens data, its decompress_optimized gives
\* it back, perhaps with bytes behind it that were padding.
THEOREM ShorterKeepsPayload ==
  ASSUME NEW codes, PrefixCode(codes), Complete(codes), NEW data \in Seq(Bytes),
         CompressShorter(data, codes) # data
  PROVE  IsPrefix(data, DecompressTrie(CompressShorter(data, codes), Trie(codes)))
<1> DEFINE bits == Encode(data, codes)
           left == Padding(Len(bits))
           padded == bits \o Zeros(left)
           packed == Pack(padded)
<1>1. CompressShorter(data, codes) = packed
  BY DEF CompressShorter
<1>2. /\ padded \in BitSeqs /\ Starts(bits, padded)
      /\ \E m \in Nat : Len(padded) = Width * m /\ (left # 0 => m > 0)
  BY PaddedBits
<1> HIDE DEF bits, padded
<1>3. packed \in Seq(Bytes) /\ Unpack(packed) = padded
  BY <1>2, PackedBits
<1> HIDE DEF packed
<1>4. IsPrefix(data, DecompressAll(packed, codes))
  BY <1>2, <1>3, DecodesPayload DEF bits
<1> QED BY <1>1, <1>3, <1>4, TrieFindsTheSame
\* The bits with the number of those that are left written over the last byte
Counted(padded, left) ==
  LET full == Len(padded) - Width
      last == [i \in 1..Width |-> IF 1 \in {padded[full + i], Count(left)[i]} THEN 1 ELSE 0]
  IN  SubSeq(padded, 1, full) \o last

\* The number of padding bits that compression_optimized.c writes over the last
\* byte stays within them.
LEMMA CountInPadding ==
  ASSUME NEW bits \in BitSeqs, NEW left \in 1..Width - 1, NEW m \in Nat \ {0},
         NEW padded \in BitSeqs, Starts(bits, padded), Len(padded) = Len(bits) + left,
         Len(padded) = Width * m
  PROVE  /\ Counted(padded, left) \in BitSeqs /\ Len(Counted(padded, left)) = Width * m
         /\ Starts(bits, Counted(padded, left))
<1> DEFINE full == Len(padded) - Width
           last == [i \in 1..Width |-> IF 1 \in {padded[full + i], Count(left)[i]} THEN 1 ELSE 0]
<1>1. PICK len \in Nat, size \in Nat : len = Len(bits) /\ size = Len(padded)
  BY DEF BitSeqs
<1>2. Width \in Nat \ {0} /\ left \in Nat /\ left < Width
  BY WidthAssumption
<1>3. size = len + left /\ full = size - Width /\ size = Width * m
  BY <1>1
<1>4. last \in Seq(Bits) /\ Len(last) = Width /\ \A i \in 1..Width :
         last[i] = IF 1 \in {padded[full + i], Count(left)[i]} THEN 1 ELSE 0
  BY <1>2 DEF Bits
<1>5. Counted(padded, left) = SubSeq(padded, 1, full) \o last
  BY DEF Counted
<1> HIDE DEF full, last
<1>6. full \in Nat /\ full + Width = size /\ full + (Width - left) = len
  <2>1. Width * m >= Width
    BY <1>2
  <2> QED BY <1>2, <1>3, <2>1
<1> DEFINE front == SubSeq(padded, 1, full)
<1>7. front \in Seq(Bits) /\ Len(front) = full /\ \A i \in 1..full : front[i] = padded[i]
  <2>1. full \in 0..Len(padded)
    BY <1>2, <1>1, <1>3, <1>6
  <2> QED BY <2>1 DEF BitSeqs
<1> HIDE DEF front
<1>8. /\ front \o last \in Seq(Bits) /\ Len(front \o last) = Len(front) + Len(last)
      /\ \A i \in 1..Len(front) + Len(last) :
           (front \o last)[i] = IF i <= Len(front) THEN front[i] ELSE last[i - Len(front)]
  <2>1. front \in Seq(Bits) /\ last \in Seq(Bits)
    BY <1>7, <1>4
  <2> QED BY <2>1, ConcatProperties
<1>9. ASSUME NEW i \in 1..Width - left PROVE last[i] = padded[full + i]
  <2>1. i \in 1..Width /\ full + i \in 1..Len(padded) /\ left \in 0..Width - 1
    BY <1>2, <1>1, <1>3, <1>6
  <2>2. Count(left)[i] = 0
    BY <2>1, SmallNumber DEF Count
  <2>3. padded[full + i] \in {0, 1}
    BY <2>1 DEF BitSeqs, Bits
  <2> QED BY <1>4, <2>1, <2>2, <2>3
<1>10. ASSUME NEW i \in 1..len PROVE (front \o last)[i] = bits[i]
  <2>1. padded[i] = bits[i] /\ i \in 1..full + Width
    BY <1>2, <1>1, <1>3, <1>6 DEF Starts
  <2>2. CASE i <= full
    <3>1. i \in 1..full
      BY <2>2
    <3> QED BY <1>7, <1>4, <1>8, <2>1, <2>2, <3>1
  <2>3. CASE ~(i <= full)
    <3>1. i - full \in 1..Width - left /\ full + (i - full) = i
      BY <1>2, <1>3, <1>6, <2>3
    <3>2. last[i - full] = padded[i]
      BY <1>9, <3>1
    <3> QED BY <1>7, <1>4, <1>8, <2>1, <2>3, <3>2
  <2> QED BY <2>2, <2>3
<1>11. Len(front \o last) = size /\ len <= size
  BY <1>2, <1>3, <1>6, <1>7, <1>4, <1>8
<1>12. Starts(bits, front \o last)
  BY <1>1, <1>10, <1>11 DEF Starts
<1> QED BY <1>5, <1>3, <1>8, <1>11, <1>12 DEF front, BitSeqs

\* What compress_optimized of compression_optimized.c makes of data its decompressor
\* gives back, perhaps with bytes behind it that were padding: the number of padding
\* bits, written over the last byte, reaches no bit of a code.
THEOREM CountingKeepsPayload ==
  ASSUME NEW codes, PrefixCode(codes), NEW data \in Seq(Bytes)
  PROVE  IsPrefix(data, DecompressAll(CompressCounting(data, codes), codes))
<1> DEFINE bits == Encode(data, codes)
           left == Padding(Len(bits))
           padded == bits \o Zeros(left)
           kept == IF left = 0 THEN bits ELSE Counted(padded, left)
<1>1. CompressCounting(data, codes) = Pack(kept)
  BY DEF CompressCounting, Counted
<1>2. /\ bits \in BitSeqs /\ padded \in BitSeqs /\ left \in 0..Width - 1 /\ Starts(bits, padded)
      /\ Len(padded) = Len(bits) + left /\ bits \o Zeros(0) = bits
      /\ \E m \in Nat : Len(padded) = Width * m /\ (left # 0 => m > 0)
  BY PaddedBits
<1>3. PICK m \in Nat : Len(padded) = Width * m /\ (left # 0 => m > 0)
  BY <1>2
<1> HIDE DEF bits, left
<1>4. kept \in BitSeqs /\ Len(kept) = Width * m /\ Starts(bits, kept)
  <2>1. CASE left = 0
    BY <1>2, <1>3, <2>1
  <2>2. CASE left # 0
    <3>1. left \in 1..Width - 1 /\ m \in Nat \ {0}
      BY <1>2, <1>3, <2>2, WidthAssumption
    <3>2. kept = Counted(padded, left)
      BY <2>2
    <3> HIDE DEF padded, kept
    <3> QED BY <1>2, <1>3, <3>1, <3>2, CountInPadding
  <2> QED BY <2>1, <2>2
<1> HIDE DEF kept
<1>5. Pack(kept) \in Seq(Bytes) /\ Unpack(Pack(kept)) = kept
  BY <1>4, PackedBits
<1> QED BY <1>1, <1>4, <1>5, DecodesPayload DEF bits

\* The bytes are codes of themselves that can be told apart.
LEMMA IdentityCodes == PrefixCode(Identity) /\ \A byte \in Bytes : Identity[byte + 1] = BitsOf(byte)
<1> DEFINE n == Power[Width]
<1>1. n \in Nat /\ Width \in Nat \ {0}
  BY Powers, WidthAssumption
<1>2. ASSUME NEW i \in 1..n
      PROVE  /\ i - 1 \in Bytes /\ Identity[i] = BitsOf(i - 1)
             /\ Identity[i] \in BitSeqs /\ Len(Identity[i]) = Width /\ Number(Identity[i]) = i - 1
  <2>1. i - 1 \in Bytes /\ Identity[i] = BitsOf(i - 1)
    BY <1>1 DEF Bytes, Identity
  <2> QED BY <2>1, BitsOfType, NumberOfBits
<1>3. Identity \in Seq(BitSeqs) /\ Len(Identity) = n /\ DOMAIN Identity = 1..n
  <2>1. \A i \in 1..n : BitsOf(i - 1) \in BitSeqs
    BY <1>2
  <2> HIDE DEF n
  <2>2. Identity = [i \in 1..n |-> BitsOf(i - 1)]
    BY DEF Identity, n
  <2> QED BY <1>1, <2>1, <2>2
<1>4. ASSUME NEW i \in 1..n PROVE Identity[i] # <<>>
  BY <1>1, <1>2
<1>5. ASSUME NEW i \in 1..n, NEW j \in 1..n, IsPrefix(Identity[i], Identity[j]) PROVE i = j
  <2>1. SubSeq(Identity[i], 1, Width) = SubSeq(Identity[j], 1, Width)
    BY <1>2, <1>5 DEF IsPrefix
  <2>2. Identity[i] = Identity[j]
    BY <1>2, <2>1, SubSeqFull DEF BitSeqs
  <2>3. i - 1 = j - 1
    BY <1>2, <2>2
  <2> QED BY <2>3
<1>6. PrefixCode(Identity)
  BY <1>3, <1>4, <1>5 DEF PrefixCode, BitSeqs, Bits
<1>7. ASSUME NEW byte \in Bytes PROVE Identity[byte + 1] = BitsOf(byte)
  <2>1. byte + 1 \in 1..n /\ (byte + 1) - 1 = byte
    BY <1>1 DEF Bytes
  <2> QED BY <1>2, <2>1
<1> QED BY <1>6, <1>7

\* Where each byte is its own code, as create_map_optimized of compression_optimized.c
\* has it without a dictionary file, the data comes back as it was.
THEOREM IdentityIsExact ==
  ASSUME NEW data \in Seq(Bytes)
  PROVE  DecompressAll(CompressCounting(data, Identity), Identity) = data
<1> DEFINE bits == Encode(data, Identity)
<1>1. bits = Unpack(data)
  <2>1. ASSUME NEW i \in DOMAIN data PROVE Identity[data[i] + 1] = BitsOf(data[i])
    <3>1. data[i] \in Bytes
      OBVIOUS
    <3> QED BY <3>1, IdentityCodes
  <2>2. [i \in DOMAIN data |-> Identity[data[i] + 1]] = [i \in DOMAIN data |-> BitsOf(data[i])]
    BY <2>1
  <2> QED BY <2>2 DEF Encode, Unpack
<1>2. bits \in BitSeqs /\ Len(bits) = Width * Len(data) /\ Len(data) \in Nat
  BY <1>1, UnpackAt
<1>3. Padding(Len(bits)) = 0
  <2>1. Len(bits) \in Nat
    BY <1>2 DEF BitSeqs
  <2> QED BY <1>2, <2>1, PaddingFits
<1>4. CompressCounting(data, Identity) = Pack(bits)
  BY <1>3 DEF CompressCounting
<1> HIDE DEF bits
<1>5. Pack(bits) \in Seq(Bytes) /\ Unpack(Pack(bits)) = bits
  BY <1>2, PackedBits
<1>6. Starts(Encode(data, Identity), Unpack(Pack(bits))) /\ Len(Unpack(Pack(bits))) = Len(Encode(data, Identity))
  BY <1>2, <1>5 DEF bits, Starts, BitSeqs
<1> QED BY <1>4, <1>5, <1>6, DecodesPayload, IdentityCodes
================================================================================
