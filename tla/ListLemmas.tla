------------------------------- MODULE ListLemmas ------------------------------
(* Facts about sequences without repetitions, about ring buffers, and the      *)
(* induction over the natural numbers that the proofs need, stated of sets.    *)
EXTENDS Integers, Sequences, SequenceTheorems, WellFoundedInduction, TLAPS

Distinct(q) == \A i, j \in DOMAIN q : i # j => q[i] # q[j]
Members(q) == {q[i] : i \in DOMAIN q}

\* Appending a newcomer to a sequence without repetitions keeps it so.
LEMMA DistinctAppend ==
  ASSUME NEW S, NEW q \in Seq(S), NEW c \in S, Distinct(q), c \notin Members(q)
  PROVE  Distinct(Append(q, c)) /\ Members(Append(q, c)) = Members(q) \cup {c}
<1>1. /\ DOMAIN q = 1..Len(q) /\ Len(q) \in Nat /\ DOMAIN Append(q, c) = 1..Len(q) + 1
      /\ Append(q, c)[Len(q) + 1] = c /\ \A i \in 1..Len(q) : Append(q, c)[i] = q[i]
  BY AppendProperties
<1> QED BY <1>1 DEF Distinct, Members

\* Taking the first item out of a sequence without repetitions takes out that one.
LEMMA DistinctTail ==
  ASSUME NEW S, NEW q \in Seq(S), q # <<>>, Distinct(q)
  PROVE  Distinct(Tail(q)) /\ Members(Tail(q)) = Members(q) \ {Head(q)} /\ Head(q) \in Members(q)
<1>1. /\ DOMAIN q = 1..Len(q) /\ Len(q) \in Nat /\ Len(q) > 0 /\ Head(q) = q[1]
      /\ DOMAIN Tail(q) = 1..Len(q) - 1 /\ \A i \in 1..Len(q) - 1 : Tail(q)[i] = q[i + 1]
  BY HeadTailProperties
<1>2. Members(q) \ {Head(q)} \subseteq Members(Tail(q))
  <2>1. ASSUME NEW i \in 1..Len(q), q[i] # q[1] PROVE q[i] \in Members(Tail(q))
    <3>1. i - 1 \in DOMAIN Tail(q) /\ Tail(q)[i - 1] = q[i]
      BY <1>1, <2>1
    <3> QED BY <3>1 DEF Members
  <2> QED BY <1>1, <2>1 DEF Members
<1> QED BY <1>1, <1>2 DEF Distinct, Members

\* Taking the item in the middle of a sequence without repetitions takes out that one.
Without(q, k) == [i \in 1..Len(q) - 1 |-> IF i < k THEN q[i] ELSE q[i + 1]]

LEMMA DistinctWithout ==
  ASSUME NEW S, NEW q \in Seq(S), Distinct(q), NEW k \in 1..Len(q)
  PROVE  /\ Without(q, k) \in Seq(S) /\ Len(Without(q, k)) = Len(q) - 1 /\ Distinct(Without(q, k))
         /\ Members(Without(q, k)) = Members(q) \ {q[k]}
<1> DEFINE r == Without(q, k)
<1>1. /\ Len(q) \in Nat /\ DOMAIN q = 1..Len(q) /\ Len(q) > 0 /\ Len(q) - 1 \in Nat
      /\ \A i \in 1..Len(q) : q[i] \in S
  OBVIOUS
<1>2. /\ r = [i \in 1..Len(q) - 1 |-> r[i]] /\ DOMAIN r = 1..Len(q) - 1
      /\ \A i \in 1..Len(q) - 1 : r[i] = IF i < k THEN q[i] ELSE q[i + 1]
  BY DEF Without
<1>3. \A i \in 1..Len(q) - 1 : (IF i < k THEN q[i] ELSE q[i + 1]) \in S
  BY <1>1
<1>4. Without(q, k) \in Seq(S)
  BY <1>1, <1>3 DEF Without
<1>5. r \in Seq(S) /\ Len(r) = Len(q) - 1
  <2>1. DOMAIN r = 1..Len(r) /\ Len(r) \in Nat
    BY <1>4
  <2> HIDE DEF r
  <2> QED BY <1>1, <1>2, <1>4, <2>1 DEF r
<1> HIDE DEF r
<1>6. ASSUME NEW i \in DOMAIN r, NEW j \in DOMAIN r, i # j PROVE r[i] # r[j]
  BY <1>1, <1>2, <1>6 DEF Distinct
<1>7. ASSUME NEW i \in DOMAIN r PROVE r[i] \in Members(q) \ {q[k]}
  BY <1>1, <1>2, <1>7 DEF Distinct, Members
<1>8. ASSUME NEW j \in 1..Len(q), j # k PROVE q[j] \in Members(r)
  <2>1. CASE j < k
    <3>1. j \in DOMAIN r /\ r[j] = q[j]
      BY <1>1, <1>2, <2>1
    <3> QED BY <3>1 DEF Members
  <2>2. CASE j > k
    <3>1. j - 1 \in DOMAIN r /\ r[j - 1] = q[j]
      BY <1>1, <1>2, <2>2
    <3> QED BY <3>1 DEF Members
  <2> QED BY <1>8, <2>1, <2>2
<1>9. Members(r) = Members(q) \ {q[k]}
  BY <1>1, <1>7, <1>8 DEF Members
<1> QED BY <1>5, <1>6, <1>9 DEF Distinct, r

\* A set of natural numbers has a least element.
LEMMA LeastElement ==
  ASSUME NEW T, T \subseteq Nat, T # {}
  PROVE  \E x \in T : \A y \in T : x <= y
<1>1. PICK x \in T : \A y \in T : ~(<<y, x>> \in OpToRel(<, Nat))
  BY NatLessThanWellFounded, WFMin, Zenon
<1>2. ASSUME NEW y \in T PROVE x <= y
  <2>1. ~(y < x)
    BY <1>1 DEF OpToRel
  <2> QED BY <2>1
<1> QED BY <1>2

\* A set that holds 0 and the successor of each of its members holds every number.
LEMMA InductionOverSet ==
  ASSUME NEW T, 0 \in T, \A n \in Nat : n \in T => n + 1 \in T
  PROVE  Nat \subseteq T
<1> SUFFICES ASSUME Nat \ T # {} PROVE FALSE
  OBVIOUS
<1>1. PICK n \in Nat \ T : \A m \in Nat \ T : n <= m
  BY LeastElement
<1>2. n - 1 \in Nat /\ n - 1 \in T
  BY <1>1
<1> QED BY <1>1, <1>2
--------------------------------------------------------------------------------
(* A ring buffer as server_optimized.c and tp_optimized.c keep it: an array    *)
(* with size slots, the slot of its oldest item, and their number.             *)

\* The items, oldest first, as the two servers read them out
RingOf(items, head, count, size) == [i \in 1..count |-> items[(head + i - 1) % size]]

\* What the two servers keep of the shape of a ring, and the array after an item is
\* written behind the last one
IsRing(S, items, head, count, size) ==
  /\ size \in Nat \ {0} /\ items \in [0..size - 1 -> S]
  /\ head \in 0..size - 1 /\ count \in 0..size

Put(items, head, count, size, c) == [items EXCEPT ![(head + count) % size] = c]

\* The end of the ring moves on when an item is put in, and stays where it is when
\* one is taken out.
LEMMA TailMoves ==
  ASSUME NEW S, NEW items, NEW head, NEW count, NEW size, IsRing(S, items, head, count, size),
         count # size
  PROVE  (((head + count) % size) + 1) % size = (head + (count + 1)) % size
BY DEF IsRing

LEMMA TailStays ==
  ASSUME NEW S, NEW items, NEW head, NEW count, NEW size, IsRing(S, items, head, count, size),
         count # 0
  PROVE  (((head + 1) % size) + (count - 1)) % size = (head + count) % size
BY DEF IsRing

\* The items of a ring are a sequence of what its slots hold.
LEMMA RingType ==
  ASSUME NEW S, NEW items, NEW head, NEW count, NEW size, IsRing(S, items, head, count, size)
  PROVE  RingOf(items, head, count, size) \in Seq(S)
<1> USE DEF IsRing
<1>1. ASSUME NEW i \in 1..count PROVE items[(head + i - 1) % size] \in S
  <2>1. (head + i - 1) % size \in 0..size - 1
    OBVIOUS
  <2> QED BY <2>1
<1> QED BY <1>1 DEF RingOf

\* What is written to the slot behind the last item is appended.
LEMMA RingPut ==
  ASSUME NEW S, NEW items, NEW head, NEW count, NEW size, IsRing(S, items, head, count, size),
         NEW c \in S, count # size
  PROVE  RingOf(Put(items, head, count, size, c), head, count + 1, size)
           = Append(RingOf(items, head, count, size), c)
<1> DEFINE tail == (head + count) % size
           put == Put(items, head, count, size, c)
           q == RingOf(items, head, count, size)
           r == RingOf(put, head, count + 1, size)
<1>0. size \in Nat \ {0} /\ head \in 0..size - 1 /\ count \in 0..size - 1
  BY DEF IsRing
<1>1. tail \in 0..size - 1 /\ put \in [0..size - 1 -> S] /\ put[tail] = c
      /\ \A s \in 0..size - 1 : s # tail => put[s] = items[s]
  BY <1>0 DEF IsRing, Put
<1>2. count \in 0..size /\ count + 1 \in 0..size /\ count \in Nat /\ count + 1 \in Nat
      /\ IsRing(S, put, head, count + 1, size)
  BY <1>0, <1>1 DEF IsRing
<1> HIDE DEF put
<1>3. q \in Seq(S)
  BY RingType
<1>4. r \in Seq(S)
  BY <1>2, RingType
<1>5. Len(q) = count
  BY <1>2 DEF RingOf
<1>6. Len(r) = count + 1
  BY <1>2 DEF RingOf
<1>7. \A i \in 1..count : q[i] = items[(head + i - 1) % size]
  BY DEF RingOf
<1>8. \A i \in 1..count + 1 : r[i] = put[(head + i - 1) % size]
  BY DEF RingOf
<1> HIDE DEF q, r
<1>9. /\ Append(q, c) \in Seq(S) /\ Len(Append(q, c)) = count + 1
      /\ Append(q, c)[count + 1] = c /\ \A i \in 1..count : Append(q, c)[i] = q[i]
  BY <1>3, <1>5, AppendProperties
<1>10. ASSUME NEW i \in 1..count + 1 PROVE r[i] = Append(q, c)[i]
  <2>1. CASE i = count + 1
    <3>1. (head + i - 1) % size = tail
      BY <1>0, <2>1
    <3> QED BY <1>1, <1>8, <1>9, <2>1, <3>1
  <2>2. CASE i # count + 1
    <3>1. i \in 1..count /\ (head + i - 1) % size \in 0..size - 1
      BY <1>0, <2>2
    <3>2. (head + i - 1) % size # tail
      <4>1. head + i - 1 \in 0..2 * size - 1 /\ head + count \in 0..2 * size - 1
            /\ head + i - 1 < head + count /\ head + count < head + i - 1 + size
        BY <1>0, <3>1
      <4>2. ASSUME NEW a \in 0..2 * size - 1, NEW b \in 0..2 * size - 1, a < b, b < a + size
            PROVE  a % size # b % size
        <5>1. a % size = IF a < size THEN a ELSE a - size
          BY <1>0
        <5>2. b % size = IF b < size THEN b ELSE b - size
          BY <1>0
        <5> HIDE DEF tail
        <5> QED BY <1>0, <4>2, <5>1, <5>2
      <4> QED BY <4>1, <4>2
    <3> QED BY <1>1, <1>7, <1>8, <1>9, <3>1, <3>2
  <2> QED BY <2>1, <2>2
<1>11. r = Append(q, c)
  BY <1>4, <1>6, <1>9, <1>10, SeqEqual
<1> QED BY <1>11 DEF q, r, put

\* Moving the head to the next slot takes the oldest item out.
LEMMA RingTake ==
  ASSUME NEW S, NEW items, NEW head, NEW count, NEW size, IsRing(S, items, head, count, size),
         count # 0
  PROVE  /\ RingOf(items, head, count, size) # <<>>
         /\ Head(RingOf(items, head, count, size)) = items[head]
         /\ RingOf(items, (head + 1) % size, count - 1, size)
              = Tail(RingOf(items, head, count, size))
<1> DEFINE next == (head + 1) % size
           q == RingOf(items, head, count, size)
           r == RingOf(items, next, count - 1, size)
<1>0. size \in Nat \ {0} /\ head \in 0..size - 1 /\ count \in 1..size
  BY DEF IsRing
<1>1. next \in 0..size - 1 /\ count - 1 \in 0..size /\ count \in 0..size
      /\ count \in Nat /\ count - 1 \in Nat /\ IsRing(S, items, next, count - 1, size)
  BY <1>0 DEF IsRing
<1>2. next = IF head + 1 < size THEN head + 1 ELSE head + 1 - size
  BY <1>0
<1> HIDE DEF next
<1>3. q \in Seq(S)
  BY <1>1, RingType
<1>4. r \in Seq(S)
  BY <1>1, RingType
<1>5. Len(q) = count
  BY <1>1 DEF RingOf
<1>6. Len(r) = count - 1
  BY <1>1 DEF RingOf
<1>7. \A i \in 1..count : q[i] = items[(head + i - 1) % size]
  BY DEF RingOf
<1>8. \A i \in 1..count - 1 : r[i] = items[(next + i - 1) % size]
  BY DEF RingOf
<1> HIDE DEF q, r
<1>9. q # <<>> /\ Head(q) = items[head]
  <2>1. (head + 1 - 1) % size = head
    BY <1>0
  <2>2. q[1] = items[head]
    BY <1>0, <1>7, <2>1
  <2> QED BY <1>0, <1>3, <1>5, <2>2
<1>10. /\ Tail(q) \in Seq(S) /\ Len(Tail(q)) = count - 1
       /\ \A i \in 1..count - 1 : Tail(q)[i] = q[i + 1]
  BY <1>0, <1>3, <1>5, <1>9, HeadTailProperties
<1>11. ASSUME NEW i \in 1..count - 1 PROVE r[i] = Tail(q)[i]
  <2>1. (next + i - 1) % size = (head + (i + 1) - 1) % size
    BY <1>0, <1>2
  <2>2. i + 1 \in 1..count
    BY <1>0
  <2> QED BY <1>7, <1>8, <1>10, <2>1, <2>2
<1>12. r = Tail(q)
  BY <1>4, <1>6, <1>10, <1>11, SeqEqual
<1> QED BY <1>9, <1>12 DEF q, r, next
================================================================================
