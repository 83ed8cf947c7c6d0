-------------------------- MODULE FileMultiplexProofs --------------------------
(* Proofs about FileMultiplex, for every number of workers, requests, sessions *)
(* and ranges, every size of the file and of a word.                           *)
EXTENDS FileMultiplex, ListLemmas, FiniteSetTheorems
--------------------------------------------------------------------------------
(* A walk along the list                                                       *)

\* The first n + 1 nodes of a walk
IsWalk(g, n) ==
  g = [i \in 0..n |-> IF i = 0 THEN head ELSE IF g[i - 1] = NIL THEN NIL ELSE block[g[i - 1]].next]

LEMMA WalkExists == \A n \in Nat : \E g : IsWalk(g, n)
<1> DEFINE T == {n \in Nat : \E g : IsWalk(g, n)}
<1>1. 0 \in T
  <2>1. IsWalk([i \in 0..0 |-> head], 0)
    BY DEF IsWalk
  <2> QED BY <2>1
<1>2. ASSUME NEW n \in Nat, n \in T PROVE n + 1 \in T
  <2>1. PICK g : IsWalk(g, n)
    BY <1>2
  <2> DEFINE h == [i \in 0..n + 1 |-> IF i <= n THEN g[i]
                                      ELSE IF g[n] = NIL THEN NIL ELSE block[g[n]].next]
  <2>2. \A i \in 0..n : h[i] = g[i]
    OBVIOUS
  <2>3. ASSUME NEW i \in 0..n + 1
        PROVE  h[i] = IF i = 0 THEN head ELSE IF h[i - 1] = NIL THEN NIL ELSE block[h[i - 1]].next
    <3>1. CASE i = 0
      BY <2>1, <3>1 DEF IsWalk
    <3>2. CASE i \in 1..n
      <4>1. g[i] = IF g[i - 1] = NIL THEN NIL ELSE block[g[i - 1]].next
        BY <2>1, <3>2 DEF IsWalk
      <4> QED BY <2>2, <3>2, <4>1
    <3>3. CASE i = n + 1
      BY <2>2, <3>3
    <3> QED BY <3>1, <3>2, <3>3
  <2>4. IsWalk(h, n + 1)
    <3>1. h = [i \in 0..n + 1 |-> h[i]]
      OBVIOUS
    <3> HIDE DEF h
    <3> QED BY <2>3, <3>1 DEF IsWalk
  <2> QED BY <2>4
<1>3. Nat \subseteq T
  <2> HIDE DEF T
  <2> QED BY <1>1, <1>2, InductionOverSet
<1> QED BY <1>3

LEMMA WalkDef == IsWalk(Walk, Cardinality(Blocks)) /\ Cardinality(Blocks) \in Nat
<1>1. Cardinality(Blocks) \in Nat
  BY BlocksAssumption, FS_CardinalityType
<1>2. \E g : IsWalk(g, Cardinality(Blocks))
  BY <1>1, WalkExists
<1> QED BY <1>1, <1>2 DEF IsWalk, Walk

\* First finds the first of the nodes on the walk, and finds one if there is one.
LEMMA FirstFinds ==
  ASSUME NEW nodes
  PROVE  \/ First(nodes) = NIL /\ \A i \in DOMAIN Walk : Walk[i] \notin nodes
         \/ \E i \in DOMAIN Walk : /\ First(nodes) = Walk[i] /\ Walk[i] \in nodes
                                    /\ \A j \in DOMAIN Walk : Walk[j] \in nodes => i <= j
<1> DEFINE hits == {i \in DOMAIN Walk : Walk[i] \in nodes}
<1>1. DOMAIN Walk \subseteq Nat
  BY WalkDef DEF IsWalk
<1>2. CASE hits = {}
  BY <1>2 DEF First
<1>3. CASE hits # {}
  <2>1. \E i \in hits : \A j \in hits : i <= j
    <3> HIDE DEF hits
    <3>1. hits \subseteq Nat
      BY <1>1 DEF hits
    <3> QED BY <1>3, <3>1, LeastElement
  <2> QED BY <1>3, <2>1 DEF First
<1> QED BY <1>2, <1>3
--------------------------------------------------------------------------------
(* Types                                                                       *)

Segments == Seq(Nat \X Nat)
ChildLabels == {"compare", "join", "child", "read", "header"}

\* What TypeOK leaves open, and that a worker has a request, and a child the request
\* of another, for as long as it works on them.
TypeInv ==
  /\ TypeOK
  /\ cut \in [Workers -> Segments] /\ pipes \in Seq(Segments)
  /\ \A b \in Blocks : block[b].pipe <= Len(pipes)
  /\ \A w \in Workers : /\ pc[w] = "message" <=> req[w] = NIL
                        /\ pc[w] \in ChildLabels => curr[w] # NIL

LEMMA TypeInit == Init => TypeInv
<1> SUFFICES ASSUME Init PROVE TypeInv
  OBVIOUS
<1>1. (CHOOSE r \in Ranges : TRUE) \in Ranges
  BY RangesAssumption
<1> QED BY <1>1, SizesAssumption
    DEF Init, TypeInv, TypeOK, Node, Locals, Labels, ParentLabels, ChildLabels, Segments, Start, NIL

LEMMA RangeType ==
  ASSUME NEW r \in Ranges
  PROVE  r.offset \in Nat /\ r.length \in Nat
BY RangesAssumption, SizesAssumption

LEMMA FirstType == ASSUME TypeOK, NEW nodes \in SUBSET Blocks PROVE First(nodes) \in nodes \cup {NIL}
BY FirstFinds

\* What is written to a block, to a pipe and to the locals of a parent keeps types.
LEMMA NodeUpdates ==
  ASSUME NEW n \in Node
  PROVE  /\ [n EXCEPT !.state = "freed"] \in Node
         /\ \A s \in Sessions, r \in Ranges :
              [n EXCEPT !.state = "live", !.session = s, !.range = r, !.swapped = FALSE] \in Node
         /\ [n EXCEPT !.num = @ + 1] \in Node
         /\ \A x \in BOOLEAN : [n EXCEPT !.swapped = x] \in Node
         /\ \A b \in Blocks \cup {NIL} : [n EXCEPT !.next = b] \in Node
         /\ \A k \in Nat : [n EXCEPT !.num = 0, !.pipe = k] \in Node
<1>1. [n EXCEPT !.state = "freed"] \in Node
  BY DEF Node
<1>2. ASSUME NEW s \in Sessions, NEW r \in Ranges
      PROVE  [n EXCEPT !.state = "live", !.session = s, !.range = r, !.swapped = FALSE] \in Node
  BY DEF Node
<1>3. [n EXCEPT !.num = @ + 1] \in Node
  BY DEF Node
<1>4. ASSUME NEW x \in BOOLEAN PROVE [n EXCEPT !.swapped = x] \in Node
  BY DEF Node
<1>5. ASSUME NEW b \in Blocks \cup {NIL} PROVE [n EXCEPT !.next = b] \in Node
  BY DEF Node
<1>6. ASSUME NEW k \in Nat PROVE [n EXCEPT !.num = 0, !.pipe = k] \in Node
  BY DEF Node
<1> QED BY <1>1, <1>2, <1>3, <1>4, <1>5, <1>6

LEMMA BlockUpdate ==
  ASSUME NEW f \in [Blocks -> Node], NEW b, NEW n \in Node
  PROVE  [f EXCEPT ![b] = n] \in [Blocks -> Node]
OBVIOUS

LEMMA PipeUpdate ==
  ASSUME NEW ps \in Seq(Segments), NEW k, NEW d \in Segments
  PROVE  [ps EXCEPT ![k] = d] \in Seq(Segments) /\ Len([ps EXCEPT ![k] = d]) = Len(ps)
<1>1. CASE k \in 1..Len(ps)
  BY <1>1, ExceptSeq
<1>2. CASE k \notin 1..Len(ps)
  <2>1. [ps EXCEPT ![k] = d] = ps
    BY <1>2
  <2> QED BY <2>1
<1> QED BY <1>1, <1>2

\* Two numbers add up to a word, and to their sum if that is one.
LEMMA SumType ==
  ASSUME NEW x \in Nat, NEW y \in Nat
  PROVE  Sum(x, y) \in Nat /\ (x + y < WordSize => Sum(x, y) = x + y)
<1>1. WordSize \in Nat /\ WordSize > 0
  BY SizesAssumption
<1>2. ASSUME NEW z \in Nat PROVE z % WordSize \in Nat /\ (z < WordSize => z % WordSize = z)
  <2>1. z % WordSize \in 0..WordSize - 1
    BY <1>1
  <2>2. ASSUME z < WordSize PROVE z % WordSize = z
    BY <1>1, <2>2
  <2> QED BY <1>1, <2>1, <2>2
<1>3. x + y \in Nat
  OBVIOUS
<1> QED BY <1>2, <1>3 DEF Sum

LEMMA LocalUpdate ==
  ASSUME NEW l \in Locals
  PROVE  /\ Start \in Locals
         /\ \A length \in Nat : [l EXCEPT !.offset = Sum(@, length), !.i = @ + 1] \in Locals
         /\ \A r \in Int : [l EXCEPT !.i = 0, !.remaining = r] \in Locals
         /\ \A n \in Nat : [l EXCEPT !.read = n] \in Locals
<1>1. Start \in Locals
  BY DEF Locals, Start
<1>3. ASSUME NEW length \in Nat PROVE [l EXCEPT !.offset = Sum(@, length), !.i = @ + 1] \in Locals
  <2>3. l.offset \in Nat /\ l.i + 1 \in Nat
    BY DEF Locals
  <2>1. Sum(l.offset, length) \in Nat /\ l.i + 1 \in Nat
    BY <2>3, SumType
  <2>2. ASSUME NEW o \in Nat, NEW i \in Nat PROVE [l EXCEPT !.offset = o, !.i = i] \in Locals
    BY DEF Locals
  <2> QED BY <2>1, <2>2
<1>4. ASSUME NEW r \in Int PROVE [l EXCEPT !.i = 0, !.remaining = r] \in Locals
  BY DEF Locals
<1>5. ASSUME NEW n \in Nat PROVE [l EXCEPT !.read = n] \in Locals
  BY DEF Locals
<1> QED BY <1>1, <1>3, <1>4, <1>5

LEMMA Euclid ==
  ASSUME NEW x \in Int, NEW c \in Int, c > 0
  PROVE  x - (x % c) = c * (x \div c)
BY SMTT(30)

\* len bytes are n + 1 times d bytes, and r bytes.
Divided(len, n, d, r) == r <= n /\ len = ((n + 1) * d) + r

LEMMA Division ==
  ASSUME NEW a \in Nat, NEW b \in Nat
  PROVE  /\ a \div (b + 1) \in Nat /\ a % (b + 1) \in 0..b
         /\ Divided(a, b, a \div (b + 1), a % (b + 1))
<1>1. ASSUME NEW c \in Nat, c > 0
      PROVE  a \div c \in Nat /\ a % c \in 0..c - 1
  <2>1. a \div c >= 0
    BY <1>1
  <2>2. a \div c \in Int
    BY <1>1
  <2>3. a % c \in 0..c - 1
    BY <1>1
  <2> QED BY <2>1, <2>2, <2>3
<1>2. b + 1 \in Nat /\ b + 1 > 0 /\ b + 1 - 1 = b /\ a \in Int /\ b + 1 \in Int
  OBVIOUS
<1>3. a - (a % (b + 1)) = (b + 1) * (a \div (b + 1))
  BY <1>2, Euclid
<1>4. a \div (b + 1) \in Nat /\ a % (b + 1) \in 0..b
  BY <1>1, <1>2
<1>5. a = ((b + 1) * (a \div (b + 1))) + (a % (b + 1))
  BY <1>3, <1>4
<1> QED BY <1>4, <1>5 DEF Divided

\* The worker that is done has nothing left in its hands.
LEMMA DoneType ==
  ASSUME TypeInv, NEW w \in Workers, Done(w)
  PROVE  /\ pc' \in [Workers -> Labels] /\ req' \in [Workers -> Blocks \cup {NIL}]
         /\ curr' \in [Workers -> Blocks \cup {NIL}] /\ reading' \in [Workers -> Nat]
         /\ local' \in [Workers -> Locals] /\ cut' \in [Workers -> Segments]
         /\ \A v \in Workers : /\ reading'[v] <= Len(pipes)
                               /\ pc'[v] = "message" <=> req'[v] = NIL
                               /\ pc'[v] \in ChildLabels => curr'[v] # NIL
<1>1. "message" \in Labels /\ "message" \notin ChildLabels /\ NIL \in Nat /\ Start \in Locals
      /\ <<>> \in Segments
  BY DEF Labels, ChildLabels, Locals, Start, NIL, Segments
<1>2. Len(pipes) \in Nat
  BY DEF TypeInv
<1>3. ASSUME NEW v \in Workers
      PROVE  /\ reading'[v] <= Len(pipes) /\ pc'[v] = "message" <=> req'[v] = NIL
             /\ pc'[v] \in ChildLabels => curr'[v] # NIL
  <2>1. CASE v = w
    BY <1>1, <1>2, <2>1 DEF TypeInv, TypeOK, Done, Goto, NIL
  <2>2. CASE v # w
    BY <2>2 DEF TypeInv, TypeOK, Done, Goto
  <2> QED BY <2>1, <2>2
<1> QED BY <1>1, <1>3 DEF TypeInv, TypeOK, Done, Goto

LEMMA TypeStep == TypeInv /\ [Next]_vars => TypeInv'
<1> SUFFICES ASSUME TypeInv, [Next]_vars PROVE TypeInv'
  OBVIOUS
<1> USE BlocksAssumption DEF TypeInv, TypeOK, Labels, ParentLabels, ChildLabels, Goto, Read, NIL
<1>1. CASE UNCHANGED vars
  BY <1>1 DEF vars
<1>2. ASSUME NEW w \in Workers, Dissect(w) PROVE TypeInv'
  <2>1. PICK b \in Blocks, s \in Sessions, r \in Ranges :
          /\ req' = [req EXCEPT ![w] = b]
          /\ block' = [block EXCEPT ![b].state = "live", ![b].session = s, ![b].range = r,
                                    ![b].swapped = FALSE]
    <3> HIDE DEF TypeInv, TypeOK, Labels, Goto, Read
    <3> QED BY ZenonT(60), <1>2 DEF Dissect
  <2>2. requests' \in 0..MaxRequests
    BY <1>2, SizesAssumption DEF Dissect
  <2>3. block' = [block EXCEPT ![b] = [block[b] EXCEPT !.state = "live", !.session = s, !.range = r,
                                                      !.swapped = FALSE]]
    BY <2>1
  <2>4. block' \in [Blocks -> Node]
    BY <2>3, NodeUpdates, BlockUpdate
  <2>5. \A c \in Blocks : block'[c].pipe = block[c].pipe
    BY <2>3 DEF Node
  <2> QED BY <1>2, <2>1, <2>2, <2>4, <2>5 DEF Dissect
<1>3. ASSUME NEW w \in Workers, Find(w) PROVE TypeInv'
  <2>1. curr'[w] \in Blocks \cup {NIL} /\ curr' = [curr EXCEPT ![w] = curr'[w]]
    BY <1>3, FirstType DEF Find
  <2> QED BY <1>3, <2>1 DEF Find
<1>4. ASSUME NEW w \in Workers, Mismatch(w) PROVE TypeInv'
  BY <1>4, DoneType DEF Mismatch
<1>5. ASSUME NEW w \in Workers, Match(w) PROVE TypeInv'
  BY <1>5 DEF Match
<1>6. ASSUME NEW w \in Workers, Join(w) PROVE TypeInv'
  <2>1. block' = [block EXCEPT ![curr[w]] = [block[curr[w]] EXCEPT !.num = @ + 1]]
    BY <1>6 DEF Join
  <2>4. curr[w] \in Blocks
    BY <1>6 DEF Join
  <2>5. [block[curr[w]] EXCEPT !.num = @ + 1] \in Node
    BY <2>4, NodeUpdates
  <2>2. block' \in [Blocks -> Node]
    BY <2>1, <2>5, BlockUpdate
  <2>3. \A c \in Blocks : block'[c].pipe = block[c].pipe
    BY <2>1 DEF Node
  <2> QED BY <1>6, <2>2, <2>3, <2>4 DEF Join
<1>7. ASSUME NEW w \in Workers, Refuse(w) PROVE TypeInv'
  BY <1>7 DEF Refuse
<1>8. ASSUME NEW w \in Workers, Swap(w) \/ Unswap(w) PROVE TypeInv'
  <2>1. PICK x \in BOOLEAN : block' = [block EXCEPT ![req[w]] = [block[req[w]] EXCEPT !.swapped = x]]
    BY <1>8 DEF Swap, Unswap
  <2>2. block' \in [Blocks -> Node] /\ req[w] \in Blocks
    BY <1>8, <2>1, NodeUpdates, BlockUpdate DEF Swap, Unswap
  <2>3. \A c \in Blocks : block'[c].pipe = block[c].pipe
    BY <2>1 DEF Node
  <2> QED BY ZenonT(60), <1>8, <2>2, <2>3 DEF Swap, Unswap
<1>9. ASSUME NEW w \in Workers, Add(w) PROVE TypeInv'
  <2> DEFINE b == req[w]
             last == IF head = NIL THEN b ELSE tail
             f == [block EXCEPT ![b] = [block[b] EXCEPT !.num = 0, !.pipe = Len(pipes) + 1]]
             to == IF head = NIL THEN f[last].next ELSE b
  <2>1. b \in Blocks /\ last \in Blocks \cup {NIL} /\ Len(pipes) + 1 \in Nat
    BY <1>9 DEF Add
  <2>2. f \in [Blocks -> Node]
    BY <2>1, NodeUpdates, BlockUpdate
  <2>3. block' = [f EXCEPT ![last] = [f[last] EXCEPT !.next = to]]
    BY ZenonT(60), <1>9 DEF Add, LinkBehind
  <2>4. last \in Blocks => to \in Blocks \cup {NIL}
    <3> HIDE DEF f, last
    <3>1. last \in Blocks => f[last].next \in Blocks \cup {NIL}
      BY <2>2 DEF Node
    <3> QED BY <2>1, <3>1
  <2>5. block' \in [Blocks -> Node]
    <3> HIDE DEF f, last, to
    <3>1. CASE last \in Blocks
      BY <2>2, <2>3, <2>4, <3>1, NodeUpdates, BlockUpdate
    <3>2. CASE last \notin Blocks
      <4>1. block' = f
        BY <2>2, <2>3, <3>2
      <4> QED BY <2>2, <4>1
    <3> QED BY <3>1, <3>2
  <2>6. \A c \in Blocks : block'[c].pipe = IF c = b THEN Len(pipes) + 1 ELSE block[c].pipe
    <3>1. \A c \in Blocks : f[c].pipe = IF c = b THEN Len(pipes) + 1 ELSE block[c].pipe
      BY <2>1 DEF Node
    <3>2. \A c \in Blocks : block'[c].pipe = f[c].pipe
      <4> HIDE DEF f, to
      <4> QED BY <2>2, <2>3 DEF Node
    <3> QED BY <3>1, <3>2
  <2>7. <<>> \in Segments
    BY DEF Segments
  <2>8. pipes' \in Seq(Segments) /\ Len(pipes') = Len(pipes) + 1
    BY <1>9, <2>7 DEF Add
  <2> HIDE DEF f, last, to
  <2>9. \A c \in Blocks : block'[c].pipe <= Len(pipes')
    <3>1. \A c \in Blocks : block[c].pipe \in Nat
      BY DEF Node
    <3> HIDE DEF TypeOK, Labels, Goto, Read, b
    <3> QED BY <2>6, <2>8, <3>1
  <2>10. head' \in Blocks \cup {NIL} /\ tail' \in Blocks \cup {NIL}
    BY <1>9, <2>1 DEF Add, Append1
  <2>11. \A v \in Workers : reading'[v] <= Len(pipes')
    BY <1>9, <2>8 DEF Add
  <2>12. pc' \in [Workers -> Labels] /\ \A v \in Workers : /\ pc'[v] = "message" <=> req'[v] = NIL
                                                          /\ pc'[v] \in ChildLabels => curr'[v] # NIL
    BY <1>9 DEF Add
  <2> QED BY <1>9, <2>5, <2>8, <2>9, <2>10, <2>11, <2>12 DEF Add
<1>10. ASSUME NEW w \in Workers, Divide(w) PROVE TypeInv'
  <2>1. req[w] \in Blocks /\ block[req[w]].range \in Ranges /\ block[req[w]].num \in Nat
    BY <1>10 DEF Divide, Node
  <2>2. Length(w) \in Nat /\ Offset(w) \in Nat /\ Num(w) \in Nat
    BY <2>1, RangeType DEF Length, Offset, Num
  <2>3. Length(w) \div (Num(w) + 1) \in Nat
    BY <2>2, Division
  <2>4. [division |-> Length(w) \div (Num(w) + 1), offset |-> Offset(w), i |-> 0, remaining |-> 0,
         num |-> Num(w), read |-> 0] \in Locals
    BY <2>2, <2>3 DEF Locals
  <2> QED BY <1>10, <2>4 DEF Divide, Allot
<1>11. ASSUME NEW w \in Workers, NEW length \in Nat, Write(w, length)
       PROVE  /\ local' \in [Workers -> Locals] /\ cut' \in [Workers -> Segments]
              /\ pipes' \in Seq(Segments) /\ Len(pipes') = Len(pipes)
  <2> DEFINE segment == <<local[w].offset, length>>
             k == block[req[w]].pipe
  <2>1. segment \in Nat \X Nat
    BY DEF Locals
  <2>2. cut' \in [Workers -> Segments]
    BY <1>11, <2>1 DEF Write, Segments
  <2>3. local' \in [Workers -> Locals]
    <3>1. local' = [local EXCEPT ![w] = [local[w] EXCEPT !.offset = Sum(@, length), !.i = @ + 1]]
      BY <1>11 DEF Write
    <3> QED BY <3>1, LocalUpdate
  <2>4. pipes' = [pipes EXCEPT ![k] = Append(pipes[k], segment)]
    BY <1>11 DEF Write
  <2>5. k \in 1..Len(pipes) => Append(pipes[k], segment) \in Segments
    <3>1. k \in 1..Len(pipes) => pipes[k] \in Segments
      OBVIOUS
    <3> QED BY <2>1, <3>1 DEF Segments
  <2>6. pipes' \in Seq(Segments) /\ Len(pipes') = Len(pipes)
    <3>1. CASE k \in 1..Len(pipes)
      BY <2>4, <2>5, <3>1, PipeUpdate
    <3>2. CASE k \notin 1..Len(pipes)
      <4>1. pipes' = pipes
        BY <2>4, <3>2
      <4> QED BY <4>1
    <3> QED BY <3>1, <3>2
  <2> QED BY <2>2, <2>3, <2>6
<1>12. ASSUME NEW w \in Workers, Longer(w) \/ Shorter(w) PROVE TypeInv'
  <2>1. local[w].division \in Nat /\ Sum(local[w].division, 1) \in Nat
    BY SumType DEF Locals
  <2>2. \/ UNCHANGED <<local, cut, pipes>>
        \/ Write(w, Sum(local[w].division, 1)) \/ Write(w, local[w].division)
    BY <1>12 DEF Longer, Shorter
  <2>3. /\ local' \in [Workers -> Locals] /\ cut' \in [Workers -> Segments]
        /\ pipes' \in Seq(Segments) /\ Len(pipes') = Len(pipes)
    BY <1>11, <2>1, <2>2
  <2> QED BY ZenonT(60), <1>12, <2>3 DEF Longer, Shorter
<1>13. ASSUME NEW w \in Workers, Rest(w) \/ Remaining(w) PROVE TypeInv'
  <2>1. req[w] \in Blocks /\ block[req[w]].range \in Ranges /\ block[req[w]].num \in Nat
        /\ local[w].read \in Nat
    BY <1>13 DEF Rest, Remaining, Node, Locals
  <2>2. Length(w) \in Nat /\ Num(w) \in Nat
    BY <2>1, RangeType DEF Length, Num
  <2>3. CASE Rest(w)
    <3>1. local' \in [Workers -> Locals]
      BY <2>2, <2>3, LocalUpdate DEF Rest
    <3> QED BY <2>3, <3>1 DEF Rest
  <2>4. CASE Remaining(w)
    <3>1. \E m, d \in {Num(w), local[w].read} :
            local' = [local EXCEPT ![w].i = 0, ![w].remaining = m - (Length(w) % (d + 1))]
      BY <2>4 DEF Remaining
    <3>2. ASSUME NEW m \in Nat, NEW d \in Nat PROVE m - (Length(w) % (d + 1)) \in Int
      <4>1. Length(w) % (d + 1) \in 0..d
        BY <2>2, Division
      <4> QED BY <4>1
    <3>3. \E r \in Int : local' = [local EXCEPT ![w].i = 0, ![w].remaining = r]
      <4>1. PICK m \in {Num(w), local[w].read}, d \in {Num(w), local[w].read} :
              local' = [local EXCEPT ![w].i = 0, ![w].remaining = m - (Length(w) % (d + 1))]
        BY <3>1
      <4>2. m - (Length(w) % (d + 1)) \in Int
        BY <2>1, <2>2, <3>2
      <4> QED BY <4>1, <4>2
    <3>4. local' \in [Workers -> Locals]
      <4>1. PICK r \in Int : local' = [local EXCEPT ![w] = [local[w] EXCEPT !.i = 0, !.remaining = r]]
        BY <3>3
      <4>2. [local[w] EXCEPT !.i = 0, !.remaining = r] \in Locals
        BY LocalUpdate
      <4> QED BY <4>1, <4>2
    <3> QED BY <2>4, <3>4 DEF Remaining
  <2> QED BY <1>13, <2>3, <2>4
<1>14. ASSUME NEW w \in Workers, Send(w) PROVE TypeInv'
  <2>1. <<local[w].offset, local[w].division>> \in Nat \X Nat
    BY DEF Locals
  <2> QED BY <1>14, <2>1 DEF Send, Segments
<1>15. ASSUME NEW w \in Workers, Remove(w) PROVE TypeInv'
  <2>1. Before(req[w]) \in Blocks \cup {NIL}
    BY FirstType DEF Before, Befores
  <2> DEFINE freed == [block EXCEPT ![req[w]] = [block[req[w]] EXCEPT !.state = "freed"]]
  <2>2. req[w] \in Blocks /\ freed \in [Blocks -> Node]
    BY <1>15, NodeUpdates, BlockUpdate DEF Remove
  <2>3. block[req[w]].next \in Blocks \cup {NIL}
    BY <2>2 DEF Node
  <2>4. block' \in [Blocks -> Node] /\ \A c \in Blocks : block'[c].pipe = block[c].pipe
    <3>1. CASE block' = block
      BY <3>1
    <3>2. CASE block' = freed
      BY <2>2, <3>2 DEF Node
    <3>3. CASE Before(req[w]) # NIL /\ block' = [freed EXCEPT ![Before(req[w])].next = block[req[w]].next]
      <4>1. block' = [freed EXCEPT ![Before(req[w])] = [freed[Before(req[w])] EXCEPT !.next = block[req[w]].next]]
        BY <3>3
      <4>2. freed[Before(req[w])] \in Node
        BY <2>1, <2>2, <3>3
      <4> HIDE DEF freed
      <4>3. block' \in [Blocks -> Node]
        BY <2>1, <2>2, <2>3, <4>1, <4>2, NodeUpdates, BlockUpdate
      <4>4. \A c \in Blocks : block'[c].pipe = freed[c].pipe
        BY <2>2, <4>1 DEF Node
      <4>5. \A c \in Blocks : freed[c].pipe = block[c].pipe
        BY DEF freed, Node
      <4> QED BY <4>3, <4>4, <4>5
    <3>4. freed = [block EXCEPT ![req[w]].state = "freed"]
      OBVIOUS
    <3> HIDE DEF freed
    <3> QED BY <1>15, <3>1, <3>2, <3>3, <3>4 DEF Remove, Unlink
  <2>5. head' \in Blocks \cup {NIL} /\ tail' \in Blocks \cup {NIL} /\ process' \in {"up", "faulty", "crashed"}
    BY <1>15, <2>1 DEF Remove, Unlink
  <2> HIDE DEF freed
  <2> QED BY <1>15, <2>4, <2>5, DoneType DEF Remove
<1>16. ASSUME NEW w \in Workers, Child(w) PROVE TypeInv'
  <2>1. curr[w] \in Blocks /\ block[curr[w]].pipe \in Nat
    BY <1>16 DEF Child, Node
  <2> QED BY <1>16, <2>1 DEF Child
<1>17. ASSUME NEW w \in Workers, ReadPipe(w) PROVE TypeInv'
  <2> DEFINE k == reading[w]
  <2>1. pipes' = [pipes EXCEPT ![k] = Tail(pipes[k])]
    BY <1>17 DEF ReadPipe
  <2>2. k \in 1..Len(pipes) => Tail(pipes[k]) \in Segments
    <3>1. k \in 1..Len(pipes) => pipes[k] \in Segments
      OBVIOUS
    <3>2. pipes[k] # <<>>
      BY <1>17 DEF ReadPipe
    <3> QED BY <3>1, <3>2 DEF Segments
  <2>3. pipes' \in Seq(Segments) /\ Len(pipes') = Len(pipes)
    <3>1. CASE k \in 1..Len(pipes)
      BY <2>1, <2>2, <3>1, PipeUpdate
    <3>2. CASE k \notin 1..Len(pipes)
      <4>1. pipes' = pipes
        BY <2>1, <3>2
      <4> QED BY <4>1
    <3> QED BY <3>1, <3>2
  <2>4. process' \in {"up", "faulty", "crashed"}
    BY <1>17 DEF ReadPipe, Allot
  <2> QED BY <1>17, <2>3, <2>4 DEF ReadPipe
<1>18. ASSUME NEW w \in Workers, Header(w) \/ ChildRefuse(w) PROVE TypeInv'
  <2>1. block' = [block EXCEPT ![req[w]] = [block[req[w]] EXCEPT !.state = "freed"]]
    BY <1>18 DEF Header, ChildRefuse
  <2>4. req[w] \in Blocks
    BY <1>18 DEF Header, ChildRefuse
  <2>2. block' \in [Blocks -> Node]
    BY <2>1, <2>4, NodeUpdates, BlockUpdate
  <2>3. \A c \in Blocks : block'[c].pipe = block[c].pipe
    BY <2>1 DEF Node
  <2>5. Done(w) /\ UNCHANGED <<head, tail, pipes, requests>> /\ process' \in {"up", "faulty", "crashed"}
    BY <1>18 DEF Header, ChildRefuse
  <2> QED BY <2>2, <2>3, <2>5, DoneType
<1> QED BY <1>1, <1>2, <1>3, <1>4, <1>5, <1>6, <1>7, <1>8, <1>9, <1>10, <1>12, <1>13,
           <1>14, <1>15, <1>16, <1>17, <1>18 DEF Next, Step

\* The state variables keep to their types: a segment, a pipe and a block's number
\* of connections among them.
THEOREM TypeCorrect == Spec => []TypeOK
<1>1. TypeInv => TypeOK
  BY DEF TypeInv
<1> QED BY <1>1, TypeInit, TypeStep, PTL DEF Spec
--------------------------------------------------------------------------------
(* Who writes what                                                             *)

\* A step of one worker leaves the hands of the others alone.
LEMMA OtherHands ==
  ASSUME TypeOK, NEW w \in Workers, Dissect(w) \/ Step(w), NEW v \in Workers, v # w
  PROVE  UNCHANGED <<pc[v], req[v], curr[v], local[v], cut[v], reading[v]>>
<1> USE DEF TypeOK, Goto
<1>1. CASE Dissect(w)
  BY <1>1 DEF Dissect
<1>2. CASE Find(w) \/ Match(w) \/ Join(w) \/ Add(w) \/ Refuse(w) \/ Divide(w) \/ Swap(w) \/ Unswap(w)
  BY <1>2 DEF Find, Match, Join, Add, Refuse, Divide, Swap, Unswap
<1>3. CASE Longer(w) \/ Shorter(w)
  <2>1. ASSUME NEW length, Write(w, length) PROVE local'[v] = local[v] /\ cut'[v] = cut[v]
    BY <2>1 DEF Write
  <2>2. local'[v] = local[v] /\ cut'[v] = cut[v]
    BY <1>3, <2>1 DEF Longer, Shorter
  <2> QED BY <1>3, <2>2 DEF Longer, Shorter
<1>4. CASE Rest(w) \/ Remaining(w) \/ Send(w) \/ Child(w) \/ ReadPipe(w)
  <2>1. CASE Rest(w) \/ Remaining(w)
    BY <2>1 DEF Rest, Remaining
  <2>2. CASE Send(w)
    BY <2>2 DEF Send
  <2>3. CASE Child(w) \/ ReadPipe(w)
    BY <2>3 DEF Child, ReadPipe
  <2> QED BY <1>4, <2>1, <2>2, <2>3
<1>5. CASE Mismatch(w) \/ Remove(w) \/ Header(w) \/ ChildRefuse(w)
  <2>1. Done(w)
    BY <1>5 DEF Mismatch, Remove, Header, ChildRefuse
  <2> QED BY <2>1 DEF Done
<1> QED BY <1>1, <1>2, <1>3, <1>4, <1>5 DEF Step

\* What a step leaves of a block that is not the request of its worker
Kept(b) == /\ block'[b].state = block[b].state /\ block'[b].session = block[b].session
           /\ block'[b].range = block[b].range /\ block'[b].swapped = block[b].swapped
           /\ block'[b].pipe = block[b].pipe /\ block'[b].num \in {block[b].num, block[b].num + 1}

\* What a step leaves of the request of its worker
Stays(b) == block'[b].session = block[b].session /\ block'[b].range = block[b].range

\* A step of a worker writes its own request; of the other blocks it counts a
\* child into one, or changes the next field of one.
LEMMA BlockSteps ==
  ASSUME TypeInv, NEW w \in Workers, Dissect(w) \/ Step(w), NEW b \in Blocks
  PROVE  /\ b \notin {req[w], req'[w]} => Kept(b)
         /\ ~Dissect(w) => Stays(b)
         /\ ~Dissect(w) /\ req'[w] # NIL => block'[b].state = block[b].state
<1>0. /\ block \in [Blocks -> Node] /\ block[b] \in Node /\ block[b].num \in Nat /\ NIL \notin Blocks
      /\ req[w] \in Blocks \cup {NIL} /\ curr[w] \in Blocks \cup {NIL} /\ req \in [Workers -> Blocks \cup {NIL}]
  BY BlocksAssumption DEF TypeInv, TypeOK, Node
<1>1. CASE Dissect(w)
  <2>1. PICK c \in Blocks, s \in Sessions, r \in Ranges :
          /\ req' = [req EXCEPT ![w] = c]
          /\ block' = [block EXCEPT ![c].state = "live", ![c].session = s, ![c].range = r,
                                    ![c].swapped = FALSE]
    BY ZenonT(60), <1>1 DEF Dissect
  <2>2. req'[w] = c
    BY <1>0, <2>1
  <2>3. b # c => block'[b] = block[b]
    BY <1>0, <2>1
  <2> QED BY <1>0, <1>1, <2>2, <2>3 DEF Kept
<1>2. CASE Join(w)
  <2>1. block' = [block EXCEPT ![curr[w]] = [block[curr[w]] EXCEPT !.num = @ + 1]]
    BY <1>2 DEF Join
  <2> QED BY <1>0, <2>1 DEF Kept, Stays, Node
<1>3. CASE Swap(w) \/ Unswap(w)
  <2>1. PICK x \in BOOLEAN : block' = [block EXCEPT ![req[w]] = [block[req[w]] EXCEPT !.swapped = x]]
    BY <1>3 DEF Swap, Unswap
  <2> QED BY <1>0, <2>1 DEF Kept, Stays, Node
<1>4. CASE Add(w)
  <2> DEFINE a == req[w]
             last == IF head = NIL THEN a ELSE tail
             f == [block EXCEPT ![a] = [block[a] EXCEPT !.num = 0, !.pipe = Len(pipes) + 1]]
             to == IF head = NIL THEN f[last].next ELSE a
  <2>1. block' = [f EXCEPT ![last] = [f[last] EXCEPT !.next = to]]
    BY <1>4 DEF Add, LinkBehind
  <2>2. f \in [Blocks -> Node]
    <3>1. a \in Blocks
      BY <1>0, <1>4 DEF Add, TypeInv
    <3>2. Len(pipes) + 1 \in Nat
      BY DEF TypeInv
    <3> QED BY <1>0, <3>1, <3>2, NodeUpdates, BlockUpdate
  <2>3. f[b].state = block[b].state /\ f[b].session = block[b].session /\ f[b].range = block[b].range /\ (b # a => f[b] = block[b])
    BY <1>0 DEF Node
  <2> HIDE DEF f, last, to
  <2>4. /\ block'[b].state = f[b].state /\ block'[b].session = f[b].session
        /\ block'[b].range = f[b].range /\ block'[b].swapped = f[b].swapped
        /\ block'[b].pipe = f[b].pipe /\ block'[b].num = f[b].num
    BY <2>1, <2>2 DEF Node
  <2> QED BY <1>0, <1>4, <2>3, <2>4 DEF Kept, Stays, a
<1>5. CASE Header(w) \/ ChildRefuse(w)
  <2>1. block' = [block EXCEPT ![req[w]] = [block[req[w]] EXCEPT !.state = "freed"]]
    BY <1>5 DEF Header, ChildRefuse
  <2>2. req'[w] = NIL
    BY <1>0, <1>5 DEF Header, ChildRefuse, Done
  <2> QED BY <1>0, <2>1, <2>2 DEF Kept, Stays, Node
<1>6. CASE Remove(w)
  <2> DEFINE a == req[w]
             freed == [block EXCEPT ![a] = [block[a] EXCEPT !.state = "freed"]]
  <2>1. \/ block' = block \/ block' = freed
        \/ \E c \in Blocks, n \in Blocks \cup {NIL} : block' = [freed EXCEPT ![c] = [freed[c] EXCEPT !.next = n]]
    <3>1. a \in Blocks /\ block[a].next \in Blocks \cup {NIL}
      BY <1>0, <1>6 DEF Remove, TypeInv, Node
    <3>2. Before(a) \in Blocks \cup {NIL}
      BY FirstType DEF Before, Befores, TypeInv
    <3> QED BY <1>6, <3>1, <3>2 DEF Remove, Unlink
  <2>2. freed \in [Blocks -> Node] /\ freed[b].session = block[b].session /\ freed[b].range = block[b].range
        /\ (b # a => freed[b] = block[b])
    <3>1. a \in Blocks
      BY <1>0, <1>6 DEF Remove, TypeInv
    <3>2. freed \in [Blocks -> Node]
      BY <1>0, <3>1, NodeUpdates, BlockUpdate
    <3> QED BY <1>0, <3>1, <3>2 DEF Node
  <2> HIDE DEF freed
  <2>6. req'[w] = NIL
    BY <1>0, <1>6 DEF Remove, Done
  <2>3. CASE block' = block
    BY <1>0, <2>3 DEF Kept, Stays
  <2>4. CASE block' = freed
    BY <1>0, <2>2, <2>4, <2>6 DEF Kept, Stays
  <2>5. ASSUME NEW c \in Blocks, NEW n \in Blocks \cup {NIL},
               block' = [freed EXCEPT ![c] = [freed[c] EXCEPT !.next = n]]
        PROVE  (b \notin {a, req'[w]} => Kept(b)) /\ Stays(b)
    <3>1. /\ block'[b].state = freed[b].state /\ block'[b].session = freed[b].session
          /\ block'[b].range = freed[b].range /\ block'[b].swapped = freed[b].swapped
          /\ block'[b].pipe = freed[b].pipe /\ block'[b].num = freed[b].num
      BY <2>2, <2>5 DEF Node
    <3> QED BY <1>0, <2>2, <3>1 DEF Kept, Stays
  <2> QED BY <2>1, <2>3, <2>4, <2>5, <2>6
<1>7. CASE UNCHANGED block
  BY <1>0, <1>7 DEF Kept, Stays
<1> QED BY <1>1, <1>2, <1>3, <1>4, <1>5, <1>6, <1>7
    DEF Step, Find, Mismatch, Match, Refuse, Divide, Longer, Rest, Remaining, Shorter, Send, Child, ReadPipe

\* Every worker owns its request: nobody else has it, and it is not freed.
Owned == \A v \in Workers : req[v] # NIL =>
           block[req[v]].state = "live" /\ \A u \in Workers \ {v} : req[u] # req[v]

LEMMA OwnedStep ==
  ASSUME TypeInv, TypeInv', Owned, NEW w \in Workers, Dissect(w) \/ Step(w)
  PROVE  /\ Owned'
         /\ \A v \in Workers \ {w} : req[v] # NIL => req[v] # req'[w] /\ Kept(req[v])
<1>0. /\ req \in [Workers -> Blocks \cup {NIL}] /\ NIL \notin Blocks
      /\ req' \in [Workers -> Blocks \cup {NIL}]
      /\ \A v \in Workers \ {w} : req'[v] = req[v]
  BY BlocksAssumption, OtherHands DEF TypeInv, TypeOK
<1>1. CASE Dissect(w)
  <2>1. PICK c \in Blocks, s \in Sessions, r \in Ranges :
          /\ block[c].state \in {"fresh", "freed"}
          /\ req' = [req EXCEPT ![w] = c]
          /\ block' = [block EXCEPT ![c].state = "live", ![c].session = s, ![c].range = r,
                                    ![c].swapped = FALSE]
    BY ZenonT(60), <1>1 DEF Dissect
  <2>2. req'[w] = c /\ req[w] = NIL
    BY <1>0, <1>1, <2>1 DEF Dissect, TypeInv
  <2>3. block'[c].state = "live"
    <3>1. block[c] \in Node
      BY DEF TypeInv, TypeOK
    <3> QED BY <2>1, <3>1 DEF TypeInv, TypeOK, Node
  <2>4. \A v \in Workers \ {w} : req[v] # NIL => req[v] # req'[w] /\ Kept(req[v])
    <3>1. \A v \in Workers \ {w} : req[v] # NIL => req[v] \notin {req[w], c}
      BY <2>1, <2>2 DEF Owned
    <3> QED BY <1>0, <1>1, <2>2, <3>1, BlockSteps
  <2> QED BY <1>0, <2>2, <2>3, <2>4 DEF Owned, Kept
<1>2. CASE ~Dissect(w) /\ Step(w)
  <2>1. req'[w] \in {NIL, req[w]}
    BY <1>0, <1>2 DEF Step, Find, Mismatch, Match, Join, Add, Refuse, Divide, Swap, Unswap, Longer, Rest,
                      Remaining, Shorter, Send, Remove, ChildRefuse, Child, ReadPipe, Header, Done
  <2>2. \A v \in Workers \ {w} : req[v] # NIL => req[v] # req'[w] /\ Kept(req[v])
    <3>1. \A v \in Workers \ {w} : req[v] # NIL => req[v] # req[w]
      BY DEF Owned
    <3> QED BY <1>0, <1>2, <2>1, <3>1, BlockSteps
  <2>3. req'[w] # NIL => block'[req[w]].state = block[req[w]].state
    BY <1>0, <1>2, <2>1, BlockSteps
  <2> QED BY <1>0, <2>1, <2>2, <2>3 DEF Owned, Kept
<1> QED BY <1>1, <1>2

LEMMA OwnedInit == Init => Owned
BY DEF Init, Owned
--------------------------------------------------------------------------------
(* The segments of a range                                                     *)

Sending == {"longer", "rest", "minuend", "divisor", "shorter", "send"}
Splitting == {"swap", "unswap"} \cup Sending

\* The segments of q follow one another without a gap, from one byte to before another.
IsCut(q, from, to) ==
  /\ \A i, j \in DOMAIN q : i < j => q[i][1] + q[i][2] <= q[j][1]
  /\ \A i \in DOMAIN q : q[i][1] + q[i][2] <= to
  /\ \A i \in 1..Len(q) - 1 : q[i + 1][1] = q[i][1] + q[i][2]
  /\ IF q = <<>> THEN to = from ELSE q[1][1] = from /\ q[Len(q)][1] + q[Len(q)][2] = to

LEMMA CutLonger ==
  ASSUME NEW q \in Segments, NEW from \in Nat, NEW to \in Nat, NEW length \in Nat, IsCut(q, from, to)
  PROVE  /\ IsCut(Append(q, <<to, length>>), from, to + length)
         /\ Append(q, <<to, length>>) \in Segments /\ Len(Append(q, <<to, length>>)) = Len(q) + 1
<1> DEFINE a == Append(q, <<to, length>>)
<1>1. /\ q \in Seq(Nat \X Nat) /\ Len(q) \in Nat /\ DOMAIN q = 1..Len(q)
      /\ \A i \in 1..Len(q) : q[i][1] \in Nat /\ q[i][2] \in Nat
  BY DEF Segments
<1>2. /\ <<to, length>> \in Nat \X Nat /\ <<to, length>>[1] = to /\ <<to, length>>[2] = length
  OBVIOUS
<1>3. /\ a \in Segments /\ Len(a) = Len(q) + 1 /\ DOMAIN a = 1..Len(q) + 1
      /\ \A i \in 1..Len(q) : a[i] = q[i]
      /\ a[Len(q) + 1] = <<to, length>>
  BY <1>1, <1>2 DEF Segments
<1>4. a[Len(q) + 1][1] = to /\ a[Len(q) + 1][2] = length
  BY <1>2, <1>3
<1> HIDE DEF a
<1>10. \A i \in 1..Len(q) : q[i][1] + q[i][2] <= to
  BY <1>1 DEF IsCut
<1>5. ASSUME NEW i \in DOMAIN a, NEW j \in DOMAIN a, i < j PROVE a[i][1] + a[i][2] <= a[j][1]
  <2>1. i \in 1..Len(q)
    BY <1>1, <1>3, <1>5
  <2>2. CASE j = Len(q) + 1
    BY <1>3, <1>4, <1>10, <2>1, <2>2
  <2>3. CASE j \in 1..Len(q)
    BY <1>1, <1>3, <1>5, <2>1, <2>3 DEF IsCut
  <2> QED BY <1>1, <1>3, <2>2, <2>3
<1>6. ASSUME NEW i \in DOMAIN a PROVE a[i][1] + a[i][2] <= to + length
  <2>1. CASE i = Len(q) + 1
    BY <1>3, <1>4, <2>1
  <2>2. CASE i \in 1..Len(q)
    <3>1. q[i][1] \in Nat /\ q[i][2] \in Nat /\ q[i][1] + q[i][2] <= to /\ a[i] = q[i]
      BY <1>1, <1>3, <1>10, <2>2
    <3> QED BY <3>1
  <2>3. i = Len(q) + 1 \/ i \in 1..Len(q)
    BY <1>1, <1>3, <1>6
  <2> QED BY <2>1, <2>2, <2>3
<1>7. \A i \in 1..Len(a) - 1 : a[i + 1][1] = a[i][1] + a[i][2]
  <2>1. ASSUME NEW i \in 1..Len(q), i < Len(q) PROVE a[i + 1][1] = a[i][1] + a[i][2]
    <3>1. i \in 1..Len(q) - 1 /\ i + 1 \in 1..Len(q)
      BY <1>1, <2>1
    <3>2. q[i + 1][1] = q[i][1] + q[i][2]
      BY <3>1 DEF IsCut
    <3> QED BY <1>3, <3>1, <3>2
  <2>2. Len(q) > 0 => a[Len(q) + 1][1] = a[Len(q)][1] + a[Len(q)][2]
    <3>1. Len(q) > 0 => q # <<>> /\ Len(q) \in 1..Len(q)
      BY <1>1
    <3> QED BY <1>3, <1>4, <3>1 DEF IsCut
  <2> QED BY <1>1, <1>3, <2>1, <2>2
<1>8. a # <<>> /\ a[1][1] = from /\ a[Len(a)][1] + a[Len(a)][2] = to + length
  <2>1. CASE q = <<>>
    BY <1>1, <1>3, <1>4, <2>1 DEF IsCut
  <2>2. CASE q # <<>>
    <3>1. 1 \in 1..Len(q)
      BY <1>1, <2>2
    <3> QED BY <1>3, <1>4, <2>2, <3>1 DEF IsCut
  <2> QED BY <2>1, <2>2
<1>9. IsCut(a, from, to + length)
  BY <1>5, <1>6, <1>7, <1>8 DEF IsCut
<1> QED BY <1>3, <1>9 DEF a

\* How far the parent has come while nobody joins: its locals, and the segments c of
\* a range of len bytes from o.  d and r are the division and its remainder.
Parts(at, l, c, o, len, d, r) ==
  /\ l.division = d
  /\ at \in {"swap", "unswap"} => l.i = 0 /\ l.offset = o /\ c = <<>>
  /\ at = "longer" => Len(c) = l.i /\ l.i <= r /\ l.offset = o + (l.i * (d + 1))
  /\ at \in {"rest", "minuend", "divisor"} => Len(c) = r /\ l.offset = o + (r * (d + 1))
  /\ at \in {"minuend", "divisor"} => l.read = l.num
  /\ at = "shorter" => /\ l.remaining = l.num - r /\ l.i <= l.num - r /\ Len(c) = r + l.i
                       /\ l.offset = o + (r * (d + 1)) + (l.i * d)
  /\ at = "send" => Len(c) = l.num /\ l.offset + d = o + len
  /\ at = "remove" => Len(c) = l.num + 1 /\ c[l.num + 1][1] + c[l.num + 1][2] = o + len

LEMMA Products ==
  ASSUME NEW x \in Nat, NEW y \in Nat
  PROVE  /\ (x + 1) * y = (x * y) + y /\ 0 * y = 0 /\ x * y \in Nat
         /\ (x + 1) * (y + 1) = (x * (y + 1)) + (y + 1) /\ x * (y + 1) = (x * y) + x
         /\ x * (y + 1) \in Nat
OBVIOUS

LEMMA PartsSteps ==
  ASSUME NEW l \in Locals, NEW c \in Segments, NEW o \in Nat, NEW len \in Nat,
         NEW d \in Nat, NEW r \in Nat, Divided(len, l.num, d, r)
  PROVE  LET longer == Append(c, <<l.offset, l.division + 1>>)
             shorter == Append(c, <<l.offset, l.division>>)
             last == Append(c, <<l.offset, l.division>>)
         IN
         /\ Parts("swap", l, c, o, len, d, r) => Parts("unswap", l, c, o, len, d, r)
         /\ Parts("unswap", l, c, o, len, d, r) => /\ l.num > 0 => Parts("longer", l, c, o, len, d, r)
                                                   /\ l.num = 0 => Parts("send", l, c, o, len, d, r)
         /\ Parts("longer", l, c, o, len, d, r) =>
              IF l.i < r
              THEN Parts("longer", [l EXCEPT !.offset = @ + l.division + 1, !.i = @ + 1], longer, o, len, d, r)
              ELSE Parts("rest", l, c, o, len, d, r)
         /\ Parts("rest", l, c, o, len, d, r) =>
              /\ Parts("minuend", [l EXCEPT !.read = l.num], c, o, len, d, r)
              /\ Parts("divisor", [l EXCEPT !.read = l.num], c, o, len, d, r)
         /\ \A at \in {"minuend", "divisor"} : Parts(at, l, c, o, len, d, r) =>
              Parts("shorter", [l EXCEPT !.i = 0, !.remaining = l.num - r], c, o, len, d, r)
         /\ Parts("shorter", l, c, o, len, d, r) =>
              IF l.i < l.remaining
              THEN Parts("shorter", [l EXCEPT !.offset = @ + l.division, !.i = @ + 1], shorter, o, len, d, r)
              ELSE Parts("send", l, c, o, len, d, r)
         /\ Parts("send", l, c, o, len, d, r) => Parts("remove", l, last, o, len, d, r)
<1> DEFINE n == l.num
<1>1. n \in Nat /\ r \in 0..n /\ len = ((n + 1) * d) + r
  BY DEF Locals, Divided
<1>2. l.offset \in Nat /\ l.division \in Nat /\ l.i \in Nat /\ Len(c) \in Nat /\ l.remaining \in Int
  BY DEF Locals, Segments
<1>4. ASSUME NEW x \in Nat, NEW y \in Nat
      PROVE  /\ Append(c, <<x, y>>) \in Segments /\ Len(Append(c, <<x, y>>)) = Len(c) + 1
             /\ Append(c, <<x, y>>)[Len(c) + 1] = <<x, y>>
  BY DEF Segments
<1>5. Parts("swap", l, c, o, len, d, r) => Parts("unswap", l, c, o, len, d, r)
  BY DEF Parts
<1>6. Parts("unswap", l, c, o, len, d, r) => /\ n > 0 => Parts("longer", l, c, o, len, d, r)
                                             /\ n = 0 => Parts("send", l, c, o, len, d, r)
  <2> SUFFICES ASSUME Parts("unswap", l, c, o, len, d, r)
               PROVE  /\ n > 0 => Parts("longer", l, c, o, len, d, r)
                      /\ n = 0 => Parts("send", l, c, o, len, d, r)
    OBVIOUS
  <2>1. l.division = d /\ l.i = 0 /\ l.offset = o /\ Len(c) = 0
    BY DEF Parts
  <2>2. 0 * (d + 1) = 0 /\ (n = 0 => (n + 1) * d = d)
    BY <1>1, Products
  <2>3. n = 0 => r = 0 /\ len = d
    BY <1>1, <2>2
  <2> QED BY <1>1, <1>2, <2>1, <2>2, <2>3 DEF Parts
<1>7. Parts("longer", l, c, o, len, d, r) =>
        IF l.i < r
        THEN Parts("longer", [l EXCEPT !.offset = @ + l.division + 1, !.i = @ + 1],
                   Append(c, <<l.offset, l.division + 1>>), o, len, d, r)
        ELSE Parts("rest", l, c, o, len, d, r)
  <2> SUFFICES ASSUME Parts("longer", l, c, o, len, d, r)
               PROVE  IF l.i < r
                      THEN Parts("longer", [l EXCEPT !.offset = @ + l.division + 1, !.i = @ + 1],
                                 Append(c, <<l.offset, l.division + 1>>), o, len, d, r)
                      ELSE Parts("rest", l, c, o, len, d, r)
    OBVIOUS
  <2> DEFINE m == [l EXCEPT !.offset = @ + l.division + 1, !.i = @ + 1]
             e == Append(c, <<l.offset, l.division + 1>>)
  <2>1. l.division = d /\ Len(c) = l.i /\ l.i <= r /\ l.offset = o + (l.i * (d + 1))
    BY DEF Parts
  <2>2. m.num = n /\ m.division = l.division /\ m.offset = l.offset + l.division + 1 /\ m.i = l.i + 1
    BY DEF Locals
  <2>3. Len(e) = Len(c) + 1
    BY <1>2, <1>4
  <2>4. (l.i + 1) * (d + 1) = (l.i * (d + 1)) + (d + 1) /\ l.i * (d + 1) \in Nat
    BY <1>2, Products
  <2>5. m.offset = o + (m.i * (d + 1))
    BY <1>1, <1>2, <2>1, <2>2, <2>4
  <2> HIDE DEF m, e
  <2>6. l.i < r => Parts("longer", m, e, o, len, d, r)
    BY <1>1, <1>2, <2>1, <2>2, <2>3, <2>5 DEF Parts
  <2>7. ~(l.i < r) => Parts("rest", l, c, o, len, d, r)
    <3>1. ~(l.i < r) => l.i = r
      BY <1>1, <1>2, <2>1
    <3> QED BY <2>1, <3>1 DEF Parts
  <2> QED BY <2>6, <2>7 DEF m, e
<1>11. Parts("rest", l, c, o, len, d, r) =>
         /\ Parts("minuend", [l EXCEPT !.read = n], c, o, len, d, r)
         /\ Parts("divisor", [l EXCEPT !.read = n], c, o, len, d, r)
  <2> DEFINE m == [l EXCEPT !.read = n]
  <2>1. m.num = n /\ m.division = l.division /\ m.offset = l.offset /\ m.read = n
    BY DEF Locals
  <2> HIDE DEF m
  <2> QED BY <2>1 DEF Parts, m
<1>8. ASSUME NEW at \in {"minuend", "divisor"}
      PROVE  Parts(at, l, c, o, len, d, r) =>
               Parts("shorter", [l EXCEPT !.i = 0, !.remaining = n - r], c, o, len, d, r)
  <2> SUFFICES ASSUME Parts(at, l, c, o, len, d, r)
               PROVE  Parts("shorter", [l EXCEPT !.i = 0, !.remaining = n - r], c, o, len, d, r)
    OBVIOUS
  <2> DEFINE m == [l EXCEPT !.i = 0, !.remaining = n - r]
  <2>1. l.division = d /\ Len(c) = r /\ l.offset = o + (r * (d + 1))
    BY DEF Parts
  <2>2. m.num = n /\ m.division = l.division /\ m.offset = l.offset /\ m.i = 0 /\ m.remaining = n - r
    BY DEF Locals
  <2>3. 0 * d = 0 /\ r * (d + 1) \in Nat
    BY Products
  <2> HIDE DEF m
  <2>4. m.offset = o + (r * (d + 1)) + (m.i * d)
    BY <2>1, <2>2, <2>3
  <2> QED BY <1>1, <2>1, <2>2, <2>4 DEF Parts, m
<1>9. Parts("shorter", l, c, o, len, d, r) =>
        IF l.i < l.remaining
        THEN Parts("shorter", [l EXCEPT !.offset = @ + l.division, !.i = @ + 1],
                   Append(c, <<l.offset, l.division>>), o, len, d, r)
        ELSE Parts("send", l, c, o, len, d, r)
  <2> SUFFICES ASSUME Parts("shorter", l, c, o, len, d, r)
               PROVE  IF l.i < l.remaining
                      THEN Parts("shorter", [l EXCEPT !.offset = @ + l.division, !.i = @ + 1],
                                 Append(c, <<l.offset, l.division>>), o, len, d, r)
                      ELSE Parts("send", l, c, o, len, d, r)
    OBVIOUS
  <2> DEFINE m == [l EXCEPT !.offset = @ + l.division, !.i = @ + 1]
             e == Append(c, <<l.offset, l.division>>)
  <2>1. /\ l.division = d /\ l.remaining = n - r /\ l.i <= n - r /\ Len(c) = r + l.i
        /\ l.offset = o + (r * (d + 1)) + (l.i * d)
    BY DEF Parts
  <2>2. /\ m.num = n /\ m.division = l.division /\ m.offset = l.offset + l.division /\ m.i = l.i + 1
        /\ m.remaining = l.remaining
    BY DEF Locals
  <2>3. Len(e) = Len(c) + 1
    BY <1>2, <1>4
  <2>4. (l.i + 1) * d = (l.i * d) + d /\ l.i * d \in Nat /\ r * (d + 1) \in Nat
    BY <1>2, Products
  <2> HIDE DEF m, e
  <2>5. m.offset = o + (r * (d + 1)) + (m.i * d)
    <3>1. m.offset = l.offset + d
      BY <2>1, <2>2
    <3>2. m.i * d = (l.i * d) + d
      BY <2>2, <2>4
    <3>3. ASSUME NEW a \in Nat, NEW b \in Nat
          PROVE  (o + a + b) + d = o + a + (b + d)
      BY <1>1
    <3>4. (o + (r * (d + 1)) + (l.i * d)) + d = o + (r * (d + 1)) + ((l.i * d) + d)
      BY <2>4, <3>3
    <3> QED BY <2>1, <3>1, <3>2, <3>4
  <2>6. l.i < l.remaining => Parts("shorter", m, e, o, len, d, r)
    <3>2. l.remaining = n - r /\ Len(c) = r + l.i /\ m.division = d /\ m.remaining = n - r
      BY <2>1, <2>2
    <3>3. n \in Nat /\ m.i = l.i + 1
      BY <1>1, <2>2
    <3>4. Len(e) = r + m.i
      <4>1. ASSUME NEW k \in Nat PROVE (r + k) + 1 = r + (k + 1)
        OBVIOUS
      <4>2. (r + l.i) + 1 = r + (l.i + 1)
        BY <1>2, <4>1
      <4> QED BY <2>3, <3>2, <3>3, <4>2
    <3>5. l.i < l.remaining => m.i <= n - r
      <4>1. ASSUME NEW k \in Nat, NEW j \in Int, k < j PROVE k + 1 <= j
        BY <4>1
      <4> QED BY <1>2, <3>2, <3>3, <4>1
    <3>1. l.i < l.remaining => m.i <= n - r /\ Len(e) = r + m.i
      BY <3>4, <3>5
    <3> QED BY <2>2, <2>5, <3>1, <3>2 DEF Parts
  <2>7. ~(l.i < l.remaining) => Parts("send", l, c, o, len, d, r)
    <3> SUFFICES ASSUME ~(l.i < l.remaining) PROVE Parts("send", l, c, o, len, d, r)
      OBVIOUS
    <3>1. l.i = n - r
      <4>1. l.i <= n - r /\ ~(l.i < n - r) /\ l.i \in Nat
        BY <1>2, <2>1
      <4>2. n - r \in Int
        BY <1>1
      <4> QED BY <4>1, <4>2
    <3>2. /\ r * (d + 1) = (r * d) + r /\ (n + 1) * d = (n * d) + d /\ r * d \in Nat /\ n * d \in Nat
      BY <1>1, Products
    <3>4. l.i * d = (n * d) - (r * d)
      <4>1. (n - r) * d = (n * d) - (r * d)
        BY <1>1
      <4> QED BY <3>1, <4>1
    <3>3. l.offset + d = o + len
      <4>1. l.offset = o + ((r * d) + r) + ((n * d) - (r * d))
        BY <2>1, <3>2, <3>4
      <4>2. len = ((n * d) + d) + r
        BY <1>1, <3>2
      <4>3. ASSUME NEW x \in Nat, NEW y \in Nat PROVE o + (x + r) + (y - x) + d = o + ((y + d) + r)
        BY <1>1
      <4> QED BY <3>2, <4>1, <4>2, <4>3
    <3> QED BY <1>1, <2>1, <3>1, <3>3 DEF Parts
  <2> QED BY <2>6, <2>7 DEF m, e
<1>10. Parts("send", l, c, o, len, d, r) => Parts("remove", l, Append(c, <<l.offset, l.division>>), o, len, d, r)
  <2> DEFINE e == Append(c, <<l.offset, l.division>>)
  <2>1. Len(e) = Len(c) + 1 /\ e[Len(c) + 1][1] = l.offset /\ e[Len(c) + 1][2] = l.division
    BY <1>2, <1>4
  <2> HIDE DEF e
  <2> QED BY <2>1 DEF Parts, e
<1> QED BY <1>5, <1>6, <1>7, <1>8, <1>9, <1>10, <1>11

\* No offset has wrapped around yet.
Below(c) == \A i \in DOMAIN c : c[i][1] + c[i][2] < WordSize

LEMMA BelowLonger ==
  ASSUME NEW c \in Segments, NEW x \in Nat, NEW y \in Nat, Below(Append(c, <<x, y>>))
  PROVE  Below(c) /\ Sum(x, y) = x + y
<1>1. /\ DOMAIN c = 1..Len(c) /\ Len(c) \in Nat /\ DOMAIN Append(c, <<x, y>>) = 1..Len(c) + 1
      /\ \A i \in 1..Len(c) : Append(c, <<x, y>>)[i] = c[i]
      /\ Append(c, <<x, y>>)[Len(c) + 1] = <<x, y>>
  BY DEF Segments
<1>2. x + y < WordSize
  BY <1>1 DEF Below
<1>3. Sum(x, y) = x + y
  BY <1>2, SumType
<1>4. Below(c)
  BY <1>1 DEF Below
<1> QED BY <1>3, <1>4

\* The segments c that a parent at the statement at has cut of len bytes from o, with
\* the locals l, while num children have joined
CutState(at, l, c, o, len, num) ==
  /\ at \notin Sending \cup {"remove"} => c = <<>>
  /\ at \in Splitting /\ Below(c) => IsCut(c, o, l.offset)
  /\ at = "remove" /\ c # <<>> /\ Below(c) => IsCut(c, o, c[Len(c)][1] + c[Len(c)][2])
  /\ at \in Splitting \/ (at = "remove" /\ c # <<>>) =>
       /\ l.num <= num
       /\ l.num = num /\ Below(c) => Parts(at, l, c, o, len, len \div (l.num + 1), len % (l.num + 1))

CutAt(v) == IF req[v] = NIL THEN cut[v] = <<>>
            ELSE CutState(pc[v], local[v], cut[v], Offset(v), Length(v), Num(v))

\* The statements of parent_send leave the range and the counter of the request alone.
LEMMA ParentKeeps ==
  ASSUME TypeInv, NEW w \in Workers,
         \/ Refuse(w) \/ Divide(w) \/ Swap(w) \/ Unswap(w) \/ Longer(w) \/ Rest(w) \/ Remaining(w)
         \/ Shorter(w) \/ Send(w)
  PROVE  /\ req[w] \in Blocks /\ req'[w] = req[w]
         /\ Offset(w)' = Offset(w) /\ Length(w)' = Length(w) /\ Num(w)' = Num(w)
         /\ Offset(w) \in Nat /\ Length(w) \in Nat /\ Num(w) \in Nat
         /\ local[w] \in Locals /\ cut[w] \in Segments
         /\ ~Divide(w) => local'[w].num = local[w].num
<1>1. req[w] \in Blocks /\ req' = req
  BY DEF TypeInv, TypeOK, Refuse, Divide, Swap, Unswap, Longer, Rest, Remaining, Shorter, Send
<1>2. block[req[w]] \in Node
  BY <1>1 DEF TypeInv, TypeOK
<1>3. block'[req[w]].range = block[req[w]].range /\ block'[req[w]].num = block[req[w]].num
  <2>1. CASE UNCHANGED block
    BY <2>1
  <2>2. CASE Swap(w) \/ Unswap(w)
    <3>1. PICK x \in BOOLEAN : block' = [block EXCEPT ![req[w]] = [block[req[w]] EXCEPT !.swapped = x]]
      BY <2>2 DEF Swap, Unswap
    <3> QED BY <1>1, <1>2, <3>1 DEF TypeInv, TypeOK, Node
  <2> QED BY <2>1, <2>2 DEF Refuse, Divide, Longer, Rest, Remaining, Shorter, Send
<1>4. Offset(w) \in Nat /\ Length(w) \in Nat /\ Num(w) \in Nat
  <2>1. block[req[w]].range \in Ranges /\ block[req[w]].num \in Nat
    BY <1>2 DEF Node
  <2> QED BY <2>1, RangeType DEF Offset, Length, Num
<1>5. local[w] \in Locals /\ cut[w] \in Segments
  BY DEF TypeInv, TypeOK
<1>6. ~Divide(w) => local'[w].num = local[w].num
  <2>1. ASSUME NEW length, Write(w, length) PROVE local'[w].num = local[w].num
    BY <2>1 DEF Write, TypeInv, TypeOK, Locals
  <2>2. CASE Longer(w) \/ Shorter(w)
    BY <2>1, <2>2 DEF Longer, Shorter
  <2>3. CASE Rest(w) \/ Remaining(w)
    BY <2>3 DEF Rest, Remaining, TypeInv, TypeOK, Locals
  <2> QED BY <2>2, <2>3 DEF Refuse, Swap, Unswap, Send
<1> QED BY <1>1, <1>3, <1>4, <1>5, <1>6 DEF Offset, Length, Num

\* A range that is being cut, or has been, lies within the file as long as no block
\* was overrun; a range longer than the file is cut only if nobody had joined.
InFile(v) ==
  /\ req[v] # NIL
  /\ pc[v] \in Splitting \/ (pc[v] = "remove" /\ cut[v] # <<>>)
  => /\ process = "up" => Offset(v) + Length(v) <= FileSize
     /\ Running => Length(v) <= FileSize \/ local[v].num = 0

\* What a division by more than one leaves is no longer than half.
LEMMA Halves ==
  ASSUME NEW len \in Nat, NEW n \in Nat, NEW d \in Nat, NEW r \in Nat, Divided(len, n, d, r)
  PROVE  d <= len /\ r <= n /\ r <= len /\ (n > 0 => 2 * d <= len)
<1>1. len = ((n + 1) * d) + r /\ r <= n
  BY DEF Divided
<1>2. (n + 1) * d = (n * d) + d /\ n * d \in Nat
  BY Products
<1>3. ASSUME n > 0 PROVE n * d >= d
  <2>1. n - 1 \in Nat /\ (n - 1) + 1 = n
    BY <1>3
  <2>2. ASSUME NEW k \in Nat PROVE (k + 1) * d = (k * d) + d /\ k * d \in Nat
    BY Products
  <2>3. n * d = ((n - 1) * d) + d /\ (n - 1) * d \in Nat
    BY <2>1, <2>2
  <2> QED BY <2>3
<1>4. ASSUME NEW x \in Nat, len = x + d + r, n > 0 => x >= d
      PROVE  d <= len /\ r <= len /\ (n > 0 => 2 * d <= len)
  BY <1>4
<1> QED BY <1>1, <1>2, <1>3, <1>4

\* The longer segment of a range that fits into the file is a word.
LEMMA LongerIsWord ==
  ASSUME NEW len \in Nat, NEW n \in Nat, NEW d \in Nat, NEW r \in Nat, Divided(len, n, d, r),
         r > 0, len <= FileSize
  PROVE  Sum(d, 1) = d + 1
<1>1. d <= len /\ r <= len /\ r <= n /\ (n > 0 => 2 * d <= len)
  BY Halves
<1>2. FileSize \in Nat /\ WordSize \in Nat /\ 2 * FileSize < WordSize
  BY SizesAssumption
<1>3. d + 1 < WordSize
  BY <1>1, <1>2
<1> QED BY <1>3, SumType

LEMMA CutSteps ==
  ASSUME TypeInv, Running, NEW w \in Workers, Dissect(w) \/ Step(w), CutAt(w), InFile(w)
  PROVE  CutAt(w)'
<1>0. /\ pc \in [Workers -> Labels] /\ req \in [Workers -> Blocks \cup {NIL}] /\ NIL \notin Blocks
      /\ local \in [Workers -> Locals] /\ cut \in [Workers -> Segments]
      /\ pc[w] = "message" <=> req[w] = NIL
  BY BlocksAssumption DEF TypeInv, TypeOK
<1>1. CASE \/ Dissect(w) \/ Find(w) \/ Match(w) \/ Join(w) \/ Add(w) \/ Child(w) \/ ReadPipe(w)
  <2>1. pc[w] \notin Sending \cup {"remove"} /\ cut' = cut
    BY <1>1 DEF Sending, Dissect, Find, Match, Join, Add, Child, ReadPipe
  <2>2. cut'[w] = <<>>
    BY <2>1 DEF CutAt, CutState
  <2>3. pc'[w] \notin Splitting
    BY <1>0, <1>1 DEF Splitting, Sending, Dissect, Find, Match, Join, Add, Child, ReadPipe, Goto
  <2> QED BY <2>2, <2>3 DEF CutAt, CutState
<1>2. CASE Mismatch(w) \/ Remove(w) \/ Header(w) \/ ChildRefuse(w)
  BY <1>0, <1>2 DEF Mismatch, Remove, Header, ChildRefuse, Done, CutAt
<1>3. CASE \/ Refuse(w) \/ Divide(w) \/ Swap(w) \/ Unswap(w) \/ Longer(w) \/ Rest(w) \/ Remaining(w)
           \/ Shorter(w) \/ Send(w)
  <2> DEFINE l == local[w]
             c == cut[w]
             o == Offset(w)
             len == Length(w)
             num == Num(w)
             d == len \div (l.num + 1)
             r == len % (l.num + 1)
  <2>1. /\ req[w] # NIL /\ req'[w] # NIL
        /\ Offset(w)' = o /\ Length(w)' = len /\ Num(w)' = num
        /\ o \in Nat /\ len \in Nat /\ num \in Nat
        /\ l \in Locals /\ c \in Segments
    BY <1>0, <1>3, ParentKeeps
  <2>2. CutState(pc[w], l, c, o, len, num)
    BY <2>1 DEF CutAt
  <2>3. /\ l.offset \in Nat /\ l.division \in Nat /\ l.num \in Nat
        /\ d \in Nat /\ r \in Nat /\ Divided(len, l.num, d, r)
    <3>1. l.offset \in Nat /\ l.division \in Nat /\ l.num \in Nat
      BY <2>1 DEF Locals
    <3>2. d \in Nat /\ r \in 0..l.num /\ Divided(len, l.num, d, r)
      BY <2>1, <3>1, Division
    <3> QED BY <3>1, <3>2
  <2>4. SUFFICES CutState(pc'[w], local'[w], cut'[w], o, len, num)
    BY <2>1 DEF CutAt
  <2> HIDE DEF o, len, num
  <2>5. CASE Refuse(w)
    <3>1. pc[w] = "parent" /\ pc'[w] = "remove" /\ cut'[w] = c
      BY <1>0, <2>5 DEF Refuse, Goto
    <3>2. c = <<>>
      BY <2>2, <3>1 DEF CutState, Sending
    <3> QED BY <3>1, <3>2 DEF CutState, Splitting, Sending
  <2>6. CASE Divide(w)
    <3> DEFINE m == [division |-> len \div (num + 1), offset |-> o, i |-> 0, remaining |-> 0,
                     num |-> num, read |-> 0]
    <3>1. pc[w] = "parent" /\ pc'[w] = "swap" /\ cut'[w] = c /\ local'[w] = m
      BY <1>0, <2>6 DEF Divide, Goto, o, len, num
    <3>2. c = <<>>
      BY <2>2, <3>1 DEF CutState, Sending
    <3>3. IsCut(<<>>, o, m.offset)
      BY DEF IsCut
    <3>4. Parts("swap", m, <<>>, o, len, len \div (m.num + 1), len % (m.num + 1))
      BY DEF Parts
    <3>5. m.num = num
      OBVIOUS
    <3> HIDE DEF m
    <3> QED BY <2>1, <3>1, <3>2, <3>3, <3>4, <3>5 DEF CutState, Splitting, Sending
  <2>7. ASSUME NEW at \in Splitting, NEW m, NEW e, pc[w] \in Splitting,
               Below(e) => IsCut(e, o, m.offset), m.num = l.num,
               l.num = num /\ Below(e) => Parts(at, m, e, o, len, d, r), at \notin Sending => e = <<>>
        PROVE  CutState(at, m, e, o, len, num)
    <3>1. l.num <= num
      BY <2>2, <2>7 DEF CutState
    <3>2. len \div (m.num + 1) = d /\ len % (m.num + 1) = r
      BY <2>7
    <3>3. at \notin {"remove"} /\ at \in Splitting
      BY <2>7 DEF Splitting, Sending
    <3>4. at \in Sending \/ at \notin Sending \cup {"remove"}
      BY <3>3
    <3> HIDE DEF d, r
    <3> QED BY <2>7, <3>1, <3>2, <3>3, <3>4 DEF CutState
  <2>8. pc[w] \in Splitting => /\ Below(c) => IsCut(c, o, l.offset)
                               /\ l.num = num /\ Below(c) => Parts(pc[w], l, c, o, len, d, r)
    BY <2>2 DEF CutState
  <2>9. ASSUME NEW length \in Nat, Write(w, length), Below(c) => IsCut(c, o, l.offset)
        PROVE  /\ cut'[w] = Append(c, <<l.offset, length>>) /\ local'[w].num = l.num
               /\ Below(cut'[w]) => /\ Below(c) /\ IsCut(cut'[w], o, local'[w].offset)
                                    /\ local'[w] = [l EXCEPT !.offset = @ + length, !.i = @ + 1]
    <3>1. /\ local'[w] = [l EXCEPT !.offset = Sum(@, length), !.i = @ + 1]
          /\ cut'[w] = Append(c, <<l.offset, length>>)
      BY <1>0, <2>9 DEF Write
    <3>2. local'[w].offset = Sum(l.offset, length) /\ local'[w].num = l.num
      BY <2>1, <3>1 DEF Locals
    <3>3. IsCut(c, o, l.offset) => IsCut(Append(c, <<l.offset, length>>), o, l.offset + length)
      BY <2>1, <2>3, <2>9, CutLonger
    <3>4. Below(cut'[w]) => Below(c) /\ Sum(l.offset, length) = l.offset + length
      BY <2>1, <2>3, <2>9, <3>1, BelowLonger
    <3>5. Below(cut'[w]) => local'[w] = [l EXCEPT !.offset = @ + length, !.i = @ + 1]
      BY <3>1, <3>4
    <3> QED BY <2>9, <3>1, <3>2, <3>3, <3>4, <3>5
  <2> HIDE DEF d, r
  <2>10. CASE Swap(w)
    <3>1. pc[w] = "swap" /\ pc'[w] = "unswap" /\ cut'[w] = c /\ local'[w] = l
      BY <1>0, <2>10 DEF Swap, Goto
    <3>2. Parts("swap", l, c, o, len, d, r) => Parts("unswap", l, c, o, len, d, r)
      BY <2>1, <2>3, PartsSteps
    <3>3. c = <<>>
      BY <2>2, <3>1 DEF CutState, Sending
    <3>4. pc[w] \in Splitting /\ pc'[w] \in Splitting
      BY <3>1 DEF Splitting
    <3>5. Below(c) => IsCut(c, o, l.offset)
      BY <2>8, <3>4
    <3>6. l.num = num /\ Below(c) => Parts("swap", l, c, o, len, d, r)
      BY <2>8, <3>1, <3>4
    <3> QED BY <2>7, <3>1, <3>2, <3>3, <3>4, <3>5, <3>6
  <2>11. CASE Unswap(w)
    <3>1. /\ pc[w] = "unswap" /\ pc'[w] = IF num > 0 THEN "longer" ELSE "send"
          /\ cut'[w] = c /\ local'[w] = l
      BY <1>0, <2>11 DEF Unswap, Goto, num
    <3>2. Parts("unswap", l, c, o, len, d, r) => /\ l.num > 0 => Parts("longer", l, c, o, len, d, r)
                                                 /\ l.num = 0 => Parts("send", l, c, o, len, d, r)
      BY <2>1, <2>3, PartsSteps
    <3>5. pc[w] \in Splitting /\ pc'[w] \in Splitting /\ pc'[w] \in Sending
      BY <3>1 DEF Splitting, Sending
    <3>6. Below(c) => IsCut(c, o, l.offset)
      BY <2>8, <3>5
    <3>7. l.num = num /\ Below(c) => Parts("unswap", l, c, o, len, d, r)
      BY <2>8, <3>1, <3>5
    <3>8. l.num = num /\ Below(c) => Parts(pc'[w], l, c, o, len, d, r)
      <4>1. ASSUME l.num = num, Below(c) PROVE Parts(pc'[w], l, c, o, len, d, r)
        <5>1. CASE num > 0
          BY <3>1, <3>2, <3>7, <4>1, <5>1
        <5>2. CASE num = 0
          BY <3>1, <3>2, <3>7, <4>1, <5>2
        <5> QED BY <2>1, <5>1, <5>2
      <4> QED BY <4>1
    <3> QED BY <2>7, <3>1, <3>5, <3>6, <3>8
  <2>12. CASE Longer(w)
    <3>1. pc[w] = "longer" /\ (l.num = num => len % (num + 1) = r)
      BY <2>12 DEF Longer, r
    <3>2. /\ Below(c) => IsCut(c, o, l.offset)
          /\ l.num = num /\ Below(c) => Parts("longer", l, c, o, len, d, r)
      <4>1. pc[w] \in Splitting
        BY <3>1 DEF Splitting, Sending
      <4> QED BY <2>8, <3>1, <4>1
    <3>3. Parts("longer", l, c, o, len, d, r) =>
            IF l.i < r
            THEN Parts("longer", [l EXCEPT !.offset = @ + l.division + 1, !.i = @ + 1],
                       Append(c, <<l.offset, l.division + 1>>), o, len, d, r)
            ELSE Parts("rest", l, c, o, len, d, r)
      BY <2>1, <2>3, PartsSteps
    <3>4. CASE l.i < len % (num + 1)
      <4>1. Write(w, Sum(l.division, 1)) /\ pc'[w] = "longer"
        BY <2>12, <3>1, <3>4 DEF Longer, len, num
      <4>2. Sum(l.division, 1) \in Nat
        BY <2>3, SumType
      <4>3. /\ cut'[w] = Append(c, <<l.offset, Sum(l.division, 1)>>) /\ local'[w].num = l.num
            /\ Below(cut'[w]) =>
                 /\ Below(c) /\ IsCut(cut'[w], o, local'[w].offset)
                 /\ local'[w] = [l EXCEPT !.offset = @ + Sum(l.division, 1), !.i = @ + 1]
        BY <2>9, <3>2, <4>1, <4>2
      <4>4. ASSUME l.num = num, Below(cut'[w]) PROVE Parts("longer", local'[w], cut'[w], o, len, d, r)
        <5>1. l.i < r /\ Parts("longer", l, c, o, len, d, r)
          BY <3>1, <3>2, <3>4, <4>3, <4>4
        <5>2. r > 0 /\ l.division = d
          <6>1. l.i \in Nat
            BY <2>1 DEF Locals
          <6> QED BY <2>3, <5>1, <6>1 DEF Parts
        <5>3. len <= FileSize
          <6>1. l.num # 0
            <7>1. r <= l.num
              BY <2>3 DEF Divided
            <7> QED BY <2>3, <5>2, <7>1
          <6> QED BY <2>1, <3>1, <6>1 DEF InFile, Splitting, Sending, len
        <5>4. Sum(l.division, 1) = l.division + 1
          BY <2>1, <2>3, <5>2, <5>3, LongerIsWord
        <5>5. l.offset + (l.division + 1) = l.offset + l.division + 1
          BY <2>3
        <5> QED BY <3>3, <4>3, <4>4, <5>1, <5>4, <5>5
      <4>5. pc[w] \in Splitting /\ pc'[w] \in Splitting /\ pc'[w] \in Sending
        BY <3>1, <4>1 DEF Splitting, Sending
      <4> QED BY <2>7, <4>1, <4>3, <4>4, <4>5
    <3>5. CASE ~(l.i < len % (num + 1))
      <4>1. pc'[w] = "rest" /\ local'[w] = l /\ cut'[w] = c
        BY <1>0, <2>12, <3>5 DEF Longer, Goto, len, num
      <4>2. l.num = num /\ Below(c) => Parts("rest", l, c, o, len, d, r)
        BY <3>1, <3>2, <3>3, <3>5
      <4>3. pc[w] \in Splitting /\ pc'[w] \in Splitting /\ pc'[w] \in Sending
        BY <3>1, <4>1 DEF Splitting, Sending
      <4> QED BY <2>7, <3>2, <4>1, <4>2, <4>3
    <3> QED BY <3>4, <3>5
  <2>13. CASE Rest(w)
    <3> DEFINE m == [l EXCEPT !.read = num]
    <3>1. pc[w] = "rest" /\ pc'[w] \in {"minuend", "divisor"} /\ cut'[w] = c /\ local'[w] = m
      BY <1>0, <2>13 DEF Rest, Goto, num
    <3>2. m.num = l.num /\ m.offset = l.offset
      BY <2>1 DEF Locals
    <3>4. Parts("rest", l, c, o, len, d, r) =>
            /\ Parts("minuend", [l EXCEPT !.read = l.num], c, o, len, d, r)
            /\ Parts("divisor", [l EXCEPT !.read = l.num], c, o, len, d, r)
      BY <2>1, <2>3, PartsSteps
    <3>5. /\ Below(c) => IsCut(c, o, l.offset)
          /\ l.num = num /\ Below(c) => Parts("rest", l, c, o, len, d, r)
      <4>1. pc[w] \in Splitting
        BY <3>1 DEF Splitting, Sending
      <4> QED BY <2>8, <3>1, <4>1
    <3>6. l.num = num /\ Below(c) => Parts(pc'[w], m, c, o, len, d, r)
      <4>1. ASSUME l.num = num, Below(c) PROVE Parts(pc'[w], m, c, o, len, d, r)
        <5>1. m = [l EXCEPT !.read = l.num]
          BY <4>1
        <5>2. Parts("minuend", m, c, o, len, d, r) /\ Parts("divisor", m, c, o, len, d, r)
          BY <3>4, <3>5, <4>1, <5>1
        <5> QED BY <3>1, <5>2
      <4> QED BY <4>1
    <3> HIDE DEF m
    <3>7. pc[w] \in Splitting /\ pc'[w] \in Splitting /\ pc'[w] \in Sending
      BY <3>1 DEF Splitting, Sending
    <3> QED BY <2>7, <3>1, <3>2, <3>5, <3>6, <3>7
  <2>16. CASE Remaining(w)
    <3> DEFINE minuend == IF pc[w] = "minuend" THEN num ELSE l.read
               divisor == IF pc[w] = "divisor" THEN num ELSE l.read
               m == [l EXCEPT !.i = 0, !.remaining = minuend - (len % (divisor + 1))]
    <3>1. pc[w] \in {"minuend", "divisor"} /\ pc'[w] = "shorter" /\ cut'[w] = c /\ local'[w] = m
      BY <1>0, <2>16 DEF Remaining, Goto, len, num
    <3>2. m.num = l.num /\ m.offset = l.offset
      BY <2>1 DEF Locals
    <3>4. Parts(pc[w], l, c, o, len, d, r) =>
            Parts("shorter", [l EXCEPT !.i = 0, !.remaining = l.num - r], c, o, len, d, r)
      BY <2>1, <2>3, <3>1, PartsSteps
    <3>5. /\ Below(c) => IsCut(c, o, l.offset)
          /\ l.num = num /\ Below(c) => Parts(pc[w], l, c, o, len, d, r)
      <4>1. pc[w] \in Splitting
        BY <3>1 DEF Splitting, Sending
      <4> QED BY <2>8, <3>1, <4>1
    <3>3. ASSUME l.num = num, Below(c) PROVE m = [l EXCEPT !.i = 0, !.remaining = l.num - r]
      <4>1. l.read = l.num
        BY <3>1, <3>3, <3>5 DEF Parts
      <4>2. minuend = l.num /\ divisor = l.num
        BY <3>3, <4>1
      <4> HIDE DEF minuend, divisor
      <4> QED BY <4>2 DEF r
    <3> HIDE DEF m
    <3>6. l.num = num /\ Below(c) => Parts("shorter", m, c, o, len, d, r)
      BY <3>3, <3>4, <3>5
    <3>7. pc[w] \in Splitting /\ pc'[w] \in Splitting /\ pc'[w] \in Sending
      BY <3>1 DEF Splitting, Sending
    <3> QED BY <2>7, <3>1, <3>2, <3>5, <3>6, <3>7
  <2>14. CASE Shorter(w)
    <3>1. pc[w] = "shorter"
      BY <2>14 DEF Shorter
    <3>2. /\ Below(c) => IsCut(c, o, l.offset)
          /\ l.num = num /\ Below(c) => Parts("shorter", l, c, o, len, d, r)
      <4>1. pc[w] \in Splitting
        BY <3>1 DEF Splitting, Sending
      <4> QED BY <2>8, <3>1, <4>1
    <3>3. Parts("shorter", l, c, o, len, d, r) =>
            IF l.i < l.remaining
            THEN Parts("shorter", [l EXCEPT !.offset = @ + l.division, !.i = @ + 1],
                       Append(c, <<l.offset, l.division>>), o, len, d, r)
            ELSE Parts("send", l, c, o, len, d, r)
      BY <2>1, <2>3, PartsSteps
    <3>4. CASE l.i < l.remaining
      <4>1. Write(w, l.division) /\ pc'[w] = "shorter"
        BY <2>14, <3>1, <3>4 DEF Shorter
      <4>2. /\ cut'[w] = Append(c, <<l.offset, l.division>>) /\ local'[w].num = l.num
            /\ Below(cut'[w]) => /\ Below(c) /\ IsCut(cut'[w], o, local'[w].offset)
                                 /\ local'[w] = [l EXCEPT !.offset = @ + l.division, !.i = @ + 1]
        BY <2>3, <2>9, <3>2, <4>1
      <4>3. l.num = num /\ Below(cut'[w]) => Parts("shorter", local'[w], cut'[w], o, len, d, r)
        BY <3>2, <3>3, <3>4, <4>2
      <4>4. pc[w] \in Splitting /\ pc'[w] \in Splitting /\ pc'[w] \in Sending
        BY <3>1, <4>1 DEF Splitting, Sending
      <4> QED BY <2>7, <4>1, <4>2, <4>3, <4>4
    <3>5. CASE ~(l.i < l.remaining)
      <4>1. pc'[w] = "send" /\ local'[w] = l /\ cut'[w] = c
        BY <1>0, <2>14, <3>5 DEF Shorter, Goto
      <4> QED BY <2>7, <3>1, <3>2, <3>3, <3>5, <4>1 DEF Splitting, Sending
    <3> QED BY <3>4, <3>5
  <2>15. CASE Send(w)
    <3> DEFINE e == Append(c, <<l.offset, l.division>>)
    <3>1. pc[w] = "send" /\ pc'[w] = "remove" /\ local'[w] = l /\ cut'[w] = e
      BY <1>0, <2>15 DEF Send, Goto
    <3>2. /\ Below(c) => IsCut(c, o, l.offset)
          /\ l.num = num /\ Below(c) => Parts("send", l, c, o, len, d, r)
          /\ l.num <= num
      BY <2>2, <2>8, <3>1 DEF Splitting, Sending, CutState
    <3>3. Parts("send", l, c, o, len, d, r) => Parts("remove", l, e, o, len, d, r)
      BY <2>1, <2>3, PartsSteps
    <3>6. Below(e) => Below(c)
      BY <2>1, <2>3, BelowLonger
    <3>4. Below(e) => IsCut(e, o, l.offset + l.division)
      BY <2>1, <2>3, <3>2, <3>6, CutLonger
    <3>5. e # <<>> /\ e[Len(e)][1] + e[Len(e)][2] = l.offset + l.division
      <4>1. <<l.offset, l.division>> \in Nat \X Nat /\ c \in Seq(Nat \X Nat)
        BY <2>1, <2>3 DEF Segments
      <4>2. Len(e) = Len(c) + 1 /\ e[Len(e)] = <<l.offset, l.division>> /\ Len(c) \in Nat
        BY <4>1
      <4> QED BY <4>2
    <3> HIDE DEF e
    <3> QED BY <3>1, <3>2, <3>3, <3>4, <3>5, <3>6 DEF CutState, Splitting, Sending, d, r
  <2> QED BY <1>3, <2>5, <2>6, <2>10, <2>11, <2>12, <2>13, <2>14, <2>15, <2>16
<1> QED BY <1>1, <1>2, <1>3 DEF Step

\* The test of the range lets a sum that wraps through only if the length is
\* longer than the file: a file is less than half a word long.
LEMMA BeyondTest ==
  ASSUME NEW range \in Ranges, ~Beyond(range), range.length <= FileSize
  PROVE  range.offset + range.length <= FileSize
<1>1. /\ range.offset \in Nat /\ range.length \in Nat /\ FileSize \in Nat /\ WordSize \in Nat
      /\ 2 * FileSize < WordSize
  BY RangeType, SizesAssumption
<1>2. range.offset <= FileSize /\ (range.offset + range.length) % WordSize <= FileSize
  <2>1. (range.offset + range.length) % WordSize \in Int
    BY <1>1
  <2> QED BY <1>1, <2>1 DEF Beyond, Sum
<1>3. ASSUME NEW x \in Nat, x < WordSize PROVE x % WordSize = x
  BY <1>1, <1>3
<1>4. range.offset + range.length \in Nat /\ range.offset + range.length < WordSize
  BY <1>1, <1>2
<1> QED BY <1>2, <1>3, <1>4

\* A block without room for the header is allotted only to an only connection.
LEMMA AllotFits ==
  ASSUME NEW len \in 0..WordSize - 1, NEW num \in Nat, Allot(len, len \div (num + 1))
  PROVE  /\ process' = "up" => len <= FileSize
         /\ Running' => len <= FileSize \/ num = 0
<1>1. /\ FileSize \in Nat /\ WordSize \in Nat /\ HeaderSize \in Nat /\ 2 * HeaderSize <= WordSize
      /\ len \in Nat /\ len < WordSize
  BY SizesAssumption
<1>2. len \div (num + 1) \in Nat /\ (num > 0 => 2 * (len \div (num + 1)) <= len)
  <2>1. /\ len \div (num + 1) \in Nat /\ len % (num + 1) \in 0..num
        /\ Divided(len, num, len \div (num + 1), len % (num + 1))
    BY <1>1, Division
  <2> QED BY <1>1, <2>1, Halves
<1>3. ASSUME NEW d \in Nat, 2 * d <= len PROVE ~(d + HeaderSize >= WordSize)
  BY <1>1, <1>3
<1>4. ~(len <= FileSize) => process' # "up" /\ (Running' => num = 0)
  <2> SUFFICES ASSUME ~(len <= FileSize) PROVE process' # "up" /\ (Running' => num = 0)
    OBVIOUS
  <2>1. process' \in IF (len \div (num + 1)) + HeaderSize >= WordSize THEN {"faulty", "crashed"} ELSE {"crashed"}
    BY DEF Allot
  <2>2. process' # "up" /\ (Running' => (len \div (num + 1)) + HeaderSize >= WordSize)
    BY <2>1 DEF Running
  <2>3. num = 0 \/ num > 0
    OBVIOUS
  <2> QED BY <1>2, <1>3, <2>2, <2>3
<1> QED BY <1>4

LEMMA InFileSteps ==
  ASSUME TypeInv, Running, NEW w \in Workers, Dissect(w) \/ Step(w), InFile(w), CutAt(w)
  PROVE  InFile(w)'
<1>0. /\ pc \in [Workers -> Labels] /\ req \in [Workers -> Blocks \cup {NIL}] /\ NIL \notin Blocks
      /\ cut \in [Workers -> Segments] /\ local \in [Workers -> Locals]
  BY BlocksAssumption DEF TypeInv, TypeOK
<1>1. CASE \/ Dissect(w) \/ Find(w) \/ Match(w) \/ Join(w) \/ Add(w) \/ Child(w) \/ ReadPipe(w)
  BY <1>0, <1>1 DEF InFile, Splitting, Sending, Dissect, Find, Match, Join, Add, Child, ReadPipe, Goto
<1>2. CASE Mismatch(w) \/ Remove(w) \/ Header(w) \/ ChildRefuse(w)
  BY <1>0, <1>2 DEF Mismatch, Remove, Header, ChildRefuse, Done, InFile
<1>3. CASE \/ Refuse(w) \/ Divide(w) \/ Swap(w) \/ Unswap(w) \/ Longer(w) \/ Rest(w) \/ Remaining(w)
           \/ Shorter(w) \/ Send(w)
  <2>1. /\ req[w] \in Blocks /\ req'[w] = req[w]
        /\ Offset(w)' = Offset(w) /\ Length(w)' = Length(w)
        /\ ~Divide(w) => local'[w].num = local[w].num
    BY <1>3, ParentKeeps
  <2>2. CASE Refuse(w)
    <3>1. pc'[w] = "remove" /\ cut'[w] = <<>>
      BY <1>0, <2>1, <2>2 DEF Refuse, Goto, CutAt, CutState, Sending
    <3> QED BY <3>1 DEF InFile, Splitting, Sending
  <2>3. CASE Divide(w)
    <3>1. /\ pc'[w] = "swap" /\ ~Beyond(block[req[w]].range) /\ local'[w].num = Num(w)
          /\ Allot(Length(w), Length(w) \div (Num(w) + 1))
      BY <1>0, <2>3 DEF Divide, Goto
    <3>2. block[req[w]].range \in Ranges /\ Num(w) \in Nat
      BY <2>1 DEF TypeInv, TypeOK, Node, Num
    <3>3. Length(w) \in 0..WordSize - 1
      BY <3>2, RangesAssumption DEF Length
    <3>4. /\ process' = "up" => Length(w) <= FileSize
          /\ Running' => Length(w) <= FileSize \/ Num(w) = 0
      BY <3>1, <3>2, <3>3, AllotFits
    <3>5. Length(w) <= FileSize => Offset(w) + Length(w) <= FileSize
      BY <3>1, <3>2, BeyondTest DEF Offset, Length
    <3> QED BY <2>1, <3>1, <3>4, <3>5 DEF InFile
  <2>4. CASE \/ Swap(w) \/ Unswap(w) \/ Longer(w) \/ Rest(w) \/ Remaining(w) \/ Shorter(w) \/ Send(w)
    <3>1. pc[w] \in Splitting /\ process' = process /\ ~Divide(w)
      BY <2>4 DEF Splitting, Sending, Swap, Unswap, Longer, Rest, Remaining, Shorter, Send, Divide
    <3>2. req[w] # NIL
      BY <1>0, <2>1
    <3> QED BY <2>1, <3>1, <3>2 DEF InFile, Running
  <2> QED BY <1>3, <2>2, <2>3, <2>4
<1> QED BY <1>1, <1>2, <1>3 DEF Step

\* Memory that is used wrongly stays so.
LEMMA ProcessSteps ==
  ASSUME NEW w \in Workers, Dissect(w) \/ Step(w), process' = "up"
  PROVE  process = "up"
<1>1. process' \in {process, "faulty", "crashed"}
  <2>1. CASE Remove(w)
    BY <2>1 DEF Remove, Unlink, Read
  <2>2. CASE Divide(w) \/ ReadPipe(w)
    BY <2>2 DEF Divide, ReadPipe, Allot
  <2>3. CASE Find(w) \/ Mismatch(w) \/ Match(w) \/ Join(w) \/ ChildRefuse(w) \/ Child(w) \/ Header(w)
    BY <2>3 DEF Find, Mismatch, Match, Join, ChildRefuse, Child, Header, Read
  <2> QED BY <2>1, <2>2, <2>3 DEF Step, Dissect, Add, Refuse, Swap, Unswap, Longer, Rest, Remaining,
                                  Shorter, Send
<1> QED BY <1>1
--------------------------------------------------------------------------------
(* The invariant of the transfers                                              *)

TransferInv == TypeInv /\ Owned /\ \A v \in Workers : CutAt(v) /\ InFile(v)

LEMMA TransferInit == Init => TransferInv
<1> SUFFICES ASSUME Init PROVE TransferInv
  OBVIOUS
<1>1. \A v \in Workers : req[v] = NIL /\ cut[v] = <<>>
  BY DEF Init
<1> QED BY <1>1, TypeInit, OwnedInit DEF TransferInv, CutAt, InFile

LEMMA TransferStep == TransferInv /\ [Next]_vars => TransferInv'
<1> SUFFICES ASSUME TransferInv, [Next]_vars PROVE TransferInv'
  OBVIOUS
<1>1. TypeInv /\ TypeInv'
  BY TypeStep DEF TransferInv
<1>2. CASE UNCHANGED vars
  BY <1>1, <1>2 DEF vars, TransferInv, Owned, CutAt, InFile, Offset, Length, Num, Running, Splitting, Sending
<1>3. ASSUME Running, NEW w \in Workers, Dissect(w) \/ Step(w) PROVE TransferInv'
  <2>1. Owned' /\ \A v \in Workers \ {w} : req[v] # NIL => Kept(req[v])
    BY <1>1, <1>3, OwnedStep DEF TransferInv
  <2>2. CutAt(w)' /\ InFile(w)'
    BY <1>1, <1>3, CutSteps, InFileSteps DEF TransferInv
  <2>3. ASSUME NEW v \in Workers, v # w PROVE CutAt(v)' /\ InFile(v)'
    <3>1. /\ pc'[v] = pc[v] /\ req'[v] = req[v] /\ local'[v] = local[v] /\ cut'[v] = cut[v]
          /\ CutAt(v) /\ InFile(v)
      BY <1>1, <1>3, <2>3, OtherHands DEF TransferInv, TypeInv
    <3>2. CASE req[v] = NIL
      BY <3>1, <3>2 DEF CutAt, InFile
    <3>3. CASE req[v] # NIL
      <4>1. /\ Offset(v)' = Offset(v) /\ Length(v)' = Length(v) /\ Num(v)' \in {Num(v), Num(v) + 1}
        BY <2>1, <2>3, <3>1, <3>3 DEF Kept, Offset, Length, Num
      <4>2. Num(v) \in Nat /\ local[v].num \in Nat
        <5>1. req[v] \in Blocks
          BY <1>1, <3>3 DEF TypeInv, TypeOK
        <5>2. block[req[v]] \in Node /\ local[v] \in Locals
          BY <1>1, <5>1 DEF TypeInv, TypeOK
        <5> QED BY <5>2 DEF Node, Locals, Num
      <4>3. InFile(v)'
        BY <1>3, <3>1, <4>1, ProcessSteps DEF InFile
      <4>4. CutState(pc[v], local[v], cut[v], Offset(v), Length(v), Num(v))
        BY <3>1, <3>3 DEF CutAt
      <4>5. CutState(pc[v], local[v], cut[v], Offset(v), Length(v), Num(v)')
        <5>1. local[v].num <= Num(v) => local[v].num <= Num(v)' /\ (local[v].num = Num(v)' => local[v].num = Num(v))
          BY <4>1, <4>2
        <5> QED BY <4>4, <5>1 DEF CutState
      <4> QED BY <3>1, <3>3, <4>1, <4>3, <4>5 DEF CutAt
    <3> QED BY <3>2, <3>3
  <2> QED BY <1>1, <2>1, <2>2, <2>3 DEF TransferInv
<1> QED BY <1>2, <1>3 DEF Next

\* Whoever has segments is cutting them, or has just done so.
LEMMA WhoHasSegments ==
  ASSUME TransferInv, NEW w \in Workers, cut[w] # <<>>
  PROVE  /\ req[w] # NIL /\ pc[w] \in Sending \cup {"remove"}
         /\ CutState(pc[w], local[w], cut[w], Offset(w), Length(w), Num(w))
         /\ Fits(w) => \E to : IsCut(cut[w], Offset(w), to)
<1>1. CutAt(w)
  BY DEF TransferInv
<1>2. /\ req[w] # NIL /\ CutState(pc[w], local[w], cut[w], Offset(w), Length(w), Num(w))
  BY <1>1 DEF CutAt
<1>3. pc[w] \in Sending \cup {"remove"}
  BY <1>2 DEF CutState
<1>4. Fits(w) => Below(cut[w])
  BY DEF Fits, Below
<1> QED BY <1>2, <1>3, <1>4 DEF CutState, Splitting

\* Only a range within the file is cut, although the test of its end may wrap, unless
\* a header was written over the end of a block that is smaller than it.
THEOREM OnlyTheFileIsCut == Spec => []CutWithinFile
<1>1. TransferInv => CutWithinFile
  BY WhoHasSegments DEF TransferInv, InFile, CutWithinFile, Splitting
<1> QED BY <1>1, TransferInit, TransferStep, PTL DEF Spec

\* No byte goes to two connections, however many children join while the parent cuts,
\* unless an offset wraps around.
THEOREM NoByteTwice == Spec => []SegmentsDisjoint
<1>1. TransferInv => SegmentsDisjoint
  <2>1. ASSUME TransferInv, NEW w \in Workers, Fits(w),
               NEW i \in DOMAIN cut[w], NEW j \in DOMAIN cut[w], i < j
        PROVE  cut[w][i][1] + cut[w][i][2] <= cut[w][j][1]
    <3>1. cut[w] # <<>>
      BY <2>1
    <3> QED BY <2>1, <3>1, WhoHasSegments DEF IsCut
  <2> QED BY <2>1 DEF SegmentsDisjoint
<1> QED BY <1>1, TransferInit, TransferStep, PTL DEF Spec

\* While nobody joins after the division, the segments are the range, without a gap,
\* and there is one for every connection.
THEOREM PartsAreTheRange == Spec => []SegmentsTile
<1>1. TransferInv => SegmentsTile
  <2>1. ASSUME TransferInv, NEW w \in Workers, pc[w] = "remove", cut[w] # <<>>, Num(w) = local[w].num,
               Fits(w)
        PROVE  /\ Len(cut[w]) = Num(w) + 1
               /\ cut[w][1][1] = Offset(w)
               /\ \A i \in 1..Num(w) : cut[w][i + 1][1] = cut[w][i][1] + cut[w][i][2]
               /\ cut[w][Num(w) + 1][1] + cut[w][Num(w) + 1][2] = Offset(w) + Length(w)
    <3>1. CutState(pc[w], local[w], cut[w], Offset(w), Length(w), Num(w))
      BY <2>1, WhoHasSegments
    <3>6. Below(cut[w])
      BY <2>1 DEF Fits, Below
    <3>2. Len(cut[w]) = Num(w) + 1 /\ cut[w][Num(w) + 1][1] + cut[w][Num(w) + 1][2] = Offset(w) + Length(w)
      BY <2>1, <3>1, <3>6 DEF CutState, Parts
    <3>3. IsCut(cut[w], Offset(w), cut[w][Len(cut[w])][1] + cut[w][Len(cut[w])][2])
      BY <2>1, <3>1, <3>6 DEF CutState
    <3>4. local[w].num \in Nat
      BY <2>1 DEF TransferInv, TypeInv, TypeOK, Locals
    <3>5. Len(cut[w]) - 1 = Num(w)
      BY <2>1, <3>2, <3>4
    <3> QED BY <2>1, <3>2, <3>3, <3>5 DEF IsCut
  <2> QED BY <2>1 DEF SegmentsTile
<1> QED BY <1>1, TransferInit, TransferStep, PTL DEF Spec
--------------------------------------------------------------------------------
(* The list of requests                                                        *)

\* The next field of a block is written when a request is added or removed.
LEMMA NextSteps ==
  ASSUME TypeInv, NEW w \in Workers, Dissect(w) \/ Step(w), NEW b \in Blocks
  PROVE  /\ Add(w) => block'[b].next = IF head # NIL /\ b = tail THEN req[w] ELSE block[b].next
         /\ ~Add(w) /\ ~Remove(w) => block'[b].next = block[b].next
<1>0. /\ block \in [Blocks -> Node] /\ block[b] \in Node /\ NIL \notin Blocks
      /\ req[w] \in Blocks \cup {NIL} /\ curr[w] \in Blocks \cup {NIL} /\ tail \in Blocks \cup {NIL}
  BY BlocksAssumption DEF TypeInv, TypeOK, Node
<1>1. CASE Dissect(w)
  <2>1. PICK c \in Blocks, s \in Sessions, r \in Ranges :
          block' = [block EXCEPT ![c].state = "live", ![c].session = s, ![c].range = r,
                                 ![c].swapped = FALSE]
    BY ZenonT(60), <1>1 DEF Dissect
  <2>2. block'[b].next = block[b].next
    BY <1>0, <2>1 DEF Node
  <2> QED BY <1>1, <2>2 DEF Dissect, Add
<1>2. CASE Join(w)
  <2>1. block' = [block EXCEPT ![curr[w]] = [block[curr[w]] EXCEPT !.num = @ + 1]]
    BY <1>2 DEF Join
  <2>2. block'[b].next = block[b].next
    BY <1>0, <2>1 DEF Node
  <2> QED BY <1>2, <2>2 DEF Join, Add
<1>3. CASE Swap(w) \/ Unswap(w)
  <2>1. PICK x \in BOOLEAN : block' = [block EXCEPT ![req[w]] = [block[req[w]] EXCEPT !.swapped = x]]
    BY <1>3 DEF Swap, Unswap
  <2>2. block'[b].next = block[b].next
    BY <1>0, <2>1 DEF Node
  <2> QED BY <1>3, <2>2 DEF Swap, Unswap, Add
<1>4. CASE Add(w)
  <2> DEFINE a == req[w]
             last == IF head = NIL THEN a ELSE tail
             f == [block EXCEPT ![a] = [block[a] EXCEPT !.num = 0, !.pipe = Len(pipes) + 1]]
             to == IF head = NIL THEN f[last].next ELSE a
  <2>1. block' = [f EXCEPT ![last] = [f[last] EXCEPT !.next = to]]
    BY <1>4 DEF Add, LinkBehind
  <2>2. f \in [Blocks -> Node]
    <3>1. a \in Blocks
      BY <1>0, <1>4 DEF Add, TypeInv
    <3>2. Len(pipes) + 1 \in Nat
      BY DEF TypeInv
    <3> QED BY <1>0, <3>1, <3>2, NodeUpdates, BlockUpdate
  <2>3. f[b].next = block[b].next
    BY <1>0 DEF Node
  <2> HIDE DEF f
  <2>4. block'[b].next = IF b = last THEN to ELSE f[b].next
    BY <2>1, <2>2 DEF Node
  <2> QED BY <1>4, <2>3, <2>4
<1>5. CASE Header(w) \/ ChildRefuse(w)
  <2>1. block' = [block EXCEPT ![req[w]] = [block[req[w]] EXCEPT !.state = "freed"]]
    BY <1>5 DEF Header, ChildRefuse
  <2>2. block'[b].next = block[b].next
    BY <1>0, <2>1 DEF Node
  <2> QED BY <1>5, <2>2 DEF Header, ChildRefuse, Add
<1>6. CASE Remove(w)
  BY <1>6 DEF Remove, Add
<1>7. CASE UNCHANGED block /\ ~Add(w)
  BY <1>0, <1>7
<1>8. UNCHANGED block /\ pc[w] # "add" => UNCHANGED block /\ ~Add(w)
  BY DEF Add
<1> QED BY <1>1, <1>2, <1>3, <1>4, <1>5, <1>6, <1>7, <1>8
    DEF Step, Find, Mismatch, Match, Refuse, Divide, Longer, Rest, Remaining, Shorter, Send, Child,
        ReadPipe

ListInv == TypeInv /\ Owned

LEMMA ListStep == ListInv /\ [Next]_vars => ListInv'
<1> SUFFICES ASSUME ListInv, [Next]_vars PROVE ListInv'
  OBVIOUS
<1>1. TypeInv /\ TypeInv'
  BY TypeStep DEF ListInv
<1>2. CASE UNCHANGED vars
  BY <1>1, <1>2 DEF vars, ListInv, Owned
<1>3. ASSUME NEW w \in Workers, Dissect(w) \/ Step(w) PROVE ListInv'
  BY <1>1, <1>3, OwnedStep DEF ListInv
<1> QED BY <1>2, <1>3 DEF Next

\* From head to tail, the next fields hold the sequence q of blocks; what the next
\* field of the tail holds, nobody knows.
IsList(q) ==
  /\ q \in Seq(Blocks) /\ Distinct(q)
  /\ head = IF q = <<>> THEN NIL ELSE q[1]
  /\ tail = IF q = <<>> THEN NIL ELSE q[Len(q)]
  /\ \A i \in 1..Len(q) - 1 : block[q[i]].next = q[i + 1]

OrderInv == process = "up" => \E q : IsList(q) /\ Members(q) = Transfers

LEMMA OrderInit == Init => OrderInv
<1> SUFFICES ASSUME Init PROVE OrderInv
  OBVIOUS
<1>1. IsList(<<>>)
  BY DEF Init, IsList, Distinct
<1>2. Members(<<>>) = {} /\ Transfers = {}
  BY DEF Init, Members, Transfers, ParentLabels
<1> QED BY <1>1, <1>2 DEF OrderInv

\* A sequence without repetitions is no longer than there are blocks.
LEMMA ListFits ==
  ASSUME NEW q \in Seq(Blocks), Distinct(q)
  PROVE  Len(q) <= Cardinality(Blocks)
<1>1. /\ IsFiniteSet(Blocks) /\ Cardinality(Blocks) \in Nat /\ Len(q) \in Nat
      /\ q \in [1..Len(q) -> Blocks]
  BY WalkDef, BlocksAssumption
<1>2. IsFiniteSet(1..Len(q)) /\ Cardinality(1..Len(q)) = Len(q)
  <2>1. 1 \in Int /\ Len(q) \in Int
    BY <1>1
  <2>2. /\ IsFiniteSet(1..Len(q))
        /\ Cardinality(1..Len(q)) = IF 1 > Len(q) THEN 0 ELSE Len(q) - 1 + 1
    BY <2>1, FS_Interval
  <2> QED BY <1>1, <2>2
<1> SUFFICES ASSUME Cardinality(Blocks) < Cardinality(1..Len(q)) PROVE FALSE
  BY <1>1, <1>2
<1>3. \E x, y \in 1..Len(q) : x # y /\ q[x] = q[y]
  BY <1>1, <1>2, FS_PigeonHole
<1> QED BY <1>1, <1>3 DEF Distinct

\* A sequence without repetitions is as long as it has members.
LEMMA MembersCount ==
  ASSUME NEW q \in Seq(Blocks), Distinct(q)
  PROVE  Cardinality(Members(q)) = Len(q)
<1>1. Len(q) \in Nat /\ DOMAIN q = 1..Len(q)
  OBVIOUS
<1>2. q \in Bijection(1..Len(q), Members(q))
  <2>1. q \in [1..Len(q) -> Members(q)]
    BY <1>1 DEF Members
  <2>2. q \in Injection(1..Len(q), Members(q))
    BY <1>1, <2>1 DEF Distinct, Injection, IsInjective
  <2>3. q \in Surjection(1..Len(q), Members(q))
    BY <1>1, <2>1 DEF Members, Surjection
  <2> QED BY <2>2, <2>3 DEF Bijection
<1>3. ExistsBijection(1..Len(q), Members(q))
  BY <1>2 DEF ExistsBijection
<1> QED BY <1>1, <1>3, FS_CountingElements

\* A walk meets the blocks of the list one after the other.
LEMMA WalkIsList ==
  ASSUME NEW q, IsList(q)
  PROVE  \A i \in DOMAIN Walk : i < Len(q) => Walk[i] = q[i + 1]
<1> DEFINE N == Cardinality(Blocks)
           T == {n \in Nat : n \in 0..N /\ n < Len(q) => Walk[n] = q[n + 1]}
<1>1. /\ N \in Nat /\ DOMAIN Walk = 0..N
      /\ \A i \in 0..N : Walk[i] = IF i = 0 THEN head ELSE IF Walk[i - 1] = NIL THEN NIL
                                   ELSE block[Walk[i - 1]].next
  BY WalkDef DEF IsWalk
<1>2. /\ Len(q) \in Nat /\ (q = <<>> <=> Len(q) = 0) /\ NIL \notin Blocks
      /\ \A i \in 1..Len(q) : q[i] \in Blocks
  BY BlocksAssumption DEF IsList
<1>3. 0 \in T
  BY <1>1, <1>2 DEF IsList
<1>4. ASSUME NEW n \in Nat, n \in T, n + 1 \in 0..N, n + 1 < Len(q)
      PROVE  Walk[n + 1] = q[n + 2]
  <2>1. Walk[n] = q[n + 1] /\ Walk[n + 1] = IF Walk[n] = NIL THEN NIL ELSE block[Walk[n]].next
    BY <1>1, <1>2, <1>4
  <2>2. n + 1 \in 1..Len(q) - 1 /\ n + 1 \in 1..Len(q)
    BY <1>2, <1>4
  <2>3. block[q[n + 1]].next = q[n + 1 + 1]
    BY <2>2 DEF IsList
  <2> QED BY <1>2, <2>1, <2>2, <2>3
<1>5. ASSUME NEW n \in Nat, n \in T PROVE n + 1 \in T
  BY <1>4, <1>5
<1>6. Nat \subseteq T
  <2> HIDE DEF T
  <2> QED BY <1>3, <1>5, InductionOverSet
<1> QED BY <1>1, <1>6

\* add puts its request behind the last one.
LEMMA AddOrders ==
  ASSUME ListInv, NEW w \in Workers, Add(w), NEW q, IsList(q), req[w] \notin Members(q)
  PROVE  \E r : IsList(r)' /\ Members(r) = Members(q) \cup {req[w]}
<1> DEFINE b == req[w]
<1>0. PICK r : r = Append(q, b)
  OBVIOUS
<1>1. /\ q \in Seq(Blocks) /\ Len(q) \in Nat /\ DOMAIN q = 1..Len(q) /\ NIL \notin Blocks
      /\ b \in Blocks /\ \A i \in 1..Len(q) : q[i] \in Blocks
  BY BlocksAssumption DEF IsList, ListInv, TypeInv, TypeOK, Add
<1>2. /\ r \in Seq(Blocks) /\ Len(r) = Len(q) + 1 /\ r[Len(q) + 1] = b /\ r # <<>>
      /\ \A i \in 1..Len(q) : r[i] = q[i]
  BY <1>0, <1>1, AppendProperties
<1>3. Distinct(r) /\ Members(r) = Members(q) \cup {b}
  <2>1. Distinct(q) /\ b \notin Members(q)
    BY DEF IsList
  <2> QED BY <1>0, <1>1, <2>1, DistinctAppend
<1>4. ASSUME NEW c \in Blocks
      PROVE  block'[c].next = IF head # NIL /\ c = tail THEN b ELSE block[c].next
  BY NextSteps DEF ListInv, Step
<1>5. head = (IF q = <<>> THEN NIL ELSE q[1]) /\ tail = (IF q = <<>> THEN NIL ELSE q[Len(q)])
  BY DEF IsList
<1>6. q # <<>> => 1 \in 1..Len(q) /\ Len(q) \in 1..Len(q) /\ head # NIL
  BY <1>1, <1>5
<1>7. head' = r[1] /\ tail' = r[Len(r)]
  BY <1>1, <1>2, <1>5, <1>6 DEF Add, Append1
<1>11. Len(q) \in Nat /\ Len(r) = Len(q) + 1 /\ (q # <<>> => Len(q) \in 1..Len(q))
  BY <1>1, <1>2, <1>6
<1>8. ASSUME NEW i \in 1..Len(r) - 1
      PROVE  block'[r[i]].next = r[i + 1]
  <2>1. i \in 1..Len(q) /\ r[i] = q[i] /\ q[i] \in Blocks /\ head # NIL
    <3>1. i \in 1..Len(q)
      BY <1>11
    <3> QED BY <1>1, <1>2, <1>5, <1>6, <3>1
  <2>2. CASE i = Len(q)
    <3>1. q[i] = tail /\ i + 1 = Len(q) + 1
      BY <1>5, <1>11, <2>1, <2>2
    <3> QED BY <1>2, <1>4, <2>1, <3>1
  <2>3. CASE i # Len(q)
    <3>1. i \in 1..Len(q) - 1 /\ i + 1 \in 1..Len(q) /\ q # <<>>
      BY <1>11, <2>1, <2>3
    <3>2. q[i] # tail
      BY ZenonT(60), <1>1, <1>5, <1>6, <2>1, <2>3, <3>1 DEF IsList, Distinct
    <3>3. block[q[i]].next = q[i + 1]
      BY <3>1 DEF IsList
    <3> QED BY <1>2, <1>4, <2>1, <3>1, <3>2, <3>3
  <2> QED BY <2>2, <2>3
<1>9. /\ r \in Seq(Blocks) /\ Distinct(r) /\ r # <<>>
  BY <1>2, <1>3
<1>10. /\ r \in Seq(Blocks) /\ Distinct(r)
       /\ head' = (IF r = <<>> THEN NIL ELSE r[1])
       /\ tail' = (IF r = <<>> THEN NIL ELSE r[Len(r)])
       /\ \A i \in 1..Len(r) - 1 : block'[r[i]].next = r[i + 1]
  BY <1>7, <1>8, <1>9
<1> QED BY <1>3, <1>10 DEF IsList

\* remove_node takes its request out of the list, or the block of it
\* is on the list for good.
LEMMA RemoveOrders ==
  ASSUME ListInv, NEW w \in Workers, Remove(w), process' = "up", NEW q, IsList(q), req[w] \in Members(q)
  PROVE  \E r : IsList(r)' /\ Members(r) = Members(q) \ {req[w]}
<1> DEFINE b == req[w]
           p == Before(b)
           freed == [block EXCEPT ![b].state = "freed"]
<1>1. /\ q \in Seq(Blocks) /\ Len(q) \in Nat /\ DOMAIN q = 1..Len(q) /\ NIL \notin Blocks
      /\ b \in Blocks /\ \A i \in 1..Len(q) : q[i] \in Blocks
      /\ \A i, j \in 1..Len(q) : i # j => q[i] # q[j]
  <2>1. q \in Seq(Blocks) /\ Distinct(q)
    BY DEF IsList
  <2>2. b \in Blocks
    BY DEF Remove, ListInv, TypeInv, TypeOK
  <2> HIDE DEF b
  <2> QED BY BlocksAssumption, <2>1, <2>2 DEF Distinct
<1>2. PICK n \in 1..Len(q) : b = q[n]
  <2>1. b \in Members(q) /\ DOMAIN q = 1..Len(q)
    BY <1>1
  <2> HIDE DEF b
  <2> QED BY <2>1 DEF Members
<1>3. q # <<>> /\ head = q[1] /\ tail = q[Len(q)] /\ 1 \in 1..Len(q) /\ Len(q) \in 1..Len(q) /\ head # NIL
  <2>1. Len(q) > 0
    BY <1>1, <1>2
  <2>2. q # <<>> /\ 1 \in 1..Len(q) /\ Len(q) \in 1..Len(q)
    BY <1>1, <2>1
  <2> QED BY <1>1, <2>2 DEF IsList
<1>8. Len(q) \in Nat
  BY <1>1
<1>4. block \in [Blocks -> Node]
  BY DEF ListInv, TypeInv, TypeOK
<1>5. \A c \in Blocks : freed[c].next = block[c].next
  BY <1>1, <1>4 DEF Node
<1>6. CASE head = b /\ tail = b
  <2>1. Len(q) = 1
    BY <1>1, <1>3, <1>6
  <2>2. head' = NIL /\ tail' = NIL
    BY <1>6 DEF Remove, Unlink
  <2>3. IsList(<<>>)'
    BY <2>2 DEF IsList, Distinct
  <2>4. Members(<<>>) = Members(q) \ {b}
    BY <1>1, <1>2, <2>1 DEF Members
  <2> QED BY <2>3, <2>4
<1>7. CASE ~(head = b /\ tail = b)
  <2>1. PICK k \in 1..Len(q) : k < Len(q) /\ p = q[k] /\ b = q[k + 1]
    <3>1. n - 1 \in 1..Len(q) - 1 /\ n - 1 \in 1..Len(q) /\ n - 1 + 1 = n /\ n - 2 \in Nat
      <4>1. n # 1
        <5>1. CASE Len(q) = 1
          BY <1>2, <1>3, <1>7, <5>1
        <5>2. CASE Len(q) # 1
          <6>1. p = NIL \/ head # b
            BY <1>7 DEF Remove, Unlink, Read
          <6>2. p = NIL => process' = "crashed"
            BY <1>3, <1>7 DEF Remove, Unlink
          <6> QED BY <1>2, <1>3, <6>1, <6>2
        <5> QED BY <5>1, <5>2
      <4> QED BY <1>1, <4>1
    <3>2. block[q[n - 1]].next = b
      BY <1>2, <3>1 DEF IsList
    <3>3. /\ DOMAIN Walk = 0..Cardinality(Blocks) /\ Cardinality(Blocks) \in Nat
          /\ Len(q) <= Cardinality(Blocks)
      BY WalkDef, ListFits DEF IsWalk, IsList
    <3>4. n - 2 \in DOMAIN Walk /\ n - 2 < Len(q)
      BY <1>8, <3>1, <3>3
    <3>5. Walk[n - 2] = q[n - 2 + 1] /\ n - 2 + 1 = n - 1
      BY <3>4, WalkIsList
    <3>6. Walk[n - 2] \in Befores(b)
      BY <1>1, <3>1, <3>2, <3>5 DEF Befores
    <3>7. PICK i \in DOMAIN Walk : /\ p = Walk[i] /\ Walk[i] \in Befores(b)
                                   /\ \A j \in DOMAIN Walk : Walk[j] \in Befores(b) => i <= j
      BY <3>4, <3>6, FirstFinds DEF Before
    <3>8. i \in Nat /\ i <= n - 2 /\ i + 1 \in 1..Len(q) - 1 /\ i + 1 \in 1..Len(q) /\ i < Len(q)
      <4>1. i \in Nat /\ i <= n - 2
        BY <3>3, <3>4, <3>6, <3>7
      <4> QED BY <1>8, <3>1, <4>1
    <3>9. p = q[i + 1] /\ block[p].next = b
      BY <3>7, <3>8, WalkIsList DEF Befores
    <3>10. block[q[i + 1]].next = q[i + 1 + 1]
      BY <3>8 DEF IsList
    <3>11. i + 1 < Len(q)
      BY <1>8, <3>8
    <3> QED BY <3>8, <3>9, <3>10, <3>11
  <2>2. /\ block' = [freed EXCEPT ![p].next = block[b].next]
        /\ tail' = (IF tail = b THEN p ELSE tail) /\ head' = head
    <3>1. p \in Blocks /\ p # NIL
      BY <1>1, <2>1
    <3> QED BY <1>7, <3>1 DEF Remove, Unlink
  <2>3. k \in 1..Len(q) /\ k < Len(q) /\ p = q[k] /\ b = q[k + 1]
    BY <2>1
  <2>4. k + 1 \in 1..Len(q) /\ k \in Nat /\ 1 <= k /\ k < Len(q)
    BY <1>8, <2>3
  <2>5. PICK r : r = Without(q, k + 1)
    OBVIOUS
  <2>6. /\ r \in Seq(Blocks) /\ Len(r) = Len(q) - 1 /\ Distinct(r) /\ Members(r) = Members(q) \ {b}
    <3>1. Distinct(q) /\ q \in Seq(Blocks)
      BY DEF IsList
    <3>2. /\ r \in Seq(Blocks) /\ Len(r) = Len(q) - 1 /\ Distinct(r)
          /\ Members(r) = Members(q) \ {q[k + 1]}
      BY <2>4, <2>5, <3>1, DistinctWithout
    <3> QED BY <2>3, <3>2
  <2>7. \A i \in 1..Len(q) - 1 : r[i] = IF i <= k THEN q[i] ELSE q[i + 1]
    BY <1>1, <2>4, <2>5 DEF Without
  <2>8. Len(q) > 1 /\ 1 <= k /\ k <= Len(r) /\ Len(r) \in 1..Len(q) - 1 /\ Len(r) \in Nat /\ 1 \in 1..Len(r)
    BY <1>1, <2>3, <2>6
  <2>9. head' = r[1]
    BY <1>3, <2>2, <2>7, <2>8
  <2>10. tail' = r[Len(r)]
    <3>1. CASE k + 1 = Len(q)
      BY <1>1, <1>3, <2>2, <2>3, <2>6, <2>7, <2>8, <3>1
    <3>2. CASE k + 1 # Len(q)
      <4>1. tail # b /\ ~(Len(r) <= k) /\ Len(r) + 1 = Len(q)
        <5>1. tail # b
          BY <1>1, <1>3, <2>3, <2>4, <3>2
        <5>2. Len(r) = Len(q) - 1
          BY <2>6
        <5> QED BY <1>8, <2>4, <3>2, <5>1, <5>2
      <4> QED BY <1>3, <2>2, <2>7, <2>8, <4>1
    <3> QED BY <3>1, <3>2
  <2>11. ASSUME NEW c \in Blocks PROVE block'[c].next = IF c = p THEN block[b].next ELSE block[c].next
    <3>1. freed \in [Blocks -> Node]
      <4>1. freed = [block EXCEPT ![b] = [block[b] EXCEPT !.state = "freed"]]
        OBVIOUS
      <4> QED BY <1>1, <1>4, <4>1, NodeUpdates, BlockUpdate
    <3>2. freed[c].next = block[c].next
      BY <1>5
    <3> HIDE DEF freed, p, b
    <3> QED BY <2>2, <3>1, <3>2 DEF Node
  <2>12. \A i \in 1..Len(q) - 1 : block[q[i]].next = q[i + 1]
    BY DEF IsList
  <2>13. ASSUME NEW i \in 1..Len(r) - 1
         PROVE  block'[r[i]].next = r[i + 1]
    <3>1. /\ i \in Nat /\ 1 <= i /\ i + 1 <= Len(r) /\ Len(r) + 1 = Len(q)
          /\ i \in 1..Len(q) - 1 /\ i + 1 \in 1..Len(q) - 1
      BY <1>1, <2>6, <2>8
    <3>2. CASE i < k
      <4>1. i \in 1..Len(q) /\ i + 1 <= k /\ i <= k /\ i # k
        BY <1>8, <2>4, <3>1, <3>2
      <4>2. r[i] = q[i] /\ r[i + 1] = q[i + 1] /\ q[i] # p
        BY <1>1, <2>3, <2>7, <3>1, <4>1
      <4> QED BY ZenonT(60), <1>1, <2>11, <2>12, <3>1, <4>1, <4>2
    <3>3. CASE i = k
      <4>1. r[i] = p /\ p \in Blocks
        BY <1>1, <2>3, <2>7, <3>1, <3>3
      <4>2. block'[p].next = q[k + 2]
        <5>1. k + 1 \in 1..Len(q) - 1 /\ k + 1 + 1 = k + 2
          BY <2>4, <3>1, <3>3
        <5>2. block[q[k + 1]].next = q[k + 1 + 1]
          BY <2>12, <5>1
        <5> QED BY <2>3, <2>11, <4>1, <5>1, <5>2
      <4>3. k + 1 \in 1..Len(q) - 1 /\ ~(k + 1 <= k)
        BY <2>4, <3>1, <3>3
      <4>4. r[k + 1] = q[k + 2]
        BY <2>4, <2>7, <4>3
      <4> QED BY <3>3, <4>1, <4>2, <4>4
    <3>4. CASE i > k
      <4>1. i + 1 \in 1..Len(q) /\ ~(i <= k) /\ ~(i + 1 <= k) /\ i + 1 # k
        BY <1>1, <2>4, <3>1, <3>4
      <4>2. r[i] = q[i + 1] /\ q[i + 1] # p /\ q[i + 1] \in Blocks
        BY <1>1, <2>3, <2>7, <3>1, <4>1
      <4>3. block'[r[i]].next = q[i + 1 + 1]
        BY <2>11, <2>12, <3>1, <4>2
      <4>4. r[i + 1] = q[i + 1 + 1]
        BY <2>7, <3>1, <4>1
      <4> QED BY <4>3, <4>4
    <3> QED BY <2>4, <3>1, <3>2, <3>3, <3>4
  <2>14. r # <<>>
    BY <2>8
  <2>15. IsList(r)'
    BY <2>6, <2>9, <2>10, <2>13, <2>14 DEF IsList
  <2> QED BY <2>6, <2>15
<1> QED BY <1>6, <1>7

\* Which requests are transfers changes when one is added or removed.
LEMMA TransfersSteps ==
  ASSUME TypeInv, Owned, NEW w \in Workers, Dissect(w) \/ Step(w)
  PROVE  /\ Add(w) => req[w] \notin Transfers /\ Transfers' = Transfers \cup {req[w]}
         /\ Remove(w) => req[w] \in Transfers /\ Transfers' = Transfers \ {req[w]}
         /\ ~Add(w) /\ ~Remove(w) => Transfers' = Transfers
<1>0. /\ pc \in [Workers -> Labels] /\ req \in [Workers -> Blocks \cup {NIL}]
      /\ \A v \in Workers : pc[v] \in ParentLabels => req[v] # NIL
  BY DEF TypeInv, TypeOK, ParentLabels
<1>1. \A v \in Workers \ {w} : pc'[v] = pc[v] /\ req'[v] = req[v]
  BY OtherHands DEF TypeInv
<1>2. \A v \in Workers \ {w} : pc[v] \in ParentLabels => req[v] # req[w]
  BY <1>0 DEF Owned
<1>3. CASE Add(w)
  <2>1. pc[w] \notin ParentLabels /\ pc'[w] \in ParentLabels /\ req'[w] = req[w] /\ ~Remove(w)
    BY <1>0, <1>3 DEF Add, Remove, Goto, ParentLabels
  <2> QED BY <1>1, <1>2, <1>3, <2>1 DEF Transfers
<1>4. CASE Remove(w)
  <2>1. pc[w] \in ParentLabels /\ pc'[w] \notin ParentLabels /\ ~Add(w)
    BY <1>0, <1>4 DEF Add, Remove, Done, Goto, ParentLabels
  <2> QED BY <1>1, <1>2, <1>4, <2>1 DEF Transfers
<1>5. CASE ~Add(w) /\ ~Remove(w)
  <2>1. /\ pc[w] \in ParentLabels <=> pc'[w] \in ParentLabels
        /\ pc[w] \in ParentLabels => req'[w] = req[w]
    <3>1. CASE Dissect(w) \/ Find(w) \/ Match(w) \/ Join(w) \/ Child(w) \/ ReadPipe(w)
      BY <1>0, <3>1 DEF Dissect, Find, Match, Join, Child, ReadPipe, Goto, ParentLabels
    <3>2. CASE Mismatch(w) \/ Header(w) \/ ChildRefuse(w)
      BY <1>0, <3>2 DEF Mismatch, Header, ChildRefuse, Done, Goto, ParentLabels
    <3>3. CASE Refuse(w) \/ Divide(w) \/ Swap(w) \/ Unswap(w) \/ Rest(w)
             \/ Remaining(w) \/ Send(w)
      BY <1>0, <3>3 DEF Refuse, Divide, Swap, Unswap, Rest, Remaining, Send, Goto, ParentLabels
    <3>4. CASE Longer(w) \/ Shorter(w)
      BY <1>0, <3>4 DEF Longer, Shorter, Goto, ParentLabels
    <3> QED BY <1>5, <3>1, <3>2, <3>3, <3>4 DEF Step
  <2> QED BY <1>1, <1>5, <2>1 DEF Transfers
<1> QED BY <1>3, <1>4, <1>5

LEMMA OrderStep ==
  ASSUME ListInv, OrderInv, NEW w \in Workers, Dissect(w) \/ Step(w)
  PROVE  OrderInv'
<1> SUFFICES ASSUME process' = "up" PROVE \E r : IsList(r)' /\ Members(r) = Transfers'
  BY DEF OrderInv
<1>0. TypeInv /\ Owned
  BY DEF ListInv
<1>1. PICK q : IsList(q) /\ Members(q) = Transfers
  BY ProcessSteps DEF OrderInv
<1>2. CASE Add(w)
  <2>1. req[w] \notin Members(q) /\ Transfers' = Members(q) \cup {req[w]}
    BY <1>0, <1>1, <1>2, TransfersSteps
  <2> QED BY <1>1, <1>2, <2>1, AddOrders
<1>3. CASE Remove(w)
  <2>1. req[w] \in Members(q) /\ Transfers' = Members(q) \ {req[w]}
    BY <1>0, <1>1, <1>3, TransfersSteps
  <2> QED BY <1>1, <1>3, <2>1, RemoveOrders
<1>4. CASE ~Add(w) /\ ~Remove(w)
  <2>1. Transfers' = Transfers
    BY <1>0, <1>4, TransfersSteps
  <2>2. UNCHANGED <<head, tail>>
    BY <1>4 DEF Dissect, Step, Find, Mismatch, Match, Join, Refuse, Divide, Swap, Unswap, Longer, Rest,
                Remaining, Shorter, Send, ChildRefuse, Child, ReadPipe, Header
  <2>3. \A b \in Blocks : block'[b].next = block[b].next
    BY <1>0, <1>4, NextSteps
  <2>4. \A i \in 1..Len(q) - 1 : q[i] \in Blocks
    BY <1>1 DEF IsList
  <2>5. IsList(q)'
    BY <1>1, <2>2, <2>3, <2>4 DEF IsList
  <2> QED BY <1>1, <2>1, <2>5
<1> QED BY <1>2, <1>3, <1>4

\* Until a freed block is used or left on the list, or a block is overrun, the list
\* holds the transfers under way from its head up to its tail, each of them once,
\* whatever the next fields of the blocks that malloc hands out lead to.
THEOREM ListIsTransfers == Spec => []ListHoldsTransfers
<1>1. Init => ListInv /\ OrderInv
  BY TypeInit, OwnedInit, OrderInit DEF ListInv
<1>2. (ListInv /\ OrderInv) /\ [Next]_vars => (ListInv /\ OrderInv)'
  <2> SUFFICES ASSUME ListInv, OrderInv, [Next]_vars PROVE ListInv' /\ OrderInv'
    OBVIOUS
  <2>1. ListInv'
    BY ListStep
  <2>2. CASE UNCHANGED vars
    <3>1. \A q : IsList(q) => IsList(q)'
      BY <2>2 DEF vars, IsList
    <3>2. Transfers' = Transfers /\ process' = process
      BY <2>2 DEF vars, Transfers
    <3> QED BY <2>1, <3>1, <3>2 DEF OrderInv
  <2>3. ASSUME NEW w \in Workers, Dissect(w) \/ Step(w) PROVE OrderInv'
    BY <2>3, OrderStep
  <2> QED BY <2>1, <2>2, <2>3 DEF Next
<1>3. ListInv /\ OrderInv => ListHoldsTransfers
  <2> DEFINE n == Cardinality(Transfers)
  <2> SUFFICES ASSUME OrderInv, process = "up"
               PROVE  /\ {Walk[i] : i \in 0..n - 1} = Transfers
                      /\ IF n = 0 THEN head = NIL /\ tail = NIL ELSE Walk[n - 1] = tail
    BY DEF ListHoldsTransfers
  <2>1. PICK q : IsList(q) /\ Members(q) = Transfers
    BY DEF OrderInv
  <2>2. /\ q \in Seq(Blocks) /\ Distinct(q) /\ Len(q) \in Nat /\ DOMAIN q = 1..Len(q)
        /\ q = <<>> <=> Len(q) = 0
    BY <2>1 DEF IsList
  <2>3. Len(q) <= Cardinality(Blocks) /\ n = Len(q)
    BY <2>1, <2>2, ListFits, MembersCount
  <2> HIDE DEF n
  <2>4. \A i \in 0..Len(q) - 1 : Walk[i] = q[i + 1] /\ i + 1 \in 1..Len(q)
    <3>1. Cardinality(Blocks) \in Nat /\ DOMAIN Walk = 0..Cardinality(Blocks)
      BY WalkDef DEF IsWalk
    <3>2. \A i \in 0..Len(q) - 1 : i \in DOMAIN Walk /\ i < Len(q) /\ i + 1 \in 1..Len(q)
      BY <2>2, <2>3, <3>1
    <3> QED BY <2>1, <3>2, WalkIsList
  <2>5. \A j \in 1..Len(q) : j - 1 \in 0..Len(q) - 1 /\ Walk[j - 1] = q[j]
    <3>1. \A j \in 1..Len(q) : j - 1 \in 0..Len(q) - 1 /\ j - 1 + 1 = j
      BY <2>2
    <3> QED BY <2>4, <3>1
  <2>6. {Walk[i] : i \in 0..n - 1} = Transfers
    BY <2>1, <2>2, <2>3, <2>4, <2>5 DEF Members
  <2>7. CASE n = 0
    BY <2>1, <2>2, <2>3, <2>6, <2>7 DEF IsList
  <2>8. CASE n # 0
    <3>1. tail = q[Len(q)] /\ Len(q) \in 1..Len(q)
      BY <2>1, <2>2, <2>3, <2>8 DEF IsList
    <3> QED BY <2>3, <2>5, <2>6, <2>8, <3>1
  <2> QED BY <2>7, <2>8
<1> QED BY <1>1, <1>2, <1>3, PTL DEF Spec
================================================================================
