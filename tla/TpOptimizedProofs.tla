--------------------------- MODULE TpOptimizedProofs ---------------------------
(* Proofs about TpOptimized, for every number of workers and connections, every *)
(* size of the ring and every set of blocks.                                   *)
EXTENDS TpOptimized, ListLemmas, FiniteSetTheorems, TLAPS

\* What malloc() returns is no block of the pool, and each of its uses is another.
LEMMA PointersDiffer ==
  /\ \A c : Clfd(c) \notin Blocks /\ NoBlock # Clfd(c)
  /\ \A w : FreshMessage(w) \notin Blocks /\ NoBlock # FreshMessage(w)
  /\ \A c, w : Clfd(c) # FreshMessage(w)
  /\ \A c, d : Clfd(c) = Clfd(d) => c = d
  /\ \A v, w : FreshMessage(v) = FreshMessage(w) => v = w
  /\ NoBlock \notin Blocks
<1>1. \A b \in Blocks : b[1] # Heap /\ Len(b) = 2
  BY PoolAssumption DEF Blocks, Heap
<1>2. \A c : Clfd(c)[1] = Heap /\ FreshMessage(c)[1] = Heap
  BY DEF Clfd, FreshMessage
<1>3. \A c : Len(Clfd(c)) = 3 /\ Len(FreshMessage(c)) = 3 /\ Len(NoBlock) = 0
  BY DEF Clfd, FreshMessage, NoBlock
<1>4. \A c, w : Clfd(c)[2] # FreshMessage(w)[2]
  BY DEF Clfd, FreshMessage
<1>5. \A c : Clfd(c)[3] = c /\ FreshMessage(c)[3] = c
  BY DEF Clfd, FreshMessage
<1> QED BY <1>1, <1>2, <1>3, <1>4, <1>5

\* mp_alloc hands out a block of the class that is free, or what malloc() returns.
LEMMA AllocatedIsFree ==
  ASSUME NEW size, NEW fresh
  PROVE  \/ pool = "live" /\ Allocated(size, fresh) \in FreeBlocks(size)
         \/ (pool # "live" \/ FreeBlocks(size) = {}) /\ Allocated(size, fresh) = fresh
<1> SUFFICES ASSUME pool = "live", FreeBlocks(size) # {}
             PROVE  Allocated(size, fresh) \in FreeBlocks(size)
  BY DEF Allocated
<1> DEFINE free == FreeBlocks(size)
           places == {b[2] : b \in free}
<1>1. \A b \in Blocks : b[2] \in Nat
  BY PoolAssumption DEF Blocks
<1>2. places \subseteq Nat /\ places # {}
  BY <1>1 DEF FreeBlocks, BlocksFor
<1>3. PICK x \in places : \A y \in places : x <= y
  BY <1>2, LeastElement
<1>4. \E b \in free : \A other \in free : b[2] <= other[2]
  BY <1>3
<1>5. Allocated(size, fresh) = CHOOSE b \in free : \A other \in free : b[2] <= other[2]
  BY DEF Allocated
<1> HIDE DEF free
<1>6. Allocated(size, fresh) \in free
  BY <1>4, <1>5
<1> QED BY <1>6 DEF free

\* Every variable keeps its type.
LEMMA TypeInit == Init => TypeOK
<1> SUFFICES ASSUME Init PROVE TypeOK
  OBVIOUS
<1>1. pc \in [Threads -> Labels]
  BY DEF Init, Labels
<1>2. 0 \in Slots /\ 0 \in 0..QueueSize /\ 0 \in 0..NumConns
  BY TpBoundsAssumption DEF Slots
<1>3. MPTypeOK /\ heap = {}
  BY DEF Init, MPInit, MPTypeOK
<1> QED BY <1>1, <1>2, <1>3 DEF Init, TypeOK, NIL, MessageKinds

\* The pieces of the heap that the server takes
Pieces == {Clfd(c) : c \in Conns} \cup {FreshMessage(w) : w \in Workers}

\* What the calls of the memory pool do to its types.
LEMMA MemoryTypes ==
  ASSUME MPTypeOK, heap \subseteq Pieces
  PROVE  /\ UNCHANGED memory => MPTypeOK' /\ heap' \subseteq Pieces
         /\ Fault \/ MayCorrupt => MPTypeOK' /\ heap' \subseteq Pieces
         /\ \A ptr \in Pieces : Malloc(ptr) => MPTypeOK' /\ heap' \subseteq Pieces
         /\ \A ptr : Free(ptr) => MPTypeOK' /\ heap' \subseteq Pieces
         /\ \A ptr \in Blocks \cup Pieces : Alloc(ptr) => MPTypeOK' /\ heap' \subseteq Pieces
         /\ \A ptr, size : Release(ptr, size) => MPTypeOK' /\ heap' \subseteq Pieces
         /\ Destroy \/ Forget => MPTypeOK' /\ heap' \subseteq Pieces
<1> USE DEF MPTypeOK
<1>1. UNCHANGED memory => MPTypeOK' /\ heap' \subseteq Pieces
  BY DEF memory
<1>2. Fault \/ MayCorrupt => MPTypeOK' /\ heap' \subseteq Pieces
  BY DEF Fault, MayCorrupt
<1>3. \A ptr \in Pieces : Malloc(ptr) => MPTypeOK' /\ heap' \subseteq Pieces
  BY DEF Malloc
<1>4. \A ptr : Free(ptr) => MPTypeOK' /\ heap' \subseteq Pieces
  BY <1>2 DEF Free
<1>5. \A ptr \in Blocks \cup Pieces : Alloc(ptr) => MPTypeOK' /\ heap' \subseteq Pieces
  BY <1>2, <1>3 DEF Alloc
<1>6. \A ptr, size : Release(ptr, size) => MPTypeOK' /\ heap' \subseteq Pieces
  BY <1>2, <1>4 DEF Release
<1>7. Destroy \/ Forget => MPTypeOK' /\ heap' \subseteq Pieces
  BY DEF Destroy, Forget
<1> QED BY <1>1, <1>2, <1>3, <1>4, <1>5, <1>6, <1>7

LEMMA TypeStep == TypeOK /\ [Next]_vars => TypeOK'
<1> SUFFICES ASSUME TypeOK, [Next]_vars PROVE TypeOK'
  OBVIOUS
<1> DEFINE MemoryOK == MPTypeOK /\ heap \subseteq Pieces
           ThreadsOK == /\ pc \in [Threads -> Labels]
                        /\ cur \in [Workers -> Conns \cup {NIL}] /\ kind \in [Workers -> MessageKinds]
                        /\ msg \in [Workers -> Blocks \cup {FreshMessage(w) : w \in Workers} \cup {NoBlock}]
                        /\ {shut, listening} \subseteq BOOLEAN
           RingOK == /\ items \in [Slots -> Conns \cup {NIL}]
                     /\ head \in Slots /\ tail \in Slots /\ count \in 0..QueueSize
           RestOK == /\ accepted \in 0..NumConns /\ sock \in [Conns -> {"new", "open", "closed"}]
                     /\ data \in {"new", "live", "freed"}
<1>1. MemoryOK /\ ThreadsOK /\ RingOK /\ RestOK
  BY DEF TypeOK, Pieces
<1>2. MemoryOK' /\ ThreadsOK' /\ RingOK' /\ RestOK' => TypeOK'
  BY DEF TypeOK, Pieces
<1>3. /\ UNCHANGED memory => MemoryOK'
      /\ Fault \/ MayCorrupt => MemoryOK'
      /\ \A ptr \in Pieces : Malloc(ptr) => MemoryOK'
      /\ \A ptr : Free(ptr) => MemoryOK'
      /\ \A ptr \in Blocks \cup Pieces : Alloc(ptr) => MemoryOK'
      /\ \A ptr, size : Release(ptr, size) => MemoryOK'
      /\ Destroy \/ Forget => MemoryOK'
  BY <1>1, MemoryTypes
<1>4. UNCHANGED ring => RingOK'
  BY <1>1 DEF ring
<1>5. UNCHANGED sockets /\ UNCHANGED data => RestOK'
  BY <1>1 DEF sockets
<1>6. \A c : Close(c) /\ UNCHANGED data => RestOK'
  BY <1>1 DEF Close
<1>7. ASSUME count > 0, RemoveItem PROVE RingOK'
  <2> USE TpBoundsAssumption DEF Slots
  <2>1. (head + 1) % QueueSize \in Slots /\ count - 1 \in 0..QueueSize
    BY <1>1, <1>7
  <2> QED BY <1>1, <1>7, <2>1 DEF RemoveItem
<1>8. items[head] \in Conns \cup {NIL}
  BY <1>1
<1> HIDE DEF MemoryOK, RingOK, RestOK
<1> USE DEF Threads, Labels, own
<1>9. CASE UNCHANGED vars
  BY <1>1, <1>2, <1>3, <1>4, <1>5, <1>9 DEF vars, sockets
<1>10. ASSUME MainStep \/ Accept PROVE TypeOK'
  <2>1. CASE CreateData
    BY <1>1, <1>2, <1>3, <1>4, <2>1 DEF CreateData, Step, sockets, RestOK
  <2>2. CASE AcceptFails
    BY <1>1, <1>2, <1>3, <1>4, <1>5, <2>2 DEF AcceptFails, Step, sockets
  <2>3. CASE Enqueue
    <3>1. accepted \in Conns \cup {NIL}
      BY <1>1, TpBoundsAssumption DEF RestOK, Conns, NIL
    <3>2. RingOK'
      <4>1. (tail + 1) % QueueSize \in Slots /\ count + 1 \in 0..QueueSize
        BY <1>1, <2>3, TpBoundsAssumption DEF RingOK, Slots, Enqueue
      <4> QED BY <1>1, <2>3, <3>1, <4>1 DEF RingOK, Enqueue, PutItem
    <3>3. pc' \in [Threads -> Labels]
      BY <1>1, <2>3 DEF Enqueue
    <3> QED BY <1>1, <1>2, <1>3, <1>5, <2>3, <3>2, <3>3 DEF Enqueue, sockets
  <2>4. CASE Refuse
    BY <1>1, <1>2, <1>3, <1>4, <1>6, <2>4 DEF Refuse, Step, Close
  <2>5. CASE Accept
    <3>1. accepted' \in 0..NumConns /\ accepted' \in Conns
      BY <1>1, <2>5, TpBoundsAssumption DEF Accept, Conns, RestOK
    <3>2. RestOK' /\ Clfd(accepted') \in Pieces
      BY <1>1, <2>5, <3>1 DEF Accept, RestOK, Pieces
    <3> QED BY <1>1, <1>2, <1>3, <1>4, <2>5, <3>2 DEF Accept, Step
  <2> QED BY <1>10, <2>1, <2>2, <2>3, <2>4, <2>5 DEF MainStep
<1>11. ASSUME NEW w \in Workers, WorkerStep(w) \/ ClientStep(w) \/ SpuriousWake(w) PROVE TypeOK'
  <2> w \in Threads /\ NIL \in Conns \cup {NIL}
    OBVIOUS
  <2>1. CASE Dequeue(w)
    BY <1>1, <1>2, <1>3, <1>5, <1>7, <1>8, <2>1 DEF Dequeue, Step, sockets
  <2>2. CASE FindEmpty(w)
    BY <1>1, <1>2, <1>3, <1>4, <1>5, <2>2 DEF FindEmpty, Step, sockets
  <2>3. CASE AllocMessage(w)
    <3> DEFINE ptr == Allocated(MessageSize, FreshMessage(w))
    <3>1. ptr \in Blocks \cup {FreshMessage(w)}
      BY AllocatedIsFree DEF FreeBlocks, BlocksFor
    <3> HIDE DEF ptr
    <3>2. ptr \in Blocks \cup Pieces
      BY <3>1 DEF Pieces
    <3>3. Alloc(ptr) /\ msg' = [msg EXCEPT ![w] = ptr] /\ Step(w, "alloc", IF kind[w] = "cut" THEN "drop" ELSE "handle")
          /\ UNCHANGED <<cur, kind, shut, ring, sockets, data>>
      BY <2>3 DEF AllocMessage, ptr
    <3>4. MemoryOK' /\ RingOK' /\ RestOK'
      BY <1>3, <1>4, <1>5, <3>2, <3>3
    <3>5. ThreadsOK'
      BY <1>1, <3>1, <3>3 DEF Step, sockets
    <3> QED BY <1>2, <3>4, <3>5
  <2>4. CASE DropMessage(w)
    BY <1>1, <1>2, <1>3, <1>4, <1>5, <2>4 DEF DropMessage, Step, sockets
  <2>5. CASE Loop(w)
    BY <1>1, <1>2, <1>3, <1>4, <1>5, <2>5 DEF Loop, Step, sockets
  <2>6. CASE Answer(w) \/ UnknownType(w)
    BY <1>1, <1>2, <1>3, <1>4, <1>5, <2>6 DEF Answer, UnknownType, Step, sockets
  <2>21. CASE FileRequest(w)
    BY <1>1, <1>2, <1>3, <1>4, <1>5, <2>21 DEF FileRequest, Step, sockets, MessageKinds
  <2>22. CASE ParentSend(w) \/ ChildSend(w)
    BY <1>1, <1>2, <1>3, <1>4, <1>5, <2>22 DEF ParentSend, ChildSend, SendFile, Step, sockets
  <2>7. CASE CloseSession(w)
    BY <1>1, <1>2, <1>3, <1>4, <1>6, <2>7 DEF CloseSession, Step, Close
  <2>8. CASE ReleaseMessage(w)
    BY <1>1, <1>2, <1>3, <1>4, <1>5, <2>8 DEF ReleaseMessage, Step, sockets
  <2>9. CASE HangUp(w)
    BY <1>1, <1>2, <1>3, <1>4, <1>6, <2>9 DEF HangUp, Step, Close
  <2>10. CASE FreeClfd(w)
    BY <1>1, <1>2, <1>3, <1>4, <1>5, <2>10 DEF FreeClfd, Step, sockets
  <2>11. CASE Announce(w)
    BY <1>1, <1>2, <1>3, <1>4, <1>5, <2>11 DEF Announce, sockets
  <2>12. CASE DrainRead(w)
    BY <1>1, <1>2, <1>3, <1>4, <1>5, <1>8, <2>12 DEF DrainRead, Step, sockets
  <2>13. CASE DrainRemove(w)
    BY <1>1, <1>2, <1>3, <1>6, <1>7, <2>13 DEF DrainRemove, Step, Close
  <2>14. CASE DrainUnderflow(w)
    BY <1>1, <1>2, <1>3, <1>4, <1>5, <2>14 DEF DrainUnderflow, Step, sockets
  <2>15. CASE FreeData(w)
    BY <1>1, <1>2, <1>3, <1>4, <2>15 DEF FreeData, Step, sockets, RestOK
  <2>16. CASE DestroyPool(w)
    BY <1>1, <1>2, <1>3, <1>4, <1>5, <2>16 DEF DestroyPool, Step, sockets
  <2>17. CASE ForgetPool(w)
    BY <1>1, <1>2, <1>3, <1>4, <1>5, <2>17 DEF ForgetPool, Step, sockets
  <2>18. CASE StopListening(w)
    BY <1>1, <1>2, <1>3, <1>4, <2>18 DEF StopListening, Step, RestOK
  <2>19. CASE ReadHeader(w)
    BY <1>1, <1>2, <1>3, <1>4, <1>5, <2>19, TpBoundsAssumption DEF ReadHeader, Step, sockets
  <2>20. CASE SpuriousWake(w)
    BY <1>1, <1>2, <1>3, <1>4, <1>5, <2>20 DEF SpuriousWake, Step, sockets
  <2> QED BY <1>11, <2>1, <2>2, <2>3, <2>4, <2>5, <2>6, <2>7, <2>8, <2>9, <2>10, <2>11, <2>12,
             <2>13, <2>14, <2>15, <2>16, <2>17, <2>18, <2>19, <2>20, <2>21, <2>22
         DEF WorkerStep, ClientStep
<1> QED BY <1>9, <1>10, <1>11 DEF Next

\* Whatever the threads do, in a shutdown too, the ring stays within its slots, the
\* heap holds nothing but messages and descriptors, and only blocks are marked.
THEOREM TypeCorrect == Spec => []TypeOK
BY TypeInit, TypeStep, PTL DEF Spec
--------------------------------------------------------------------------------
(* Where each thread is until a shutdown, and who holds what                   *)

Handless == {"lock", "wait", "announce"}
Reading == {"loop", "read", "alloc", "hang_up", "free_clfd"}
WithMessage == {"drop", "handle", "parent_send", "child_send", "close", "release"}

\* A worker holds a connection from the time it takes it until it frees clfd, and a
\* message from its allocation to its release.
WorkerInv ==
  \A w \in Workers :
    /\ pc[w] \in Handless \cup Reading \cup WithMessage
    /\ cur[w] = NIL <=> pc[w] \in Handless
    /\ msg[w] = NoBlock <=> pc[w] \notin WithMessage
    /\ msg[w] \in BlocksFor(MessageSize) \cup {FreshMessage(w), NoBlock}
    /\ pc[w] \in {"child_send", "close"} => kind[w] = "last"
    /\ pc[w] = "parent_send" => kind[w] = "file"

\* main sets the tables up before it accepts, and the pool is there.
MainInv ==
  /\ pc[Main] \in {"tp_create", "accept", "enqueue", "returned"}
  /\ pc[Main] = "tp_create" => accepted = 0
  /\ pc[Main] = "enqueue" => accepted > 0
  /\ data = "live" \/ pc[Main] = "tp_create"
  /\ pool = "live" /\ process # "faulty"

\* The connections that main has handed over or turned away
Arrived == IF pc[Main] = "enqueue" THEN accepted - 1 ELSE accepted

\* Every connection in the ring or in a worker's hands has arrived and is in one
\* place.
RingInv ==
  /\ tail = (head + count) % QueueSize
  /\ Distinct(Queued) /\ Members(Queued) \cap Held = {}
  /\ Members(Queued) \cup Held \subseteq 1..Arrived
  /\ \A v, w \in Workers : v # w /\ cur[v] # NIL => cur[v] # cur[w]

Owned == Members(Queued) \cup Held \cup Handing

\* The connections whose socket a worker has closed and whose clfd it still holds
Closed == {cur[w] : w \in {v \in Workers : pc[v] = "free_clfd"
                             \/ (pc[v] = "release" /\ kind[v] \in {"last", "shutdown"})}}

\* An open socket for what is owned and not closed, and a piece of the heap for
\* whatever is owned.
ConnsInv == \A c \in Conns : /\ Clfd(c) \in heap <=> c \in Owned
                             /\ sock[c] = "open" <=> c \in Owned \ Closed

\* A marked block or a piece of the heap for each message, and nothing else.
MessagesInv ==
  /\ inUse = {msg[w] : w \in Workers} \cap Blocks
  /\ \A w \in Workers : FreshMessage(w) \in heap <=> msg[w] = FreshMessage(w)
  /\ \A v, w \in Workers : v # w /\ msg[v] # NoBlock => msg[v] # msg[w]
  /\ active = Cardinality(inUse)

IInv ==
  /\ TypeOK /\ NoSleeperAfterShutdown
  /\ ~shut => WorkerInv /\ MainInv /\ RingInv /\ ConnsInv /\ MessagesInv

Core == TypeOK /\ WorkerInv /\ MainInv /\ RingInv /\ ConnsInv /\ MessagesInv

LEMMA QueueShape ==
  ASSUME TypeOK
  PROVE  /\ Queued \in Seq(Conns \cup {NIL}) /\ Len(Queued) = count /\ DOMAIN Queued = 1..count
         /\ Members(Queued) = InRing
         /\ count > 0 => Queued # <<>> /\ Head(Queued) = items[head] /\ items[head] \in Members(Queued)
<1>1. Queued = RingOf(items, head, count, QueueSize)
  BY DEF Queued, RingOf
<1>2. IsRing(Conns \cup {NIL}, items, head, count, QueueSize) /\ count \in Nat
  BY TpBoundsAssumption DEF TypeOK, Slots, IsRing
<1>3. Queued \in Seq(Conns \cup {NIL})
  BY <1>1, <1>2, RingType
<1>4. Len(Queued) = count /\ DOMAIN Queued = 1..count
  BY <1>2 DEF Queued
<1>5. Members(Queued) = InRing
  BY <1>4 DEF Members, InRing
<1>6. ASSUME count > 0
      PROVE  Queued # <<>> /\ Head(Queued) = items[head] /\ items[head] \in Members(Queued)
  <2>1. Queued # <<>> /\ Head(Queued) = items[head]
    BY <1>1, <1>2, <1>6, RingTake
  <2>2. Head(Queued) = Queued[1] /\ 1 \in 1..count
    BY <1>2, <1>3, <1>6, <2>1
  <2> QED BY <1>4, <2>1, <2>2 DEF Members
<1> QED BY <1>3, <1>4, <1>5, <1>6

\* What a worker holds is an accepted connection, and the tables are there.
LEMMA HeldMeansReady ==
  ASSUME TypeOK, WorkerInv, MainInv, RingInv, NEW w \in Workers, cur[w] # NIL
  PROVE  cur[w] \in Conns /\ cur[w] \in Held /\ cur[w] <= Arrived /\ accepted > 0 /\ data = "live"
<1>1. cur[w] \in Held
  BY DEF Held
<1>2. cur[w] \in 1..Arrived /\ cur[w] \in Conns /\ accepted \in Nat
  BY <1>1, TpBoundsAssumption DEF RingInv, TypeOK
<1>3. accepted > 0 /\ cur[w] <= Arrived
  BY <1>2 DEF Arrived
<1> QED BY <1>1, <1>2, <1>3 DEF MainInv
--------------------------------------------------------------------------------
(* What the calls of the memory pool do until a shutdown                       *)

\* The memory of a message goes back to where it was taken from.
LEMMA MessageReleased ==
  ASSUME Core, NEW w \in Workers, msg[w] # NoBlock, Release(msg[w], MessageSize)
  PROVE  /\ UNCHANGED <<pool, process>>
         /\ \/ /\ msg[w] \in Blocks /\ inUse' = inUse \ {msg[w]}
               /\ active' = active - 1 /\ heap' = heap
            \/ /\ msg[w] = FreshMessage(w) /\ heap' = heap \ {FreshMessage(w)}
               /\ UNCHANGED <<inUse, active>>
<1>1. msg[w] \in BlocksFor(MessageSize) \cup {FreshMessage(w)} /\ pool = "live"
  BY DEF Core, WorkerInv, MainInv
<1>2. BlocksFor(MessageSize) \subseteq Blocks
  BY DEF BlocksFor
<1>3. CASE msg[w] \in BlocksFor(MessageSize)
  BY <1>1, <1>2, <1>3 DEF Release
<1>4. CASE msg[w] = FreshMessage(w) /\ msg[w] \notin BlocksFor(MessageSize)
  <2>1. Free(msg[w])
    BY <1>1, <1>4 DEF Release
  <2>2. msg[w] \in heap
    BY <1>4 DEF Core, MessagesInv
  <2> QED BY <1>4, <2>1, <2>2 DEF Free
<1> QED BY <1>1, <1>3, <1>4

\* The descriptor of a connection goes back to the heap.
LEMMA ClfdReleased ==
  ASSUME Core, NEW c \in Conns, c \in Owned, Release(Clfd(c), IntSize) \/ Free(Clfd(c))
  PROVE  heap' = heap \ {Clfd(c)} /\ UNCHANGED <<pool, inUse, active, process>>
<1>1. Clfd(c) \in heap /\ pool = "live"
  BY DEF Core, ConnsInv, MainInv
<1>2. Clfd(c) \notin BlocksFor(IntSize)
  BY PointersDiffer DEF BlocksFor
<1>3. Free(Clfd(c))
  BY <1>1, <1>2 DEF Release
<1> QED BY <1>1, <1>3 DEF Free

\* A message is allocated from the free blocks of its class or from the heap.
LEMMA MessageAllocated ==
  ASSUME Core, NEW w \in Workers, AllocMessage(w)
  PROVE  /\ UNCHANGED <<pool, process>>
         /\ \/ /\ msg'[w] \in BlocksFor(MessageSize) \ inUse /\ inUse' = inUse \cup {msg'[w]}
               /\ active' = active + 1 /\ heap' = heap
            \/ /\ msg'[w] = FreshMessage(w) /\ heap' = heap \cup {FreshMessage(w)}
               /\ UNCHANGED <<inUse, active>>
         /\ \A v \in Workers \ {w} : msg'[v] = msg[v]
<1> DEFINE ptr == Allocated(MessageSize, FreshMessage(w))
<1>1. msg' = [msg EXCEPT ![w] = ptr] /\ Alloc(ptr)
  BY DEF AllocMessage
<1>2. ptr \in FreeBlocks(MessageSize) \/ ptr = FreshMessage(w)
  BY AllocatedIsFree
<1> HIDE DEF ptr
<1>3. msg'[w] = ptr /\ \A v \in Workers \ {w} : msg'[v] = msg[v]
  BY <1>1 DEF Core, TypeOK
<1>4. CASE ptr \in FreeBlocks(MessageSize)
  <2>1. ptr \in BlocksFor(MessageSize) \ inUse /\ ptr \in Blocks
    BY <1>4 DEF FreeBlocks, BlocksFor
  <2> QED BY <1>1, <1>3, <2>1 DEF Alloc, Core, MainInv
<1>5. CASE ptr = FreshMessage(w)
  <2>1. ptr \notin Blocks
    BY <1>5, PointersDiffer
  <2> QED BY <1>1, <1>3, <1>5, <2>1 DEF Alloc, Malloc, Core, MainInv
<1> QED BY <1>2, <1>4, <1>5
--------------------------------------------------------------------------------
(* Threads                                                                     *)

LEMMA ThreadInit == Init => WorkerInv /\ MainInv
BY TpThreadsAssumption DEF Init, MPInit, WorkerInv, MainInv, Threads, Handless, Reading, WithMessage, NIL

\* Before a shutdown no memory is used that is not there, and the pool stays.
LEMMA SoundStep ==
  ASSUME Core, ~shut, [Next]_vars
  PROVE  pool' = "live" /\ process' # "faulty"
<1> USE TpThreadsAssumption, TpBoundsAssumption
<1>1. /\ pool = "live" /\ process # "faulty"
      /\ \A w \in Workers : pc[w] \in Handless \cup Reading \cup WithMessage
  BY DEF Core, MainInv, WorkerInv
<1>2. CASE UNCHANGED vars
  BY <1>1, <1>2 DEF vars, memory
<1>3. ASSUME MainStep \/ Accept PROVE pool' = "live" /\ process' # "faulty"
  <2>1. CASE CreateData
    BY <1>1, <2>1 DEF CreateData, memory
  <2>2. CASE AcceptFails
    BY <1>1, <2>2 DEF AcceptFails, memory
  <2>3. CASE Enqueue
    BY <1>1, <2>3 DEF Enqueue, memory
  <2>4. CASE Refuse
    <3>1. accepted \in Conns /\ accepted \in Owned /\ Free(Clfd(accepted))
      BY <2>4 DEF Refuse, Step, Core, TypeOK, MainInv, Owned, Handing, Conns
    <3> QED BY <1>1, <3>1, ClfdReleased
  <2>5. CASE Accept
    BY <1>1, <2>5 DEF Accept, Malloc
  <2> QED BY <1>3, <2>1, <2>2, <2>3, <2>4, <2>5 DEF MainStep
<1>4. ASSUME NEW w \in Workers, WorkerStep(w) \/ ClientStep(w) \/ SpuriousWake(w)
      PROVE  pool' = "live" /\ process' # "faulty"
  <2> USE DEF Handless, Reading, WithMessage
  <2>1. CASE Dequeue(w) \/ FindEmpty(w) \/ Loop(w) \/ HangUp(w) \/ CloseSession(w) \/ Announce(w)
             \/ ReadHeader(w) \/ SpuriousWake(w)
    BY <1>1, <2>1 DEF Dequeue, FindEmpty, Loop, HangUp, CloseSession, Announce, ReadHeader, SpuriousWake, memory
  <2>2. CASE AllocMessage(w)
    BY <1>1, <2>2, MessageAllocated
  <2>3. CASE DropMessage(w) \/ ReleaseMessage(w)
    <3>1. pc[w] \in WithMessage /\ Release(msg[w], MessageSize)
      BY <2>3 DEF DropMessage, ReleaseMessage, Step
    <3>2. msg[w] # NoBlock
      BY <3>1 DEF Core, WorkerInv
    <3> QED BY <1>1, <3>1, <3>2, MessageReleased
  <2>4. CASE Answer(w) \/ UnknownType(w) \/ FileRequest(w) \/ ParentSend(w) \/ ChildSend(w)
    <3>1. pc[w] \in {"handle", "parent_send", "child_send"}
      BY <2>4 DEF Answer, UnknownType, FileRequest, ParentSend, ChildSend, SendFile, Step
    <3>2. data = "live"
      BY <3>1, HeldMeansReady DEF Core, WorkerInv
    <3>3. UNCHANGED memory \/ MayCorrupt
      BY <2>4, <3>2 DEF Answer, UnknownType, FileRequest, ParentSend, ChildSend, SendFile
    <3> QED BY <1>1, <3>3 DEF MayCorrupt, memory
  <2>5. CASE FreeClfd(w)
    <3>1. pc[w] = "free_clfd" /\ Release(Clfd(cur[w]), IntSize)
      BY <2>5 DEF FreeClfd, Step
    <3>2. cur[w] \in Conns /\ cur[w] \in Owned
      BY <3>1, HeldMeansReady DEF Core, WorkerInv, Owned
    <3> QED BY <1>1, <3>1, <3>2, ClfdReleased
  <2>6. CASE DrainRead(w) \/ DrainRemove(w) \/ DrainUnderflow(w) \/ FreeData(w) \/ DestroyPool(w)
             \/ ForgetPool(w) \/ StopListening(w)
    BY <1>1, <2>6 DEF DrainRead, DrainRemove, DrainUnderflow, FreeData, DestroyPool, ForgetPool, StopListening, Step
  <2> QED BY <1>4, <2>1, <2>2, <2>3, <2>4, <2>5, <2>6 DEF WorkerStep, ClientStep
<1> QED BY <1>2, <1>3, <1>4 DEF Next

\* A worker is still where it holds what WorkerInv says; nobody drains or frees the
\* tables.
LEMMA ThreadStep ==
  ASSUME Core, ~shut, ~shut', [Next]_vars
  PROVE  WorkerInv' /\ MainInv'
<1>1. pool' = "live" /\ process' # "faulty"
  BY SoundStep
<1> DEFINE Mains == /\ pc[Main] \in {"tp_create", "accept", "enqueue", "returned"}
                    /\ pc[Main] = "tp_create" => accepted = 0
                    /\ pc[Main] = "enqueue" => accepted > 0
                    /\ data = "live" \/ pc[Main] = "tp_create"
<1>2. Mains /\ WorkerInv /\ TypeOK /\ (Mains' => MainInv')
  BY <1>1 DEF Core, MainInv
<1> SUFFICES WorkerInv' /\ Mains'
  BY <1>2
<1> USE TpThreadsAssumption, TpBoundsAssumption
    DEF TypeOK, Threads, ring, sockets, own, WorkerInv, Handless, Reading, WithMessage, NIL
<1>3. CASE UNCHANGED vars
  BY <1>2, <1>3 DEF vars
<1>4. ASSUME MainStep \/ Accept PROVE WorkerInv' /\ Mains'
  <2>1. CASE CreateData
    BY <1>2, <2>1 DEF CreateData, Step
  <2>2. CASE AcceptFails
    BY <1>2, <2>2 DEF AcceptFails, Step
  <2>3. CASE Enqueue
    BY <1>2, <2>3 DEF Enqueue
  <2>4. CASE Refuse
    BY <1>2, <2>4 DEF Refuse, Step, Close
  <2>5. CASE Accept
    BY <1>2, <2>5 DEF Accept, Step
  <2> QED BY <1>4, <2>1, <2>2, <2>3, <2>4, <2>5 DEF MainStep
<1>5. ASSUME NEW w \in Workers, WorkerStep(w) \/ ClientStep(w) \/ SpuriousWake(w)
      PROVE  WorkerInv' /\ Mains'
  <2>1. CASE Dequeue(w)
    <3>1. items[head] # NIL
      BY <2>1, QueueShape DEF Dequeue, RingInv, Core
    <3> QED BY <1>2, <2>1, <3>1 DEF Dequeue, Step
  <2>2. CASE FindEmpty(w)
    BY <1>2, <2>2 DEF FindEmpty, Step
  <2>3. CASE AllocMessage(w)
    <3>1. msg'[w] \in BlocksFor(MessageSize) \cup {FreshMessage(w)}
          /\ \A v \in Workers \ {w} : msg'[v] = msg[v]
      BY <2>3, MessageAllocated
    <3>2. msg'[w] # NoBlock
      BY <3>1, PointersDiffer DEF BlocksFor
    <3> QED BY <1>2, <2>3, <3>1, <3>2 DEF AllocMessage, Step
  <2>4. CASE DropMessage(w)
    BY <1>2, <2>4 DEF DropMessage, Step
  <2>5. CASE Loop(w)
    BY <1>2, <2>5 DEF Loop, Step
  <2>6. CASE Answer(w) \/ UnknownType(w)
    BY <1>2, <2>6 DEF Answer, UnknownType, Step
  <2>15. CASE FileRequest(w)
    BY <1>2, <2>15 DEF FileRequest, Step
  <2>16. CASE ParentSend(w) \/ ChildSend(w)
    BY <1>2, <2>16 DEF ParentSend, ChildSend, SendFile, Step
  <2>7. CASE CloseSession(w)
    BY <1>2, <2>7 DEF CloseSession, Step, Close
  <2>8. CASE ReleaseMessage(w)
    BY <1>2, <2>8 DEF ReleaseMessage, Step
  <2>9. CASE HangUp(w)
    BY <1>2, <2>9 DEF HangUp, Step, Close
  <2>10. CASE FreeClfd(w)
    BY <1>2, <2>10 DEF FreeClfd, Step
  <2>11. CASE Announce(w)
    BY <2>11 DEF Announce
  <2>12. CASE ReadHeader(w)
    BY <1>2, <2>12 DEF ReadHeader, Step
  <2>13. CASE SpuriousWake(w)
    BY <1>2, <2>13 DEF SpuriousWake, Step
  <2>14. CASE DrainRead(w) \/ DrainRemove(w) \/ DrainUnderflow(w) \/ FreeData(w) \/ DestroyPool(w)
             \/ ForgetPool(w) \/ StopListening(w)
    BY <1>2, <2>14 DEF DrainRead, DrainRemove, DrainUnderflow, FreeData, DestroyPool, ForgetPool, StopListening, Step
  <2> QED BY <1>5, <2>1, <2>2, <2>3, <2>4, <2>5, <2>6, <2>7, <2>8, <2>9, <2>10, <2>11, <2>12,
             <2>13, <2>14, <2>15, <2>16 DEF WorkerStep, ClientStep
<1> QED BY <1>3, <1>4, <1>5 DEF Next
--------------------------------------------------------------------------------
(* What a step does to the ring and to the hands of the workers                *)

\* A worker has closed the socket of the connection it holds.
HasClosed(w) == pc[w] = "free_clfd" \/ (pc[w] = "release" /\ kind[w] \in {"last", "shutdown"})

HandsStay == /\ UNCHANGED <<cur, ring, accepted, sock>>
             /\ pc[Main] = "enqueue" <=> pc'[Main] = "enqueue"
             /\ \A c : Clfd(c) \in heap' <=> Clfd(c) \in heap
             /\ \A v \in Workers : HasClosed(v)' <=> HasClosed(v)

Closes(w) == /\ cur[w] # NIL /\ Close(cur[w]) /\ HasClosed(w)'
             /\ \A v \in Workers \ {w} : HasClosed(v)' <=> HasClosed(v)
             /\ UNCHANGED <<cur, ring, heap>> /\ pc'[Main] = pc[Main]

\* Every step arrives, puts into the ring, turns away, takes, closes, gives up, or
\* does none of these.
LEMMA StepKinds ==
  ASSUME Core, ~shut, ~shut', [Next]_vars
  PROVE  HandsStay \/ Accept \/ Enqueue \/ Refuse
         \/ \E w \in Workers : Dequeue(w) \/ Closes(w) \/ FreeClfd(w)
<1> USE TpThreadsAssumption
    DEF TypeOK, Threads, sockets, own, memory, HandsStay, HasClosed, Handless, Reading, WithMessage
<1>1. TypeOK /\ WorkerInv
  BY DEF Core
<1>2. CASE UNCHANGED vars
  BY <1>2 DEF vars
<1>3. ASSUME MainStep \/ Accept, ~(Accept \/ Enqueue \/ Refuse) PROVE HandsStay
  <2>1. CASE CreateData
    BY <1>1, <2>1 DEF CreateData, Step
  <2>2. CASE AcceptFails
    BY <1>1, <2>2 DEF AcceptFails, Step
  <2> QED BY <1>3, <2>1, <2>2 DEF MainStep
<1>4. ASSUME NEW w \in Workers, WorkerStep(w) \/ ClientStep(w) \/ SpuriousWake(w)
      PROVE  HandsStay \/ Dequeue(w) \/ Closes(w) \/ FreeClfd(w)
  <2>1. CASE FindEmpty(w)
    BY <1>1, <2>1 DEF FindEmpty, Step
  <2>2. CASE AllocMessage(w)
    <3>1. \A c : Clfd(c) \in heap' <=> Clfd(c) \in heap
      BY <2>2, MessageAllocated, PointersDiffer
    <3> QED BY <1>1, <2>2, <3>1 DEF AllocMessage, Step
  <2>3. CASE DropMessage(w) \/ ReleaseMessage(w)
    <3>1. pc[w] \in WithMessage /\ Release(msg[w], MessageSize)
      BY <2>3 DEF DropMessage, ReleaseMessage, Step
    <3>2. msg[w] # NoBlock
      BY <1>1, <3>1 DEF WorkerInv
    <3>3. \A c : Clfd(c) \in heap' <=> Clfd(c) \in heap
      BY <3>1, <3>2, MessageReleased, PointersDiffer
    <3> QED BY <1>1, <2>3, <3>3 DEF DropMessage, ReleaseMessage, Step
  <2>4. CASE Loop(w)
    BY <1>1, <2>4 DEF Loop, Step
  <2>5. CASE Answer(w) \/ UnknownType(w) \/ FileRequest(w) \/ ParentSend(w) \/ ChildSend(w)
    <3>1. heap' = heap
      BY <2>5 DEF Answer, UnknownType, FileRequest, ParentSend, ChildSend, SendFile, Fault, MayCorrupt
    <3>2. CASE Answer(w) \/ UnknownType(w)
      BY <1>1, <3>1, <3>2 DEF Answer, UnknownType, Step
    <3>3. CASE FileRequest(w)
      BY <1>1, <3>1, <3>3 DEF FileRequest, Step
    <3>4. CASE ParentSend(w) \/ ChildSend(w)
      BY <1>1, <3>1, <3>4 DEF ParentSend, ChildSend, SendFile, Step, WorkerInv
    <3> QED BY <2>5, <3>2, <3>3, <3>4
  <2>6. CASE CloseSession(w)
    <3>1. pc[w] \in {"close", "handle"} /\ pc' = [pc EXCEPT ![w] = "release"]
          /\ kind[w] \in {"last", "shutdown"}
      BY <1>1, <2>6 DEF CloseSession, Step, WorkerInv
    <3>2. cur[w] # NIL
      BY <1>1, <3>1 DEF WorkerInv
    <3> QED BY <1>1, <2>6, <3>1, <3>2 DEF CloseSession, Closes
  <2>7. CASE HangUp(w)
    <3>1. cur[w] # NIL
      BY <1>1, <2>7 DEF HangUp, Step, WorkerInv
    <3> QED BY <1>1, <2>7, <3>1 DEF HangUp, Step, Closes
  <2>8. CASE Announce(w)
    BY <2>8 DEF Announce
  <2>9. CASE ReadHeader(w)
    BY <1>1, <2>9 DEF ReadHeader, Step
  <2>10. CASE SpuriousWake(w)
    BY <1>1, <2>10 DEF SpuriousWake, Step
  <2>11. CASE DrainRead(w) \/ DrainRemove(w) \/ DrainUnderflow(w) \/ FreeData(w) \/ DestroyPool(w)
              \/ ForgetPool(w) \/ StopListening(w)
    BY <1>1, <2>11 DEF DrainRead, DrainRemove, DrainUnderflow, FreeData, DestroyPool, ForgetPool,
                       StopListening, Step, WorkerInv
  <2> QED BY <1>4, <2>1, <2>2, <2>3, <2>4, <2>5, <2>6, <2>7, <2>8, <2>9, <2>10, <2>11
         DEF WorkerStep, ClientStep
<1> QED BY <1>2, <1>3, <1>4 DEF Next

\* What enters the ring is appended to the queue, and what leaves it was its head.
LEMMA EnqueueAppends ==
  ASSUME TypeOK, RingInv, Enqueue
  PROVE  Queued' = Append(Queued, accepted) /\ tail' = (head' + count') % QueueSize
<1>1. /\ IsRing(Conns \cup {NIL}, items, head, count, QueueSize) /\ count # QueueSize
      /\ accepted \in Conns \cup {NIL}
  BY TpBoundsAssumption DEF TypeOK, Slots, Enqueue, Conns, NIL, IsRing
<1>2. /\ items' = Put(items, head, count, QueueSize, accepted)
      /\ head' = head /\ count' = count + 1 /\ tail' = (tail + 1) % QueueSize
  BY DEF Enqueue, PutItem, RingInv, Put
<1>3. Queued = RingOf(items, head, count, QueueSize)
      /\ Queued' = RingOf(items', head, count + 1, QueueSize)
  BY <1>2 DEF Queued, RingOf
<1>4. Queued' = Append(Queued, accepted)
  BY <1>1, <1>2, <1>3, RingPut
<1>5. tail' = (head' + count') % QueueSize
  BY <1>1, <1>2, TailMoves DEF RingInv
<1> QED BY <1>4, <1>5

LEMMA DequeueTakes ==
  ASSUME TypeOK, RingInv, NEW w \in Workers, Dequeue(w)
  PROVE  /\ Queued # <<>> /\ Queued' = Tail(Queued) /\ cur' = [cur EXCEPT ![w] = Head(Queued)]
         /\ tail' = (head' + count') % QueueSize
<1>1. IsRing(Conns \cup {NIL}, items, head, count, QueueSize) /\ count # 0
  BY TpBoundsAssumption DEF TypeOK, Slots, Dequeue, IsRing
<1>2. head' = (head + 1) % QueueSize /\ count' = count - 1 /\ items' = items /\ tail' = tail
      /\ cur' = [cur EXCEPT ![w] = items[head]]
  BY DEF Dequeue, RemoveItem
<1>3. Queued = RingOf(items, head, count, QueueSize)
      /\ Queued' = RingOf(items, (head + 1) % QueueSize, count - 1, QueueSize)
  BY <1>2 DEF Queued, RingOf
<1>4. Queued # <<>> /\ Head(Queued) = items[head] /\ Queued' = Tail(Queued)
  BY <1>1, <1>3, RingTake
<1>5. tail' = (head' + count') % QueueSize
  BY <1>1, <1>2, TailStays DEF RingInv
<1> QED BY <1>2, <1>4, <1>5
--------------------------------------------------------------------------------
(* Every connection is in one place, and its memory and socket with it         *)

LEMMA RingInit == Init => RingInv /\ ConnsInv
<1> SUFFICES ASSUME Init PROVE RingInv /\ ConnsInv
  OBVIOUS
<1>1. Queued = <<>> /\ Held = {} /\ Handing = {} /\ \A w \in Workers : cur[w] = NIL
  BY TpThreadsAssumption DEF Init, Queued, Held, Handing, Threads
<1>2. Distinct(Queued) /\ Members(Queued) = {}
  BY <1>1 DEF Distinct, Members
<1>3. tail = (head + count) % QueueSize
  BY TpBoundsAssumption DEF Init
<1>4. RingInv
  BY <1>1, <1>2, <1>3 DEF RingInv
<1> QED BY <1>1, <1>2, <1>4 DEF Init, MPInit, ConnsInv, Owned

\* A connection enters and leaves the ring and the hands of the workers with its
\* socket and its piece of the heap.
LEMMA ConnsStep ==
  ASSUME Core, ~shut, ~shut', [Next]_vars
  PROVE  RingInv' /\ ConnsInv'
<1> USE DEF TypeOK, Threads, NIL
<1>1. TypeOK /\ WorkerInv /\ MainInv /\ RingInv /\ ConnsInv
  BY DEF Core
<1>2. /\ Queued \in Seq(Conns \cup {NIL}) /\ Held \subseteq 1..Arrived
      /\ Members(Queued) \subseteq 1..Arrived /\ accepted \in Nat
  BY <1>1, QueueShape DEF RingInv
<1>3. Closed = {cur[v] : v \in {u \in Workers : HasClosed(u)}}
      /\ Closed' = {cur'[v] : v \in {u \in Workers : HasClosed(u)'}}
  BY DEF Closed, HasClosed
<1>4. \A v \in Workers : HasClosed(v) => cur[v] # NIL
  BY <1>1 DEF HasClosed, WorkerInv, Handless
<1>5. CASE HandsStay
  <2>1. Queued' = Queued /\ Held' = Held /\ Arrived' = Arrived /\ Handing' = Handing
    BY <1>5 DEF HandsStay, ring, Queued, Held, Arrived, Handing
  <2>2. Closed' = Closed
    BY <1>3, <1>5 DEF HandsStay
  <2>3. RingInv'
    BY <1>1, <1>5, <2>1 DEF HandsStay, ring, RingInv
  <2> QED BY <1>1, <1>5, <2>1, <2>2, <2>3 DEF HandsStay, ConnsInv, Owned
<1>6. CASE Accept
  <2>1. Queued' = Queued /\ Held' = Held /\ Arrived' = Arrived /\ Handing = {} /\ Handing' = {accepted'}
        /\ accepted' = accepted + 1
    BY <1>1, <1>2, <1>6, TpThreadsAssumption DEF Accept, Step, own, ring, Queued, Held, Arrived, Handing
  <2>2. Closed' = Closed
    BY <1>1, <1>3, <1>6, TpThreadsAssumption DEF Accept, Step, own, HasClosed
  <2>3. RingInv'
    BY <1>1, <1>6, <2>1 DEF Accept, own, ring, RingInv
  <2>4. Owned' = Owned \cup {accepted'}
    BY <2>1 DEF Owned
  <2>5. accepted' \notin Closed
    <3>1. Closed \subseteq Held
      BY <1>3, <1>4 DEF Held
    <3> QED BY <1>2, <2>1, <3>1 DEF Arrived
  <2>6. \A c \in Conns : /\ Clfd(c) \in heap' <=> Clfd(c) \in heap \/ c = accepted'
                         /\ sock'[c] = "open" <=> sock[c] = "open" \/ c = accepted'
    BY <1>1, <1>6, PointersDiffer DEF Accept, Malloc
  <2> QED BY <1>1, <2>2, <2>3, <2>4, <2>5, <2>6 DEF ConnsInv
<1>7. CASE Enqueue
  <2>1. /\ Arrived = accepted - 1 /\ Arrived' = accepted /\ accepted > 0 /\ Held' = Held /\ cur' = cur
        /\ Handing = {accepted} /\ Handing' = {} /\ heap' = heap /\ sock' = sock
    BY <1>1, <1>7, TpThreadsAssumption DEF Enqueue, own, sockets, memory, Arrived, Held, MainInv, Handing
  <2>2. accepted \notin Members(Queued) /\ accepted \notin Held /\ accepted \in Conns
    BY <1>1, <1>2, <2>1 DEF Conns
  <2>3. Distinct(Queued') /\ Members(Queued') = Members(Queued) \cup {accepted}
    <3>1. Queued' = Append(Queued, accepted) /\ Distinct(Queued) /\ accepted \in Conns \cup {NIL}
      BY <1>1, <1>7, <2>2, EnqueueAppends DEF RingInv
    <3> QED BY <1>2, <2>2, <3>1, DistinctAppend
  <2>4. Members(Queued') \cup Held' \subseteq 1..Arrived'
    <3>1. 1..Arrived \cup {accepted} \subseteq 1..accepted
      BY <1>2, <2>1
    <3> QED BY <1>2, <2>1, <2>3, <3>1
  <2>5. RingInv'
    BY <1>1, <1>7, <2>1, <2>2, <2>3, <2>4, EnqueueAppends DEF RingInv
  <2>6. Owned' = Owned
    BY <2>1, <2>3 DEF Owned
  <2>7. Closed' = Closed
    <3>1. \A v \in Workers : HasClosed(v)' <=> HasClosed(v)
      BY <1>1, <1>7, TpThreadsAssumption DEF Enqueue, own, HasClosed
    <3> QED BY <1>3, <2>1, <3>1
  <2> QED BY <1>1, <2>1, <2>5, <2>6, <2>7 DEF ConnsInv
<1>8. CASE Refuse
  <2>1. /\ Queued' = Queued /\ Held' = Held /\ Arrived = accepted - 1 /\ Arrived' = accepted
        /\ Handing = {accepted} /\ Handing' = {} /\ cur' = cur /\ kind' = kind /\ accepted > 0
    BY <1>1, <1>8, TpThreadsAssumption
       DEF Refuse, Step, Close, own, ring, Queued, Held, Arrived, Handing, MainInv
  <2>2. accepted \notin Members(Queued) /\ accepted \notin Held /\ accepted \in Conns
    BY <1>1, <1>2, <2>1 DEF Conns
  <2>3. RingInv'
    <3>1. 1..Arrived \subseteq 1..Arrived'
      BY <1>2, <2>1
    <3> QED BY <1>1, <1>8, <2>1, <3>1 DEF Refuse, ring, RingInv
  <2>4. Owned' = Owned \ {accepted} /\ accepted \in Owned
    BY <2>1, <2>2 DEF Owned
  <2>5. heap' = heap \ {Clfd(accepted)}
    BY <1>8, <2>2, <2>4, ClfdReleased DEF Refuse
  <2>6. Closed' = Closed
    <3>1. \A v \in Workers : HasClosed(v)' <=> HasClosed(v)
      BY <1>1, <1>8, <2>1, TpThreadsAssumption DEF Refuse, Step, HasClosed
    <3> QED BY <1>3, <2>1, <3>1
  <2>7. \A c \in Conns : /\ Clfd(c) \in heap' <=> Clfd(c) \in heap /\ c # accepted
                         /\ sock'[c] = "open" <=> sock[c] = "open" /\ c # accepted
    BY <1>1, <1>8, <2>5, PointersDiffer DEF Refuse, Close
  <2> QED BY <1>1, <2>3, <2>4, <2>6, <2>7 DEF ConnsInv
<1>9. ASSUME NEW w \in Workers, Dequeue(w) PROVE RingInv' /\ ConnsInv'
  <2>1. cur[w] = NIL /\ Arrived' = Arrived /\ Handing' = Handing /\ heap' = heap /\ sock' = sock
    BY <1>1, <1>9, TpThreadsAssumption
       DEF Dequeue, Step, WorkerInv, Handless, sockets, memory, Arrived, Handing
  <2>2. /\ Queued # <<>> /\ Queued' = Tail(Queued) /\ cur' = [cur EXCEPT ![w] = Head(Queued)]
        /\ tail' = (head' + count') % QueueSize
    BY <1>1, <1>9, DequeueTakes
  <2>3. /\ Distinct(Queued') /\ Members(Queued') = Members(Queued) \ {Head(Queued)}
        /\ Head(Queued) \in Members(Queued)
    BY <1>1, <1>2, <2>2, DistinctTail DEF RingInv
  <2>4. Head(Queued) # NIL /\ Head(Queued) \notin Held
    BY <1>1, <1>2, <2>3 DEF RingInv
  <2>5. Held' = Held \cup {Head(Queued)}
    BY <1>1, <2>1, <2>2, <2>4 DEF Held
  <2>6. \A u, v \in Workers : u # v /\ cur'[u] # NIL => cur'[u] # cur'[v]
    BY <1>1, <2>2, <2>4 DEF RingInv, Held
  <2>7. RingInv'
    BY <1>1, <1>2, <2>1, <2>2, <2>3, <2>4, <2>5, <2>6 DEF RingInv
  <2>8. Owned' = Owned
    BY <2>1, <2>3, <2>5 DEF Owned
  <2>9. Closed' = Closed
    <3>1. \A v \in Workers : (HasClosed(v)' <=> HasClosed(v)) /\ (HasClosed(v) => v # w)
      BY <1>1, <1>9, TpThreadsAssumption DEF Dequeue, Step, HasClosed
    <3>2. \A v \in Workers \ {w} : cur'[v] = cur[v]
      BY <1>1, <2>2
    <3> QED BY <1>3, <3>1, <3>2
  <2> QED BY <1>1, <2>1, <2>7, <2>8, <2>9 DEF ConnsInv
<1>10. ASSUME NEW w \in Workers, Closes(w) PROVE RingInv' /\ ConnsInv'
  <2>1. /\ Queued' = Queued /\ Held' = Held /\ Arrived' = Arrived /\ Handing' = Handing
        /\ cur' = cur /\ heap' = heap /\ sock' = [sock EXCEPT ![cur[w]] = "closed"]
    BY <1>10 DEF Closes, Close, ring, Queued, Held, Arrived, Handing
  <2>2. RingInv'
    BY <1>1, <1>10, <2>1 DEF Closes, ring, RingInv
  <2>3. Closed' = Closed \cup {cur[w]}
    BY <1>3, <1>10, <2>1 DEF Closes
  <2>4. Owned' = Owned
    BY <2>1 DEF Owned
  <2>5. \A c \in Conns : sock'[c] = "open" <=> sock[c] = "open" /\ c # cur[w]
    BY <1>1, <2>1
  <2> QED BY <1>1, <2>1, <2>2, <2>3, <2>4, <2>5 DEF ConnsInv
<1>11. ASSUME NEW w \in Workers, FreeClfd(w) PROVE RingInv' /\ ConnsInv'
  <2>1. pc[w] = "free_clfd" /\ cur[w] # NIL
    BY <1>1, <1>11 DEF FreeClfd, Step, WorkerInv, Handless
  <2>2. cur[w] \in Conns /\ cur[w] \in Held /\ cur[w] \in Owned /\ cur[w] <= Arrived
    BY <1>1, <2>1, HeldMeansReady DEF Owned
  <2>3. /\ Queued' = Queued /\ Arrived' = Arrived /\ Handing' = Handing /\ sock' = sock
        /\ cur' = [cur EXCEPT ![w] = NIL]
    BY <1>1, <1>11, TpThreadsAssumption DEF FreeClfd, Step, sockets, ring, Queued, Arrived, Handing
  <2>4. heap' = heap \ {Clfd(cur[w])}
    BY <1>11, <2>2, ClfdReleased DEF FreeClfd
  <2>5. Held' = Held \ {cur[w]}
    BY <1>1, <2>1, <2>3 DEF Held, RingInv
  <2>6. RingInv'
    BY <1>1, <1>11, <2>3, <2>5 DEF RingInv, FreeClfd, ring
  <2>7. Owned' = Owned \ {cur[w]}
    <3>1. cur[w] \notin Members(Queued) /\ cur[w] \notin Handing
      <4>1. cur[w] \in Nat
        BY <2>2 DEF Conns
      <4> QED BY <1>1, <1>2, <2>2, <4>1 DEF RingInv, Arrived, Handing
    <3> QED BY <2>3, <2>5, <3>1 DEF Owned
  <2>8. Closed' = Closed \ {cur[w]}
    <3>1. \A v \in Workers \ {w} : (HasClosed(v)' <=> HasClosed(v)) /\ cur'[v] = cur[v]
      BY <1>1, <1>11, <2>3 DEF FreeClfd, Step, HasClosed
    <3>2. ~HasClosed(w)'
      BY <1>1, <1>11 DEF FreeClfd, Step, HasClosed
    <3>3. HasClosed(w)
      BY <2>1 DEF HasClosed
    <3>4. \A v \in Workers \ {w} : cur[v] # cur[w]
      BY <1>1, <2>1 DEF RingInv
    <3> QED BY <1>3, <3>1, <3>2, <3>3, <3>4
  <2>9. cur[w] \in Closed
    BY <1>3, <2>1 DEF HasClosed
  <2>10. \A c \in Conns : Clfd(c) \in heap' <=> Clfd(c) \in heap /\ c # cur[w]
    BY <2>4, PointersDiffer
  <2> QED BY <1>1, <2>3, <2>6, <2>7, <2>8, <2>9, <2>10 DEF ConnsInv
<1> QED BY <1>5, <1>6, <1>7, <1>8, <1>9, <1>10, <1>11, StepKinds
--------------------------------------------------------------------------------
(* Every message has its memory, and nothing else has                          *)

LEMMA MessagesInit == Init => MessagesInv
<1> SUFFICES ASSUME Init PROVE MessagesInv
  OBVIOUS
<1>1. inUse = {} /\ heap = {} /\ active = 0 /\ \A w \in Workers : msg[w] = NoBlock
  BY DEF Init, MPInit
<1>2. Cardinality(inUse) = 0
  BY <1>1, FS_EmptySet
<1> QED BY <1>1, <1>2, PointersDiffer DEF MessagesInv

\* The marked blocks are at most one for each worker.
LEMMA MarkedFinite ==
  ASSUME MessagesInv
  PROVE  IsFiniteSet(inUse) /\ Cardinality(inUse) \in Nat
<1> DEFINE image == {msg[w] : w \in Workers}
           f == [w \in Workers |-> msg[w]]
<1>1. IsFiniteSet({msg[w] : w \in Workers})
  <2>1. f \in Surjection(Workers, image)
    BY DEF Surjection
  <2> QED BY <2>1, TpThreadsAssumption, FS_Surjection
<1>2. inUse \subseteq {msg[w] : w \in Workers}
  BY DEF MessagesInv
<1> QED BY <1>1, <1>2, FS_Subset, FS_CardinalityType

Allocates(w) == AllocMessage(w) /\ msg[w] = NoBlock
Releases(w) == /\ msg[w] # NoBlock /\ Release(msg[w], MessageSize)
               /\ msg' = [msg EXCEPT ![w] = NoBlock]
MessagesStay == /\ UNCHANGED <<msg, inUse, active>>
                /\ \A w : FreshMessage(w) \in heap' <=> FreshMessage(w) \in heap

\* Every step allocates a message, releases one, or leaves the messages alone.
LEMMA MemoryKinds ==
  ASSUME Core, ~shut, ~shut', [Next]_vars
  PROVE  MessagesStay \/ \E w \in Workers : Allocates(w) \/ Releases(w)
<1> USE DEF own, memory, MessagesStay, Handless, Reading, WithMessage
<1>1. TypeOK /\ WorkerInv
  BY DEF Core
<1>2. CASE UNCHANGED vars
  BY <1>2 DEF vars
<1>3. ASSUME MainStep \/ Accept PROVE MessagesStay
  <2>1. CASE CreateData \/ AcceptFails \/ Enqueue
    BY <2>1 DEF CreateData, AcceptFails, Enqueue
  <2>2. CASE Refuse
    <3>1. accepted \in Conns /\ accepted \in Owned /\ Free(Clfd(accepted))
      BY <2>2, TpBoundsAssumption DEF Refuse, Step, Core, TypeOK, MainInv, Owned, Handing, Conns
    <3>2. heap' = heap \ {Clfd(accepted)} /\ UNCHANGED <<inUse, active>>
      BY <3>1, ClfdReleased
    <3> QED BY <2>2, <3>2, PointersDiffer DEF Refuse
  <2>3. CASE Accept
    BY <2>3, PointersDiffer DEF Accept, Malloc
  <2> QED BY <1>3, <2>1, <2>2, <2>3 DEF MainStep
<1>4. ASSUME NEW w \in Workers, WorkerStep(w) \/ ClientStep(w) \/ SpuriousWake(w)
      PROVE  MessagesStay \/ Allocates(w) \/ Releases(w)
  <2>1. CASE Dequeue(w) \/ FindEmpty(w) \/ Loop(w) \/ HangUp(w) \/ CloseSession(w) \/ Announce(w)
             \/ ReadHeader(w) \/ SpuriousWake(w)
    BY <2>1 DEF Dequeue, FindEmpty, Loop, HangUp, CloseSession, Announce, ReadHeader, SpuriousWake
  <2>2. CASE AllocMessage(w)
    BY <1>1, <2>2 DEF AllocMessage, Step, Allocates, WorkerInv
  <2>3. CASE DropMessage(w) \/ ReleaseMessage(w)
    BY <1>1, <2>3 DEF DropMessage, ReleaseMessage, Step, Releases, WorkerInv
  <2>4. CASE Answer(w) \/ UnknownType(w) \/ FileRequest(w) \/ ParentSend(w) \/ ChildSend(w)
    BY <2>4 DEF Answer, UnknownType, FileRequest, ParentSend, ChildSend, SendFile, Fault, MayCorrupt
  <2>5. CASE FreeClfd(w)
    <3>1. pc[w] = "free_clfd" /\ Release(Clfd(cur[w]), IntSize) /\ msg' = msg
      BY <2>5 DEF FreeClfd, Step
    <3>2. cur[w] \in Conns /\ cur[w] \in Owned
      BY <3>1, HeldMeansReady DEF Core, WorkerInv, Owned
    <3>3. heap' = heap \ {Clfd(cur[w])} /\ UNCHANGED <<inUse, active>>
      BY <3>1, <3>2, ClfdReleased
    <3> QED BY <3>1, <3>3, PointersDiffer
  <2>6. CASE DrainRead(w) \/ DrainRemove(w) \/ DrainUnderflow(w) \/ FreeData(w) \/ DestroyPool(w)
             \/ ForgetPool(w) \/ StopListening(w)
    BY <1>1, <2>6 DEF DrainRead, DrainRemove, DrainUnderflow, FreeData, DestroyPool, ForgetPool,
                      StopListening, Step, WorkerInv
  <2> QED BY <1>4, <2>1, <2>2, <2>3, <2>4, <2>5, <2>6 DEF WorkerStep, ClientStep
<1> QED BY <1>2, <1>3, <1>4 DEF Next

\* Memory that is handed out was nobody's, and what is released was the worker's
\* alone.
LEMMA MessagesStep ==
  ASSUME Core, ~shut, ~shut', [Next]_vars
  PROVE  MessagesInv'
<1>1. TypeOK /\ WorkerInv /\ MessagesInv
  BY DEF Core
<1>2. BlocksFor(MessageSize) \subseteq Blocks
  BY DEF BlocksFor
<1>3. IsFiniteSet(inUse) /\ Cardinality(inUse) \in Nat
  BY <1>1, MarkedFinite
<1>4. \A v \in Workers : msg[v] \in BlocksFor(MessageSize) \cup {FreshMessage(v), NoBlock}
  BY <1>1 DEF WorkerInv
<1>5. CASE MessagesStay
  BY <1>1, <1>5 DEF MessagesStay, MessagesInv
<1>6. ASSUME NEW w \in Workers, Allocates(w) PROVE MessagesInv'
  <2>1. msg[w] = NoBlock /\ \A v \in Workers \ {w} : msg'[v] = msg[v]
    BY <1>6, MessageAllocated DEF Core, Allocates
  <2>2. CASE /\ msg'[w] \in BlocksFor(MessageSize) \ inUse /\ inUse' = inUse \cup {msg'[w]}
             /\ active' = active + 1 /\ heap' = heap
    <3>1. msg'[w] \in Blocks /\ msg'[w] \notin inUse
      BY <1>2, <2>2
    <3>2. \A v \in Workers : msg[v] # msg'[w]
      BY <1>1, <3>1 DEF MessagesInv
    <3>3. Cardinality(inUse') = Cardinality(inUse) + 1
      BY <1>3, <2>2, <3>1, FS_AddElement
    <3>4. inUse' = {msg'[v] : v \in Workers} \cap Blocks
      BY <1>1, <2>1, <2>2, <3>1, PointersDiffer DEF MessagesInv
    <3>5. \A v \in Workers : FreshMessage(v) \in heap' <=> msg'[v] = FreshMessage(v)
      BY <1>1, <2>1, <2>2, <3>1, PointersDiffer DEF MessagesInv
    <3>6. \A u, v \in Workers : u # v /\ msg'[u] # NoBlock => msg'[u] # msg'[v]
      BY <1>1, <2>1, <3>2 DEF MessagesInv
    <3>7. active' = Cardinality(inUse')
      BY <1>1, <2>2, <3>3 DEF MessagesInv
    <3> QED BY <3>4, <3>5, <3>6, <3>7 DEF MessagesInv
  <2>3. CASE /\ msg'[w] = FreshMessage(w) /\ heap' = heap \cup {FreshMessage(w)}
             /\ UNCHANGED <<inUse, active>>
    <3>1. inUse' = {msg'[v] : v \in Workers} \cap Blocks
      BY <1>1, <2>1, <2>3, PointersDiffer DEF MessagesInv
    <3>2. \A v \in Workers : FreshMessage(v) \in heap' <=> msg'[v] = FreshMessage(v)
      BY <1>1, <2>1, <2>3, PointersDiffer DEF MessagesInv
    <3>3. \A v \in Workers \ {w} : msg[v] # FreshMessage(w)
      BY <1>2, <1>4, PointersDiffer
    <3>4. \A u, v \in Workers : u # v /\ msg'[u] # NoBlock => msg'[u] # msg'[v]
      BY <1>1, <2>1, <2>3, <3>3 DEF MessagesInv
    <3> QED BY <1>1, <2>3, <3>1, <3>2, <3>4 DEF MessagesInv
  <2> QED BY <1>6, <2>2, <2>3, MessageAllocated DEF Core, Allocates
<1>7. ASSUME NEW w \in Workers, Releases(w) PROVE MessagesInv'
  <2>1. /\ msg[w] # NoBlock /\ msg'[w] = NoBlock /\ \A v \in Workers \ {w} : msg'[v] = msg[v]
    BY <1>1, <1>7 DEF Releases, TypeOK
  <2>2. \A v \in Workers \ {w} : msg[v] # msg[w]
    BY <1>1, <2>1 DEF MessagesInv
  <2>3. \A u, v \in Workers : u # v /\ msg'[u] # NoBlock => msg'[u] # msg'[v]
    BY <1>1, <2>1 DEF MessagesInv
  <2>4. CASE /\ msg[w] \in Blocks /\ inUse' = inUse \ {msg[w]}
             /\ active' = active - 1 /\ heap' = heap
    <3>1. msg[w] \in inUse
      BY <1>1, <2>4 DEF MessagesInv
    <3>2. Cardinality(inUse') = Cardinality(inUse) - 1
      BY <1>3, <2>4, <3>1, FS_RemoveElement
    <3>3. inUse' = {msg'[v] : v \in Workers} \cap Blocks
      BY <1>1, <2>1, <2>2, <2>4, PointersDiffer DEF MessagesInv
    <3>4. \A v \in Workers : FreshMessage(v) \in heap' <=> msg'[v] = FreshMessage(v)
      BY <1>1, <2>1, <2>4, PointersDiffer DEF MessagesInv
    <3>5. active' = Cardinality(inUse')
      BY <1>1, <2>4, <3>2 DEF MessagesInv
    <3> QED BY <2>3, <3>3, <3>4, <3>5 DEF MessagesInv
  <2>5. CASE /\ msg[w] = FreshMessage(w) /\ heap' = heap \ {FreshMessage(w)}
             /\ UNCHANGED <<inUse, active>>
    <3>1. inUse' = {msg'[v] : v \in Workers} \cap Blocks
      BY <1>1, <2>1, <2>5, PointersDiffer DEF MessagesInv
    <3>2. \A v \in Workers : FreshMessage(v) \in heap' <=> msg'[v] = FreshMessage(v)
      BY <1>1, <2>1, <2>5, PointersDiffer DEF MessagesInv
    <3> QED BY <1>1, <2>3, <2>5, <3>1, <3>2 DEF MessagesInv
  <2> QED BY <1>7, <2>4, <2>5, MessageReleased DEF Releases
<1> QED BY <1>5, <1>6, <1>7, MemoryKinds
--------------------------------------------------------------------------------
(* The invariant as a whole, and what follows from it                          *)

\* The flag and the broadcast are one step, and so are the test and the wait.
LEMMA SleepStep ==
  ASSUME TypeOK, NoSleeperAfterShutdown, [Next]_vars
  PROVE  NoSleeperAfterShutdown'
<1> USE TpThreadsAssumption DEF TypeOK, Threads, own, NoSleeperAfterShutdown
<1>1. CASE UNCHANGED vars
  BY <1>1 DEF vars
<1>2. CASE MainStep \/ Accept
  BY <1>2 DEF MainStep, Accept, CreateData, AcceptFails, Enqueue, Refuse, Step
<1>3. ASSUME NEW w \in Workers, WorkerStep(w) \/ ClientStep(w) \/ SpuriousWake(w)
      PROVE  NoSleeperAfterShutdown'
  <2>1. CASE FindEmpty(w)
    BY <2>1 DEF FindEmpty, Step
  <2>2. CASE Announce(w)
    BY <2>2 DEF Announce
  <2>3. CASE Dequeue(w) \/ AllocMessage(w) \/ DropMessage(w) \/ Loop(w) \/ CloseSession(w)
    BY <2>3 DEF Dequeue, AllocMessage, DropMessage, Loop, CloseSession, Step
  <2>4. CASE ReleaseMessage(w) \/ HangUp(w) \/ FreeClfd(w) \/ ReadHeader(w) \/ SpuriousWake(w)
    BY <2>4 DEF ReleaseMessage, HangUp, FreeClfd, ReadHeader, SpuriousWake, Step
  <2>5. CASE DrainRead(w) \/ DrainRemove(w) \/ DrainUnderflow(w) \/ FreeData(w)
    BY <2>5 DEF DrainRead, DrainRemove, DrainUnderflow, FreeData, Step
  <2>6. CASE DestroyPool(w) \/ ForgetPool(w) \/ StopListening(w)
    BY <2>6 DEF DestroyPool, ForgetPool, StopListening, Step
  <2>7. CASE Answer(w) \/ UnknownType(w) \/ FileRequest(w) \/ ParentSend(w) \/ ChildSend(w)
    BY <2>7 DEF Answer, UnknownType, FileRequest, ParentSend, ChildSend, SendFile, Step
  <2> QED BY <1>3, <2>1, <2>2, <2>3, <2>4, <2>5, <2>6, <2>7 DEF WorkerStep, ClientStep
<1> QED BY <1>1, <1>2, <1>3 DEF Next

\* The flag is never cleared.
LEMMA ShutIsFinal ==
  ASSUME TypeOK, shut, [Next]_vars
  PROVE  shut'
<1>1. CASE UNCHANGED vars
  BY <1>1 DEF vars
<1>2. CASE MainStep \/ Accept
  BY <1>2 DEF MainStep, Accept, CreateData, AcceptFails, Enqueue, Refuse
<1>3. ASSUME NEW w \in Workers, WorkerStep(w) \/ ClientStep(w) \/ SpuriousWake(w)
      PROVE  shut'
  BY <1>3 DEF WorkerStep, ClientStep, Dequeue, FindEmpty, AllocMessage, DropMessage, Loop, CloseSession,
              Answer, UnknownType, FileRequest, ParentSend, ChildSend, SendFile,
              ReleaseMessage, HangUp, FreeClfd, Announce, DrainRead, DrainRemove, DrainUnderflow,
              FreeData, DestroyPool, ForgetPool, StopListening, ReadHeader, SpuriousWake
<1> QED BY <1>1, <1>2, <1>3 DEF Next

\* The inductive invariant of the pool: until a shutdown it says who owns what, so long
\* as the memory of the process is sound; of the time after it only the types and the
\* sleepers.
THEOREM Inductive == Spec => []IInv
<1>1. Init => IInv
  <2>1. Init => NoSleeperAfterShutdown
    BY DEF Init, NoSleeperAfterShutdown
  <2> QED BY <2>1, TypeInit, ThreadInit, RingInit, MessagesInit DEF IInv
<1>2. IInv /\ [Next]_vars => IInv'
  <2> SUFFICES ASSUME IInv, [Next]_vars PROVE IInv'
    OBVIOUS
  <2>1. TypeOK' /\ NoSleeperAfterShutdown'
    BY TypeStep, SleepStep DEF IInv
  <2>2. ASSUME ~shut' PROVE WorkerInv' /\ MainInv' /\ RingInv' /\ ConnsInv' /\ MessagesInv'
    <3>1. Core /\ ~shut
      <4>1. TypeOK /\ shut \in BOOLEAN
        BY DEF IInv, TypeOK
      <4>2. ~shut
        BY <2>2, <4>1, ShutIsFinal
      <4> QED BY <4>2 DEF IInv, Core
    <3> QED BY <2>2, <3>1, ThreadStep, ConnsStep, MessagesStep
  <2> QED BY <2>1, <2>2 DEF IInv
<1> QED BY <1>1, <1>2, PTL DEF Spec

\* The flag of a shutdown and the wait cannot miss each other: whatever the other
\* threads do, no worker begins to wait once it is set.
THEOREM NobodySleeps == Spec => []NoSleeperAfterShutdown
<1>1. IInv => NoSleeperAfterShutdown
  BY DEF IInv
<1> QED BY <1>1, Inductive, PTL

\* Until a shutdown the memory of every message and of every connection is taken
\* once, used while it is there and given back to where it came from: the pool itself
\* loses none, though the process may be lost to compression or to a transfer.
THEOREM MemoryComesBack == Spec => []MemoryOwned
<1>1. IInv => MemoryOwned
  <2> SUFFICES ASSUME IInv, ~shut PROVE MemoryOwned
    BY DEF MemoryOwned
  <2>1. TypeOK /\ WorkerInv /\ MainInv /\ RingInv /\ ConnsInv /\ MessagesInv
    BY DEF IInv
  <2> DEFINE messages == {msg[w] : w \in Workers} \ {NoBlock}
  <2>2. messages = inUse \cup {ptr \in heap : ptr \in {FreshMessage(w) : w \in Workers}}
    <3>1. BlocksFor(MessageSize) \subseteq Blocks
      BY DEF BlocksFor
    <3>2. \A w \in Workers : msg[w] \in Blocks \cup {FreshMessage(w), NoBlock}
      BY <2>1, <3>1 DEF WorkerInv
    <3> QED BY <2>1, <3>2, PointersDiffer DEF MessagesInv
  <2>3. {c \in Conns : Clfd(c) \in heap} = InRing \cup Held \cup Handing
    <3>1. Owned = InRing \cup Held \cup Handing
      BY <2>1, QueueShape DEF Owned
    <3>2. Owned \subseteq Conns
      BY <2>1, TpBoundsAssumption DEF Owned, RingInv, Arrived, Handing, MainInv, TypeOK, Conns
    <3> QED BY <2>1, <3>1, <3>2 DEF ConnsInv
  <2> QED BY <2>1, <2>2, <2>3 DEF MemoryOwned, MainInv, MessagesInv
<1> QED BY <1>1, Inductive, PTL
--------------------------------------------------------------------------------
(* As many connections as places for them                                      *)

\* As many items in the ring as its count says, and as many connections in the
\* hands of the workers as workers that hold one.
LEMMA OwnedCounts ==
  ASSUME TypeOK, RingInv
  PROVE  /\ IsFiniteSet(InRing) /\ Cardinality(InRing) = count
         /\ IsFiniteSet(Held) /\ Cardinality(Held) = Cardinality({w \in Workers : cur[w] # NIL})
<1>1. IsFiniteSet(InRing) /\ Cardinality(InRing) = count
  <2>1. /\ DOMAIN Queued = 1..count /\ Members(Queued) = InRing /\ Queued \in Seq(Conns \cup {NIL})
        /\ count \in Nat
    BY QueueShape DEF TypeOK
  <2>2. Queued = [i \in 1..count |-> Queued[i]]
    BY <2>1
  <2>3. Queued \in Bijection(1..count, InRing)
    BY <2>1, <2>2 DEF Bijection, Injection, Surjection, IsInjective, Members, RingInv, Distinct
  <2>4. IsFiniteSet(1..count) /\ Cardinality(1..count) = count
    BY <2>1, FS_Interval
  <2> QED BY <2>3, <2>4, FS_Bijection DEF ExistsBijection
<1>2. IsFiniteSet(Held) /\ Cardinality(Held) = Cardinality({w \in Workers : cur[w] # NIL})
  <2> DEFINE holders == {w \in Workers : cur[w] # NIL}
             f == [w \in holders |-> cur[w]]
  <2>1. f \in Bijection(holders, Held)
    BY DEF Bijection, Injection, Surjection, IsInjective, Held, RingInv
  <2>2. IsFiniteSet(holders)
    BY TpThreadsAssumption, FS_Subset
  <2> QED BY <2>1, <2>2, FS_Bijection DEF ExistsBijection
<1> QED BY <1>1, <1>2

\* Until a shutdown no socket is leaked, closed twice or closed in use, and no
\* connection is in two places: neither the ring that wraps around and drops what it
\* has no room for, nor any end of a session lets one go or hands it out again.
THEOREM SocketsOwned == Spec => []OpenAreOwned
<1>1. IInv => OpenAreOwned
  <2> SUFFICES ASSUME IInv, ~shut PROVE OpenAreOwned
    BY DEF OpenAreOwned
  <2>1. TypeOK /\ WorkerInv /\ MainInv /\ RingInv /\ ConnsInv
    BY DEF IInv
  <2>2. Members(Queued) = InRing /\ Owned = InRing \cup Held \cup Handing
    BY <2>1, QueueShape DEF Owned
  <2>3. Owned \subseteq Conns
    BY <2>1, TpBoundsAssumption DEF Owned, RingInv, Arrived, Handing, MainInv, TypeOK, Conns
  <2>4. {c \in Conns : sock[c] = "open"} = Owned \ Closed
    BY <2>1, <2>3 DEF ConnsInv
  <2>5. InRing \cap Held = {} /\ (InRing \cup Held) \cap Handing = {}
    <3>1. accepted \notin 1..Arrived \/ Handing = {}
      BY <2>1 DEF Arrived, Handing, TypeOK
    <3> QED BY <2>1, <2>2, <3>1 DEF RingInv, Handing
  <2>6. /\ IsFiniteSet(Handing) /\ IsFiniteSet(InRing) /\ IsFiniteSet(Held)
        /\ Cardinality(InRing) = count
        /\ Cardinality(Held) = Cardinality({w \in Workers : cur[w] # NIL})
    BY <2>1, OwnedCounts, FS_EmptySet, FS_Singleton DEF Handing
  <2>7. ASSUME NEW S, NEW T, IsFiniteSet(S), IsFiniteSet(T), S \cap T = {}
        PROVE  IsFiniteSet(S \cup T) /\ Cardinality(S \cup T) = Cardinality(S) + Cardinality(T)
    <3>1. /\ IsFiniteSet(S \cup T)
          /\ Cardinality(S \cup T) = Cardinality(S) + Cardinality(T) - Cardinality(S \cap T)
      BY <2>7, FS_Union
    <3>2. Cardinality(S \cap T) = 0
      BY <2>7, FS_EmptySet
    <3>3. Cardinality(S) \in Nat /\ Cardinality(T) \in Nat
      BY <2>7, FS_CardinalityType
    <3> QED BY <3>1, <3>2, <3>3
  <2>8. /\ IsFiniteSet(InRing \cup Held)
        /\ Cardinality(InRing \cup Held) = Cardinality(InRing) + Cardinality(Held)
        /\ Cardinality((InRing \cup Held) \cup Handing)
             = Cardinality(InRing \cup Held) + Cardinality(Handing)
    <3>1. /\ IsFiniteSet(InRing \cup Held)
          /\ Cardinality(InRing \cup Held) = Cardinality(InRing) + Cardinality(Held)
      BY <2>5, <2>6, <2>7
    <3> QED BY <2>5, <2>6, <2>7, <3>1
  <2>9. Cardinality(InRing \cup Held \cup Handing)
          = count + Cardinality({w \in Workers : cur[w] # NIL}) + Cardinality(Handing)
    BY <2>6, <2>8
  <2> QED BY <2>2, <2>4, <2>9 DEF OpenAreOwned, Closed
<1> QED BY <1>1, Inductive, PTL
--------------------------------------------------------------------------------
(* The ring implements the queue                                               *)

LEMMA QueueStep ==
  ASSUME Core, ~shut, ~shut', [Next]_vars
  PROVE  [PoolQueue!WQNext]_(PoolQueue!wqVars)
<1> USE DEF TypeOK, Threads, NIL, PoolQueue!wqVars, PoolQueue!WQNext
<1>1. TypeOK /\ WorkerInv /\ RingInv
  BY DEF Core
<1>2. Queued \in Seq(Conns \cup {NIL}) /\ Len(Queued) = count /\ accepted \in Nat /\ count \in Nat
  BY <1>1, QueueShape
<1>3. CASE HandsStay
  <2>1. UNCHANGED <<Arrived, Queued, cur>>
    BY <1>3 DEF HandsStay, ring, Queued, Arrived
  <2> QED BY <2>1 DEF Arrived
<1>4. CASE Accept
  <2>1. UNCHANGED <<Arrived, Queued, cur>>
    BY <1>1, <1>2, <1>4, TpThreadsAssumption DEF Accept, Step, own, ring, Queued, Arrived
  <2> QED BY <2>1 DEF Arrived
<1>5. CASE Enqueue
  <2>1. Arrived = accepted - 1 /\ Arrived' = accepted /\ cur' = cur /\ count < QueueSize
    BY <1>1, <1>5, TpThreadsAssumption DEF Enqueue, own, sockets, Arrived
  <2>2. Queued' = Append(Queued, accepted) /\ Arrived' = Arrived + 1
    BY <1>1, <1>2, <1>5, <2>1, EnqueueAppends
  <2>3. PoolQueue!Arrive
    BY <1>2, <2>1, <2>2 DEF PoolQueue!Arrive, Arrived
  <2> QED BY <2>3
<1>6. CASE Refuse
  <2>1. Arrived = accepted - 1 /\ Arrived' = accepted /\ cur' = cur /\ count = QueueSize
        /\ Queued' = Queued
    BY <1>1, <1>6, TpThreadsAssumption, TpBoundsAssumption
       DEF Refuse, Step, Close, own, ring, Arrived, Queued
  <2>2. PoolQueue!Refuse
    BY <1>2, <2>1 DEF PoolQueue!Refuse, Arrived
  <2> QED BY <2>2
<1>7. ASSUME NEW w \in Workers, Dequeue(w) PROVE PoolQueue!WQNext
  <2>1. cur[w] = NIL /\ Arrived' = Arrived
    BY <1>1, <1>7, TpThreadsAssumption DEF Dequeue, Step, WorkerInv, Handless, sockets, Arrived
  <2>2. Queued # <<>> /\ Queued' = Tail(Queued) /\ cur' = [cur EXCEPT ![w] = Head(Queued)]
    BY <1>1, <1>7, DequeueTakes
  <2>3. PoolQueue!Take(w)
    BY <2>1, <2>2 DEF PoolQueue!Take, PoolQueue!Idle, Arrived
  <2> QED BY <2>3
<1>8. ASSUME NEW w \in Workers, Closes(w) PROVE UNCHANGED PoolQueue!wqVars
  <2>1. UNCHANGED <<Arrived, Queued, cur>>
    BY <1>8 DEF Closes, Close, ring, Queued, Arrived
  <2> QED BY <2>1 DEF Arrived
<1>9. ASSUME NEW w \in Workers, FreeClfd(w) PROVE PoolQueue!WQNext
  <2>1. /\ Queued' = Queued /\ Arrived' = Arrived /\ cur' = [cur EXCEPT ![w] = NIL] /\ cur[w] # NIL
    BY <1>1, <1>9, TpThreadsAssumption
       DEF FreeClfd, Step, WorkerInv, Handless, sockets, ring, Queued, Arrived
  <2>2. PoolQueue!Finish(w)
    BY <2>1 DEF PoolQueue!Finish, PoolQueue!Idle, Arrived
  <2> QED BY <2>2
<1> QED BY <1>3, <1>4, <1>5, <1>6, <1>7, <1>8, <1>9, StepKinds

\* The step that sets the flag moves no connection.
LEMMA AnnounceMovesNone ==
  ASSUME Core, ~shut, shut', [Next]_vars
  PROVE  UNCHANGED PoolQueue!wqVars
<1>1. CASE UNCHANGED vars
  BY <1>1 DEF vars
<1>2. CASE MainStep \/ Accept
  BY <1>2 DEF MainStep, Accept, CreateData, AcceptFails, Enqueue, Refuse
<1>3. ASSUME NEW w \in Workers, WorkerStep(w) \/ ClientStep(w) \/ SpuriousWake(w)
      PROVE  UNCHANGED PoolQueue!wqVars
  <2>1. Announce(w)
    BY <1>3 DEF WorkerStep, ClientStep, Dequeue, FindEmpty, AllocMessage, DropMessage, Loop,
                CloseSession, Answer, UnknownType, FileRequest, ParentSend, ChildSend, SendFile,
                ReleaseMessage, HangUp, FreeClfd, DrainRead, DrainRemove, DrainUnderflow, FreeData,
                DestroyPool, ForgetPool, StopListening, ReadHeader, SpuriousWake
  <2>2. pc'[Main] = pc[Main] /\ UNCHANGED <<own, ring, sockets>>
    BY <2>1, TpThreadsAssumption DEF Announce, Core, TypeOK, MainInv, Threads
  <2>3. UNCHANGED <<Queued, cur, accepted>>
    BY <2>2 DEF own, ring, sockets, Queued
  <2> QED BY <2>2, <2>3 DEF PoolQueue!wqVars
<1> QED BY <1>1, <1>2, <1>3 DEF Next

\* Until a shutdown the ring, the mutex that enqueue() takes itself and the workers
\* are a bounded first-in first-out queue, for every size of the ring, any number of
\* workers, and whatever clients send.
THEOREM RingIsQueue == Spec => QueueUntilShutdown
<1>1. Init => PoolQueue!WQInit
  <2>1. Init => Queued = <<>>
    BY DEF Init, Queued
  <2> QED BY <2>1, TpThreadsAssumption DEF Init, PoolQueue!WQInit, PoolQueue!Idle, NIL, Threads
<1>2. IInv /\ [Next]_vars => [~shut => PoolQueue!WQNext]_(PoolQueue!wqVars)
  <2> SUFFICES ASSUME IInv, [Next]_vars, ~shut PROVE [PoolQueue!WQNext]_(PoolQueue!wqVars)
    OBVIOUS
  <2>1. Core
    BY DEF IInv, Core
  <2>2. CASE shut'
    BY <2>1, <2>2, AnnounceMovesNone
  <2>3. CASE ~shut'
    BY <2>1, <2>3, QueueStep
  <2> QED BY <2>2, <2>3
<1> QED BY <1>1, <1>2, Inductive, PTL DEF Spec, QueueUntilShutdown
================================================================================
