-------------------------- MODULE OptimizedPoolProofs --------------------------
(* Proofs about OptimizedPool, for every number of workers and connections and *)
(* every size of the ring.                                                     *)
EXTENDS OptimizedPool, ListLemmas, FiniteSetTheorems, TLAPS

\* Every variable keeps its type.
LEMMA TypeInit == Init => TypeOK
<1> SUFFICES ASSUME Init PROVE TypeOK
  OBVIOUS
<1>1. pc \in [Threads -> Labels]
  BY DEF Init, Labels
<1>2. 0 \in Slots /\ 0 \in 0..QueueSize /\ 0 \in 0..NumConns
  BY BoundsAssumption DEF Slots
<1> QED BY <1>1, <1>2 DEF Init, TypeOK, NIL, Numbers

\* close() and free(clfd) keep the types.
LEMMA CloseType ==
  ASSUME TypeOK, NEW w \in Workers
  PROVE  /\ \A n : Shut(n) => sock' \in [Conns -> {"new", "open", "closed"}]
         /\ Close(w) => cur' \in [Workers -> Conns \cup {NIL}]
BY DEF TypeOK, Shut, Close

LEMMA TypeStep == TypeOK /\ [Next]_vars => TypeOK'
<1> SUFFICES ASSUME TypeOK, [Next]_vars PROVE TypeOK'
  OBVIOUS
<1> USE BoundsAssumption DEF TypeOK, Threads, Labels, Goto, ring, sockets
<1>1. CASE UNCHANGED vars
  BY <1>1 DEF vars
<1>2. ASSUME MainStep \/ Accept PROVE TypeOK'
  <2>1. CASE AcceptFails
    BY <2>1 DEF AcceptFails
  <2>2. CASE Enqueue
    <3> USE <2>2 DEF Enqueue, PutItem, Full, Slots
    <3>1. accepted \in Conns \cup {NIL} /\ count + 1 \in 0..QueueSize
      BY DEF Conns, NIL
    <3>2. (tail + 1) % QueueSize \in Slots
      OBVIOUS
    <3>3. pc' \in [Threads -> Labels]
      OBVIOUS
    <3> QED BY <3>1, <3>2, <3>3
  <2>3. CASE Refuse
    BY <2>3 DEF Refuse, Shut
  <2>4. CASE TestShutdown
    BY <2>4 DEF TestShutdown
  <2>5. CASE CloseServer
    BY <2>5 DEF CloseServer
  <2>6. CASE Join
    BY <2>6 DEF Join
  <2>7. CASE FreeResources
    BY <2>7 DEF FreeResources
  <2>8. CASE Accept
    <3>1. accepted' \in 0..NumConns /\ accepted' \in Conns /\ 1..accepted \subseteq Conns
      BY <2>8 DEF Accept, Conns
    <3>2. PICK n \in {accepted'} \cup {number[c] : c \in 1..accepted} :
            number' = [number EXCEPT ![accepted'] = n]
      BY <2>8 DEF Accept
    <3>3. number' \in [Conns -> Numbers]
      BY <3>1, <3>2 DEF Numbers
    <3> HIDE DEF Conns, Numbers
    <3> QED BY <2>8, <3>1, <3>3 DEF Accept
  <2> QED BY <1>2, <2>1, <2>2, <2>3, <2>4, <2>5, <2>6, <2>7, <2>8 DEF MainStep
<1>3. ASSUME NEW w \in Workers, WorkerStep(w) PROVE TypeOK'
  <2>1. CASE Dequeue(w)
    <3> USE <2>1 DEF Dequeue, TakeItem, Slots
    <3>1. (head + 1) % QueueSize \in Slots /\ count - 1 \in 0..QueueSize
      OBVIOUS
    <3> QED BY <3>1
  <2>2. CASE FindEmpty(w)
    BY <2>2 DEF FindEmpty
  <2>3. CASE Wait(w)
    BY <2>3 DEF Wait
  <2>4. CASE Handle(w)
    BY <2>4, CloseType DEF Handle, Close
  <2>5. CASE Broadcast(w)
    BY <2>5 DEF Broadcast
  <2>6. CASE StopListening(w)
    BY <2>6, CloseType DEF StopListening, EndSession, Close
  <2>7. CASE CloseMain(w)
    BY <2>7, CloseType DEF CloseMain, EndSession, Close
  <2> QED BY <1>3, <2>1, <2>2, <2>3, <2>4, <2>5, <2>6, <2>7 DEF WorkerStep
<1>4. ASSUME NEW w \in Workers, ClientStep(w) \/ SpuriousWake(w) PROVE TypeOK'
  <2>1. CASE ClientEnds(w)
    BY <2>1, CloseType DEF ClientEnds, Attached
  <2>2. CASE UnknownMessage(w)
    BY <2>2, CloseType DEF UnknownMessage, EndSession, Close
  <2>3. CASE Request(w) \/ Reply(w) \/ FileRequest(w) \/ ParentSend(w) \/ ChildSend(w)
    BY <2>3 DEF Request, Reply, FileRequest, ParentSend, ChildSend, Serve, MayFault, Attached
  <2>4. CASE ShutdownRequest(w)
    BY <2>4 DEF ShutdownRequest, StartShutdown, Attached
  <2>5. CASE SpuriousWake(w)
    BY <2>5 DEF SpuriousWake
  <2>6. CASE FailedRead(w)
    <3>1. CASE Serve(w, "get_description", "reply", {process, "crashed"})
      BY <3>1 DEF Serve
    <3>2. CASE EndSession(w, "get_description", "exited") /\ UNCHANGED listening
      BY <3>2, CloseType DEF EndSession, Close
    <3>3. CASE StartShutdown(w)
      BY <2>6, <3>3 DEF FailedRead, StartShutdown
    <3> QED BY <2>6, <3>1, <3>2, <3>3 DEF FailedRead
  <2> QED BY <1>4, <2>1, <2>2, <2>3, <2>4, <2>5, <2>6 DEF ClientStep
<1> QED BY <1>1, <1>2, <1>3, <1>4 DEF Next

\* Neither the ring nor any thread ever leaves its bounds: the count stays within
\* QUEUE_SIZE and both ends within the array, whoever enqueues and dequeues.
THEOREM TypeCorrect == Spec => []TypeOK
BY TypeInit, TypeStep, PTL DEF Spec
--------------------------------------------------------------------------------
(* Where each thread is                                                        *)

Handless == {"lock", "cond_wait", "wait", "exited"}
Serving == {"handle", "get_description", "close", "reply", "parent_send", "child_send",
            "broadcast", "stop_listening"}
Accepting == {"accept", "enqueue", "test", "close"}
Leaving == {"join", "free", "returned"}

\* A worker holds a connection from the time it takes it until it closes it.  One
\* about to wait has the mutex, and nothing has been enqueued since it looked.
WorkerInv ==
  \A w \in Workers : /\ pc[w] \in Handless \cup Serving
                     /\ cur[w] = NIL <=> pc[w] \in Handless
                     /\ pc[w] = "cond_wait" => mutex = w /\ count = 0

\* main frees what the workers use after they have all exited, and leaves its loop
\* for good.
MainInv ==
  /\ pc[Main] \in Accepting \cup Leaving
  /\ pc[Main] \in Leaving => ~listening
  /\ pc[Main] \in {"free", "returned"} => \A w \in Workers : pc[w] = "exited"
  /\ resources = "freed" => pc[Main] = "returned"
  /\ pc[Main] = "enqueue" => accepted > 0

\* The connections that main has handed over or turned away
Arrived == IF pc[Main] = "enqueue" THEN accepted - 1 ELSE accepted

\* The end of the ring is where its head and its count say, and every connection
\* that is in the ring or held by a worker has arrived and is in one place.
RingInv ==
  /\ tail = (head + count) % QueueSize
  /\ Distinct(Queued) /\ Members(Queued) \cap Held = {}
  /\ Members(Queued) \cup Held \subseteq 1..Arrived
  /\ \A v, w \in Workers : v # w /\ cur[v] # NIL => cur[v] # cur[w]

LEMMA QueueShape ==
  ASSUME TypeOK
  PROVE  /\ Queued \in Seq(Conns \cup {NIL}) /\ Len(Queued) = count
         /\ Members(Queued) = InRing
         /\ count > 0 => Queued # <<>> /\ Head(Queued) = items[head] /\ items[head] \in Members(Queued)
<1>1. Queued = RingOf(items, head, count, QueueSize)
  BY DEF Queued, RingOf
<1>2. IsRing(Conns \cup {NIL}, items, head, count, QueueSize) /\ count \in Nat
  BY BoundsAssumption DEF TypeOK, Slots, IsRing
<1>3. Queued \in Seq(Conns \cup {NIL})
  BY <1>1, <1>2, RingType
<1>4. Len(Queued) = count /\ DOMAIN Queued = 1..count
  BY <1>2 DEF Queued
<1>5. Members(Queued) = InRing
  BY <1>4 DEF Members, InRing
<1>6. ASSUME count > 0
      PROVE  Queued # <<>> /\ Head(Queued) = items[head] /\ items[head] \in Members(Queued)
  <2>2. Queued # <<>> /\ Head(Queued) = items[head]
    BY <1>1, <1>2, <1>6, RingTake
  <2>3. Head(Queued) = Queued[1] /\ 1 \in 1..count
    BY <1>2, <1>3, <1>6, <2>2
  <2> QED BY <1>2, <1>4, <2>2, <2>3 DEF Members
<1> QED BY <1>3, <1>4, <1>5, <1>6

LEMMA ThreadInit == Init => WorkerInv /\ MainInv
BY ThreadsAssumption DEF Init, WorkerInv, MainInv, Threads, Handless, Serving, Accepting, Leaving, NIL

LEMMA ThreadStep == TypeOK /\ WorkerInv /\ MainInv /\ RingInv /\ [Next]_vars => WorkerInv' /\ MainInv'
<1> SUFFICES ASSUME TypeOK, WorkerInv, MainInv, RingInv, [Next]_vars PROVE WorkerInv' /\ MainInv'
  OBVIOUS
<1> USE BoundsAssumption, ThreadsAssumption
    DEF TypeOK, Threads, Goto, ring, sockets, WorkerInv, MainInv, Handless, Serving, Accepting,
        Leaving, NIL
<1>1. CASE UNCHANGED vars
  BY <1>1 DEF vars
<1>2. ASSUME MainStep \/ Accept PROVE WorkerInv' /\ MainInv'
  <2>1. CASE AcceptFails
    BY <2>1 DEF AcceptFails
  <2>2. CASE Enqueue
    BY <2>2 DEF Enqueue, PutItem, Full
  <2>3. CASE Refuse
    BY <2>3 DEF Refuse
  <2>4. CASE TestShutdown
    BY <2>4 DEF TestShutdown
  <2>5. CASE CloseServer
    BY <2>5 DEF CloseServer
  <2>6. CASE Join
    BY <2>6 DEF Join
  <2>7. CASE FreeResources
    BY <2>7 DEF FreeResources
  <2>8. CASE Accept
    BY <2>8 DEF Accept
  <2> QED BY <1>2, <2>1, <2>2, <2>3, <2>4, <2>5, <2>6, <2>7, <2>8 DEF MainStep
<1>3. ASSUME NEW w \in Workers, WorkerStep(w) PROVE WorkerInv' /\ MainInv'
  <2>1. CASE Dequeue(w)
    <3>1. items[head] # NIL
      BY <2>1, QueueShape DEF Dequeue, RingInv, Arrived
    <3> QED BY <2>1, <3>1 DEF Dequeue, TakeItem
  <2>2. CASE FindEmpty(w)
    BY <2>2 DEF FindEmpty
  <2>3. CASE Wait(w)
    BY <2>3 DEF Wait
  <2>4. CASE Handle(w)
    BY <2>4 DEF Handle, Close
  <2>5. CASE Broadcast(w)
    BY <2>5 DEF Broadcast
  <2>6. CASE StopListening(w)
    BY <2>6 DEF StopListening, EndSession, Close
  <2>7. CASE CloseMain(w)
    BY <2>7 DEF CloseMain, EndSession, Close
  <2> QED BY <1>3, <2>1, <2>2, <2>3, <2>4, <2>5, <2>6, <2>7 DEF WorkerStep
<1>4. ASSUME NEW w \in Workers, ClientStep(w) \/ SpuriousWake(w) PROVE WorkerInv' /\ MainInv'
  <2>1. CASE ClientEnds(w)
    BY <2>1 DEF ClientEnds, Attached
  <2>2. CASE UnknownMessage(w)
    BY <2>2 DEF UnknownMessage, EndSession, Close
  <2>3. CASE Request(w) \/ Reply(w) \/ FileRequest(w) \/ ParentSend(w) \/ ChildSend(w)
    BY <2>3 DEF Request, Reply, FileRequest, ParentSend, ChildSend, Serve, MayFault, Attached
  <2>4. CASE ShutdownRequest(w)
    BY <2>4 DEF ShutdownRequest, StartShutdown, Attached
  <2>5. CASE SpuriousWake(w)
    BY <2>5 DEF SpuriousWake
  <2>6. CASE FailedRead(w)
    <3>1. CASE Serve(w, "get_description", "reply", {process, "crashed"})
      BY <3>1 DEF Serve
    <3>2. CASE EndSession(w, "get_description", "exited") /\ UNCHANGED listening
      BY <3>2 DEF EndSession, Close
    <3>3. CASE StartShutdown(w)
      BY <2>6, <3>3 DEF FailedRead, StartShutdown
    <3> QED BY <2>6, <3>1, <3>2, <3>3 DEF FailedRead
  <2> QED BY <1>4, <2>1, <2>2, <2>3, <2>4, <2>5, <2>6 DEF ClientStep
<1> QED BY <1>1, <1>2, <1>3, <1>4 DEF Next
--------------------------------------------------------------------------------
(* What a step does to the ring and to the hands of the workers                *)

\* A step may close sockets, and opens none.
OpensNone == \A c \in Conns : sock'[c] = "open" => sock[c] = "open"

HandsStay == /\ UNCHANGED <<cur, ring, accepted>> /\ OpensNone
             /\ pc[Main] = "enqueue" <=> pc'[Main] = "enqueue"

Ends(w) == /\ cur[w] # NIL /\ Close(w)
           /\ UNCHANGED <<ring, accepted>> /\ pc'[Main] = pc[Main]

\* Every step arrives, puts into the ring, turns away, takes, ends, or does none of
\* these.
LEMMA StepKinds ==
  ASSUME TypeOK, WorkerInv, MainInv, [Next]_vars
  PROVE  HandsStay \/ Accept \/ Enqueue \/ Refuse \/ \E w \in Workers : Dequeue(w) \/ Ends(w)
<1> USE ThreadsAssumption DEF TypeOK, Threads, Goto, sockets, HandsStay, OpensNone, WorkerInv, Handless
<1>1. CASE UNCHANGED vars
  BY <1>1 DEF vars
<1>2. ASSUME MainStep \/ Accept, ~(Accept \/ Enqueue \/ Refuse) PROVE HandsStay
  <2>1. CASE AcceptFails
    BY <2>1 DEF AcceptFails
  <2>2. CASE TestShutdown
    BY <2>2 DEF TestShutdown
  <2>3. CASE CloseServer
    BY <2>3 DEF CloseServer
  <2>4. CASE Join
    BY <2>4 DEF Join
  <2>5. CASE FreeResources
    BY <2>5 DEF FreeResources
  <2> QED BY <1>2, <2>1, <2>2, <2>3, <2>4, <2>5 DEF MainStep
<1>3. ASSUME NEW w \in Workers, WorkerStep(w) PROVE HandsStay \/ Dequeue(w) \/ Ends(w)
  <2>1. CASE FindEmpty(w)
    BY <2>1 DEF FindEmpty
  <2>2. CASE Wait(w)
    BY <2>2 DEF Wait
  <2>3. CASE Handle(w)
    BY <2>3 DEF Handle, Ends
  <2>4. CASE Broadcast(w)
    BY <2>4 DEF Broadcast
  <2>5. CASE StopListening(w)
    BY <2>5 DEF StopListening, EndSession, Ends
  <2>6. CASE CloseMain(w)
    BY <2>6 DEF CloseMain, EndSession, Ends
  <2> QED BY <1>3, <2>1, <2>2, <2>3, <2>4, <2>5, <2>6 DEF WorkerStep
<1>4. ASSUME NEW w \in Workers, ClientStep(w) \/ SpuriousWake(w) PROVE HandsStay \/ Ends(w)
  <2>1. CASE ClientEnds(w)
    BY <2>1 DEF ClientEnds, Shut, Attached
  <2>2. CASE UnknownMessage(w)
    BY <2>2 DEF UnknownMessage, EndSession, Ends
  <2>3. CASE Request(w) \/ Reply(w) \/ FileRequest(w) \/ ParentSend(w) \/ ChildSend(w)
    BY <2>3 DEF Request, Reply, FileRequest, ParentSend, ChildSend, Serve, MayFault, Attached
  <2>4. CASE ShutdownRequest(w)
    BY <2>4 DEF ShutdownRequest, StartShutdown, Attached
  <2>5. CASE SpuriousWake(w)
    BY <2>5 DEF SpuriousWake
  <2>6. CASE FailedRead(w)
    <3>1. CASE Serve(w, "get_description", "reply", {process, "crashed"})
      BY <3>1 DEF Serve
    <3>2. CASE EndSession(w, "get_description", "exited") /\ UNCHANGED listening
      BY <3>2 DEF EndSession, Ends
    <3>3. CASE StartShutdown(w)
      BY <2>6, <3>3 DEF FailedRead, StartShutdown
    <3> QED BY <2>6, <3>1, <3>2, <3>3 DEF FailedRead
  <2> QED BY <1>4, <2>1, <2>2, <2>3, <2>4, <2>5, <2>6 DEF ClientStep
<1> QED BY <1>1, <1>2, <1>3, <1>4 DEF Next

\* What enters the ring is appended to the queue, and what leaves it was its head.
LEMMA EnqueueAppends ==
  ASSUME TypeOK, RingInv, Enqueue
  PROVE  Queued' = Append(Queued, accepted) /\ tail' = (head' + count') % QueueSize
<1>1. /\ IsRing(Conns \cup {NIL}, items, head, count, QueueSize) /\ count # QueueSize
      /\ accepted \in Conns \cup {NIL}
  BY BoundsAssumption DEF TypeOK, Slots, Enqueue, Full, Conns, NIL, IsRing
<1>2. /\ items' = Put(items, head, count, QueueSize, accepted)
      /\ head' = head /\ count' = count + 1 /\ tail' = (tail + 1) % QueueSize
  BY DEF Enqueue, PutItem, RingInv, Put
<1>3. Queued = RingOf(items, head, count, QueueSize)
      /\ Queued' = RingOf(items', head, count + 1, QueueSize)
  BY <1>2 DEF Queued, RingOf
<1>4. Queued' = Append(Queued, accepted)
  BY <1>1, <1>2, <1>3, RingPut
<1>5. tail' = (head' + count') % QueueSize
  BY <1>1, <1>2, TailMoves DEF RingInv
<1> QED BY <1>4, <1>5

LEMMA DequeueTakes ==
  ASSUME TypeOK, RingInv, NEW w \in Workers, Dequeue(w)
  PROVE  /\ Queued # <<>> /\ Queued' = Tail(Queued) /\ cur' = [cur EXCEPT ![w] = Head(Queued)]
         /\ tail' = (head' + count') % QueueSize
<1>1. IsRing(Conns \cup {NIL}, items, head, count, QueueSize) /\ count # 0
  BY BoundsAssumption DEF TypeOK, Slots, Dequeue, IsRing
<1>2. head' = (head + 1) % QueueSize /\ count' = count - 1 /\ items' = items /\ tail' = tail
      /\ cur' = [cur EXCEPT ![w] = items[head]]
  BY DEF Dequeue, TakeItem
<1>3. Queued = RingOf(items, head, count, QueueSize)
      /\ Queued' = RingOf(items, (head + 1) % QueueSize, count - 1, QueueSize)
  BY <1>2 DEF Queued, RingOf
<1>4. Queued # <<>> /\ Head(Queued) = items[head] /\ Queued' = Tail(Queued)
  BY <1>1, <1>3, RingTake
<1>5. tail' = (head' + count') % QueueSize
  BY <1>1, <1>2, TailStays DEF RingInv
<1> QED BY <1>2, <1>4, <1>5
--------------------------------------------------------------------------------
(* Every connection is in one place                                            *)

LEMMA RingInit == Init => RingInv
<1> SUFFICES ASSUME Init PROVE RingInv
  OBVIOUS
<1>1. Queued = <<>> /\ Held = {} /\ \A w \in Workers : cur[w] = NIL
  BY DEF Init, Queued, Held
<1>2. Distinct(Queued) /\ Members(Queued) = {}
  BY <1>1 DEF Distinct, Members
<1>3. tail = (head + count) % QueueSize
  BY BoundsAssumption DEF Init
<1> QED BY <1>1, <1>2, <1>3 DEF RingInv

LEMMA RingStep ==
  ASSUME TypeOK, WorkerInv, MainInv, RingInv, [Next]_vars
  PROVE  RingInv'
<1> USE DEF TypeOK, Threads, Goto, NIL
<1>1. /\ Queued \in Seq(Conns \cup {NIL}) /\ Held \subseteq 1..Arrived
      /\ Members(Queued) \subseteq 1..Arrived /\ accepted \in Nat
  BY QueueShape DEF RingInv
<1>2. CASE HandsStay
  <2>1. Queued' = Queued /\ Held' = Held /\ Arrived' = Arrived
    BY <1>2 DEF HandsStay, ring, Queued, Held, Arrived
  <2> QED BY <1>2, <2>1 DEF HandsStay, ring, RingInv
<1>3. CASE Accept
  <2>1. Queued' = Queued /\ Held' = Held /\ Arrived' = Arrived
    BY <1>1, <1>3, ThreadsAssumption DEF Accept, ring, Queued, Held, Arrived
  <2> QED BY <1>3, <2>1 DEF Accept, ring, RingInv
<1>4. CASE Enqueue
  <2>1. /\ Arrived = accepted - 1 /\ Arrived' = accepted /\ accepted > 0 /\ Held' = Held /\ cur' = cur
    BY <1>4, ThreadsAssumption DEF Enqueue, sockets, Arrived, Held, MainInv
  <2>2. accepted \notin Members(Queued) /\ accepted \notin Held /\ accepted \in Conns
    BY <1>1, <2>1 DEF Conns
  <2>3. Distinct(Queued') /\ Members(Queued') = Members(Queued) \cup {accepted}
    <3>1. Queued' = Append(Queued, accepted) /\ Distinct(Queued) /\ accepted \in Conns \cup {NIL}
      BY <1>4, <2>2, EnqueueAppends DEF RingInv
    <3> QED BY <1>1, <2>2, <3>1, DistinctAppend
  <2>4. Members(Queued') \cup Held' \subseteq 1..Arrived'
    <3>1. 1..Arrived \cup {accepted} \subseteq 1..accepted
      BY <1>1, <2>1
    <3> QED BY <1>1, <2>1, <2>3, <3>1
  <2> QED BY <1>4, <2>1, <2>2, <2>3, <2>4, EnqueueAppends DEF RingInv
<1>5. CASE Refuse
  <2>1. Queued' = Queued /\ Held' = Held /\ Arrived = accepted - 1 /\ Arrived' = accepted
    BY <1>5, ThreadsAssumption DEF Refuse, ring, Queued, Held, Arrived
  <2> QED BY <1>1, <1>5, <2>1 DEF Refuse, ring, RingInv
<1>6. ASSUME NEW w \in Workers, Dequeue(w) PROVE RingInv'
  <2>1. cur[w] = NIL /\ Arrived' = Arrived
    BY <1>6, ThreadsAssumption DEF Dequeue, WorkerInv, Handless, sockets, Arrived
  <2>2. /\ Queued # <<>> /\ Queued' = Tail(Queued) /\ cur' = [cur EXCEPT ![w] = Head(Queued)]
        /\ tail' = (head' + count') % QueueSize
    BY <1>6, DequeueTakes
  <2>3. /\ Distinct(Queued') /\ Members(Queued') = Members(Queued) \ {Head(Queued)}
        /\ Head(Queued) \in Members(Queued)
    BY <1>1, <2>2, DistinctTail DEF RingInv
  <2>4. Head(Queued) # NIL /\ Head(Queued) \notin Held
    BY <1>1, <2>3 DEF RingInv
  <2>5. Held' = Held \cup {Head(Queued)}
    BY <2>1, <2>2, <2>4 DEF Held
  <2>6. \A u, v \in Workers : u # v /\ cur'[u] # NIL => cur'[u] # cur'[v]
    BY <2>2, <2>4 DEF RingInv, Held
  <2> QED BY <1>1, <2>1, <2>2, <2>3, <2>4, <2>5, <2>6 DEF RingInv
<1>7. ASSUME NEW w \in Workers, Ends(w) PROVE RingInv'
  <2>1. Queued' = Queued /\ Arrived' = Arrived /\ cur' = [cur EXCEPT ![w] = NIL] /\ tail' = tail
        /\ (head' + count') % QueueSize = (head + count) % QueueSize
    BY <1>7 DEF Ends, Close, ring, Queued, Arrived
  <2>2. Held' \subseteq Held
    BY <2>1 DEF Held
  <2> QED BY <2>1, <2>2 DEF RingInv
<1> QED BY <1>2, <1>3, <1>4, <1>5, <1>6, <1>7, StepKinds

\* The inductive invariant of the pool: nothing in it is about the descriptors, which
\* may be closed for one another.
IInv == TypeOK /\ WorkerInv /\ MainInv /\ RingInv

\* The live part of the ring and the workers hold distinct connections, and memory is
\* released when all workers have left.
THEOREM Inductive == Spec => []IInv
<1>1. Init => IInv
  BY TypeInit, ThreadInit, RingInit DEF IInv
<1>2. IInv /\ [Next]_vars => IInv'
  BY TypeStep, ThreadStep, RingStep DEF IInv
<1> QED BY <1>1, <1>2, PTL DEF Spec

\* Whatever the number of workers, main frees the list, the pool and the ring only
\* after the last worker has closed its connection and exited, and when nobody can
\* connect any more.
THEOREM NothingFreedInUse == Spec => []NoUseAfterFree
<1>1. IInv => NoUseAfterFree
  BY DEF IInv, MainInv, WorkerInv, NoUseAfterFree, Held, Leaving, Handless
<1> QED BY <1>1, Inductive, PTL

Handing == IF pc[Main] = "enqueue" THEN {accepted} ELSE {}

LEMMA OpenStep ==
  ASSUME IInv, OpenAreOwned, [Next]_vars
  PROVE  OpenAreOwned'
<1> USE DEF IInv, TypeOK, Threads, Goto, NIL
<1> DEFINE Open == {c \in Conns : sock[c] = "open"}
<1>1. /\ Open \subseteq InRing \cup Held \cup Handing
      /\ InRing = Members(Queued) /\ InRing' = Members(Queued')
  BY DEF OpenAreOwned, Handing, InRing, Members, Queued
<1>2. /\ Queued \in Seq(Conns \cup {NIL}) /\ Held \subseteq 1..Arrived
      /\ InRing \subseteq 1..Arrived /\ accepted \in Nat
  BY <1>1, QueueShape DEF RingInv
<1> SUFFICES Open' \subseteq InRing' \cup Held' \cup Handing'
  BY DEF OpenAreOwned, Handing
<1>3. CASE HandsStay
  <2>1. Queued' = Queued /\ Held' = Held /\ Handing' = Handing /\ Open' \subseteq Open
    BY <1>3 DEF HandsStay, OpensNone, ring, Queued, Held, Handing
  <2> QED BY <1>1, <2>1
<1>4. CASE Accept
  <2>1. Queued' = Queued /\ Held' = Held /\ Handing = {} /\ Handing' = {accepted'}
    BY <1>4, ThreadsAssumption DEF Accept, ring, Queued, Held, Handing
  <2>2. Open' \subseteq Open \cup {accepted'}
    BY <1>4 DEF Accept
  <2> QED BY <1>1, <2>1, <2>2
<1>5. CASE Enqueue
  <2>1. Held' = Held /\ Handing = {accepted} /\ Handing' = {} /\ Open' = Open
        /\ Arrived = accepted - 1 /\ accepted > 0
    BY <1>5, ThreadsAssumption DEF Enqueue, sockets, Held, Handing, Arrived, MainInv
  <2>2. accepted \notin Members(Queued) /\ accepted \in Conns
    BY <1>1, <1>2, <2>1 DEF Conns
  <2>3. Members(Queued') = Members(Queued) \cup {accepted}
    <3>1. Queued' = Append(Queued, accepted) /\ Distinct(Queued) /\ accepted \in Conns \cup {NIL}
      BY <1>5, <2>2, EnqueueAppends DEF RingInv
    <3> QED BY <1>2, <2>2, <3>1, DistinctAppend
  <2> QED BY <1>1, <2>1, <2>3
<1>6. CASE Refuse
  <2>1. Queued' = Queued /\ Held' = Held /\ Handing = {accepted} /\ Handing' = {}
    BY <1>6, ThreadsAssumption DEF Refuse, ring, Queued, Held, Handing
  <2>2. Open' \subseteq Open \ {accepted}
    BY <1>6 DEF Refuse, Shut
  <2> QED BY <1>1, <2>1, <2>2
<1>7. ASSUME NEW w \in Workers, Dequeue(w) PROVE Open' \subseteq InRing' \cup Held' \cup Handing'
  <2>1. cur[w] = NIL /\ Handing' = Handing /\ Open' = Open
    BY <1>7, ThreadsAssumption DEF Dequeue, WorkerInv, Handless, sockets, Handing
  <2>2. Queued # <<>> /\ Queued' = Tail(Queued) /\ cur' = [cur EXCEPT ![w] = Head(Queued)]
    BY <1>7, DequeueTakes
  <2>3. InRing' = InRing \ {Head(Queued)} /\ Head(Queued) \in InRing
    BY <1>1, <1>2, <2>2, DistinctTail DEF RingInv
  <2>4. Held' = Held \cup {Head(Queued)}
    <3>1. Head(Queued) # NIL
      BY <1>2, <2>3
    <3> QED BY <2>1, <2>2, <3>1 DEF Held
  <2> QED BY <1>1, <2>1, <2>3, <2>4
<1>8. ASSUME NEW w \in Workers, Ends(w) PROVE Open' \subseteq InRing' \cup Held' \cup Handing'
  <2>1. /\ Queued' = Queued /\ Handing' = Handing /\ cur' = [cur EXCEPT ![w] = NIL]
        /\ Shut(number[cur[w]])
    BY <1>8 DEF Ends, Close, ring, Queued, Handing
  <2>2. Open' \subseteq Open \ {cur[w]}
    BY <2>1 DEF Shut
  <2>3. Held \ {cur[w]} \subseteq Held'
    BY <2>1 DEF Held
  <2> QED BY <1>1, <2>1, <2>2, <2>3
<1> QED BY <1>3, <1>4, <1>5, <1>6, <1>7, <1>8, StepKinds

\* No path through the pool leaks a socket: neither a full ring, nor the end of a
\* session, nor a shutdown that meets connections in the ring and in the hands of the
\* workers, nor a worker whose descriptor another one has closed.
THEOREM SocketsOwned == Spec => []OpenAreOwned
<1>1. Init => OpenAreOwned
  BY ThreadsAssumption DEF Init, OpenAreOwned, InRing, Held, Threads
<1>2. IInv /\ OpenAreOwned /\ [Next]_vars => OpenAreOwned'
  BY OpenStep
<1> QED BY <1>1, <1>2, Inductive, PTL DEF Spec
--------------------------------------------------------------------------------
(* Wakeups                                                                     *)

Asleep == {w \in Workers : pc[w] = "wait"}
Coming == {w \in Workers : pc[w] = "lock"}

LEMMA CountType ==
  /\ IsFiniteSet(Coming) /\ Cardinality(Coming) \in Nat
  /\ IsFiniteSet(Coming') /\ Cardinality(Coming') \in Nat
<1>1. IsFiniteSet(Coming) /\ IsFiniteSet(Coming')
  BY ThreadsAssumption, FS_Subset DEF Coming
<1> QED BY <1>1, FS_CardinalityType

\* A step that adds no connection, takes nobody off the way to the ring and makes
\* nobody wait keeps the balance.
LEMMA WakeupFrame ==
  ASSUME WakeupsSuffice, TypeOK, count' = count, Coming \subseteq Coming',
         Asleep' \subseteq Asleep
  PROVE  WakeupsSuffice'
<1>1. Cardinality(Coming) <= Cardinality(Coming')
  BY CountType, FS_Subset
<1> QED BY <1>1, CountType DEF WakeupsSuffice, Asleep, Coming, TypeOK

LEMMA WakeupStep ==
  ASSUME IInv, WakeupsSuffice, [Next]_vars
  PROVE  WakeupsSuffice'
<1> USE ThreadsAssumption DEF IInv, TypeOK, Threads, Goto, ring, sockets, Asleep, Coming
<1>1. CASE UNCHANGED vars
  BY <1>1, WakeupFrame DEF vars
<1>2. ASSUME MainStep \/ Accept PROVE WakeupsSuffice'
  <2>1. CASE AcceptFails
    BY <2>1, WakeupFrame DEF AcceptFails
  <2>2. CASE Enqueue
    <3>1. CASE Asleep = {}
      <4>1. Asleep' = {}
        BY <2>2, <3>1 DEF Enqueue
      <4> QED BY <4>1 DEF WakeupsSuffice
    <3>2. CASE Asleep # {}
      <4>1. PICK w \in Workers : pc[w] = "wait" /\ pc' = [pc EXCEPT ![w] = "lock", ![Main] = "test"]
        BY <2>2, <3>2 DEF Enqueue
      <4>2. Coming' = Coming \cup {w} /\ w \notin Coming
        BY <4>1
      <4>3. Cardinality(Coming') = Cardinality(Coming) + 1
        BY <4>2, CountType, FS_AddElement
      <4>4. count' = count + 1 /\ Cardinality(Coming) >= count
        BY <2>2, <3>2 DEF Enqueue, PutItem, WakeupsSuffice
      <4> QED BY <4>3, <4>4, CountType DEF WakeupsSuffice
    <3> QED BY <3>1, <3>2
  <2>3. CASE Refuse
    BY <2>3, WakeupFrame DEF Refuse
  <2>4. CASE TestShutdown
    BY <2>4, WakeupFrame DEF TestShutdown
  <2>5. CASE CloseServer
    BY <2>5, WakeupFrame DEF CloseServer
  <2>6. CASE Join
    BY <2>6, WakeupFrame DEF Join
  <2>7. CASE FreeResources
    BY <2>7, WakeupFrame DEF FreeResources
  <2>8. CASE Accept
    BY <2>8, WakeupFrame DEF Accept
  <2> QED BY <1>2, <2>1, <2>2, <2>3, <2>4, <2>5, <2>6, <2>7, <2>8 DEF MainStep
<1>3. ASSUME NEW w \in Workers, WorkerStep(w) PROVE WakeupsSuffice'
  <2>1. CASE Dequeue(w)
    <3>1. Coming' = Coming \ {w} /\ w \in Coming /\ Asleep' = Asleep /\ count' = count - 1
      BY <2>1 DEF Dequeue, TakeItem
    <3>2. Cardinality(Coming') = Cardinality(Coming) - 1
      <4> HIDE DEF Coming
      <4> QED BY <3>1, CountType, FS_RemoveElement
    <3> QED BY <3>1, <3>2, CountType DEF WakeupsSuffice
  <2>2. CASE FindEmpty(w)
    BY <2>2, CountType DEF FindEmpty, WakeupsSuffice
  <2>3. CASE Wait(w)
    BY <2>3, CountType DEF Wait, WorkerInv, WakeupsSuffice
  <2>4. CASE Handle(w)
    BY <2>4, WakeupFrame DEF Handle, Close
  <2>5. CASE Broadcast(w)
    BY <2>5, WakeupFrame DEF Broadcast
  <2>6. CASE StopListening(w)
    BY <2>6, WakeupFrame DEF StopListening, EndSession, Close
  <2>7. CASE CloseMain(w)
    BY <2>7, WakeupFrame DEF CloseMain, EndSession, Close
  <2> QED BY <1>3, <2>1, <2>2, <2>3, <2>4, <2>5, <2>6, <2>7 DEF WorkerStep
<1>4. ASSUME NEW w \in Workers, ClientStep(w) \/ SpuriousWake(w) PROVE WakeupsSuffice'
  <2>1. CASE ClientEnds(w)
    BY <2>1, WakeupFrame DEF ClientEnds, Attached
  <2>2. CASE UnknownMessage(w)
    BY <2>2, WakeupFrame DEF UnknownMessage, EndSession, Close
  <2>3. CASE Request(w) \/ Reply(w) \/ FileRequest(w) \/ ParentSend(w) \/ ChildSend(w)
    BY <2>3, WakeupFrame DEF Request, Reply, FileRequest, ParentSend, ChildSend, Serve, MayFault, Attached
  <2>4. CASE ShutdownRequest(w)
    BY <2>4, WakeupFrame DEF ShutdownRequest, StartShutdown, Attached
  <2>5. CASE SpuriousWake(w)
    BY <2>5, WakeupFrame DEF SpuriousWake
  <2>6. CASE FailedRead(w)
    <3>1. CASE Serve(w, "get_description", "reply", {process, "crashed"})
      BY <3>1, WakeupFrame DEF Serve
    <3>2. CASE EndSession(w, "get_description", "exited") /\ UNCHANGED listening
      BY <3>2, WakeupFrame DEF EndSession, Close
    <3>3. CASE StartShutdown(w)
      BY <2>6, <3>3, WakeupFrame DEF FailedRead, StartShutdown
    <3> QED BY <2>6, <3>1, <3>2, <3>3 DEF FailedRead
  <2> QED BY <1>4, <2>1, <2>2, <2>3, <2>4, <2>5, <2>6 DEF ClientStep
<1> QED BY <1>1, <1>2, <1>3, <1>4 DEF Next

\* No connection in the ring is forgotten: while a worker sleeps there are as many
\* others on their way to the ring as connections in it, whatever the order of
\* signals, spurious wake-ups, late arrivals and shutdowns.
THEOREM RingIsWatched == Spec => []WakeupsSuffice
<1>1. Init => WakeupsSuffice
  BY ThreadsAssumption DEF Init, WakeupsSuffice, Threads
<1>2. IInv /\ WakeupsSuffice /\ [Next]_vars => WakeupsSuffice'
  BY WakeupStep
<1> QED BY <1>1, <1>2, Inductive, PTL DEF Spec
--------------------------------------------------------------------------------
(* The ring implements the queue                                               *)

LEMMA QueueStep ==
  ASSUME IInv, [Next]_vars
  PROVE  [RingQueue!WQNext]_(RingQueue!wqVars)
<1> USE DEF IInv, TypeOK, Threads, Goto, NIL, RingQueue!wqVars, RingQueue!WQNext
<1>1. Queued \in Seq(Conns \cup {NIL}) /\ Len(Queued) = count /\ accepted \in Nat
  BY QueueShape
<1>2. CASE HandsStay
  <2>1. UNCHANGED <<Arrived, Queued, cur>>
    BY <1>2 DEF HandsStay, ring, Queued, Arrived
  <2> QED BY <2>1 DEF Arrived
<1>3. CASE Accept
  <2>1. UNCHANGED <<Arrived, Queued, cur>>
    BY <1>1, <1>3, ThreadsAssumption DEF Accept, ring, Queued, Arrived
  <2> QED BY <2>1 DEF Arrived
<1>4. CASE Enqueue
  <2>1. Arrived = accepted - 1 /\ Arrived' = accepted /\ cur' = cur /\ count < QueueSize
    BY <1>4, ThreadsAssumption, BoundsAssumption DEF Enqueue, Full, sockets, Arrived
  <2>2. Queued' = Append(Queued, accepted) /\ Arrived' = Arrived + 1
    BY <1>1, <1>4, <2>1, EnqueueAppends
  <2>3. RingQueue!Arrive
    BY <1>1, <2>1, <2>2 DEF RingQueue!Arrive, Arrived
  <2> QED BY <2>3
<1>5. CASE Refuse
  <2>1. Arrived = accepted - 1 /\ Arrived' = accepted /\ cur' = cur /\ count = QueueSize
        /\ Queued' = Queued
    BY <1>5, ThreadsAssumption, BoundsAssumption DEF Refuse, Full, sockets, ring, Arrived, Queued
  <2>2. RingQueue!Refuse
    BY <1>1, <2>1 DEF RingQueue!Refuse, Arrived
  <2> QED BY <2>2
<1>6. ASSUME NEW w \in Workers, Dequeue(w) PROVE RingQueue!WQNext
  <2>1. cur[w] = NIL /\ Arrived' = Arrived
    BY <1>6, ThreadsAssumption DEF Dequeue, WorkerInv, Handless, sockets, Arrived
  <2>2. Queued # <<>> /\ Queued' = Tail(Queued) /\ cur' = [cur EXCEPT ![w] = Head(Queued)]
    BY <1>6, DequeueTakes
  <2>3. RingQueue!Take(w)
    BY <2>1, <2>2 DEF RingQueue!Take, RingQueue!Idle, Arrived
  <2> QED BY <2>3
<1>7. ASSUME NEW w \in Workers, Ends(w) PROVE RingQueue!WQNext
  <2>1. /\ Queued' = Queued /\ Arrived' = Arrived /\ cur' = [cur EXCEPT ![w] = NIL] /\ cur[w] # NIL
    BY <1>7 DEF Ends, Close, ring, Queued, Arrived
  <2>2. RingQueue!Finish(w)
    BY <2>1 DEF RingQueue!Finish, RingQueue!Idle, Arrived
  <2> QED BY <2>2
<1> QED BY <1>2, <1>3, <1>4, <1>5, <1>6, <1>7, StepKinds

\* The ring, its mutex and the workers are a bounded first-in first-out queue, for
\* every size of the ring and number of workers: no connection is lost, handed out
\* twice or overtaken, and the newcomer is turned away only when the ring is full.
THEOREM RingIsQueue == Spec => RingImplementsQueue
<1>1. Init => RingQueue!WQInit
  <2>1. Init => Queued = <<>>
    BY DEF Init, Queued
  <2> QED BY <2>1, ThreadsAssumption DEF Init, RingQueue!WQInit, RingQueue!Idle, NIL, Threads
<1>2. IInv /\ [Next]_vars => [RingQueue!WQNext]_(RingQueue!wqVars)
  BY QueueStep
<1> QED BY <1>1, <1>2, Inductive, PTL DEF Spec, RingImplementsQueue, RingQueue!WQSpec
================================================================================
