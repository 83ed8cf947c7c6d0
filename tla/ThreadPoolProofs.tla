--------------------------- MODULE ThreadPoolProofs ----------------------------
(* Proofs about ThreadPool, for every number of workers and connections.       *)
EXTENDS ThreadPoolProperties, FiniteSetTheorems, SequenceTheorems, TLAPS

\* Every variable keeps its type.
LEMMA TypeInit == Init => TypeOK
<1> SUFFICES ASSUME Init PROVE TypeOK
  OBVIOUS
<1>1. pc \in [Threads -> Labels] /\ data \in [Objects -> {"unset", "live", "freed"}]
  BY DEF Init, Labels, Objects
<1>2. /\ cur \in [Workers -> Nodes] /\ next \in [Conns -> Nodes] /\ freed \subseteq Nodes
      /\ head \in Nodes /\ tail \in Nodes /\ drainers \subseteq Workers
  BY DEF Init, Nodes
<1>3. accepted \in 0..NumConns /\ sock \in [Conns -> {"new", "open", "closed"}]
  BY BoundsAssumption DEF Init
<1> QED BY <1>1, <1>2, <1>3 DEF Init, TypeOK

\* Every action of main, of a worker and of a client keeps the types.
LEMMA TypeStep == TypeOK /\ [Next]_vars => TypeOK'
<1> SUFFICES ASSUME TypeOK, [Next]_vars PROVE TypeOK'
  OBVIOUS
<1> USE DEF TypeOK, Threads, Labels, Goto, Read, Fatal, list, sockets
<1>1. CASE UNCHANGED vars
  BY <1>1 DEF vars
<1>2. ASSUME MainStep \/ Accept PROVE TypeOK'
  <2>1. CASE CreateData
    BY <2>1 DEF CreateData, Create
  <2>2. CASE Listen
    BY <2>2 DEF Listen
  <2>3. CASE Accept
    <3>1. accepted + 1 \in Conns /\ 1..accepted \subseteq Conns
      BY <2>3, BoundsAssumption DEF Accept, Conns
    <3>2. number' \in [Conns -> Nodes]
      BY <2>3, <3>1 DEF Accept, Nodes
    <3> QED BY <2>3, <3>1, <3>2 DEF Accept, Conns
  <2>4. CASE LockToEnqueue
    BY <2>4 DEF LockToEnqueue, Lock
  <2>5. CASE Link
    <3>1. accepted \in Nodes
      BY BoundsAssumption DEF Nodes, Conns, NIL
    <3> QED BY <2>5, <3>1 DEF Link
  <2>6. CASE SetTail
    <3>1. accepted \in Nodes
      BY BoundsAssumption DEF Nodes, Conns, NIL
    <3> QED BY <2>6, <3>1 DEF SetTail
  <2>7. CASE Signal
    BY <2>7 DEF Signal
  <2>8. CASE UnlockEnqueued
    BY <2>8 DEF UnlockEnqueued, Unlock
  <2>9. CASE FreePool
    BY <2>9 DEF FreePool, Free
  <2>10. CASE Return
    BY <2>10 DEF Return
  <2> QED BY <1>2, <2>1, <2>2, <2>3, <2>4, <2>5, <2>6, <2>7, <2>8, <2>9, <2>10 DEF MainStep
<1>3. ASSUME NEW w \in Workers, WorkerStep(w) PROVE TypeOK'
  <2> w \in Threads
    OBVIOUS
  <2>1. CASE TestShut(w)
    BY <2>1 DEF TestShut, Local
  <2>2. CASE LockMutex(w)
    BY <2>2 DEF LockMutex, Lock
  <2>3. CASE Wait(w)
    BY <2>3 DEF Wait, Unlock
  <2>4. CASE Relock(w)
    BY <2>4 DEF Relock, Lock
  <2>5. CASE Woken(w)
    BY <2>5 DEF Woken, Local
  <2>6. CASE Dequeued(w)
    BY <2>6 DEF Dequeued, Local, Unlock
  <2>7. CASE DequeueHead(w)
    BY <2>7 DEF Nodes, MayFault, ReadHead, DequeueHead, Local, Read
  <2>8. CASE TakeHead(w)
    BY <2>8 DEF Nodes, MayFault, ReadHead, TakeHead
  <2>9. CASE KeepNode(w)
    BY <2>9 DEF Nodes, MayFault, ReadHead, KeepNode
  <2>10. CASE AdvanceHead(w)
    BY <2>10 DEF Nodes, MayFault, ReadHead, AdvanceHead
  <2>11. CASE FixTail(w)
    BY <2>11 DEF FixTail, Nodes
  <2>12. CASE FreeNode(w)
    BY <2>12 DEF FreeNode, Nodes
  <2>13. CASE Handle(w)
    BY <2>13 DEF Handle, Local
  <2>14. CASE CloseMain(w)
    BY <2>14 DEF Nodes, MayFault, ReadHead, CloseMain, EndSession, Close, FreeClfd, Shut
  <2>15. CASE CloseShut(w)
    BY <2>15 DEF Nodes, MayFault, ReadHead, CloseShut, EndSession, Close, FreeClfd, Shut
  <2>16. CASE SetShut(w)
    BY <2>16 DEF SetShut
  <2>17. CASE Broadcast(w)
    BY <2>17 DEF Broadcast
  <2>18. CASE CloseQueued(w)
    BY <2>18 DEF Nodes, MayFault, ReadHead, CloseQueued, EndSession, Close, FreeClfd, Shut
  <2>19. CASE FreeData(w)
    BY <2>19 DEF FreeData, Free
  <2>20. CASE StopListening(w)
    BY <2>20 DEF StopListening
  <2> QED BY <1>3, <2>1, <2>2, <2>3, <2>4, <2>5, <2>6, <2>7, <2>8, <2>9, <2>10, <2>11, <2>12,
             <2>13, <2>14, <2>15, <2>16, <2>17, <2>18, <2>19, <2>20 DEF WorkerStep
<1>4. ASSUME NEW w \in Workers, ClientStep(w) \/ SpuriousWake(w) PROVE TypeOK'
  <2> w \in Threads
    OBVIOUS
  <2>1. CASE ClientEnds(w)
    BY <2>1 DEF Nodes, MayFault, ReadHead, ClientEnds, Attached, Shut
  <2>2. CASE UnknownMessage(w)
    BY <2>2 DEF Nodes, MayFault, ReadHead, UnknownMessage, Receive, Attached, Local, Read
  <2>3. CASE PlainRequest(w)
    BY <2>3 DEF Nodes, MayFault, ReadHead, PlainRequest, Receive, Attached, Local, Read
  <2>4. CASE FileRequest(w)
    BY <2>4 DEF Nodes, MayFault, ReadHead, FileRequest, Attached, Local, FreeClfd, Read
  <2>5. CASE ShutdownRequest(w)
    BY <2>5 DEF Nodes, MayFault, ReadHead, ShutdownRequest, Receive, Attached, Local, Read
  <2>6. CASE FailedRead(w)
    BY <2>6 DEF Nodes, MayFault, ReadHead, FailedRead
  <2>7. CASE Reply(w)
    BY <2>7 DEF Reply, Local
  <2>8. CASE ParentSend(w)
    BY <2>8 DEF Nodes, MayFault, ReadHead, ParentSend
  <2>9. CASE ChildSend(w)
    BY <2>9 DEF Nodes, MayFault, ReadHead, ChildSend, EndSession, Close, FreeClfd, Shut
  <2>10. CASE SpuriousWake(w)
    BY <2>10 DEF SpuriousWake, Local
  <2> QED BY <1>4, <2>1, <2>2, <2>3, <2>4, <2>5, <2>6, <2>7, <2>8, <2>9, <2>10 DEF ClientStep
<1> QED BY <1>1, <1>2, <1>3, <1>4 DEF Next

\* Every variable of the pool keeps its type: in particular head, tail and every
\* next field name a list node or nothing.
THEOREM TypeCorrect == Spec => []TypeOK
BY TypeInit, TypeStep, PTL DEF Spec

--------------------------------------------------------------------------------
(* The mutex: it and the places only a shutdown reaches.                       *)

\* At the start nobody owns the mutex and nobody drains the list.
LEMMA LockInit == Init => LockDiscipline /\ DrainInv
BY ThreadsAssumption DEF Init, LockDiscipline, DrainInv, UsesList, InDequeue, InShutdown, Draining, Threads

\* Locks, waits and unlocks pair up, but for the two breaks that a shutdown takes, and
\* only a drainer runs dequeue unlocked.
LEMMA LockStep ==
  ASSUME TypeOK, LockDiscipline, DrainInv, [Next]_vars
  PROVE  (LockDiscipline /\ DrainInv)'
<1> USE ThreadsAssumption
    DEF TypeOK, Threads, LockDiscipline, DrainInv, UsesList, InDequeue, InShutdown, Draining,
        Goto, list, sockets
<1>1. CASE UNCHANGED vars
  BY <1>1 DEF vars
<1>2. ASSUME MainStep \/ Accept PROVE (LockDiscipline /\ DrainInv)'
  <2>1. CASE CreateData
    BY <2>1 DEF CreateData, Create
  <2>2. CASE Listen
    BY <2>2 DEF Listen
  <2>3. CASE Accept
    BY <2>3 DEF Accept
  <2>4. CASE LockToEnqueue
    BY <2>4 DEF LockToEnqueue, Lock
  <2>5. CASE Link
    BY <2>5 DEF Link, Read
  <2>6. CASE SetTail
    BY <2>6 DEF SetTail
  <2>7. CASE Signal
    BY <2>7 DEF Signal
  <2>8. CASE UnlockEnqueued
    BY <2>8 DEF UnlockEnqueued, Unlock
  <2>9. CASE FreePool
    BY <2>9 DEF FreePool, Free, Fatal
  <2>10. CASE Return
    BY <2>10 DEF Return
  <2> QED BY <1>2, <2>1, <2>2, <2>3, <2>4, <2>5, <2>6, <2>7, <2>8, <2>9, <2>10 DEF MainStep
<1>3. ASSUME NEW w \in Workers, WorkerStep(w) PROVE (LockDiscipline /\ DrainInv)'
  <2>1. CASE TestShut(w)
    BY <2>1 DEF TestShut, Local, Read
  <2>2. CASE LockMutex(w)
    BY <2>2 DEF LockMutex, Lock
  <2>3. CASE Wait(w)
    BY <2>3 DEF Wait, Unlock
  <2>4. CASE Relock(w)
    BY <2>4 DEF Relock, Lock
  <2>5. CASE Woken(w)
    BY <2>5 DEF Woken, Local, Read
  <2>6. CASE Dequeued(w)
    BY <2>6 DEF Dequeued, Local, Read, Unlock
  <2>7. CASE DequeueHead(w)
    BY <2>7 DEF DequeueHead, Local, Read
  <2>8. CASE TakeHead(w)
    BY <2>8 DEF TakeHead
  <2>9. CASE KeepNode(w)
    BY <2>9 DEF KeepNode
  <2>10. CASE AdvanceHead(w)
    BY <2>10 DEF AdvanceHead
  <2>11. CASE FixTail(w)
    BY <2>11 DEF FixTail
  <2>12. CASE FreeNode(w)
    BY <2>12 DEF FreeNode, Fatal
  <2>13. CASE Handle(w)
    BY <2>13 DEF Handle, Local, Read
  <2>14. CASE CloseMain(w)
    BY <2>14 DEF CloseMain, EndSession, Close, FreeClfd, Shut
  <2>15. CASE CloseShut(w)
    BY <2>15 DEF CloseShut, EndSession, Close, FreeClfd, Shut
  <2>16. CASE SetShut(w)
    BY <2>16 DEF SetShut
  <2>17. CASE Broadcast(w)
    BY <2>17 DEF Broadcast
  <2>18. CASE CloseQueued(w)
    BY <2>18 DEF CloseQueued, EndSession, Close, FreeClfd, Shut
  <2>19. CASE FreeData(w)
    BY <2>19 DEF FreeData, Free, Fatal
  <2>20. CASE StopListening(w)
    BY <2>20 DEF StopListening, Read
  <2> QED BY <1>3, <2>1, <2>2, <2>3, <2>4, <2>5, <2>6, <2>7, <2>8, <2>9, <2>10, <2>11, <2>12,
             <2>13, <2>14, <2>15, <2>16, <2>17, <2>18, <2>19, <2>20 DEF WorkerStep
<1>4. ASSUME NEW w \in Workers, ClientStep(w) \/ SpuriousWake(w) PROVE (LockDiscipline /\ DrainInv)'
  <2>1. CASE ClientEnds(w)
    BY <2>1 DEF ClientEnds, Attached, Shut
  <2>2. CASE UnknownMessage(w)
    BY <2>2 DEF UnknownMessage, Receive, Attached, Local, Read
  <2>3. CASE PlainRequest(w)
    BY <2>3 DEF PlainRequest, Receive, Attached, Local, Read
  <2>4. CASE FileRequest(w)
    BY <2>4 DEF FileRequest, Attached, Local, FreeClfd, Read
  <2>5. CASE ShutdownRequest(w)
    BY <2>5 DEF ShutdownRequest, Receive, Attached, Local, Read
  <2>6. CASE FailedRead(w)
    BY <2>6 DEF FailedRead
  <2>7. CASE Reply(w)
    BY <2>7 DEF Reply, Local, Read
  <2>8. CASE ParentSend(w)
    BY <2>8 DEF ParentSend
  <2>9. CASE ChildSend(w)
    BY <2>9 DEF ChildSend, EndSession, Close, FreeClfd, Shut
  <2>10. CASE SpuriousWake(w)
    BY <2>10 DEF SpuriousWake, Local, Read
  <2> QED BY <1>4, <2>1, <2>2, <2>3, <2>4, <2>5, <2>6, <2>7, <2>8, <2>9, <2>10 DEF ClientStep
<1> QED BY <1>1, <1>2, <1>3, <1>4 DEF Next

\* Whoever uses the list owns the mutex or drains the list for a shutdown, and the
\* owner is at the list or has left with the mutex in a shutdown: up to a shutdown
\* every lock is paired with its unlock, and a shutdown breaks this in no third way.
THEOREM MutexDiscipline == Spec => []LockDiscipline
<1>1. TypeOK /\ LockDiscipline /\ DrainInv /\ [Next]_vars => (LockDiscipline /\ DrainInv)'
  BY LockStep
<1> QED BY TypeInit, TypeStep, LockInit, <1>1, PTL DEF Spec

--------------------------------------------------------------------------------
(* main and the pool's data.                                                   *)

\* Main starts with the pool and the dictionary, and nothing else, filled.
LEMMA MainInit == Init => MainInv
BY ThreadsAssumption DEF Init, MainInv, NotLive, Objects, Threads

\* The accept loop carries at most one connection, and the pool stays filled
\* until a shutdown.
LEMMA MainInvStep ==
  ASSUME IInv, [Next]_vars
  PROVE  MainInv'
<1> USE ThreadsAssumption, BoundsAssumption
    DEF IInv, TypeOK, Threads, MainInv, DrainInv, InShutdown, NotLive, Objects, Goto, list, sockets
<1>1. CASE UNCHANGED vars
  BY <1>1 DEF vars
<1>2. ASSUME MainStep \/ Accept PROVE MainInv'
  <2>1. CASE CreateData
    BY <2>1 DEF CreateData, Create
  <2>2. CASE Listen
    BY <2>2 DEF Listen
  <2>3. CASE Accept
    BY <2>3 DEF Accept, Conns
  <2>4. CASE LockToEnqueue
    BY <2>4 DEF LockToEnqueue, Lock
  <2>5. CASE Link
    BY <2>5 DEF Link, Read
  <2>6. CASE SetTail
    BY <2>6 DEF SetTail
  <2>7. CASE Signal
    BY <2>7 DEF Signal
  <2>8. CASE UnlockEnqueued
    BY <2>8 DEF UnlockEnqueued, Unlock
  <2>9. CASE FreePool
    BY <2>9 DEF FreePool, Free, Fatal
  <2>10. CASE Return
    BY <2>10 DEF Return
  <2> QED BY <1>2, <2>1, <2>2, <2>3, <2>4, <2>5, <2>6, <2>7, <2>8, <2>9, <2>10 DEF MainStep
<1>3. ASSUME NEW w \in Workers, WorkerStep(w) PROVE MainInv'
  <2>1. CASE TestShut(w)
    BY <2>1 DEF TestShut, Local, Read
  <2>2. CASE LockMutex(w)
    BY <2>2 DEF LockMutex, Lock
  <2>3. CASE Wait(w)
    BY <2>3 DEF Wait, Unlock
  <2>4. CASE Relock(w)
    BY <2>4 DEF Relock, Lock
  <2>5. CASE Woken(w)
    BY <2>5 DEF Woken, Local, Read
  <2>6. CASE Dequeued(w)
    BY <2>6 DEF Dequeued, Local, Read, Unlock
  <2>7. CASE DequeueHead(w)
    BY <2>7 DEF DequeueHead, Local, Read
  <2>8. CASE TakeHead(w)
    BY <2>8 DEF TakeHead
  <2>9. CASE KeepNode(w)
    BY <2>9 DEF KeepNode
  <2>10. CASE AdvanceHead(w)
    BY <2>10 DEF AdvanceHead
  <2>11. CASE FixTail(w)
    BY <2>11 DEF FixTail
  <2>12. CASE FreeNode(w)
    BY <2>12 DEF FreeNode, Fatal
  <2>13. CASE Handle(w)
    BY <2>13 DEF Handle, Local, Read
  <2>14. CASE CloseMain(w)
    BY <2>14 DEF CloseMain, EndSession, Close, FreeClfd, Shut
  <2>15. CASE CloseShut(w)
    BY <2>15 DEF CloseShut, EndSession, Close, FreeClfd, Shut
  <2>16. CASE SetShut(w)
    BY <2>16 DEF SetShut
  <2>17. CASE Broadcast(w)
    BY <2>17 DEF Broadcast
  <2>18. CASE CloseQueued(w)
    BY <2>18 DEF CloseQueued, EndSession, Close, FreeClfd, Shut
  <2>19. CASE FreeData(w)
    BY <2>19 DEF FreeData, Free, Fatal
  <2>20. CASE StopListening(w)
    BY <2>20 DEF StopListening, Read
  <2> QED BY <1>3, <2>1, <2>2, <2>3, <2>4, <2>5, <2>6, <2>7, <2>8, <2>9, <2>10, <2>11, <2>12,
             <2>13, <2>14, <2>15, <2>16, <2>17, <2>18, <2>19, <2>20 DEF WorkerStep
<1>4. ASSUME NEW w \in Workers, ClientStep(w) \/ SpuriousWake(w) PROVE MainInv'
  <2>1. CASE ClientEnds(w)
    BY <2>1 DEF ClientEnds, Attached, Shut
  <2>2. CASE UnknownMessage(w)
    BY <2>2 DEF UnknownMessage, Receive, Attached, Local, Read
  <2>3. CASE PlainRequest(w)
    BY <2>3 DEF PlainRequest, Receive, Attached, Local, Read
  <2>4. CASE FileRequest(w)
    BY <2>4 DEF FileRequest, Attached, Local, FreeClfd, Read
  <2>5. CASE ShutdownRequest(w)
    BY <2>5 DEF ShutdownRequest, Receive, Attached, Local, Read
  <2>6. CASE FailedRead(w)
    BY <2>6 DEF FailedRead
  <2>7. CASE Reply(w)
    BY <2>7 DEF Reply, Local, Read
  <2>8. CASE ParentSend(w)
    BY <2>8 DEF ParentSend
  <2>9. CASE ChildSend(w)
    BY <2>9 DEF ChildSend, EndSession, Close, FreeClfd, Shut
  <2>10. CASE SpuriousWake(w)
    BY <2>10 DEF SpuriousWake, Local, Read
  <2> QED BY <1>4, <2>1, <2>2, <2>3, <2>4, <2>5, <2>6, <2>7, <2>8, <2>9, <2>10 DEF ClientStep
<1> QED BY <1>1, <1>2, <1>3, <1>4 DEF Next

(* What the workers hold.                                                      *)

\* Each statement of a worker finds cur as the one before it left it.
LEMMA CurInvStep ==
  ASSUME IInv, [Next]_vars, ~shut'
  PROVE  CurInv'
<1> USE ThreadsAssumption, BoundsAssumption
    DEF IInv, TypeOK, Threads, CurInv, DrainInv, InShutdown, Serving, Enqueued, LockDiscipline,
        UsesList, InDequeue, NIL, Goto, list, sockets
<1>1. CASE UNCHANGED vars
  BY <1>1 DEF vars
<1>2. ASSUME MainStep \/ Accept PROVE CurInv'
  <2>1. CASE CreateData
    BY <2>1 DEF CreateData, Create
  <2>2. CASE Listen
    BY <2>2 DEF Listen
  <2>3. CASE Accept
    BY <2>3 DEF Accept
  <2>4. CASE LockToEnqueue
    BY <2>4 DEF LockToEnqueue, Lock
  <2>5. CASE Link
    <3> USE <2>5 DEF Link
    <3>1. Enqueued' >= Enqueued
      OBVIOUS
    <3>2. mutex = Main
      OBVIOUS
    <3>3. \A v \in Workers : pc[v] \notin {"advance", "cond_wait"} /\ pc'[v] = pc[v] /\ cur'[v] = cur[v]
      BY <3>2
    <3>4. Enqueued' \in Nat /\ Enqueued \in Int
      BY DEF MainInv
    <3> SUFFICES ASSUME NEW v \in Workers PROVE CurInv!(v)'
      OBVIOUS
    <3>5. Serving(v)' <= Enqueued'
      <4>1. cur[v] \in Int
        BY DEF Nodes, Conns
      <4> QED BY <3>1, <3>3, <3>4, <4>1
    <3> QED BY <3>3, <3>5
  <2>6. CASE SetTail
    BY <2>6 DEF SetTail
  <2>7. CASE Signal
    BY <2>7 DEF Signal
  <2>8. CASE UnlockEnqueued
    BY <2>8 DEF UnlockEnqueued, Unlock
  <2>9. CASE FreePool
    BY <2>9 DEF FreePool, Free, Fatal
  <2>10. CASE Return
    BY <2>10 DEF Return
  <2> QED BY <1>2, <2>1, <2>2, <2>3, <2>4, <2>5, <2>6, <2>7, <2>8, <2>9, <2>10 DEF MainStep
<1>3. ASSUME NEW w \in Workers, WorkerStep(w) PROVE CurInv'
  <2>1. CASE TestShut(w)
    BY <2>1 DEF TestShut, Local, Read
  <2>2. CASE LockMutex(w)
    BY <2>2 DEF LockMutex, Lock
  <2>3. CASE Wait(w)
    BY <2>3 DEF Wait, Unlock
  <2>4. CASE Relock(w)
    BY <2>4 DEF Relock, Lock
  <2>5. CASE Woken(w)
    BY <2>5 DEF Woken, Local, Read
  <2>6. CASE Dequeued(w)
    BY <2>6 DEF Dequeued, Local, Read, Unlock
  <2>7. CASE DequeueHead(w)
    BY <2>7 DEF DequeueHead, Local, Read
  <2>8. CASE TakeHead(w)
    BY <2>8 DEF TakeHead
  <2>9. CASE KeepNode(w)
    <3>1. head # NIL => head \notin freed
      BY <2>9 DEF KeepNode, LinkInv, Nodes, Conns
    <3> QED BY <2>9, <3>1 DEF KeepNode
  <2>10. CASE AdvanceHead(w)
    <3> USE <2>10 DEF AdvanceHead
    <3>1. /\ mutex = w /\ cur[w] <= Enqueued /\ cur[w] # NIL /\ tmp[w] = cur[w]
          /\ tmp[w] \notin freed
      BY DEF LinkInv
    <3>2. \A v \in Workers \ {w} :
            pc[v] \notin InDequeue \cup {"cond_wait"} /\ pc'[v] = pc[v] /\ cur'[v] = cur[v]
      BY <3>1 DEF InDequeue
    <3> QED BY <3>1, <3>2 DEF InDequeue
  <2>11. CASE FixTail(w)
    BY <2>11 DEF FixTail
  <2>12. CASE FreeNode(w)
    <3> USE <2>12 DEF FreeNode
    <3>1. mutex = w /\ w \notin drainers
      OBVIOUS
    <3>2. \A v \in Workers \ {w} : pc[v] \notin InDequeue /\ pc'[v] = pc[v] /\ cur'[v] = cur[v]
      BY <3>1 DEF InDequeue
    <3> QED BY <3>1, <3>2 DEF InDequeue
  <2>13. CASE Handle(w)
    BY <2>13 DEF Handle, Local, Read
  <2>14. CASE CloseMain(w)
    BY <2>14 DEF CloseMain, EndSession, Close, FreeClfd, Shut, MainInv
  <2>15. CASE CloseShut(w)
    BY <2>15 DEF CloseShut, EndSession, Close, FreeClfd, Shut, MainInv
  <2>16. CASE SetShut(w)
    BY <2>16 DEF SetShut
  <2>17. CASE Broadcast(w)
    BY <2>17 DEF Broadcast
  <2>18. CASE CloseQueued(w)
    BY <2>18 DEF CloseQueued, EndSession
  <2>19. CASE FreeData(w)
    BY <2>19 DEF FreeData, Free, Fatal
  <2>20. CASE StopListening(w)
    BY <2>20 DEF StopListening, Read
  <2> QED BY <1>3, <2>1, <2>2, <2>3, <2>4, <2>5, <2>6, <2>7, <2>8, <2>9, <2>10, <2>11, <2>12,
             <2>13, <2>14, <2>15, <2>16, <2>17, <2>18, <2>19, <2>20 DEF WorkerStep
<1>4. ASSUME NEW w \in Workers, ClientStep(w) \/ SpuriousWake(w) PROVE CurInv'
  <2>1. CASE ClientEnds(w)
    BY <2>1 DEF ClientEnds, Attached, Shut
  <2>2. CASE UnknownMessage(w)
    BY <2>2 DEF UnknownMessage, Receive, Attached, Local, Read
  <2>3. CASE PlainRequest(w)
    BY <2>3 DEF PlainRequest, Receive, Attached, Local, Read
  <2>4. CASE FileRequest(w)
    <3>1. CASE UNCHANGED cur
      BY <2>4, <3>1 DEF FileRequest, Attached, Local, FreeClfd
    <3>2. CASE pc' = [pc EXCEPT ![w] = "top"] /\ cur' = [cur EXCEPT ![w] = NIL]
      <4>1. head' = head /\ freed' = freed /\ tmp' = tmp /\ Enqueued' = Enqueued /\ ~shut
        BY <2>4, <3>2 DEF FileRequest, Attached, Local
      <4>2. Enqueued \in Int /\ Enqueued >= 0
        BY DEF MainInv
      <4>3. \A v \in Workers \ {w} : pc'[v] = pc[v] /\ cur'[v] = cur[v]
        BY <3>2
      <4>4. pc'[w] = "top" /\ cur'[w] = NIL
        BY <3>2
      <4> HIDE DEF Enqueued
      <4> QED BY <4>1, <4>2, <4>3, <4>4
    <3>3. UNCHANGED cur \/ (pc' = [pc EXCEPT ![w] = "top"] /\ cur' = [cur EXCEPT ![w] = NIL])
      BY <2>4 DEF FileRequest, FreeClfd, Local
    <3> QED BY <3>1, <3>2, <3>3
  <2>5. CASE ShutdownRequest(w)
    BY <2>5 DEF ShutdownRequest, Receive, Attached, Local, Read
  <2>6. CASE FailedRead(w)
    BY <2>6 DEF FailedRead
  <2>7. CASE Reply(w)
    BY <2>7 DEF Reply, Local, Read
  <2>8. CASE ParentSend(w)
    BY <2>8 DEF ParentSend
  <2>9. CASE ChildSend(w)
    BY <2>9 DEF ChildSend, EndSession, Close, FreeClfd, Shut, MainInv
  <2>10. CASE SpuriousWake(w)
    BY <2>10 DEF SpuriousWake, Local, Read
  <2> QED BY <1>4, <2>1, <2>2, <2>3, <2>4, <2>5, <2>6, <2>7, <2>8, <2>9, <2>10 DEF ClientStep
<1> QED BY <1>1, <1>2, <1>3, <1>4 DEF Next

(* The list itself.                                                            *)

\* Each statement of enqueue and dequeue keeps the shape of the list.
LEMMA LinkInvStep ==
  ASSUME IInv, [Next]_vars, ~shut'
  PROVE  LinkInv'
<1> USE ThreadsAssumption, BoundsAssumption
    DEF IInv, TypeOK, Threads, LinkInv, MainInv, DrainInv, InShutdown, Enqueued, LockDiscipline,
        UsesList, InDequeue, NIL, Goto, list, sockets
<1>1. CASE UNCHANGED vars
  BY <1>1 DEF vars
<1>2. ASSUME MainStep \/ Accept PROVE LinkInv'
  <2>1. CASE CreateData
    BY <2>1 DEF CreateData, Create
  <2>2. CASE Listen
    BY <2>2 DEF Listen
  <2>3. CASE Accept
    BY <2>3 DEF Accept
  <2>4. CASE LockToEnqueue
    BY <2>4 DEF LockToEnqueue, Lock
  <2>5. CASE Link
    <3> USE <2>5 DEF Link
    <3>1. /\ mutex = Main /\ \A v \in Workers : pc[v] # "fix_tail" /\ pc'[v] # "fix_tail"
          /\ pc[Main] = "enqueue" /\ pc'[Main] = "set_tail"
      OBVIOUS
    <3>2. Enqueued = accepted - 1 /\ Enqueued' = accepted /\ accepted \in Conns
      BY <3>1 DEF Conns
    <3>3. head \in Nat /\ tail = IF head = NIL THEN NIL ELSE accepted - 1
      BY <3>1, <3>2 DEF Nodes, Conns
    <3>4. CASE tail = NIL
      <4>1. head = NIL /\ head' = accepted /\ next' = next
        BY <3>2, <3>3, <3>4
      <4> QED BY <3>1, <3>2, <4>1 DEF Conns, Nodes
    <3>5. CASE tail # NIL
      <4>1. head # NIL /\ head' = head /\ tail = accepted - 1 /\ tail \in Conns
        BY <3>3, <3>5 DEF Nodes
      <4>2. next' = [next EXCEPT ![accepted - 1] = accepted] /\ accepted - 1 \in Conns
        BY <3>5, <4>1
      <4>3. \A c \in Conns : next'[c] = IF c = accepted - 1 THEN accepted ELSE next[c]
        BY <4>2
      <4>4. \A c \in freed' : c <= Enqueued' /\ (head' # NIL => c < head')
        BY <3>2, <4>1 DEF Conns, Nodes
      <4>5. /\ \A c \in Conns : c >= Enqueued' => next'[c] = NIL
            /\ \A c \in Conns : head' <= c /\ c < Enqueued' => next'[c] = c + 1
        <5> SUFFICES ASSUME NEW c \in Conns
                     PROVE  /\ c >= Enqueued' => next'[c] = NIL
                            /\ head' <= c /\ c < Enqueued' => next'[c] = c + 1
          OBVIOUS
        <5>1. c \in Nat /\ accepted \in Nat /\ head \in Nat
          BY <3>3 DEF Conns
        <5> QED BY <3>2, <4>1, <4>3, <5>1
      <4>6. tail' = Enqueued' - 1 /\ head' # Enqueued' /\ head' <= Enqueued' /\ head' # NIL
        BY <3>2, <3>3, <4>1 DEF Conns, Nodes
      <4> QED BY <3>1, <4>4, <4>5, <4>6
    <3> QED BY <3>4, <3>5
  <2>6. CASE SetTail
    BY <2>6 DEF SetTail
  <2>7. CASE Signal
    BY <2>7 DEF Signal
  <2>8. CASE UnlockEnqueued
    BY <2>8 DEF UnlockEnqueued, Unlock
  <2>9. CASE FreePool
    BY <2>9 DEF FreePool, Free, Fatal
  <2>10. CASE Return
    BY <2>10 DEF Return
  <2> QED BY <1>2, <2>1, <2>2, <2>3, <2>4, <2>5, <2>6, <2>7, <2>8, <2>9, <2>10 DEF MainStep
<1>3. ASSUME NEW w \in Workers, WorkerStep(w) PROVE LinkInv'
  <2>1. CASE TestShut(w)
    BY <2>1 DEF TestShut, Local, Read
  <2>2. CASE LockMutex(w)
    BY <2>2 DEF LockMutex, Lock
  <2>3. CASE Wait(w)
    BY <2>3 DEF Wait, Unlock
  <2>4. CASE Relock(w)
    BY <2>4 DEF Relock, Lock
  <2>5. CASE Woken(w)
    BY <2>5 DEF Woken, Local, Read
  <2>6. CASE Dequeued(w)
    BY <2>6 DEF Dequeued, Local, Read, Unlock
  <2>7. CASE DequeueHead(w)
    BY <2>7 DEF DequeueHead, Local, Read
  <2>8. CASE TakeHead(w)
    BY <2>8 DEF TakeHead
  <2>9. CASE KeepNode(w)
    BY <2>9 DEF KeepNode
  <2>10. CASE AdvanceHead(w)
    <3> USE <2>10 DEF AdvanceHead
    <3>1. mutex = w /\ pc'[w] = "fix_tail" /\ pc[Main] \notin {"enqueue", "set_tail"} /\ pc'[Main] = pc[Main]
      OBVIOUS
    <3>2. head \in Conns /\ \A v \in Workers : pc[v] # "fix_tail"
      BY <3>1 DEF CurInv, Nodes
    <3>3. head <= Enqueued /\ Enqueued' = Enqueued /\ Enqueued \in Int
      BY <3>1
    <3>4. tail = Enqueued /\ tail' = tail
      BY <3>1, <3>2 DEF Conns
    <3>5. head' = IF head = Enqueued THEN NIL ELSE head + 1
      BY <3>2, <3>3 DEF Conns
    <3> QED BY <3>1, <3>2, <3>3, <3>4, <3>5 DEF Conns, Nodes
  <2>11. CASE FixTail(w)
    BY <2>11 DEF FixTail
  <2>12. CASE FreeNode(w)
    <3> USE <2>12 DEF FreeNode
    <3>1. /\ Serving(w) = cur[w] /\ cur[w] # NIL /\ cur[w] <= Enqueued /\ tmp[w] = cur[w]
          /\ head # NIL => cur[w] < head
      BY DEF CurInv, OneHandler, Serving
    <3>2. Enqueued' = Enqueued /\ head' = head
      OBVIOUS
    <3> QED BY <3>1, <3>2
  <2>13. CASE Handle(w)
    BY <2>13 DEF Handle, Local, Read
  <2>14. CASE CloseMain(w)
    BY <2>14 DEF CloseMain, EndSession, Close, FreeClfd, Shut
  <2>15. CASE CloseShut(w)
    BY <2>15 DEF CloseShut, EndSession, Close, FreeClfd, Shut
  <2>16. CASE SetShut(w)
    BY <2>16 DEF SetShut
  <2>17. CASE Broadcast(w)
    BY <2>17 DEF Broadcast
  <2>18. CASE CloseQueued(w)
    BY <2>18 DEF CloseQueued, EndSession, Close, FreeClfd, Shut
  <2>19. CASE FreeData(w)
    BY <2>19 DEF FreeData, Free, Fatal
  <2>20. CASE StopListening(w)
    BY <2>20 DEF StopListening, Read
  <2> QED BY <1>3, <2>1, <2>2, <2>3, <2>4, <2>5, <2>6, <2>7, <2>8, <2>9, <2>10, <2>11, <2>12,
             <2>13, <2>14, <2>15, <2>16, <2>17, <2>18, <2>19, <2>20 DEF WorkerStep
<1>4. ASSUME NEW w \in Workers, ClientStep(w) \/ SpuriousWake(w) PROVE LinkInv'
  <2>1. CASE ClientEnds(w)
    BY <2>1 DEF ClientEnds, Attached, Shut
  <2>2. CASE UnknownMessage(w)
    BY <2>2 DEF UnknownMessage, Receive, Attached, Local, Read
  <2>3. CASE PlainRequest(w)
    BY <2>3 DEF PlainRequest, Receive, Attached, Local, Read
  <2>4. CASE FileRequest(w)
    BY <2>4 DEF FileRequest, Attached, Local, FreeClfd, Read
  <2>5. CASE ShutdownRequest(w)
    BY <2>5 DEF ShutdownRequest, Receive, Attached, Local, Read
  <2>6. CASE FailedRead(w)
    BY <2>6 DEF FailedRead
  <2>7. CASE Reply(w)
    BY <2>7 DEF Reply, Local, Read
  <2>8. CASE ParentSend(w)
    BY <2>8 DEF ParentSend
  <2>9. CASE ChildSend(w)
    BY <2>9 DEF ChildSend, EndSession, Close, FreeClfd, Shut
  <2>10. CASE SpuriousWake(w)
    BY <2>10 DEF SpuriousWake, Local, Read
  <2> QED BY <1>4, <2>1, <2>2, <2>3, <2>4, <2>5, <2>6, <2>7, <2>8, <2>9, <2>10 DEF ClientStep
<1> QED BY <1>1, <1>2, <1>3, <1>4 DEF Next

(* Every connection has one owner.                                             *)

\* A connection leaves the list for one worker and for good.
LEMMA OneHandlerStep ==
  ASSUME IInv, [Next]_vars
  PROVE  OneHandler'
<1> USE ThreadsAssumption, BoundsAssumption
    DEF IInv, TypeOK, Threads, OneHandler, CurInv, LinkInv, MainInv, DrainInv, InShutdown, Serving,
        Enqueued, LockDiscipline, UsesList, InDequeue, NIL, Goto, list, sockets
<1>1. CASE UNCHANGED vars
  BY <1>1 DEF vars
<1>2. ASSUME MainStep \/ Accept PROVE OneHandler'
  <2>1. CASE CreateData
    BY <2>1 DEF CreateData, Create
  <2>2. CASE Listen
    BY <2>2 DEF Listen
  <2>3. CASE Accept
    BY <2>3 DEF Accept
  <2>4. CASE LockToEnqueue
    BY <2>4 DEF LockToEnqueue, Lock
  <2>5. CASE Link
    <3> SUFFICES ASSUME ~shut, NEW v \in Workers, Serving(v)' # NIL
                 PROVE  /\ head' # NIL => Serving(v)' < head'
                        /\ \A u \in Workers \ {v} : Serving(u)' # Serving(v)'
      BY <2>5 DEF Link
    <3>1. \A u \in Workers : Serving(u)' = Serving(u)
      BY <2>5 DEF Link
    <3>2. Enqueued = accepted - 1 /\ Serving(v) <= Enqueued /\ Serving(v) \in Int
      BY <2>5 DEF Link, Nodes, Conns
    <3>3. head' # NIL => head' = accepted \/ head' = head
      BY <2>5 DEF Link
    <3> QED BY <3>1, <3>2, <3>3
  <2>6. CASE SetTail
    BY <2>6 DEF SetTail
  <2>7. CASE Signal
    BY <2>7 DEF Signal
  <2>8. CASE UnlockEnqueued
    BY <2>8 DEF UnlockEnqueued, Unlock
  <2>9. CASE FreePool
    BY <2>9 DEF FreePool, Free, Fatal
  <2>10. CASE Return
    BY <2>10 DEF Return
  <2> QED BY <1>2, <2>1, <2>2, <2>3, <2>4, <2>5, <2>6, <2>7, <2>8, <2>9, <2>10 DEF MainStep
<1>3. ASSUME NEW w \in Workers, WorkerStep(w) PROVE OneHandler'
  <2>1. CASE TestShut(w)
    BY <2>1 DEF TestShut, Local, Read
  <2>2. CASE LockMutex(w)
    BY <2>2 DEF LockMutex, Lock
  <2>3. CASE Wait(w)
    BY <2>3 DEF Wait, Unlock
  <2>4. CASE Relock(w)
    BY <2>4 DEF Relock, Lock
  <2>5. CASE Woken(w)
    BY <2>5 DEF Woken, Local, Read
  <2>6. CASE Dequeued(w)
    BY <2>6 DEF Dequeued, Local, Read, Unlock
  <2>7. CASE DequeueHead(w)
    BY <2>7 DEF DequeueHead, Local, Read
  <2>8. CASE TakeHead(w)
    <3> SUFFICES ASSUME ~shut PROVE OneHandler'
      BY <2>8 DEF TakeHead
    <3>1. Serving(w) = NIL /\ Serving(w)' = NIL
      BY <2>8 DEF TakeHead
    <3>2. \A v \in Workers \ {w} : Serving(v)' = Serving(v)
      BY <2>8 DEF TakeHead
    <3>3. head' = head
      BY <2>8 DEF TakeHead
    <3> HIDE DEF Serving
    <3> QED BY <3>1, <3>2, <3>3
  <2>9. CASE KeepNode(w)
    BY <2>9 DEF KeepNode
  <2>10. CASE AdvanceHead(w)
    <3> SUFFICES ASSUME ~shut, NEW v \in Workers, Serving(v)' # NIL
                 PROVE  /\ head' # NIL => Serving(v)' < head'
                        /\ \A u \in Workers \ {v} : Serving(u)' # Serving(v)'
      BY <2>10 DEF AdvanceHead
    <3>1. head \in Conns /\ head <= Enqueued /\ cur[w] = head
      BY <2>10 DEF AdvanceHead, Nodes
    <3>2. head' # NIL => head' = head + 1
      BY <2>10, <3>1 DEF AdvanceHead, Conns
    <3>3. Serving(w)' = head /\ \A u \in Workers \ {w} : Serving(u)' = Serving(u)
      BY <2>10, <3>1 DEF AdvanceHead
    <3>4. \A u \in Workers \ {w} : Serving(u) \in Int /\ (Serving(u) # NIL => Serving(u) < head)
      BY <3>1 DEF Nodes, Conns
    <3> HIDE DEF Serving
    <3>5. head \in Int
      BY <3>1 DEF Conns
    <3>6. CASE v = w
      BY <3>2, <3>3, <3>4, <3>5, <3>6
    <3>7. CASE v # w
      BY <3>2, <3>3, <3>4, <3>5, <3>7
    <3> QED BY <3>6, <3>7
  <2>11. CASE FixTail(w)
    BY <2>11 DEF FixTail
  <2>12. CASE FreeNode(w)
    BY <2>12 DEF FreeNode, Fatal
  <2>13. CASE Handle(w)
    BY <2>13 DEF Handle, Local, Read
  <2>14. CASE CloseMain(w)
    BY <2>14 DEF CloseMain, EndSession, Close, FreeClfd, Shut
  <2>15. CASE CloseShut(w)
    BY <2>15 DEF CloseShut, EndSession, Close, FreeClfd, Shut
  <2>16. CASE SetShut(w)
    BY <2>16 DEF SetShut
  <2>17. CASE Broadcast(w)
    BY <2>17 DEF Broadcast
  <2>18. CASE CloseQueued(w)
    BY <2>18 DEF CloseQueued, EndSession, Close, FreeClfd, Shut
  <2>19. CASE FreeData(w)
    BY <2>19 DEF FreeData, Free, Fatal
  <2>20. CASE StopListening(w)
    BY <2>20 DEF StopListening, Read
  <2> QED BY <1>3, <2>1, <2>2, <2>3, <2>4, <2>5, <2>6, <2>7, <2>8, <2>9, <2>10, <2>11, <2>12,
             <2>13, <2>14, <2>15, <2>16, <2>17, <2>18, <2>19, <2>20 DEF WorkerStep
<1>4. ASSUME NEW w \in Workers, ClientStep(w) \/ SpuriousWake(w) PROVE OneHandler'
  <2>1. CASE ClientEnds(w)
    BY <2>1 DEF ClientEnds, Attached, Shut
  <2>2. CASE UnknownMessage(w)
    BY <2>2 DEF UnknownMessage, Receive, Attached, Local, Read
  <2>3. CASE PlainRequest(w)
    BY <2>3 DEF PlainRequest, Receive, Attached, Local, Read
  <2>4. CASE FileRequest(w)
    BY <2>4 DEF FileRequest, Attached, Local, FreeClfd, Read
  <2>5. CASE ShutdownRequest(w)
    BY <2>5 DEF ShutdownRequest, Receive, Attached, Local, Read
  <2>6. CASE FailedRead(w)
    BY <2>6 DEF FailedRead
  <2>7. CASE Reply(w)
    BY <2>7 DEF Reply, Local, Read
  <2>8. CASE ParentSend(w)
    BY <2>8 DEF ParentSend
  <2>9. CASE ChildSend(w)
    BY <2>9 DEF ChildSend, EndSession, Close, FreeClfd, Shut
  <2>10. CASE SpuriousWake(w)
    BY <2>10 DEF SpuriousWake, Local, Read
  <2> QED BY <1>4, <2>1, <2>2, <2>3, <2>4, <2>5, <2>6, <2>7, <2>8, <2>9, <2>10 DEF ClientStep
<1> QED BY <1>1, <1>2, <1>3, <1>4 DEF Next

--------------------------------------------------------------------------------
(* The invariant as a whole, and what follows from it.                         *)

\* The inductive invariant holds at the start.
LEMMA IInvInit == Init => IInv
<1> SUFFICES ASSUME Init PROVE IInv
  OBVIOUS
<1>1. TypeOK /\ LockDiscipline /\ DrainInv /\ MainInv
  BY TypeInit, LockInit, MainInit
<1>2. CurInv /\ OneHandler
  BY ThreadsAssumption DEF Init, CurInv, OneHandler, Serving, Enqueued, Threads, NIL
<1>3. LinkInv
  BY ThreadsAssumption DEF Init, LinkInv, Enqueued, Threads, NIL
<1> QED BY <1>1, <1>2, <1>3 DEF IInv

\* Every step preserves the inductive invariant.
LEMMA IInvStep == IInv /\ [Next]_vars => IInv'
<1> SUFFICES ASSUME IInv, [Next]_vars PROVE IInv'
  OBVIOUS
<1>1. TypeOK' /\ LockDiscipline' /\ DrainInv'
  BY TypeStep, LockStep DEF IInv
<1>2. MainInv' /\ OneHandler'
  BY MainInvStep, OneHandlerStep
<1>3. ~shut' => CurInv' /\ LinkInv'
  BY CurInvStep, LinkInvStep
<1> QED BY <1>1, <1>2, <1>3 DEF IInv

\* The inductive invariant: until a shutdown the list and its threads between any two
\* statements, who holds which connection, and the tables; always the types and the
\* mutex, and it says of no socket that it is open.
THEOREM Inductive == Spec => []IInv
BY IInvInit, IInvStep, PTL DEF Spec

\* What LinkInv says of tail between statements gives ListShape at rest.
LEMMA ListShapeFromIInv == IInv => ListShape
<1> SUFFICES ASSUME IInv, ~shut PROVE ListShape
  BY DEF ListShape
<1> USE ThreadsAssumption, BoundsAssumption
    DEF IInv, TypeOK, Threads, LinkInv, MainInv, DrainInv, Enqueued, NIL
<1>1. ASSUME mutex = Nobody PROVE tail = IF head = NIL THEN NIL ELSE Enqueued
  BY <1>1 DEF LockDiscipline, UsesList, InDequeue
<1>2. ASSUME head # NIL
      PROVE  /\ head <= Enqueued
             /\ \A c \in head..(Enqueued - 1) : next[c] = c + 1
             /\ next[Enqueued] = NIL
             /\ \A c \in head..Enqueued : c \notin freed
  <2>1. head \in Conns /\ head <= Enqueued /\ Enqueued \in Conns
    BY <1>2 DEF Nodes, Conns
  <2>2. \A c \in head..Enqueued : c \in Conns /\ c >= head
    BY <2>1 DEF Conns
  <2>3. \A c \in head..Enqueued : c \notin freed
    BY <1>2, <2>1, <2>2 DEF Conns
  <2>4. \A c \in head..(Enqueued - 1) : next[c] = c + 1
    BY <1>2, <2>1, <2>2 DEF Conns
  <2> QED BY <2>1, <2>3, <2>4 DEF Conns
<1> QED BY <1>1, <1>2 DEF ListShape

\* Until a shutdown the list is the queue it stands for: the enqueued connections
\* that no worker took, in the order of their arrival, and no freed node.
THEOREM QueueIntegrity == Spec => []ListShape
BY Inductive, ListShapeFromIInv, PTL

\* Until a shutdown no two workers serve one connection, and none serves one that
\* is still on the list.
THEOREM OneOwner == Spec => []OneHandler
<1>1. IInv => OneHandler
  BY DEF IInv
<1> QED BY Inductive, <1>1, PTL

\* Whoever holds a connection runs after main has filled the pool.
LEMMA HeldMeansReady == IInv => TablesReady
<1> SUFFICES ASSUME IInv, ~shut, NEW w \in Workers, Serving(w) # NIL PROVE ~NotLive(Objects)
  BY DEF TablesReady
<1>1. accepted > 0
  BY BoundsAssumption DEF IInv, CurInv, Serving, TypeOK, Enqueued, Nodes, Conns, NIL
<1> QED BY <1>1 DEF IInv, MainInv, NotLive, Objects

\* Whatever clients send, the workers that tp_create starts before the tables exist
\* serve nobody until all of them do, and lose none before a shutdown.
THEOREM ServedFromTables == Spec => []TablesReady
BY Inductive, HeldMeansReady, PTL

--------------------------------------------------------------------------------
(* Wake-ups.                                                                   *)

\* The three counts of NoLostWakeup are numbers.
LEMMA CountType ==
  /\ IsFiniteSet(Lookers) /\ Cardinality(Lookers) \in Nat /\ Lookers \subseteq Workers
  /\ IsFiniteSet(Lookers') /\ Cardinality(Lookers') \in Nat
  /\ SignalsDue \in 0..1 /\ SignalsDue' \in 0..1
<1>1. /\ IsFiniteSet(Lookers) /\ Lookers \subseteq Workers
      /\ IsFiniteSet(Lookers') /\ Lookers' \subseteq Workers
  BY ThreadsAssumption, FS_Subset DEF Lookers
<1> QED BY <1>1, FS_CardinalityType DEF SignalsDue

\* A step that takes no looker and no due signal away, adds no connection and
\* makes nobody wait keeps the balance.
LEMMA WakeupFrame ==
  ASSUME NoLostWakeup, ~shut, NumPending' = NumPending, NumPending \in Int,
         SignalsDue' = SignalsDue, Lookers \subseteq Lookers',
         \A v \in Workers : pc'[v] = "wait" => pc[v] = "wait"
  PROVE  NoLostWakeup'
<1>1. Cardinality(Lookers) <= Cardinality(Lookers')
  BY CountType, FS_Subset
<1> QED BY <1>1, CountType DEF NoLostWakeup, SignalsDue

\* Every step that adds a connection or takes a looker away keeps the balance.
LEMMA WakeupStep ==
  ASSUME IInv, NoLostWakeup, [Next]_vars, ~shut'
  PROVE  NoLostWakeup'
<1> NumPending \in Int
  BY DEF IInv, TypeOK, NumPending, Enqueued, Nodes, Conns, NIL
<1> USE ThreadsAssumption, BoundsAssumption
    DEF IInv, TypeOK, Threads, MainInv, DrainInv, InShutdown, NumPending, Enqueued,
        SignalsDue, Goto, list, sockets, NIL
<1>1. CASE UNCHANGED vars
  BY <1>1 DEF vars, NoLostWakeup, Lookers
<1>2. ASSUME MainStep \/ Accept PROVE NoLostWakeup'
  <2>1. CASE CreateData
    BY <2>1, WakeupFrame DEF Lookers, CreateData, Create
  <2>2. CASE Listen
    BY <2>2, WakeupFrame DEF Lookers, Listen
  <2>3. CASE Accept
    BY <2>3, WakeupFrame DEF Lookers, Accept
  <2>4. CASE LockToEnqueue
    BY <2>4, WakeupFrame DEF Lookers, LockToEnqueue, Lock
  <2>5. CASE Link
    <3>1. /\ pc[Main] = "enqueue" /\ pc'[Main] = "set_tail" /\ Lookers' = Lookers
          /\ (\E v \in Workers : pc'[v] = "wait") => \E v \in Workers : pc[v] = "wait"
      BY <2>5 DEF Link, Lookers
    <3>2. head \in Nat /\ accepted \in Nat /\ mutex = Main
      BY <2>5 DEF Link, Nodes, Conns, LockDiscipline, UsesList, InDequeue
    <3>3. NumPending' = NumPending + 1 /\ NumPending \in Int
      <4>0. ~shut
        BY <2>5 DEF Link
      <4>1. tail = IF head = NIL THEN NIL ELSE accepted - 1
        BY <4>0, <3>1, <3>2 DEF LinkInv, LockDiscipline, UsesList, InDequeue
      <4>2. head # NIL => head <= accepted - 1
        BY <4>0, <3>1 DEF LinkInv
      <4>3. head' = IF head = NIL THEN accepted ELSE head
        BY <2>5, <3>2, <4>1, <4>2 DEF Link
      <4>4. accepted # NIL /\ accepted' = accepted
        BY <2>5 DEF Link, MainInv
      <4> QED BY <3>1, <3>2, <4>2, <4>3, <4>4 DEF NumPending, Enqueued
    <3>4. Lookers' = Lookers /\ SignalsDue' = SignalsDue + 1 /\ ~shut
      BY <2>5, <3>1 DEF Link
    <3> HIDE DEF NumPending
    <3> QED BY <3>1, <3>3, <3>4, CountType DEF NoLostWakeup
  <2>6. CASE SetTail
    BY <2>6, WakeupFrame DEF Lookers, SetTail
  <2>7. CASE Signal
    <3>1. pc[Main] = "signal" /\ pc'[Main] = "unlock" /\ NumPending' = NumPending /\ ~shut
      BY <2>7 DEF Signal
    <3> SUFFICES ASSUME NEW v \in Workers, pc'[v] = "wait" PROVE NoLostWakeup'
      BY DEF NoLostWakeup
    <3>2. PICK u \in Workers : pc[u] = "wait" /\ pc' = [pc EXCEPT ![u] = "wake", ![Main] = "unlock"]
      BY <2>7 DEF Signal
    <3>3. Lookers' = Lookers \cup {u} /\ u \notin Lookers
      BY <3>2 DEF Lookers
    <3>4. Cardinality(Lookers') = Cardinality(Lookers) + 1
      BY <3>3, CountType, FS_AddElement
    <3>5. NumPending <= Cardinality(Lookers) + 1
      BY <3>1, <3>2 DEF NoLostWakeup, SignalsDue
    <3> QED BY <3>1, <3>4, <3>5, CountType DEF NoLostWakeup, SignalsDue
  <2>8. CASE UnlockEnqueued
    BY <2>8, WakeupFrame DEF Lookers, UnlockEnqueued, Unlock
  <2>9. CASE FreePool
    BY <2>9, WakeupFrame DEF Lookers, FreePool, Free, Fatal
  <2>10. CASE Return
    BY <2>10, WakeupFrame DEF Lookers, Return
  <2> QED BY <1>2, <2>1, <2>2, <2>3, <2>4, <2>5, <2>6, <2>7, <2>8, <2>9, <2>10 DEF MainStep
<1>3. ASSUME NEW w \in Workers, WorkerStep(w) PROVE NoLostWakeup'
  <2>1. CASE TestShut(w)
    BY <2>1, WakeupFrame DEF Lookers, TestShut, Local, Read
  <2>2. CASE LockMutex(w)
    BY <2>2, WakeupFrame DEF Lookers, LockMutex, Lock
  <2>3. CASE Wait(w)
    <3>1. head' = NIL
      BY <2>3 DEF Wait, Unlock, CurInv
    <3> QED BY <3>1, CountType DEF NoLostWakeup, NumPending, SignalsDue
  <2>4. CASE Relock(w)
    BY <2>4, WakeupFrame DEF Lookers, Relock, Lock
  <2>5. CASE Woken(w)
    BY <2>5, WakeupFrame DEF Lookers, Woken, Local, Read
  <2>6. CASE Dequeued(w)
    BY <2>6, WakeupFrame DEF Lookers, Dequeued, Local, Read, Unlock
  <2>7. CASE DequeueHead(w)
    <3>1. CASE head = NIL
      <4>1. head' = NIL
        BY <2>7, <3>1 DEF DequeueHead, Local
      <4> QED BY <4>1, CountType DEF NoLostWakeup, NumPending, SignalsDue
    <3>2. CASE head # NIL
      BY <2>7, <3>2, WakeupFrame DEF DequeueHead, Local, Lookers
    <3> QED BY <3>1, <3>2
  <2>8. CASE TakeHead(w)
    BY <2>8, WakeupFrame DEF Lookers, TakeHead
  <2>9. CASE KeepNode(w)
    BY <2>9, WakeupFrame DEF Lookers, KeepNode
  <2>10. CASE AdvanceHead(w)
    <3> USE <2>10 DEF AdvanceHead
    <3>1. head \in Conns /\ head <= Enqueued /\ Enqueued' = Enqueued /\ Enqueued \in Int
      BY DEF CurInv, LinkInv, Nodes, Enqueued
    <3>2. head' = IF head = Enqueued THEN NIL ELSE head + 1
      BY <3>1 DEF LinkInv, Conns
    <3>3. NumPending' = NumPending - 1 /\ NumPending \in Int
      BY <3>1, <3>2 DEF NumPending, Conns
    <3>4. Lookers' = Lookers \ {w} /\ w \in Lookers
      BY DEF Lookers
    <3>5. Cardinality(Lookers') = Cardinality(Lookers) - 1
      BY <3>4, CountType, FS_RemoveElement
    <3>6. /\ SignalsDue' = SignalsDue
          /\ (\E v \in Workers : pc'[v] = "wait") => \E v \in Workers : pc[v] = "wait"
      BY DEF SignalsDue
    <3> QED BY <3>3, <3>5, <3>6, CountType DEF NoLostWakeup, SignalsDue
  <2>11. CASE FixTail(w)
    BY <2>11, WakeupFrame DEF Lookers, FixTail
  <2>12. CASE FreeNode(w)
    BY <2>12, WakeupFrame DEF Lookers, FreeNode, Fatal
  <2>13. CASE Handle(w)
    BY <2>13, WakeupFrame DEF Lookers, Handle, Local, Read
  <2>14. CASE CloseMain(w)
    BY <2>14, WakeupFrame DEF Lookers, CloseMain, EndSession, Close, FreeClfd, Shut
  <2>15. CASE CloseShut(w)
    BY <2>15, WakeupFrame DEF Lookers, CloseShut, EndSession, Close, FreeClfd, Shut
  <2>16. CASE SetShut(w)
    BY <2>16, WakeupFrame DEF Lookers, SetShut
  <2>17. CASE Broadcast(w)
    BY <2>17, WakeupFrame DEF Lookers, Broadcast
  <2>18. CASE CloseQueued(w)
    BY <2>18, WakeupFrame DEF Lookers, CloseQueued, EndSession, Close, FreeClfd, Shut
  <2>19. CASE FreeData(w)
    BY <2>19, WakeupFrame DEF Lookers, FreeData, Free, Fatal
  <2>20. CASE StopListening(w)
    BY <2>20, WakeupFrame DEF Lookers, StopListening, Read
  <2> QED BY <1>3, <2>1, <2>2, <2>3, <2>4, <2>5, <2>6, <2>7, <2>8, <2>9, <2>10, <2>11, <2>12,
             <2>13, <2>14, <2>15, <2>16, <2>17, <2>18, <2>19, <2>20 DEF WorkerStep
<1>4. ASSUME NEW w \in Workers, ClientStep(w) \/ SpuriousWake(w) PROVE NoLostWakeup'
  <2>1. CASE ClientEnds(w)
    BY <2>1, WakeupFrame DEF Lookers, ClientEnds, Attached, Shut
  <2>2. CASE UnknownMessage(w)
    BY <2>2, WakeupFrame DEF Lookers, UnknownMessage, Receive, Attached, Local, Read
  <2>3. CASE PlainRequest(w)
    BY <2>3, WakeupFrame DEF Lookers, PlainRequest, Receive, Attached, Local, Read
  <2>4. CASE FileRequest(w)
    BY <2>4, WakeupFrame DEF Lookers, FileRequest, Attached, Local, FreeClfd, Read
  <2>5. CASE ShutdownRequest(w)
    BY <2>5, WakeupFrame DEF Lookers, ShutdownRequest, Receive, Attached, Local, Read
  <2>6. CASE FailedRead(w)
    BY <2>6, WakeupFrame DEF Lookers, FailedRead
  <2>7. CASE Reply(w)
    BY <2>7, WakeupFrame DEF Lookers, Reply, Local, Read
  <2>8. CASE ParentSend(w)
    BY <2>8, WakeupFrame DEF Lookers, ParentSend
  <2>9. CASE ChildSend(w)
    BY <2>9, WakeupFrame DEF Lookers, ChildSend, EndSession, Close, FreeClfd, Shut
  <2>10. CASE SpuriousWake(w)
    BY <2>10, WakeupFrame DEF Lookers, SpuriousWake, Local, Read
  <2> QED BY <1>4, <2>1, <2>2, <2>3, <2>4, <2>5, <2>6, <2>7, <2>8, <2>9, <2>10 DEF ClientStep
<1> QED BY <1>1, <1>2, <1>3, <1>4 DEF Next

\* While a worker waits, every queued connection has a thread coming for it: no
\* interleaving of signals, wake-ups and late arrivals leaves one behind.
THEOREM WakeupsSuffice == Spec => []NoLostWakeup
<1>1. Init => NoLostWakeup
  BY ThreadsAssumption DEF Init, NoLostWakeup, Threads
<1>2. IInv /\ NoLostWakeup /\ [Next]_vars => NoLostWakeup'
  BY WakeupStep DEF NoLostWakeup
<1> QED BY <1>1, <1>2, Inductive, PTL DEF Spec

--------------------------------------------------------------------------------
(* Until a shutdown the pool is a queue.                                       *)

\* The sequences a, a + 1, ... that connections form on the list.
LEMMA IntervalSeq ==
  ASSUME NEW a \in Int, NEW n \in Nat, NEW q, q = [i \in 1..n |-> a + i - 1]
  PROVE  /\ q \in Seq(Int) /\ Len(q) = n /\ \A i \in 1..n : q[i] = a + i - 1
         /\ n > 0 => q # <<>> /\ Head(q) = a
<1>1. q \in Seq(Int) /\ Len(q) = n /\ \A i \in 1..n : q[i] = a + i - 1
  OBVIOUS
<1>2. n > 0 => q[1] = a /\ q # <<>>
  BY <1>1
<1> QED BY <1>1, <1>2

\* Linking a connection appends its number.
LEMMA IntervalAppend ==
  ASSUME NEW a \in Int, NEW n \in Nat, NEW q, q = [i \in 1..n |-> a + i - 1],
         NEW r, r = [i \in 1..(n + 1) |-> a + i - 1]
  PROVE  r = Append(q, a + n)
<1>1. q \in Seq(Int) /\ Len(q) = n /\ r \in Seq(Int) /\ Len(r) = n + 1
  BY IntervalSeq
<1>2. Append(q, a + n) \in Seq(Int) /\ Len(Append(q, a + n)) = n + 1
  BY <1>1, AppendProperties
<1>3. ASSUME NEW i \in 1..(n + 1) PROVE r[i] = Append(q, a + n)[i]
  <2>1. CASE i = n + 1
    BY <1>1, <2>1, AppendProperties
  <2>2. CASE i # n + 1
    <3>1. i \in 1..n /\ r[i] = q[i]
      BY <2>2
    <3>2. Append(q, a + n)[i] = q[i]
      BY <1>1, <3>1, AppendProperties
    <3> QED BY <3>1, <3>2
  <2> QED BY <2>1, <2>2
<1> QED BY <1>1, <1>2, <1>3, SeqEqual

\* Advancing the head drops the first number.
LEMMA IntervalTail ==
  ASSUME NEW a \in Int, NEW n \in Nat \ {0}, NEW q, q = [i \in 1..n |-> a + i - 1],
         NEW r, r = [i \in 1..(n - 1) |-> (a + 1) + i - 1]
  PROVE  r = Tail(q)
<1>1. q \in Seq(Int) /\ Len(q) = n /\ q # <<>> /\ r \in Seq(Int) /\ Len(r) = n - 1
  <2>1. n \in Nat /\ n > 0 /\ n - 1 \in Nat /\ a + 1 \in Int
    OBVIOUS
  <2>2. q \in Seq(Int) /\ Len(q) = n /\ q # <<>>
    BY <2>1, IntervalSeq
  <2>3. r \in Seq(Int) /\ Len(r) = n - 1
    BY <2>1, IntervalSeq
  <2> QED BY <2>2, <2>3
<1>2. /\ Tail(q) \in Seq(Int) /\ Len(Tail(q)) = n - 1
      /\ \A i \in 1..(n - 1) : Tail(q)[i] = q[i + 1]
  BY <1>1, HeadTailProperties
<1>3. ASSUME NEW i \in 1..(n - 1) PROVE r[i] = Tail(q)[i]
  <2>1. q[i + 1] = a + (i + 1) - 1
    OBVIOUS
  <2> QED BY <1>2, <2>1
<1> QED BY <1>1, <1>2, <1>3, SeqEqual

\* A step that leaves list, hands and arrivals alone leaves the queue alone.
LEMMA QueueStutter ==
  ASSUME head' = head, Enqueued' = Enqueued, \A w \in Workers : Serving(w)' = Serving(w)
  PROVE  UNCHANGED Queue!wqVars
BY DEF Queue!wqVars, NumPending

\* Linking a node is the arrival of a connection.
LEMMA LinkArrives ==
  ASSUME IInv, ~shut, Link
  PROVE  Queue!Arrive
<1> USE ThreadsAssumption, BoundsAssumption DEF IInv, TypeOK, Threads, Goto, sockets, NIL
<1>1. /\ Enqueued = accepted - 1 /\ Enqueued' = accepted /\ accepted \in Conns
      /\ mutex = Main /\ \A v \in Workers : Serving(v)' = Serving(v)
  BY DEF Link, Enqueued, MainInv, LockDiscipline, UsesList, InDequeue, Serving, Conns
<1>2. head \in Nat /\ (head # NIL => head <= accepted - 1)
  BY <1>1 DEF LinkInv, Nodes, Conns
<1>3. tail = IF head = NIL THEN NIL ELSE accepted - 1
  BY <1>1 DEF Link, LinkInv, DrainInv, LockDiscipline, UsesList, InDequeue
<1>4. head' = IF head = NIL THEN accepted ELSE head
  BY <1>1, <1>2, <1>3 DEF Link
<1>5. /\ NumPending \in Nat /\ NumPending < NumConns /\ NumPending' = NumPending + 1
      /\ head' + NumPending = accepted
  BY <1>1, <1>2, <1>4 DEF NumPending, Conns
<1> DEFINE q == [i \in 1..NumPending |-> head + i - 1]
<1>6. q \in Seq(Int) /\ Len(q) = NumPending
  BY <1>2, <1>5, IntervalSeq
<1>7. q' = Append(q, accepted)
  <2>1. q' = [i \in 1..(NumPending + 1) |-> head' + i - 1]
    BY <1>5
  <2>2. CASE head = NIL
    <3>1. NumPending = 0 /\ head' = accepted /\ q = [i \in 1..NumPending |-> head' + i - 1]
      BY <1>4, <2>2 DEF NumPending
    <3> QED BY <1>1, <1>5, <2>1, <3>1, IntervalAppend DEF Conns
  <2>3. CASE head # NIL
    <3>1. head' = head
      BY <1>4, <2>3
    <3> QED BY <1>2, <1>5, <2>1, <3>1, IntervalAppend
  <2> QED BY <2>2, <2>3
<1>8. Enqueued' = Enqueued + 1
  BY <1>1 DEF Conns
<1> HIDE DEF q
<1>9. [v \in Workers |-> Serving(v)]' = [v \in Workers |-> Serving(v)]
  BY <1>1
<1> QED BY <1>1, <1>5, <1>6, <1>7, <1>8, <1>9 DEF Queue!Arrive, q

\* Advancing the head is the taking of a connection.
LEMMA AdvanceTakes ==
  ASSUME IInv, ~shut, NEW w \in Workers, AdvanceHead(w)
  PROVE  Queue!Take(w)
<1> USE ThreadsAssumption, BoundsAssumption DEF IInv, TypeOK, Threads, Goto, sockets, NIL
<1>1. /\ head \in Nat /\ head # NIL /\ head <= Enqueued /\ Enqueued' = Enqueued /\ Enqueued \in Nat
      /\ Enqueued \in Conns /\ head \in Conns
  BY DEF AdvanceHead, CurInv, LinkInv, Enqueued, Nodes, Conns
<1>2. head' = IF head = Enqueued THEN NIL ELSE head + 1
  BY <1>1 DEF AdvanceHead, LinkInv, Conns
<1>3. Serving(w) = NIL /\ \A v \in Workers : Serving(v)' = IF v = w THEN head ELSE Serving(v)
  BY DEF AdvanceHead, Serving, CurInv
<1>4. NumPending \in Nat \ {0} /\ NumPending' = NumPending - 1
  BY <1>1, <1>2 DEF NumPending
<1> DEFINE q == [i \in 1..NumPending |-> head + i - 1]
<1>5. /\ q = [i \in 1..NumPending |-> head + i - 1]
      /\ q' = [i \in 1..(NumPending - 1) |-> (head + 1) + i - 1]
  BY <1>1, <1>2, <1>4 DEF NumPending
<1>6. /\ q \in Seq(Int) /\ q # <<>> /\ Head(q) = head /\ Len(q) = NumPending
      /\ q' = Tail(q)
  <2> HIDE DEF q
  <2>1. NumPending \in Nat /\ NumPending > 0 /\ head \in Int
    BY <1>1, <1>4
  <2>2. q \in Seq(Int) /\ Len(q) = NumPending /\ (NumPending > 0 => q # <<>> /\ Head(q) = head)
    <3>1. q = [i \in 1..NumPending |-> head + i - 1]
      BY <1>5
    <3> QED BY ZenonT(60), <2>1, <3>1, IntervalSeq
  <2>3. q' = Tail(q)
    BY <1>4, <1>5, <2>1, IntervalTail
  <2> QED BY <2>1, <2>2, <2>3
<1> HIDE DEF q
<1>7. [v \in Workers |-> Serving(v)]' = [[v \in Workers |-> Serving(v)] EXCEPT ![w] = head]
  BY <1>3
<1> QED BY <1>1, <1>3, <1>5, <1>6, <1>7 DEF Queue!Take, Queue!Idle, q

\* Giving up a connection is the end of its service.
LEMMA CloseFinishes ==
  ASSUME NEW w \in Workers, cur \in [Workers -> Nodes], cur[w] # NIL, pc[w] \notin {"keep", "advance"},
         cur' = [cur EXCEPT ![w] = NIL], \A v \in Workers \ {w} : pc'[v] = pc[v],
         head' = head, Enqueued' = Enqueued
  PROVE  Queue!Finish(w)
<1>1. Serving(w) # NIL /\ \A v \in Workers : Serving(v)' = IF v = w THEN NIL ELSE Serving(v)
  BY DEF Serving
<1>2. [v \in Workers |-> Serving(v)]' = [[v \in Workers |-> Serving(v)] EXCEPT ![w] = NIL]
  BY <1>1
<1> QED BY <1>1, <1>2 DEF Queue!Finish, Queue!Idle, NIL, NumPending

\* Every step of the pool is a step of the queue or leaves it as it is.
LEMMA QueueStep ==
  ASSUME IInv, ~shut, [Next]_vars
  PROVE  [Queue!WQNext]_(Queue!wqVars)
<1> USE ThreadsAssumption, BoundsAssumption
    DEF IInv, TypeOK, Threads, DrainInv, InShutdown, MainInv, Serving, Enqueued, NIL, Goto,
        list, sockets, Queue!WQNext
<1>1. CASE UNCHANGED vars
  BY <1>1, QueueStutter DEF vars
<1>2. ASSUME MainStep \/ Accept PROVE [Queue!WQNext]_(Queue!wqVars)
  <2>1. CASE CreateData
    BY <2>1, QueueStutter DEF CreateData, Create
  <2>2. CASE Listen
    BY <2>2, QueueStutter DEF Listen
  <2>3. CASE Accept
    BY <2>3, QueueStutter DEF Accept
  <2>4. CASE LockToEnqueue
    BY <2>4, QueueStutter DEF LockToEnqueue, Lock
  <2>5. CASE Link
    BY <2>5, LinkArrives
  <2>6. CASE SetTail
    BY <2>6, QueueStutter DEF SetTail
  <2>7. CASE Signal
    BY <2>7, QueueStutter DEF Signal
  <2>8. CASE UnlockEnqueued
    BY <2>8, QueueStutter DEF UnlockEnqueued, Unlock
  <2>9. CASE FreePool
    BY <2>9, QueueStutter DEF FreePool, Free, Fatal
  <2>10. CASE Return
    BY <2>10, QueueStutter DEF Return
  <2> QED BY <1>2, <2>1, <2>2, <2>3, <2>4, <2>5, <2>6, <2>7, <2>8, <2>9, <2>10 DEF MainStep
<1>3. ASSUME NEW w \in Workers, WorkerStep(w) PROVE [Queue!WQNext]_(Queue!wqVars)
  <2>1. CASE TestShut(w)
    BY <2>1, QueueStutter DEF TestShut, Local, Read
  <2>2. CASE LockMutex(w)
    BY <2>2, QueueStutter DEF LockMutex, Lock
  <2>3. CASE Wait(w)
    BY <2>3, QueueStutter DEF Wait, Unlock
  <2>4. CASE Relock(w)
    BY <2>4, QueueStutter DEF Relock, Lock
  <2>5. CASE Woken(w)
    BY <2>5, QueueStutter DEF Woken, Local, Read
  <2>6. CASE Dequeued(w)
    BY <2>6, QueueStutter DEF Dequeued, Local, Read, Unlock
  <2>7. CASE DequeueHead(w)
    BY <2>7, QueueStutter DEF DequeueHead, Local, Read
  <2>8. CASE TakeHead(w)
    <3>1. Serving(w)' = Serving(w)
      BY <2>8 DEF TakeHead, CurInv
    <3> QED BY <2>8, <3>1, QueueStutter DEF TakeHead
  <2>9. CASE KeepNode(w)
    BY <2>9, QueueStutter DEF KeepNode
  <2>10. CASE AdvanceHead(w)
    BY <2>10, AdvanceTakes
  <2>11. CASE FixTail(w)
    BY <2>11, QueueStutter DEF FixTail
  <2>12. CASE FreeNode(w)
    BY <2>12, QueueStutter DEF FreeNode, Fatal
  <2>13. CASE Handle(w)
    BY <2>13, QueueStutter DEF Handle, Local, Read
  <2>14. CASE CloseMain(w)
    <3>1. /\ cur' = [cur EXCEPT ![w] = NIL] /\ cur[w] # NIL /\ pc[w] \notin {"keep", "advance"}
          /\ head' = head /\ Enqueued' = Enqueued /\ \A v \in Workers \ {w} : pc'[v] = pc[v]
      BY <2>14 DEF CloseMain, EndSession, Close, FreeClfd, Shut, CurInv
    <3> QED BY <3>1, CloseFinishes
  <2>15. CASE CloseShut(w)
    <3>1. /\ cur' = [cur EXCEPT ![w] = NIL] /\ cur[w] # NIL /\ pc[w] \notin {"keep", "advance"}
          /\ head' = head /\ Enqueued' = Enqueued /\ \A v \in Workers \ {w} : pc'[v] = pc[v]
      BY <2>15 DEF CloseShut, EndSession, Close, FreeClfd, Shut, CurInv
    <3> QED BY <3>1, CloseFinishes
  <2>16. CASE SetShut(w)
    BY <2>16, QueueStutter DEF SetShut
  <2>17. CASE Broadcast(w)
    BY <2>17, QueueStutter DEF Broadcast
  <2>18. CASE CloseQueued(w)
    BY <2>18 DEF CloseQueued, EndSession
  <2>19. CASE FreeData(w)
    BY <2>19 DEF FreeData, Free, Fatal
  <2>20. CASE StopListening(w)
    BY <2>20, QueueStutter DEF StopListening, Read
  <2> QED BY <1>3, <2>1, <2>2, <2>3, <2>4, <2>5, <2>6, <2>7, <2>8, <2>9, <2>10, <2>11, <2>12,
             <2>13, <2>14, <2>15, <2>16, <2>17, <2>18, <2>19, <2>20 DEF WorkerStep
<1>4. ASSUME NEW w \in Workers, ClientStep(w) \/ SpuriousWake(w) PROVE [Queue!WQNext]_(Queue!wqVars)
  <2>1. CASE ClientEnds(w)
    BY <2>1, QueueStutter DEF ClientEnds, Attached, Shut
  <2>2. CASE UnknownMessage(w)
    BY <2>2, QueueStutter DEF UnknownMessage, Receive, Attached, Local, Read
  <2>3. CASE PlainRequest(w)
    BY <2>3, QueueStutter DEF PlainRequest, Receive, Attached, Local, Read
  <2>4. CASE FileRequest(w)
    <3>1. CASE UNCHANGED cur
      BY <2>4, <3>1, QueueStutter DEF FileRequest, Attached, Local, FreeClfd, CurInv
    <3>2. CASE ~UNCHANGED cur
      <4>1. /\ cur' = [cur EXCEPT ![w] = NIL] /\ cur[w] # NIL /\ pc[w] \notin {"keep", "advance"}
            /\ head' = head /\ Enqueued' = Enqueued /\ \A v \in Workers \ {w} : pc'[v] = pc[v]
        BY <2>4, <3>2 DEF FileRequest, Attached, Local, FreeClfd, CurInv
      <4> QED BY <4>1, CloseFinishes
    <3> QED BY <3>1, <3>2
  <2>5. CASE ShutdownRequest(w)
    BY <2>5, QueueStutter DEF ShutdownRequest, Receive, Attached, Local, Read
  <2>6. CASE FailedRead(w)
    BY <2>6, QueueStutter DEF FailedRead
  <2>7. CASE Reply(w)
    BY <2>7, QueueStutter DEF Reply, Local, Read
  <2>8. CASE ParentSend(w)
    BY <2>8, QueueStutter DEF ParentSend
  <2>9. CASE ChildSend(w)
    <3>1. /\ cur' = [cur EXCEPT ![w] = NIL] /\ cur[w] # NIL /\ pc[w] \notin {"keep", "advance"}
          /\ head' = head /\ Enqueued' = Enqueued /\ \A v \in Workers \ {w} : pc'[v] = pc[v]
      BY <2>9 DEF ChildSend, EndSession, Close, FreeClfd, Shut, CurInv
    <3> QED BY <3>1, CloseFinishes
  <2>10. CASE SpuriousWake(w)
    BY <2>10, QueueStutter DEF SpuriousWake, Local, Read
  <2> QED BY <1>4, <2>1, <2>2, <2>3, <2>4, <2>5, <2>6, <2>7, <2>8, <2>9, <2>10 DEF ClientStep
<1> QED BY <1>1, <1>2, <1>3, <1>4 DEF Next

\* tp->shut is never reset.
LEMMA ShutIsFinal == ASSUME [Next]_vars, shut PROVE shut'
<1>1. MainStep \/ Accept \/ UNCHANGED vars => shut' = shut
  BY DEF vars, list, sockets, MainStep, CreateData, Create, Listen, Accept, LockToEnqueue, Lock,
     Link, SetTail, Signal, UnlockEnqueued, Unlock, FreePool, Free, Return
<1>2. ASSUME NEW w \in Workers, WorkerStep(w) PROVE shut' = shut \/ shut'
  BY <1>2 DEF list, sockets, WorkerStep, TestShut, LockMutex, Lock, Wait, Unlock, Relock, Woken,
     Dequeued, Local, DequeueHead, TakeHead, KeepNode, AdvanceHead, FixTail, FreeNode, Handle,
     CloseMain, CloseShut, EndSession, SetShut, Broadcast, CloseQueued, FreeData, Free, StopListening
<1>3. ASSUME NEW w \in Workers, ClientStep(w) \/ SpuriousWake(w) PROVE shut' = shut
  BY <1>3 DEF list, sockets, ClientStep, ClientEnds, UnknownMessage, PlainRequest, FileRequest,
     ShutdownRequest, Receive, FailedRead, Reply, ParentSend, ChildSend, EndSession, SpuriousWake,
     Local
<1> QED BY <1>1, <1>2, <1>3 DEF Next

\* A step that neither opens a socket, nor moves the head, nor takes a connection
\* out of a worker's hands keeps the sockets accounted for.
LEMMA ReleasedFrame ==
  ASSUME SocketsReleased, ~shut, head' = head, Enqueued' = Enqueued,
         \A c \in Conns : sock'[c] = "open" => sock[c] = "open", 1..Enqueued \subseteq Conns,
         \A v \in Workers : cur[v] # NIL => cur'[v] = cur[v]
  PROVE  SocketsReleased'
<1>1. 0 \notin 1..Enqueued
  OBVIOUS
<1> QED BY <1>1 DEF SocketsReleased, NIL

\* Nor does a step that closes what it takes out of a worker's hands.
LEMMA ReleasedClose ==
  ASSUME IInv, SocketsReleased, ~shut, NEW w \in Workers, Close(w), head' = head,
         Enqueued' = Enqueued
  PROVE  SocketsReleased'
<1>1. sock \in [Conns -> {"new", "open", "closed"}] /\ cur \in [Workers -> Nodes]
  BY DEF IInv, TypeOK
<1>2. Enqueued \in Int /\ 1..Enqueued \subseteq Conns
  BY BoundsAssumption DEF IInv, TypeOK, Enqueued, Conns
<1> SUFFICES ASSUME NEW c \in 1..Enqueued, sock'[c] = "open", head # NIL => c < head
             PROVE  \E v \in Workers : cur'[v] = c
  BY DEF SocketsReleased
<1>3. c # cur[w] /\ sock[c] = "open"
  BY <1>1, <1>2 DEF Close, Shut
<1>4. PICK v \in Workers : cur[v] = c
  BY <1>3 DEF SocketsReleased
<1> QED BY <1>1, <1>3, <1>4 DEF Close, FreeClfd

\* The node that leaves the list is in the hands of the worker that takes it off.
LEMMA ReleasedAdvance ==
  ASSUME IInv, SocketsReleased, ~shut, NEW w \in Workers, AdvanceHead(w)
  PROVE  SocketsReleased'
<1>1. cur[w] = head /\ cur[w] # NIL /\ cur' = cur /\ sock' = sock /\ accepted' = accepted
  BY DEF IInv, CurInv, AdvanceHead, sockets
<1>2. head \in Conns /\ head <= Enqueued /\ head \in Int
  BY <1>1, BoundsAssumption DEF IInv, TypeOK, Nodes, Conns, LinkInv
<1>3. Enqueued' = Enqueued /\ Enqueued \in Int
  BY <1>1, ThreadsAssumption, BoundsAssumption DEF AdvanceHead, Goto, Enqueued, IInv, TypeOK, Threads
<1>4. head' = next[head]
  BY <1>1 DEF AdvanceHead
<1>5. head < Enqueued => head' = head + 1
  BY <1>1, <1>2, <1>4 DEF IInv, LinkInv
<1> SUFFICES ASSUME NEW c \in 1..Enqueued, sock[c] = "open", head' # NIL => c < head'
             PROVE  \E v \in Workers : cur[v] = c
  BY <1>1, <1>3 DEF SocketsReleased
<1>6. CASE head < Enqueued
  <2>1. head' # NIL /\ c < head + 1
    BY <1>2, <1>5, <1>6 DEF Conns, NIL
  <2>2. c < head \/ c = head
    BY <1>2, <2>1
  <2> QED BY <1>1, <2>2 DEF SocketsReleased
<1>7. CASE head = Enqueued
  <2>1. c < head \/ c = head
    BY <1>2, <1>7
  <2> QED BY <1>1, <2>1 DEF SocketsReleased
<1> QED BY <1>2, <1>3, <1>6, <1>7

\* The node main links goes behind the head.
LEMMA ReleasedLink ==
  ASSUME IInv, SocketsReleased, ~shut, Link
  PROVE  SocketsReleased'
<1>1. /\ pc[Main] = "enqueue" /\ pc'[Main] = "set_tail" /\ mutex = Main
      /\ cur' = cur /\ sock' = sock /\ accepted' = accepted
  BY ThreadsAssumption DEF Link, Goto, IInv, TypeOK, Threads, LockDiscipline, UsesList, InDequeue, sockets
<1>2. Enqueued = accepted - 1 /\ Enqueued' = accepted /\ accepted \in Nat /\ head \in Nat
  BY <1>1, BoundsAssumption DEF Enqueued, IInv, TypeOK, Nodes, Conns, NIL
<1>3. (head # NIL => head <= Enqueued) /\ accepted > 0
  BY <1>1 DEF IInv, LinkInv, MainInv
<1>4. \A w \in Workers : pc[w] # "fix_tail"
  BY <1>1, ThreadsAssumption DEF IInv, LockDiscipline, UsesList, InDequeue, DrainInv, Threads
<1>5. tail = IF head = NIL THEN NIL ELSE Enqueued
  BY <1>1, <1>4 DEF IInv, LinkInv
<1>6. head' = IF head = NIL THEN accepted ELSE head
  BY <1>2, <1>3, <1>5 DEF Link, NIL
<1> SUFFICES ASSUME NEW c \in 1..Enqueued', sock[c] = "open", head' # NIL => c < head'
             PROVE  \E v \in Workers : cur[v] = c
  BY <1>1 DEF SocketsReleased
<1>7. c \in 1..Enqueued /\ (head # NIL => c < head)
  BY <1>2, <1>3, <1>6 DEF NIL
<1> QED BY <1>7 DEF SocketsReleased

\* Where no client asks for a file, no step before a shutdown lets a socket go open.
LEMMA ReleasedStep ==
  ASSUME "file" \notin Kinds, IInv, ~shut, SocketsReleased, [Next]_vars
  PROVE  SocketsReleased'
<1> 1..Enqueued \subseteq Conns
  BY BoundsAssumption DEF IInv, TypeOK, Enqueued, Conns
<1> USE ThreadsAssumption, BoundsAssumption
    DEF IInv, TypeOK, Threads, Enqueued, InShutdown, Goto, list, sockets
<1>1. CASE UNCHANGED vars
  BY <1>1, ReleasedFrame DEF vars
<1>2. ASSUME MainStep \/ Accept PROVE SocketsReleased'
  <2>1. CASE CreateData
    BY <2>1, ReleasedFrame DEF CreateData, Create
  <2>2. CASE Listen
    BY <2>2, ReleasedFrame DEF Listen
  <2>3. CASE Accept
    <3>1. /\ Enqueued = accepted /\ Enqueued' = accepted /\ accepted \in Nat
          /\ head' = head /\ cur' = cur /\ \A c \in Conns : c # accepted + 1 => sock'[c] = sock[c]
      BY <2>3 DEF Accept
    <3>2. 1..accepted \subseteq Conns \ {accepted + 1}
      BY <3>1 DEF Conns
    <3> HIDE DEF Enqueued
    <3> QED BY <3>1, <3>2 DEF SocketsReleased
  <2>4. CASE LockToEnqueue
    BY <2>4, ReleasedFrame DEF LockToEnqueue, Lock
  <2>5. CASE Link
    BY <2>5, ReleasedLink
  <2>6. CASE SetTail
    BY <2>6, ReleasedFrame DEF SetTail
  <2>7. CASE Signal
    BY <2>7, ReleasedFrame DEF Signal
  <2>8. CASE UnlockEnqueued
    BY <2>8, ReleasedFrame DEF UnlockEnqueued, Unlock
  <2>9. CASE FreePool
    BY <2>9, ReleasedFrame DEF FreePool, Free
  <2>10. CASE Return
    BY <2>10, ReleasedFrame DEF Return
  <2> QED BY <1>2, <2>1, <2>2, <2>3, <2>4, <2>5, <2>6, <2>7, <2>8, <2>9, <2>10 DEF MainStep
<1>3. ASSUME NEW w \in Workers, WorkerStep(w) PROVE SocketsReleased'
  <2>1. CASE TestShut(w)
    BY <2>1, ReleasedFrame DEF TestShut, Local
  <2>2. CASE LockMutex(w)
    BY <2>2, ReleasedFrame DEF LockMutex, Lock
  <2>3. CASE Wait(w)
    BY <2>3, ReleasedFrame DEF Wait, Unlock
  <2>4. CASE Relock(w)
    BY <2>4, ReleasedFrame DEF Relock, Lock
  <2>5. CASE Woken(w)
    BY <2>5, ReleasedFrame DEF Woken, Local
  <2>6. CASE Dequeued(w)
    BY <2>6, ReleasedFrame DEF Dequeued, Local, Unlock
  <2>7. CASE DequeueHead(w)
    BY <2>7, ReleasedFrame DEF DequeueHead, Local, Read
  <2>8. CASE TakeHead(w)
    BY <2>8, ReleasedFrame DEF TakeHead, CurInv
  <2>9. CASE KeepNode(w)
    BY <2>9, ReleasedFrame DEF KeepNode
  <2>10. CASE AdvanceHead(w)
    BY <2>10, ReleasedAdvance
  <2>11. CASE FixTail(w)
    BY <2>11, ReleasedFrame DEF FixTail
  <2>12. CASE FreeNode(w)
    BY <2>12, ReleasedFrame DEF FreeNode
  <2>13. CASE Handle(w)
    BY <2>13, ReleasedFrame DEF Handle, Local
  <2>14. CASE CloseMain(w)
    BY <2>14, ReleasedClose DEF CloseMain, EndSession
  <2>15. CASE CloseShut(w)
    BY <2>15, ReleasedClose DEF CloseShut, EndSession
  <2>16. CASE SetShut(w)
    BY <2>16, ReleasedFrame DEF SetShut
  <2>17. CASE Broadcast(w)
    BY <2>17, ReleasedFrame DEF Broadcast
  <2>18. CASE CloseQueued(w)
    BY <2>18 DEF CloseQueued, EndSession, DrainInv
  <2>19. CASE FreeData(w)
    BY <2>19, ReleasedFrame DEF FreeData, Free
  <2>20. CASE StopListening(w)
    BY <2>20, ReleasedFrame DEF StopListening
  <2> QED BY <1>3, <2>1, <2>2, <2>3, <2>4, <2>5, <2>6, <2>7, <2>8, <2>9, <2>10, <2>11, <2>12,
             <2>13, <2>14, <2>15, <2>16, <2>17, <2>18, <2>19, <2>20 DEF WorkerStep
<1>4. ASSUME NEW w \in Workers, ClientStep(w) \/ SpuriousWake(w) PROVE SocketsReleased'
  <2>1. CASE ClientEnds(w)
    BY <2>1, ReleasedFrame DEF ClientEnds, Attached, Shut
  <2>2. CASE UnknownMessage(w)
    BY <2>2, ReleasedFrame DEF UnknownMessage, Receive, Attached, Local, Read
  <2>3. CASE PlainRequest(w)
    BY <2>3, ReleasedFrame DEF PlainRequest, Receive, Attached, Local, Read
  <2>4. CASE FileRequest(w)
    BY <2>4 DEF FileRequest
  <2>5. CASE ShutdownRequest(w)
    BY <2>5, ReleasedFrame DEF ShutdownRequest, Receive, Attached, Local, Read
  <2>6. CASE FailedRead(w)
    BY <2>6, ReleasedFrame DEF FailedRead
  <2>7. CASE Reply(w)
    BY <2>7, ReleasedFrame DEF Reply, Local
  <2>8. CASE ParentSend(w)
    BY <2>8, ReleasedFrame DEF ParentSend
  <2>9. CASE ChildSend(w)
    BY <2>9, ReleasedClose DEF ChildSend, EndSession
  <2>10. CASE SpuriousWake(w)
    BY <2>10, ReleasedFrame DEF SpuriousWake, Local
  <2> QED BY <1>4, <2>1, <2>2, <2>3, <2>4, <2>5, <2>6, <2>7, <2>8, <2>9, <2>10 DEF ClientStep
<1> QED BY <1>1, <1>2, <1>3, <1>4 DEF Next

\* Where clients do not ask for files, whose refusal forgets the connection, an open
\* socket is on the list or in a worker's hands until a shutdown: no other path through
\* the worker lets one go without closing it, numbers closed twice included.
THEOREM NoSocketForgotten ==
  ASSUME "file" \notin Kinds PROVE Spec => []SocketsReleased
<1>1. Init => SocketsReleased
  BY ThreadsAssumption DEF Init, SocketsReleased, Enqueued, Threads
<1>2. IInv /\ SocketsReleased /\ [Next]_vars => SocketsReleased'
  <2>1. [Next]_vars /\ shut /\ IInv => shut'
    BY ShutIsFinal
  <2> QED BY <2>1, ReleasedStep DEF SocketsReleased, IInv, TypeOK
<1> QED BY <1>1, <1>2, Inductive, PTL DEF Spec

\* Until a shutdown the linked list, its mutex and the workers implement a
\* first-in first-out queue that hands every connection to one worker, in any
\* interleaving of enqueue with dequeue and with threads that start early.
THEOREM PoolIsQueue == Spec => QueueUntilShutdown
<1>1. Init => Queue!WQInit
  BY ThreadsAssumption DEF Init, Queue!WQInit, Queue!Idle, NumPending, Enqueued, Serving, NIL, Threads
<1>2. IInv /\ [Next]_vars => [~shut => Queue!WQNext]_(Queue!wqVars)
  BY QueueStep
<1> QED BY <1>1, <1>2, Inductive, PTL DEF Spec, QueueUntilShutdown
================================================================================
