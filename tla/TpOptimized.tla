------------------------------- MODULE TpOptimized -----------------------------
(* The thread pool of tp_optimized.c, which no target of the Makefile builds:  *)
(* a ring whose lock enqueue() takes itself, a shutdown that sets the flag     *)
(* under the mutex, and messages in blocks of the memory pool, read by         *)
(* get_description_optimized.  main() is the loop of server.c as far as it     *)
(* keeps to enqueue().                                                         *)
(* All critical sections begin and end in one function and are one step, so    *)
(* that the mutex is free between two steps.                                   *)
EXTENDS MemoryPool

CONSTANTS
  Workers,      \* the 20 worker threads
  Main,         \* the thread of main()
  QueueSize,    \* slots of the ring (QUEUE_SIZE)
  NumConns,     \* bound: how many connections are accepted
  Kinds,        \* what clients send: a subset of MessageKinds
  MessageSize,  \* sizeof(message)
  IntSize       \* sizeof(int)

\* "end" is a client that hangs up between two messages and "cut" one that hangs
\* up within a message, "request" an echo, a listing or a size, "compressed" one whose
\* reply is to be compressed, "file" a retrieval, "last" what ends its session with
\* the answer: an unknown type, or a retrieval that joins a transfer or differs from
\* it.
MessageKinds == {"end", "cut", "request", "compressed", "file", "last", "shutdown"}

ASSUME TpThreadsAssumption == IsFiniteSet(Workers) /\ Main \notin Workers
ASSUME TpBoundsAssumption == /\ NumConns \in Nat /\ QueueSize \in Nat \ {0}
                             /\ Kinds \subseteq MessageKinds /\ {MessageSize, IntSize} \subseteq Nat

Threads == Workers \cup {Main}
Conns == 1..NumConns
Slots == 0..QueueSize - 1
NIL == 0
NoBlock == <<>>   \* of the type of a pointer

VARIABLES
  pc,                       \* the statement each thread runs next
  cur,                      \* the connection of each worker
  msg,                      \* its message: a block, a piece of the heap, or NoBlock
  kind,                     \* what its client sent, "last" once the session ends with it
  shut,                     \* tp->shut
  items, head, tail, count, \* the ring
  accepted,                 \* how many connections accept() has returned
  sock,                     \* state of each socket: "new", "open" or "closed"
  listening,                \* the server socket accepts connections
  data                      \* dictionary, directory and list: "new", "live" or "freed"

ring == <<items, head, tail, count>>
own == <<cur, msg, kind>>
sockets == <<accepted, sock, listening>>
vars == <<pc, own, shut, ring, sockets, data, memory>>

Init ==
  /\ MPInit
  /\ pc = [t \in Threads |-> IF t = Main THEN "tp_create" ELSE "lock"]
  /\ cur = [w \in Workers |-> NIL] /\ msg = [w \in Workers |-> NoBlock]
  /\ kind = [w \in Workers |-> "end"]
  /\ shut = FALSE
  /\ items = [s \in Slots |-> NIL] /\ head = 0 /\ tail = 0 /\ count = 0
  /\ accepted = 0 /\ sock = [c \in Conns |-> "new"] /\ listening = TRUE
  /\ data = "new"
--------------------------------------------------------------------------------
\* A step from one label to another, while memory is sound
Step(t, from, to) == process = "up" /\ pc[t] = from /\ pc' = [pc EXCEPT ![t] = to]

\* The block with the descriptor of a connection, and what malloc() returns for a
\* message
Clfd(c) == <<Heap, "clfd", c>>
FreshMessage(w) == <<Heap, "message", w>>

Close(c) == sock' = [sock EXCEPT ![c] = "closed"] /\ UNCHANGED <<accepted, listening>>

\* Seeded fault: the head does not wrap around.
RemoveItemStraight == /\ head' = head + 1 /\ count' = count - 1
                      /\ UNCHANGED <<items, tail>>

\* cq_dequeue of a ring that is not empty, without its result
RemoveItem == /\ head' = (head + 1) % QueueSize /\ count' = count - 1
              /\ UNCHANGED <<items, tail>>
--------------------------------------------------------------------------------
(* thread_worker_optimized                                                     *)

Dequeue(w) ==
  /\ Step(w, "lock", "loop") /\ count > 0
  /\ cur' = [cur EXCEPT ![w] = items[head]] /\ RemoveItem
  /\ UNCHANGED <<msg, kind, shut, sockets, data, memory>>

\* An empty ring: the flag is tested and the wait begins without a gap between.
FindEmpty(w) ==
  /\ Step(w, "lock", IF shut THEN "exited" ELSE "wait") /\ count = 0
  /\ UNCHANGED <<own, shut, ring, sockets, data, memory>>

SpuriousWake(w) == Step(w, "wait", "lock") /\ UNCHANGED <<own, shut, ring, sockets, data, memory>>
--------------------------------------------------------------------------------
(* get_description_optimized                                                   *)

\* The client sends the first byte of a message, or hangs up.
ReadHeader(w) ==
  /\ \E sent \in Kinds :
       /\ Step(w, "read", IF sent = "end" THEN "hang_up" ELSE "alloc")
       /\ kind' = [kind EXCEPT ![w] = sent]
  /\ UNCHANGED <<cur, msg, shut, ring, sockets, data, memory>>

AllocMessage(w) ==
  LET ptr == Allocated(MessageSize, FreshMessage(w))
  IN  /\ Step(w, "alloc", IF kind[w] = "cut" THEN "drop" ELSE "handle")
      /\ msg' = [msg EXCEPT ![w] = ptr] /\ Alloc(ptr)
      /\ UNCHANGED <<cur, kind, shut, ring, sockets, data>>

\* Seeded fault: the message that is cut off is not released.
DropMessageKept(w) ==
  /\ Step(w, "drop", "hang_up")
  /\ msg' = [msg EXCEPT ![w] = NoBlock]
  /\ UNCHANGED <<cur, kind, shut, ring, sockets, data, memory>>

\* read_full ends before the length or the payload is complete.
DropMessage(w) ==
  /\ Step(w, "drop", "hang_up")
  /\ msg' = [msg EXCEPT ![w] = NoBlock] /\ Release(msg[w], MessageSize)
  /\ UNCHANGED <<cur, kind, shut, ring, sockets, data>>
--------------------------------------------------------------------------------
(* client_handling_optimized                                                   *)

\* The flag ends the session, and its descriptor and clfd are forgotten.
Loop(w) ==
  /\ Step(w, "loop", IF shut THEN "lock" ELSE "read")
  /\ cur' = IF shut THEN [cur EXCEPT ![w] = NIL] ELSE cur
  /\ UNCHANGED <<msg, kind, shut, ring, sockets, data, memory>>

\* The answer, with the tables of the pool; any of them may be needed.  What is to be
\* compressed is read through a pointer to the wrong thing.
Answer(w) ==
  /\ kind[w] \in {"request", "compressed"} /\ Step(w, "handle", "release")
  /\ IF data # "live" THEN Fault ELSE IF kind[w] = "compressed" THEN MayCorrupt ELSE UNCHANGED memory
  /\ UNCHANGED <<own, shut, ring, sockets, data>>

UnknownType(w) ==
  /\ kind[w] = "last" /\ Step(w, "handle", "close")
  /\ UNCHANGED <<own, shut, ring, sockets, data, memory>>

\* find, and what the request becomes: a transfer, or one more connection of a
\* transfer of its session, or an error because it differs from that.
FileRequest(w) ==
  /\ kind[w] = "file"
  /\ \/ Step(w, "handle", "parent_send") /\ UNCHANGED kind
     \/ /\ \E v \in Workers \ {w} : pc[v] = "parent_send"
        /\ \E to \in {"child_send", "close"} : Step(w, "handle", to)
        /\ kind' = [kind EXCEPT ![w] = "last"]
  /\ IF data # "live" THEN Fault ELSE IF kind' = kind THEN UNCHANGED memory ELSE MayCorrupt
  /\ UNCHANGED <<cur, msg, shut, ring, sockets, data>>

\* The end of a transfer in its parent and in a child.  What becomes of the process
\* is in FileMultiplex: the request may be freed before a child's last use of it,
\* remove_node may run off the list; and find may never come to its end, nor may the
\* read of the child, who waits for a part that parent_send_optimized, which sends
\* one to the pipe at most, has for one child only.
SendFile(w, from, to) ==
  /\ Step(w, from, to)
  /\ IF data = "live" THEN MayCorrupt ELSE Fault
  /\ UNCHANGED <<own, shut, ring, sockets, data>>

ParentSend(w) == SendFile(w, "parent_send", "release")
ChildSend(w) == SendFile(w, "child_send", "close")

\* The socket is closed; the message and clfd, which are the worker's alone, are
\* then released, in this order or the other.
CloseSession(w) ==
  /\ \/ Step(w, "close", "release")
     \/ kind[w] = "shutdown" /\ Step(w, "handle", "release")
  /\ Close(cur[w])
  /\ UNCHANGED <<own, shut, ring, data, memory>>

ReleaseMessage(w) ==
  /\ Step(w, "release", IF kind[w] \in {"last", "shutdown"} THEN "free_clfd" ELSE "loop")
  /\ msg' = [msg EXCEPT ![w] = NoBlock] /\ Release(msg[w], MessageSize)
  /\ UNCHANGED <<cur, kind, shut, ring, sockets, data>>

\* Seeded fault: the session ends and its socket stays open.
HangUpOpen(w) ==
  /\ Step(w, "hang_up", "free_clfd")
  /\ UNCHANGED <<own, shut, ring, sockets, data, memory>>

HangUp(w) ==
  /\ Step(w, "hang_up", "free_clfd")
  /\ Close(cur[w])
  /\ UNCHANGED <<own, shut, ring, data, memory>>

FreeClfd(w) ==
  /\ Step(w, "free_clfd", IF kind[w] = "shutdown" THEN "announce" ELSE "lock")
  /\ cur' = [cur EXCEPT ![w] = NIL] /\ Release(Clfd(cur[w]), IntSize)
  /\ UNCHANGED <<msg, kind, shut, ring, sockets, data>>
--------------------------------------------------------------------------------
(* The shutdown message                                                        *)

\* Seeded fault: the flag is set and nobody is woken.
AnnounceSilently(w) ==
  /\ Step(w, "announce", "drain")
  /\ shut' = TRUE
  /\ UNCHANGED <<own, ring, sockets, data, memory>>

\* The flag and the broadcast are one critical section.
Announce(w) ==
  /\ process = "up" /\ pc[w] = "announce"
  /\ shut' = TRUE
  /\ pc' = [t \in Threads |-> IF t = w THEN "drain" ELSE IF pc[t] = "wait" THEN "lock" ELSE pc[t]]
  /\ UNCHANGED <<own, ring, sockets, data, memory>>

\* The ring is emptied without the mutex: what is read may be taken by another
\* worker before the ring is changed.
DrainRead(w) ==
  /\ Step(w, "drain", IF count = 0 THEN "free_data" ELSE "drain_remove")
  /\ cur' = IF count = 0 THEN cur ELSE [cur EXCEPT ![w] = items[head]]
  /\ UNCHANGED <<msg, kind, shut, ring, sockets, data, memory>>

DrainRemove(w) ==
  /\ Step(w, "drain_remove", "drain") /\ count > 0
  /\ RemoveItem /\ Close(cur[w]) /\ Release(Clfd(cur[w]), IntSize)
  /\ cur' = [cur EXCEPT ![w] = NIL]
  /\ UNCHANGED <<msg, kind, shut, data>>

\* Another worker has taken the last item: the count passes below zero.
DrainUnderflow(w) ==
  /\ Step(w, "drain_remove", "drain") /\ count = 0
  /\ Fault
  /\ UNCHANGED <<own, shut, ring, sockets, data>>

FreeData(w) ==
  /\ Step(w, "free_data", "destroy")
  /\ IF data = "live" THEN data' = "freed" /\ UNCHANGED memory ELSE Fault /\ UNCHANGED data
  /\ UNCHANGED <<own, shut, ring, sockets>>

DestroyPool(w) ==
  /\ Step(w, "destroy", IF pool = "none" THEN "stop_listening" ELSE "forget_pool")
  /\ CASE pool = "live" -> Destroy [] pool = "destroyed" -> Fault [] OTHER -> UNCHANGED memory
  /\ UNCHANGED <<own, shut, ring, sockets, data>>

ForgetPool(w) ==
  /\ Step(w, "forget_pool", "stop_listening")
  /\ Forget
  /\ UNCHANGED <<own, shut, ring, sockets, data>>

StopListening(w) ==
  /\ Step(w, "stop_listening", "lock")
  /\ listening' = FALSE
  /\ UNCHANGED <<own, shut, ring, accepted, sock, data, memory>>
--------------------------------------------------------------------------------
(* main                                                                        *)

\* get_config and create(), when the workers run already
CreateData ==
  /\ Step(Main, "tp_create", "accept")
  /\ data' = "live"
  /\ UNCHANGED <<own, shut, ring, sockets, memory>>

Accept ==
  /\ Step(Main, "accept", "enqueue") /\ listening /\ accepted < NumConns
  /\ accepted' = accepted + 1
  /\ sock' = [sock EXCEPT ![accepted'] = "open"] /\ Malloc(Clfd(accepted'))
  /\ UNCHANGED <<own, shut, ring, listening, data>>

AcceptFails ==
  /\ Step(Main, "accept", "returned") /\ ~listening
  /\ UNCHANGED <<own, shut, ring, sockets, data, memory>>

\* Seeded fault: the tail stays where it is.
PutItemStill == /\ items' = [items EXCEPT ![tail] = accepted] /\ UNCHANGED <<head, tail>>
                /\ count' = count + 1

\* cq_enqueue of a ring that is not full
PutItem == /\ items' = [items EXCEPT ![tail] = accepted] /\ tail' = (tail + 1) % QueueSize
           /\ count' = count + 1 /\ UNCHANGED head

\* Seeded fault: the signal is sent to nobody.
EnqueueSilently ==
  /\ count < QueueSize /\ Step(Main, "enqueue", "accept") /\ PutItem
  /\ UNCHANGED <<own, shut, sockets, data, memory>>

\* The connection enters the ring and one waiting worker, if any, is woken.
Enqueue ==
  /\ count < QueueSize /\ process = "up" /\ pc[Main] = "enqueue" /\ PutItem
  /\ \/ \E w \in Workers :
          pc[w] = "wait" /\ pc' = [pc EXCEPT ![w] = "lock", ![Main] = "accept"]
     \/ (\A w \in Workers : pc[w] # "wait") /\ pc' = [pc EXCEPT ![Main] = "accept"]
  /\ UNCHANGED <<own, shut, sockets, data, memory>>

\* A full ring drops the connection.
Refuse ==
  /\ count >= QueueSize /\ Step(Main, "enqueue", "accept")
  /\ Close(accepted) /\ Free(Clfd(accepted))
  /\ UNCHANGED <<own, shut, ring, data>>
--------------------------------------------------------------------------------
WorkerStep(w) ==
  \/ Dequeue(w) \/ FindEmpty(w) \/ AllocMessage(w) \/ DropMessage(w) \/ Loop(w) \/ UnknownType(w)
  \/ CloseSession(w) \/ ReleaseMessage(w) \/ HangUp(w) \/ FreeClfd(w) \/ Announce(w)
  \/ DrainRead(w) \/ DrainRemove(w) \/ DrainUnderflow(w) \/ FreeData(w) \/ DestroyPool(w)
  \/ ForgetPool(w) \/ StopListening(w)

\* What waits for the client to send or to read, or for a transfer
ClientStep(w) == ReadHeader(w) \/ Answer(w) \/ FileRequest(w) \/ ParentSend(w) \/ ChildSend(w)

MainStep == CreateData \/ AcceptFails \/ Enqueue \/ Refuse

Next == MainStep \/ Accept \/ \E w \in Workers : WorkerStep(w) \/ ClientStep(w) \/ SpuriousWake(w)

Spec == Init /\ [][Next]_vars

\* Every thread keeps running, and spurious wake-ups are finitely many.
FairSpec == /\ Spec /\ WF_vars(MainStep) /\ \A w \in Workers : WF_vars(WorkerStep(w))
            /\ <>[][\A w \in Workers : ~SpuriousWake(w)]_vars

\* Clients do come, read their replies, and each one ends its session sooner or later.
ClientFairness ==
  WF_vars(Accept) /\ \A w \in Workers :
    WF_vars(Answer(w)) /\ SF_vars(ReadHeader(w) /\ kind'[w] \in {"end", "cut"})

\* The list of transfers never becomes a circle, and whoever joins a transfer gets its
\* part of it.
TransfersEnd ==
  \A w \in Workers : WF_vars(FileRequest(w)) /\ WF_vars(ParentSend(w)) /\ WF_vars(ChildSend(w))
--------------------------------------------------------------------------------
Labels == {"lock", "wait", "loop", "read", "alloc", "drop", "handle", "close", "release",
           "parent_send", "child_send", "hang_up", "free_clfd", "announce", "drain", "drain_remove", "free_data", "destroy",
           "forget_pool", "stop_listening", "exited", "tp_create", "accept", "enqueue", "returned"}

TypeOK ==
  /\ MPTypeOK
  /\ heap \subseteq {Clfd(c) : c \in Conns} \cup {FreshMessage(w) : w \in Workers}
  /\ pc \in [Threads -> Labels]
  /\ cur \in [Workers -> Conns \cup {NIL}] /\ kind \in [Workers -> MessageKinds]
  /\ msg \in [Workers -> Blocks \cup {FreshMessage(w) : w \in Workers} \cup {NoBlock}]
  /\ {shut, listening} \subseteq BOOLEAN
  /\ items \in [Slots -> Conns \cup {NIL}]
  /\ head \in Slots /\ tail \in Slots /\ count \in 0..QueueSize
  /\ accepted \in 0..NumConns /\ sock \in [Conns -> {"new", "open", "closed"}]
  /\ data \in {"new", "live", "freed"}

\* The connections in the ring, oldest first
Queued == [i \in 1..count |-> items[(head + i - 1) % QueueSize]]
InRing == {Queued[i] : i \in 1..count}
Handing == IF pc[Main] = "enqueue" THEN {accepted} ELSE {}
Held == {cur[w] : w \in Workers} \ {NIL}

\* Until a shutdown each block of the pool that is marked as used is the message
\* of one worker, the rest of the heap is theirs, the ring's or main's, and
\* mp_stats tells the truth: however a message ends, by its answer, a client that
\* hangs up within it, or the end of the session, its memory comes back once, to
\* where it was taken from, and nothing is used before it is there.  The process may
\* be lost to the compression of a reply or to a transfer, but not to this.
MemoryOwned ==
  ~shut =>
    LET messages == {msg[w] : w \in Workers} \ {NoBlock}
    IN  /\ process # "faulty"
        /\ \A v, w \in Workers : v # w /\ msg[v] # NoBlock => msg[v] # msg[w]
        /\ messages = inUse \cup {ptr \in heap : ptr \in {FreshMessage(w) : w \in Workers}}
        /\ {c \in Conns : Clfd(c) \in heap} = InRing \cup Held \cup Handing
        /\ active = Cardinality(inUse)

\* Until a shutdown the open connections are those in the ring, in a worker's hands
\* or in main's, each in one place, but for one whose worker has just closed it.
OpenAreOwned ==
  ~shut =>
    LET closed == {cur[w] : w \in {v \in Workers : pc[v] = "free_clfd"
                                     \/ (pc[v] = "release" /\ kind[v] \in {"last", "shutdown"})}}
    IN  /\ {c \in Conns : sock[c] = "open"} = (InRing \cup Held \cup Handing) \ closed
        /\ Cardinality(InRing \cup Held \cup Handing) =
             count + Cardinality({w \in Workers : cur[w] # NIL}) + Cardinality(Handing)

\* Once the flag is set nobody sleeps: the flag and the broadcast are under the
\* mutex that the test of the flag and the wait are under.
NoSleeperAfterShutdown == shut => \A w \in Workers : pc[w] # "wait"

\* Until a shutdown the ring, filled by enqueue() and emptied by the workers, is a
\* bounded first-in first-out queue: no connection is lost, handed out twice or
\* overtaken, the newcomer is turned away only when the ring is full, and a worker
\* takes the next one when it has given up the one before.
PoolQueue == INSTANCE WorkQueue WITH
  Capacity <- QueueSize,
  arrived <- IF pc[Main] = "enqueue" THEN accepted - 1 ELSE accepted,
  queue <- Queued,
  serving <- cur

QueueUntilShutdown ==
  PoolQueue!WQInit /\ [][~shut => PoolQueue!WQNext]_(PoolQueue!wqVars)

\* If clients read their replies and end their sessions, and transfers come to an
\* end, every connection is closed in the end, after being served or because the ring
\* was full, unless the server is shut down or its memory is lost.
EveryConnectionClosed ==
  ClientFairness /\ TransfersEnd =>
    \A c \in Conns : (sock[c] = "open") ~> (sock[c] = "closed" \/ shut \/ process # "up")
================================================================================
