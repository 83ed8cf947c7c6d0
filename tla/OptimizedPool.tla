----------------------------- MODULE OptimizedPool -----------------------------
(* The server of server_optimized.c: main() hands accepted connections to the  *)
(* workers through a ring of fixed size guarded by a mutex and a condition     *)
(* variable, and waits for all workers before it frees anything.               *)
(* The ring is only touched with the mutex locked, so that a critical section  *)
(* is one step, save where a worker has read the shutdown flag, which is       *)
(* written without the mutex, and has not begun to wait yet.                   *)
(* A connection is named 1, 2, ... in the order accept() returns them; what     *)
(* close() and read() get is the number of its descriptor, which accept() hands *)
(* out again once it is closed.                                                *)
EXTENDS Integers, Sequences, FiniteSets

CONSTANTS
  Workers,    \* the worker threads (NUM_THREADS)
  Main,       \* the thread of main()
  Nobody,     \* the owner of a free mutex
  QueueSize,  \* slots of the ring (QUEUE_SIZE)
  NumConns,   \* bound: how many connections are accepted
  Kinds,      \* what is read from a client: a subset of MessageKinds
  Spurious    \* whether pthread_cond_wait may return without a signal

\* "end" is the end of the stream, "request" an echo, a directory listing or the
\* size of a file that is not there (0x0, 0x2, 0x4), "file" a retrieval (0x6),
\* "unknown" a type outside of the protocol.  What the reply to a file size does to
\* the process is in Exchange, what a retrieval does to it in FileMultiplex.
MessageKinds == {"end", "request", "file", "shutdown", "unknown"}

ASSUME ThreadsAssumption == /\ IsFiniteSet(Workers) /\ Main \notin Workers
                            /\ Nobody \notin Workers \cup {Main}
ASSUME BoundsAssumption == /\ NumConns \in Nat /\ QueueSize \in Nat \ {0}
                           /\ Kinds \subseteq MessageKinds /\ Spurious \in BOOLEAN

Threads == Workers \cup {Main}
NIL == 0
Conns == 1..NumConns
Numbers == Conns \cup {NIL}
Slots == 0..QueueSize - 1

VARIABLES
  pc,                       \* the statement each thread runs next
  cur,                      \* the clfd each worker holds
  mutex,                    \* owner of tp->mutex between two steps
  shutdown,                 \* tp->shutdown
  items, head, tail, count, \* the ring
  accepted,                 \* how many connections accept() has returned
  sock,                     \* state of each client socket: "new", "open" or "closed"
  number,                   \* the descriptor of each connection, named by the first to get it
  listening,                \* the server socket accepts connections
  resources,                \* what tp points to, and tp itself: "live" or "freed"
  process                   \* "up"; "faulty", up after undefined behaviour; "crashed"

ring == <<items, head, tail, count>>
sockets == <<accepted, sock, number, listening>>
vars == <<pc, cur, mutex, shutdown, ring, sockets, resources, process>>

Init ==
  /\ pc = [t \in Threads |-> IF t = Main THEN "accept" ELSE "lock"]
  /\ cur = [w \in Workers |-> NIL]
  /\ mutex = Nobody /\ shutdown = FALSE
  /\ items = [s \in Slots |-> NIL] /\ head = 0 /\ tail = 0 /\ count = 0
  /\ accepted = 0 /\ sock = [c \in Conns |-> "new"] /\ listening = TRUE
  /\ number = [c \in Conns |-> NIL]
  /\ resources = "live" /\ process = "up"
--------------------------------------------------------------------------------
Goto(t, label) == pc' = [pc EXCEPT ![t] = label]

\* close(n): closes the connection that has the number now, whichever that is.
Shut(n) == sock' = [c \in Conns |-> IF number[c] = n /\ sock[c] = "open" THEN "closed"
                                    ELSE sock[c]]

\* close(*clfd); free(clfd)
Close(w) == Shut(number[cur[w]]) /\ cur' = [cur EXCEPT ![w] = NIL]

\* The worker reads from a number that stands for a connection: its own or, once that
\* was closed for another worker, one that was accepted later.
Attached(w) ==
  /\ pc[w] = "get_description"
  /\ \E c \in Conns : sock[c] = "open" /\ number[c] = number[cur[w]]

\* Seeded fault: one connection too many enters the ring.
FullLate == count > QueueSize

\* cq_enqueue when there is room, cq_dequeue when there is an item
Full == count >= QueueSize

PutItem(c) == /\ items' = [items EXCEPT ![tail] = c]
              /\ tail' = (tail + 1) % QueueSize
              /\ count' = count + 1
              /\ UNCHANGED head

\* Seeded fault: the head does not wrap around.
TakeNoWrap == /\ head' = head + 1
              /\ count' = count - 1
              /\ UNCHANGED <<items, tail>>

TakeItem == /\ head' = (head + 1) % QueueSize
            /\ count' = count - 1
            /\ UNCHANGED <<items, tail>>
--------------------------------------------------------------------------------
(* thread_worker_opt                                                           *)

Dequeue(w) ==
  /\ pc[w] = "lock" /\ Goto(w, "handle")
  /\ mutex = Nobody /\ count > 0
  /\ cur' = [cur EXCEPT ![w] = items[head]]
  /\ TakeItem
  /\ UNCHANGED <<mutex, shutdown, sockets, resources, process>>

\* An empty ring: the worker exits, or is about to wait with the mutex locked.
FindEmpty(w) ==
  /\ pc[w] = "lock" /\ Goto(w, IF shutdown THEN "exited" ELSE "cond_wait")
  /\ mutex = Nobody /\ count = 0
  /\ mutex' = IF shutdown THEN Nobody ELSE w
  /\ UNCHANGED <<cur, shutdown, ring, sockets, resources, process>>

Wait(w) ==
  /\ pc[w] = "cond_wait" /\ Goto(w, "wait")
  /\ mutex' = Nobody
  /\ UNCHANGED <<cur, shutdown, ring, sockets, resources, process>>

\* A worker that wakes up locks the mutex and looks at the ring again.
SpuriousWake(w) ==
  /\ Spurious /\ pc[w] = "wait" /\ Goto(w, "lock")
  /\ UNCHANGED <<cur, mutex, shutdown, ring, sockets, resources, process>>

\* A worker that finds the server shut down closes the connection.
Handle(w) ==
  /\ pc[w] = "handle" /\ Goto(w, IF shutdown THEN "lock" ELSE "get_description")
  /\ IF shutdown THEN Close(w) ELSE UNCHANGED <<sock, cur>>
  /\ UNCHANGED <<mutex, shutdown, ring, accepted, number, listening, resources, process>>

\* The number is closed and clfd freed, and the worker goes on at the given label.
EndSession(w, from, to) ==
  /\ pc[w] = from /\ Goto(w, to) /\ Close(w)
  /\ UNCHANGED <<mutex, shutdown, ring, accepted, number, resources, process>>

\* get_description closes the number at the end of the stream, and its caller
\* closes it once more.
ClientEnds(w) ==
  /\ "end" \in Kinds /\ Attached(w) /\ Goto(w, "close")
  /\ Shut(number[cur[w]])
  /\ UNCHANGED <<cur, mutex, shutdown, ring, accepted, number, listening, resources, process>>

CloseMain(w) == EndSession(w, "close", "lock") /\ UNCHANGED listening

\* The default case of the switch returns from the thread function.
UnknownMessage(w) ==
  "unknown" \in Kinds /\ Attached(w) /\ EndSession(w, "get_description", "exited") /\ UNCHANGED listening

\* A step of the session that leaves the shared state as it is, but for the process.
Serve(w, from, to, processes) ==
  /\ pc[w] = from /\ Goto(w, to) /\ process' \in processes
  /\ UNCHANGED <<cur, mutex, shutdown, ring, sockets, resources>>

Request(w) == "request" \in Kinds /\ Attached(w) /\ Serve(w, "get_description", "reply", {process})

Reply(w) == Serve(w, "reply", "handle", {process})

\* The request starts a transfer, or joins one of its session that another worker is
\* sending, whatever file and range that has.
FileRequest(w) ==
  /\ "file" \in Kinds /\ Attached(w)
  /\ \/ Serve(w, "get_description", "parent_send", {process})
     \/ /\ \E v \in Workers \ {w} : pc[v] = "parent_send"
        /\ Serve(w, "get_description", "child_send", {process})

\* What becomes of the process in a transfer is in FileMultiplex: remove_node may
\* run off the list, find in circles on it, and the request may be freed before its
\* last use.
MayFault == {process, "faulty", "crashed"}

\* The last step of a parent: the search of the list may have gone on for ever.
ParentSend(w) == Serve(w, "parent_send", "handle", MayFault)

\* The last step of a child whose part came: it may have waited for ever.
ChildSend(w) == Serve(w, "child_send", "handle", MayFault)

StartShutdown(w) ==
  /\ Goto(w, "broadcast") /\ shutdown' = TRUE
  /\ UNCHANGED <<cur, mutex, ring, sockets, resources, process>>

ShutdownRequest(w) == "shutdown" \in Kinds /\ Attached(w) /\ StartShutdown(w)

\* read() fails on a number that is closed: the type is what header held before.
\* An echo or a listing of no length is answered, and the other two requests read
\* through the NULL they have for a payload.
FailedRead(w) ==
  /\ pc[w] = "get_description" /\ ~Attached(w)
  /\ \/ Serve(w, "get_description", "reply", {process, "crashed"})
     \/ EndSession(w, "get_description", "exited") /\ UNCHANGED listening
     \/ StartShutdown(w)

Broadcast(w) ==
  /\ pc[w] = "broadcast"
  /\ pc' = [t \in Threads |-> IF t = w THEN "stop_listening"
                              ELSE IF pc[t] = "wait" THEN "lock" ELSE pc[t]]
  /\ UNCHANGED <<cur, mutex, shutdown, ring, sockets, resources, process>>

\* Seeded fault: the server socket is not shut down.
StopSilently(w) == EndSession(w, "stop_listening", "exited") /\ UNCHANGED listening

StopListening(w) == EndSession(w, "stop_listening", "exited") /\ listening' = FALSE
--------------------------------------------------------------------------------
(* main                                                                        *)

\* accept() takes a number that no open connection has: one that was never used,
\* or one that was closed.
Accept ==
  /\ pc[Main] = "accept" /\ Goto(Main, "enqueue")
  /\ listening /\ accepted < NumConns
  /\ accepted' = accepted + 1
  /\ sock' = [sock EXCEPT ![accepted'] = "open"]
  /\ \E n \in {accepted'} \cup {number[c] : c \in 1..accepted} :
        /\ \A c \in Conns : sock[c] = "open" => number[c] # n
        /\ number' = [number EXCEPT ![accepted'] = n]
  /\ UNCHANGED <<cur, mutex, shutdown, ring, listening, resources, process>>

AcceptFails ==
  /\ pc[Main] = "accept" /\ Goto(Main, IF shutdown THEN "close" ELSE "accept")
  /\ ~listening
  /\ UNCHANGED <<cur, mutex, shutdown, ring, sockets, resources, process>>

\* Seeded fault: no worker is told of the new connection.
EnqueueSilently ==
  /\ pc[Main] = "enqueue" /\ mutex = Nobody /\ ~Full
  /\ PutItem(accepted) /\ Goto(Main, "test")
  /\ UNCHANGED <<cur, mutex, shutdown, sockets, resources, process>>

\* The connection enters the ring and one waiting worker, if any, is released.
Enqueue ==
  /\ pc[Main] = "enqueue" /\ mutex = Nobody /\ ~Full
  /\ PutItem(accepted)
  /\ \/ \E w \in Workers :
          pc[w] = "wait" /\ pc' = [pc EXCEPT ![w] = "lock", ![Main] = "test"]
     \/ (\A w \in Workers : pc[w] # "wait") /\ Goto(Main, "test")
  /\ UNCHANGED <<cur, mutex, shutdown, sockets, resources, process>>

\* Seeded fault: the connection that finds no room stays open.
RefuseOpen ==
  /\ pc[Main] = "enqueue" /\ mutex = Nobody /\ Full
  /\ Goto(Main, "accept")
  /\ UNCHANGED <<cur, mutex, shutdown, ring, sockets, resources, process>>

\* A full ring drops the connection, and the flag is not tested.
Refuse ==
  /\ pc[Main] = "enqueue" /\ mutex = Nobody /\ Full
  /\ Goto(Main, "accept")
  /\ Shut(number[accepted])
  /\ UNCHANGED <<cur, mutex, shutdown, ring, accepted, number, listening, resources, process>>

TestShutdown ==
  /\ pc[Main] = "test" /\ Goto(Main, IF shutdown THEN "close" ELSE "accept")
  /\ UNCHANGED <<cur, mutex, shutdown, ring, sockets, resources, process>>

CloseServer ==
  /\ pc[Main] = "close" /\ Goto(Main, "join")
  /\ listening' = FALSE
  /\ UNCHANGED <<cur, mutex, shutdown, ring, accepted, sock, number, resources, process>>

\* Seeded fault: main does not wait for every worker.
JoinOne ==
  /\ pc[Main] = "join" /\ Goto(Main, "free")
  /\ \E w \in Workers : pc[w] = "exited"
  /\ UNCHANGED <<cur, mutex, shutdown, ring, sockets, resources, process>>

Join ==
  /\ pc[Main] = "join" /\ Goto(Main, "free")
  /\ \A w \in Workers : pc[w] = "exited"
  /\ UNCHANGED <<cur, mutex, shutdown, ring, sockets, resources, process>>

FreeResources ==
  /\ pc[Main] = "free" /\ Goto(Main, "returned")
  /\ resources' = "freed"
  /\ UNCHANGED <<cur, mutex, shutdown, ring, sockets, process>>
--------------------------------------------------------------------------------
WorkerStep(w) == \/ Dequeue(w) \/ FindEmpty(w) \/ Wait(w) \/ Handle(w)
                 \/ CloseMain(w) \/ Broadcast(w) \/ StopListening(w)

\* What the descriptor the worker reads from makes it do, and the sends that wait
\* for the client to read or, in a child, for the parts of its transfer.
ClientStep(w) == \/ ClientEnds(w) \/ UnknownMessage(w) \/ Request(w) \/ FileRequest(w)
                 \/ ShutdownRequest(w) \/ FailedRead(w)
                 \/ Reply(w) \/ ParentSend(w) \/ ChildSend(w)

MainStep == \/ AcceptFails \/ Enqueue \/ Refuse \/ TestShutdown
            \/ CloseServer \/ Join \/ FreeResources

Running == process # "crashed"

Next == Running /\ (\/ MainStep \/ Accept
                    \/ \E w \in Workers : WorkerStep(w) \/ ClientStep(w) \/ SpuriousWake(w))

Spec == Init /\ [][Next]_vars

\* Every thread keeps running; a blocked lock, wait or join is not a step, and
\* spurious wake-ups do not keep the mutex busy forever.
FairSpec == /\ Spec
            /\ WF_vars(Running /\ MainStep)
            /\ \A w \in Workers : WF_vars(Running /\ WorkerStep(w))
            /\ <>[][\A w \in Workers : ~SpuriousWake(w)]_vars

\* Clients do come, read their replies, and each one ends its session sooner or later.
ClientFairness == /\ WF_vars(Running /\ Accept)
                  /\ \A w \in Workers : /\ WF_vars(Running /\ Reply(w))
                                        /\ SF_vars(Running /\ ClientEnds(w))

\* The list of transfers never becomes a circle, and whoever joins a transfer gets its
\* part of it.
TransfersEnd ==
  \A w \in Workers : WF_vars(Running /\ ParentSend(w)) /\ WF_vars(Running /\ ChildSend(w))
--------------------------------------------------------------------------------
Labels == {"lock", "cond_wait", "wait", "handle", "get_description", "close", "reply",
           "parent_send", "child_send", "broadcast", "stop_listening", "exited",
           "accept", "enqueue", "test", "close", "join", "free", "returned"}

TypeOK ==
  /\ pc \in [Threads -> Labels]
  /\ cur \in [Workers -> Conns \cup {NIL}]
  /\ mutex \in Workers \cup {Nobody}
  /\ shutdown \in BOOLEAN /\ listening \in BOOLEAN
  /\ items \in [Slots -> Conns \cup {NIL}]
  /\ head \in Slots /\ tail \in Slots /\ count \in 0..QueueSize
  /\ accepted \in 0..NumConns /\ sock \in [Conns -> {"new", "open", "closed"}]
  /\ number \in [Conns -> Numbers]
  /\ resources \in {"live", "freed"} /\ process \in {"up", "faulty", "crashed"}

\* The connections in the ring, oldest first.
Queued == [i \in 1..count |-> items[(head + i - 1) % QueueSize]]
InRing == {Queued[i] : i \in 1..count}
Held == {cur[w] : w \in Workers} \ {NIL}

\* Every connection still open is in the ring, with a worker or with main, who is
\* handing it over: neither a full ring, nor any message, nor a shutdown leaks a
\* socket, also where a number was closed twice and a worker reads from another's.
OpenAreOwned ==
  {c \in Conns : sock[c] = "open"} \subseteq
    InRing \cup Held \cup IF pc[Main] = "enqueue" THEN {accepted} ELSE {}

\* However many workers take part in a shutdown, nothing a worker may still read
\* is freed, and main frees it only after the ring can no longer change hands.
NoUseAfterFree == resources = "freed" => /\ \A w \in Workers : pc[w] = "exited"
                                         /\ ~listening /\ Held = {}

\* While the server is up, a connection in the ring finds a worker that is awake
\* or about to be: unless every live worker has a client, there are as many
\* workers on the way to the ring as connections in it, or none asleep.
WakeupsSuffice ==
  LET asleep == {w \in Workers : pc[w] = "wait"}
      coming == {w \in Workers : pc[w] = "lock"}
  IN  asleep # {} => Cardinality(coming) >= count

\* The ring under the mutex is a bounded first-in first-out queue that drops the
\* newcomer when it is full.
RingQueue == INSTANCE WorkQueue WITH
  Capacity <- QueueSize,
  arrived <- IF pc[Main] = "enqueue" THEN accepted - 1 ELSE accepted,
  queue <- Queued,
  serving <- cur

RingImplementsQueue == RingQueue!WQSpec

\* A worker has a connection whose number was closed for another one's session: what
\* it reads from then on, nobody sent, and it need not come to an end.
Robbed(w) == pc[w] = "get_description" /\ ~Attached(w)

\* If clients read their replies and end their sessions, and transfers come to an
\* end, every connection is closed in the end, after being served or
\* because the ring was full, unless the server is shut down or dies, messages of
\* unknown type have ended all of its threads, or a worker is robbed of its descriptor.
EveryClientLeaves ==
  ClientFairness /\ TransfersEnd =>
    \A c \in Conns : (sock[c] = "open") ~>
      (\/ sock[c] = "closed" \/ shutdown \/ ~Running
       \/ \A w \in Workers : pc[w] = "exited"
       \/ \E w \in Workers : Robbed(w))

\* After a shutdown request main leaves its accept loop, be it blocked in
\* accept(), about to enqueue or turning a client away.
ShutdownLeavesLoop == shutdown ~> (pc[Main] \notin {"accept", "enqueue", "test"} \/ ~Running)

\* If clients and transfers end, a shutdown request brings main to its end.
ShutdownCompletes ==
  ClientFairness /\ TransfersEnd => (shutdown ~> (pc[Main] = "returned" \/ ~Running))
================================================================================
