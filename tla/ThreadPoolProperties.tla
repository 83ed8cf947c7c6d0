------------------------- MODULE ThreadPoolProperties -------------------------
(* What the pool of ThreadPool must and must not do.  A shutdown gives up the  *)
(* mutex discipline, so the invariants about the list speak of the time before *)
(* tp->shut is set; the properties of the shutdown itself come last.           *)
EXTENDS ThreadPool, Sequences

\* Connections whose node is linked: main still carries the last one up to Link.
Enqueued == IF pc[Main] \in {"lock", "enqueue"} THEN accepted - 1 ELSE accepted

\* Connections on the list.
NumPending == IF head = NIL THEN 0 ELSE Enqueued - head + 1

\* The connection was accepted and no worker has taken it yet.
Waiting(c) == \/ head # NIL /\ c \in head..Enqueued
              \/ c = accepted /\ pc[Main] \in {"lock", "enqueue"}

\* The connection a worker has taken off the list and not yet given up.
Serving(w) == IF pc[w] \in {"keep", "advance"} THEN NIL ELSE cur[w]

\* Places that use the list: between a lock and its unlock, wherever they were
\* reached from.
InDequeue == {"dequeue", "take", "keep", "advance", "fix_tail", "free_node"}
UsesList(t) ==
  \/ t \in Workers /\ pc[t] \in InDequeue \cup {"dequeued", "woken", "cond_wait"}
  \/ t = Main /\ pc[t] \in {"enqueue", "set_tail", "signal", "unlock"}

\* Workers sure to look at the list before they wait.
Lookers == {w \in Workers : pc[w] \in {"top", "lock", "wake", "woken", "dequeue", "take",
                                        "keep", "advance"}}

\* The signal main owes for the connection it has just linked.
SignalsDue == IF pc[Main] \in {"set_tail", "signal"} THEN 1 ELSE 0

\* The mutex and the list in every run: a thread that uses the list owns the mutex,
\* but for one that drains it, which only happens in a shutdown; and the owner of the
\* mutex either is at the list, and so will unlock it, or has left through a break of
\* thread_worker in a shutdown and keeps it for ever.
LockDiscipline ==
  /\ \A t \in Threads : UsesList(t) => mutex = t \/ t \in drainers
  /\ drainers # {} => shut /\ mutex \notin drainers
  /\ mutex # Nobody => UsesList(mutex) \/ (shut /\ pc[mutex] = "exited")

\* Until a shutdown the list holds the enqueued connections that no worker took,
\* in the order of their arrival, without a freed node; once the mutex is free
\* tail names the last of them and is NULL only if head is.
ListShape ==
  ~shut => /\ head # NIL => /\ head <= Enqueued
                            /\ \A c \in head..(Enqueued - 1) : next[c] = c + 1
                            /\ next[Enqueued] = NIL
                            /\ \A c \in head..Enqueued : c \notin freed
           /\ mutex = Nobody => tail = IF head = NIL THEN NIL ELSE Enqueued

\* No two workers ever serve the same connection, and none serves one that is
\* still on the list: dequeue hands each clfd to a single thread.
OneHandler ==
  ~shut => \A w \in Workers : Serving(w) # NIL =>
             /\ head # NIL => Serving(w) < head
             /\ \A v \in Workers \ {w} : Serving(v) # Serving(w)

\* While a worker waits, every connection on the list has a thread coming for
\* it: one signal per enqueue is enough, however signals, wake-ups and workers
\* that find work without waiting interleave.
NoLostWakeup ==
  (~shut /\ \E w \in Workers : pc[w] = "wait") =>
    NumPending <= Cardinality(Lookers) + SignalsDue

\* Until a shutdown a worker that serves a client finds the dictionary, the directory
\* and the list of requests set up, though the workers start before tp_create has
\* filled the pool.
TablesReady == ~shut => \A w \in Workers : Serving(w) # NIL => ~NotLive(Objects)

\* Until a shutdown a connection that was accepted and is in nobody's hands has been
\* closed, also where a number was closed twice and a worker reads from another's.
SocketsReleased ==
  ~shut => \A c \in 1..Enqueued :
    (sock[c] = "open" /\ (head # NIL => c < head)) => \E w \in Workers : cur[w] = c

\* Until a shutdown the pool is a first-in first-out queue that hands out every
\* connection once, whatever the clients ask for, up to the step that sets the flag.
Queue == INSTANCE WorkQueue WITH
  Capacity <- NumConns,
  arrived <- Enqueued,
  queue <- [i \in 1..NumPending |-> head + i - 1],
  serving <- [w \in Workers |-> Serving(w)]

QueueUntilShutdown == Queue!WQInit /\ [][~shut => Queue!WQNext]_(Queue!wqVars)

\* A worker has a connection whose number was closed for another one's session: what
\* it reads from then on, nobody sent, and it need not come to an end.
Robbed(w) == pc[w] = "get_description" /\ ~Attached(w)

\* If clients keep coming, read their replies and end their sessions, and transfers come
\* to an end, every accepted connection is taken up by a worker, unless the server is
\* shut down or dies, or a worker is robbed of its descriptor.
EveryClientServed ==
  ClientFairness /\ TransfersEnd =>
    \A c \in Conns : Waiting(c) ~> (\/ shut \/ ~Running
                                    \/ \E w \in Workers : Serving(w) = c \/ Robbed(w))

\* The worker that serves a shutdown request always gets to close the server
\* socket: it needs no lock, so neither a busy list nor a mutex that an exiting
\* worker took along can stop it.
ShutdownStopsListening == shut ~> (~listening \/ ~Running)

\* A shutdown ends the process.
ShutdownEndsProcess == shut ~> ~Running
--------------------------------------------------------------------------------
(* The inductive invariant behind the safety properties.                       *)

\* Places of the code that only a shutdown leads to, and those of them that run
\* without the mutex what others run with it.
InShutdown == {"broadcast", "close_queued", "free_dict", "free_directory",
               "free_requests_list", "stop_listening", "exited"}
Draining == InDequeue \cup (InShutdown \ {"broadcast", "exited"})

\* A shutdown is the only way to those places, and draining ends where it began.
DrainInv ==
  /\ ~shut => drainers = {} /\ \A w \in Workers : pc[w] \notin InShutdown
  /\ \A w \in drainers : pc[w] \in Draining
  /\ \A w \in Workers : pc[w] = "close_queued" => w \in drainers

\* main: a connection in hand, the pool filled.
MainInv ==
  /\ pc[Main] \in {"lock", "enqueue", "set_tail", "signal", "unlock"} =>
       accepted > 0
  /\ pc[Main] \in {"get_config", "create", "listen"} => accepted = 0
  /\ ~shut => /\ pc[Main] # "return"
              /\ listening \/ pc[Main] \in {"get_config", "create", "listen"}
              /\ ~NotLive({"pool", "dict"})
              /\ ~NotLive({"directory"}) \/ pc[Main] = "get_config"
              /\ ~NotLive({"requests_list"}) \/ pc[Main] \in {"get_config", "create"}

\* Which workers hold a connection, and what the one that dequeues has seen.
CurInv ==
  \A w \in Workers :
    /\ pc[w] \in {"top", "lock", "dequeue", "take", "cond_wait", "wait", "wake", "woken",
                  "set_shut"} => cur[w] = NIL
    /\ pc[w] \in {"handle", "get_description", "close", "reply", "parent_send", "child_send",
                  "close_shut", "keep", "advance", "fix_tail", "free_node", "dequeued"} =>
         cur[w] # NIL
    /\ Serving(w) <= Enqueued
    /\ pc[w] = "take" => head # NIL
    /\ pc[w] \in {"keep", "advance"} => cur[w] = head
    /\ pc[w] \in {"advance", "fix_tail", "free_node"} => tmp[w] = cur[w] /\ tmp[w] \notin freed
    /\ pc[w] = "cond_wait" => head = NIL

\* The list between any two statements of enqueue and dequeue.
LinkInv ==
  /\ head <= Enqueued
  /\ \A c \in Conns : c >= Enqueued => next[c] = NIL
  /\ \A c \in Conns : head # NIL /\ head <= c /\ c < Enqueued => next[c] = c + 1
  /\ \A c \in freed : c # NIL /\ c <= Enqueued /\ (head # NIL => c < head)
  /\ tail = IF pc[Main] = "set_tail" THEN IF head = Enqueued THEN NIL ELSE Enqueued - 1
            ELSE IF head = NIL /\ \A w \in Workers : pc[w] # "fix_tail" THEN NIL ELSE Enqueued
  /\ pc[Main] = "set_tail" => head # NIL

\* Everything above at once; it holds at every step of the pool, and each step
\* preserves it.
IInv ==
  /\ TypeOK /\ LockDiscipline /\ DrainInv /\ MainInv
  /\ ~shut => CurInv /\ LinkInv
  /\ OneHandler
================================================================================
