------------------------------ MODULE ThreadPool ------------------------------
(* The server of the default build: server.c hands accepted connections to the *)
(* worker threads of tp.c through a linked list guarded by a mutex and a       *)
(* condition variable; a shutdown request tears the pool down.                 *)
(* A step is one C statement on shared memory with the local work around it; a *)
(* message is read in one step.  A list node, the int* in it and the socket it *)
(* was made for are all named by the connection: 1, 2, ... in the order accept() *)
(* returns them.  What close() and read() get is the number of the descriptor,  *)
(* which accept() hands out again once it is closed.                           *)
EXTENDS Integers, FiniteSets

CONSTANTS
  Workers,   \* the worker threads (20 in tp.c)
  Main,      \* the thread of main()
  Nobody,    \* the owner of a free mutex
  NumConns,  \* bound: how many connections are accepted
  Kinds,     \* what is read from a client: a subset of MessageKinds
  Spurious   \* whether pthread_cond_wait may return without a signal

\* "end" is the end of the stream, "last" a message of unknown type, "plain" an
\* echo, a directory listing or the size of a file that is not there (0x0, 0x2,
\* 0x4), "file" a retrieval (0x6).  What the reply to a file size does to the
\* process is in Exchange, what a retrieval does to it in FileMultiplex.
MessageKinds == {"end", "last", "plain", "file", "shutdown"}

ASSUME ThreadsAssumption == /\ IsFiniteSet(Workers) /\ Main \notin Workers
                            /\ Nobody \notin Workers \cup {Main}
ASSUME BoundsAssumption == NumConns \in Nat /\ Kinds \subseteq MessageKinds

Threads == Workers \cup {Main}
NIL == 0
Conns == 1..NumConns
Nodes == Conns \cup {NIL}

\* What the pool points to besides its list; "pool" is the struct itself.
Objects == {"pool", "dict", "directory", "requests_list"}

VARIABLES
  pc,         \* the statement each thread runs next
  cur,        \* the clfd each worker holds (NIL: none, or already freed)
  tmp,        \* the node that each worker's dequeue has yet to free
  mutex,      \* owner of tp->mutex
  shut,       \* tp->shut
  head, tail, \* tp->head, tp->tail
  next,       \* the next field of every list node
  freed,      \* the list nodes handed back to free()
  drainers,   \* workers emptying the list for a shutdown, without the mutex
  data,       \* state of each object: "unset", "live" or "freed"
  accepted,   \* how many connections accept() has returned
  sock,       \* state of each client socket: "new", "open" or "closed"
  number,     \* the descriptor of each connection, named by the first to get it
  spent,      \* the clfds handed back to free()
  listening,  \* the server socket accepts connections
  process     \* "up"; "faulty", up after undefined behaviour; "crashed"; "ended"

list == <<head, tail, next, freed>>
sockets == <<accepted, sock, number, spent, listening>>
vars == <<pc, cur, tmp, mutex, shut, list, drainers, data, sockets, process>>

\* tp_create starts the workers before the configuration and the list of
\* requests exist; only the dictionary is ready when the first one runs.
Init ==
  /\ pc = [t \in Threads |-> IF t = Main THEN "get_config" ELSE "top"]
  /\ cur = [w \in Workers |-> NIL] /\ tmp = [w \in Workers |-> NIL]
  /\ mutex = Nobody /\ shut = FALSE
  /\ head = NIL /\ tail = NIL /\ next = [c \in Conns |-> NIL] /\ freed = {}
  /\ drainers = {}
  /\ data = [o \in Objects |-> IF o \in {"pool", "dict"} THEN "live" ELSE "unset"]
  /\ accepted = 0 /\ sock = [c \in Conns |-> "new"] /\ listening = FALSE
  /\ number = [c \in Conns |-> NIL] /\ spent = {}
  /\ process = "up"
--------------------------------------------------------------------------------
Goto(t, label) == pc' = [pc EXCEPT ![t] = label]

\* Reading through a pointer to something not live is undefined: the value may
\* still be there, or the process dies.
Read(bad) == process' \in IF bad THEN {"faulty", "crashed"} ELSE {process}

\* A null dereference or a second free() of a block kills the process.
Fatal(bad) == process' = IF bad THEN "crashed" ELSE process

NotLive(objects) == \E o \in objects : data[o] # "live"

\* close(n): closes the connection that has the number now, whichever that is.
Shut(n) == sock' = [c \in Conns |-> IF number[c] = n /\ sock[c] = "open" THEN "closed"
                                    ELSE sock[c]]

\* free(clfd)
FreeClfd(w) == cur' = [cur EXCEPT ![w] = NIL] /\ spent' = spent \cup {cur[w]}

\* Seeded fault: the worker lets the connection go without closing it.
CloseSkipped(w) == FreeClfd(w) /\ UNCHANGED sock

\* close(main); free(clfd)
Close(w) == Shut(number[cur[w]]) /\ FreeClfd(w)

\* The worker reads from a number that stands for a connection: its own or, once that
\* was closed for another worker, one that was accepted later.
Attached(w) ==
  /\ pc[w] = "get_description"
  /\ \E c \in Conns : sock[c] = "open" /\ number[c] = number[cur[w]]

\* A statement that reads the given objects and nothing else that is shared.
Local(t, from, to, objects) ==
  /\ pc[t] = from /\ Goto(t, to) /\ Read(NotLive(objects))
  /\ UNCHANGED <<cur, tmp, mutex, shut, list, drainers, data, sockets>>

Lock(t, from, to) ==
  /\ pc[t] = from /\ Goto(t, to) /\ mutex = Nobody /\ mutex' = t
  /\ UNCHANGED <<cur, tmp, shut, list, drainers, data, sockets, process>>

Unlock(t, from, to) ==
  /\ pc[t] = from /\ Goto(t, to) /\ mutex' = Nobody
  /\ UNCHANGED <<cur, tmp, shut, list, drainers, data, sockets, process>>
--------------------------------------------------------------------------------
(* thread_worker: both breaks on shut, in Woken and in Dequeued, leave the     *)
(* loop with the mutex locked.                                                 *)

TestShut(w) == Local(w, "top", IF shut THEN "exited" ELSE "lock", {"pool"})

\* Seeded fault: the worker goes to the list without the mutex.
LockMutexSkipped(w) == Local(w, "lock", "dequeue", {})

LockMutex(w) == Lock(w, "lock", "dequeue")

\* pthread_cond_wait, called with dequeue's NULL in hand, lets the mutex go.
Wait(w) == Unlock(w, "cond_wait", "wait")

SpuriousWake(w) == Spurious /\ Local(w, "wait", "wake", {})

\* Seeded fault: a woken worker does not wait for the mutex.
RelockFree(w) == Local(w, "wake", "woken", {})

Relock(w) == Lock(w, "wake", "woken")

Woken(w) == Local(w, "woken", IF shut THEN "exited" ELSE "dequeue", {"pool"})

Dequeued(w) == IF shut THEN Local(w, "dequeued", "exited", {"pool"})
                       ELSE Unlock(w, "dequeued", "handle")

(* dequeue, called under the mutex by a worker and without it by a drainer     *)

DequeueHead(w) ==
  Local(w, "dequeue", IF head # NIL THEN "take"
                      ELSE IF w \in drainers THEN "free_dict" ELSE "cond_wait", {})

\* head->clfd, head->next: head may be another node by now, or NULL.
ReadHead == process' \in IF head = NIL THEN {"crashed"}
                         ELSE IF head \in freed THEN {"faulty", "crashed"} ELSE {process}

TakeHead(w) ==
  /\ pc[w] = "take" /\ Goto(w, "keep")
  /\ cur' = [cur EXCEPT ![w] = head] /\ ReadHead
  /\ UNCHANGED <<tmp, mutex, shut, list, drainers, data, sockets>>

KeepNode(w) ==
  /\ pc[w] = "keep" /\ Goto(w, "advance")
  /\ tmp' = [tmp EXCEPT ![w] = head]
  /\ UNCHANGED <<cur, mutex, shut, list, drainers, data, sockets, process>>

AdvanceHead(w) ==
  /\ pc[w] = "advance" /\ Goto(w, "fix_tail")
  /\ head' = IF head = NIL THEN NIL ELSE next[head]
  /\ ReadHead
  /\ UNCHANGED <<cur, tmp, mutex, shut, tail, next, freed, drainers, data, sockets>>

\* Seeded fault: the tail of an emptied list still names the freed node.
FixTailKept(w) ==
  /\ pc[w] = "fix_tail" /\ Goto(w, "free_node")
  /\ UNCHANGED <<cur, tmp, mutex, shut, list, drainers, data, sockets, process>>

FixTail(w) ==
  /\ pc[w] = "fix_tail" /\ Goto(w, "free_node")
  /\ tail' = IF head = NIL THEN NIL ELSE tail
  /\ UNCHANGED <<cur, tmp, mutex, shut, head, next, freed, drainers, data, sockets, process>>

\* free(NULL) does nothing.
FreeNode(w) ==
  /\ pc[w] = "free_node"
  /\ Goto(w, IF w \in drainers THEN "close_queued" ELSE "dequeued")
  /\ freed' = freed \cup ({tmp[w]} \ {NIL}) /\ tmp' = [tmp EXCEPT ![w] = NIL]
  /\ Fatal(tmp[w] \in freed)
  /\ UNCHANGED <<cur, mutex, shut, head, tail, next, drainers, data, sockets>>
--------------------------------------------------------------------------------
(* client_handling                                                             *)

\* A worker that finds the pool shut returns without closing the connection.
Handle(w) == Local(w, "handle", IF shut THEN "exited" ELSE "get_description", {"pool"})

\* The session is over: the loop is left with the number closed and clfd freed, and
\* the process as one of the given, unless another thread has freed that before.
EndSession(w, from, to, processes) ==
  /\ pc[w] = from /\ Goto(w, to) /\ Close(w)
  /\ process' \in IF cur[w] \in spent THEN {"crashed"} ELSE processes
  /\ UNCHANGED <<tmp, mutex, shut, list, drainers, data, accepted, number, listening>>

\* A message of the kind, that sends the worker to the given place.
Receive(w, kind, to) ==
  kind \in Kinds /\ Attached(w) /\ Local(w, "get_description", to, {})

\* get_description closes the number at the end of the stream, and its caller
\* closes it once more.
ClientEnds(w) ==
  /\ "end" \in Kinds /\ Attached(w) /\ Goto(w, "close")
  /\ Shut(number[cur[w]])
  /\ UNCHANGED <<cur, tmp, mutex, shut, list, drainers, data, accepted, number, spent, listening,
                 process>>

UnknownMessage(w) == Receive(w, "last", "close")

CloseMain(w) == EndSession(w, "close", "top", {process})

PlainRequest(w) == Receive(w, "plain", "reply")

\* A file request finds no transfer of its session and starts one; or it finds
\* one that another worker is sending, and joins it; or that one differs from
\* it: the worker answers with an error and leaves the connection open.
FileRequest(w) ==
  /\ "file" \in Kinds /\ Attached(w)
  /\ \/ Local(w, "get_description", "parent_send", {"requests_list"})
     \/ /\ \E v \in Workers \ {w} : pc[v] = "parent_send"
        /\ \/ Local(w, "get_description", "child_send", {"requests_list"})
           \/ /\ Goto(w, "top") /\ FreeClfd(w)
              /\ Read(NotLive({"requests_list"}))
              /\ UNCHANGED <<tmp, mutex, shut, list, drainers, data, accepted, sock, number,
                             listening>>

\* read() fails on a number that is closed: the type is what header held before.
\* An echo or a listing of no length is answered, and the other two requests read
\* through the NULL they have for a payload.
FailedRead(w) ==
  /\ pc[w] = "get_description" /\ ~Attached(w)
  /\ \E to \in {"reply", "close", "close_shut"} : Goto(w, to)
  /\ process' \in {process, "crashed"}
  /\ UNCHANGED <<cur, tmp, mutex, shut, list, drainers, data, sockets>>

Reply(w) == Local(w, "reply", "handle", {"dict", "directory"})

\* What becomes of the process in a transfer is in FileMultiplex: remove_node may
\* run off the list, and the request may be freed before its last use.
MayFault == {process, "faulty", "crashed"}

ParentSend(w) ==
  /\ pc[w] = "parent_send" /\ Goto(w, "handle")
  /\ process' \in MayFault
  /\ UNCHANGED <<cur, tmp, mutex, shut, list, drainers, data, sockets>>

\* The last step of a child whose part came: it may have waited for ever.
ChildSend(w) == EndSession(w, "child_send", "top", MayFault)

ShutdownRequest(w) == Receive(w, "shutdown", "close_shut")

CloseShut(w) == EndSession(w, "close_shut", "set_shut", {process})

SetShut(w) ==
  /\ pc[w] = "set_shut" /\ Goto(w, "broadcast")
  /\ shut' = TRUE
  /\ UNCHANGED <<cur, tmp, mutex, list, drainers, data, sockets, process>>

\* Releases every waiting worker; from here on this one drains the list.
Broadcast(w) ==
  /\ pc[w] = "broadcast"
  /\ pc' = [t \in Threads |-> IF t = w THEN "dequeue"
                              ELSE IF pc[t] = "wait" THEN "wake" ELSE pc[t]]
  /\ drainers' = drainers \cup {w}
  /\ UNCHANGED <<cur, tmp, mutex, shut, list, data, sockets, process>>

CloseQueued(w) == EndSession(w, "close_queued", "dequeue", {process})

Free(t, from, object, to) ==
  /\ pc[t] = from /\ Goto(t, to)
  /\ data' = [data EXCEPT ![object] = "freed"]
  /\ Fatal(data[object] = "freed")
  /\ UNCHANGED <<cur, tmp, mutex, shut, list, drainers, sockets>>

FreeData(w) == \/ Free(w, "free_dict", "dict", "free_directory")
               \/ Free(w, "free_directory", "directory", "free_requests_list")
               \/ Free(w, "free_requests_list", "requests_list", "stop_listening")

\* Seeded fault: the end of a shutdown waits for the mutex.
StopListeningLocked(w) ==
  /\ pc[w] = "stop_listening" /\ Goto(w, "exited")
  /\ mutex = Nobody
  /\ listening' = FALSE
  /\ drainers' = drainers \ {w}
  /\ UNCHANGED <<cur, tmp, mutex, shut, list, data, accepted, sock, number, spent, process>>

StopListening(w) ==
  /\ pc[w] = "stop_listening" /\ Goto(w, "exited")
  /\ listening' = FALSE
  /\ drainers' = drainers \ {w}
  /\ Read(NotLive({"pool"}))
  /\ UNCHANGED <<cur, tmp, mutex, shut, list, data, accepted, sock, number, spent>>
--------------------------------------------------------------------------------
(* tp_create, after the threads are started, and main                          *)

Create(from, object, to) ==
  /\ pc[Main] = from /\ Goto(Main, to)
  /\ data' = [data EXCEPT ![object] = "live"]
  /\ UNCHANGED <<cur, tmp, mutex, shut, list, drainers, sockets, process>>

\* Seeded fault: the directory is not read from the configuration.
CreateDataPartly == \/ Local(Main, "get_config", "create", {})
                    \/ Create("create", "requests_list", "listen")

CreateData == \/ Create("get_config", "directory", "create")
              \/ Create("create", "requests_list", "listen")

Listen ==
  /\ pc[Main] = "listen" /\ Goto(Main, "accept")
  /\ listening' = TRUE
  /\ UNCHANGED <<cur, tmp, mutex, shut, list, drainers, data, accepted, sock, number, spent, process>>

\* accept() takes a number that no open connection has: one that was never used,
\* or one that was closed.  Files and pipes use numbers too, so any may be next.
Accept ==
  /\ pc[Main] = "accept" /\ Goto(Main, "lock")
  /\ listening /\ accepted < NumConns
  /\ accepted' = accepted + 1
  /\ sock' = [sock EXCEPT ![accepted'] = "open"]
  /\ \E n \in {accepted'} \cup {number[c] : c \in 1..accepted} :
        /\ \A c \in Conns : sock[c] = "open" => number[c] # n
        /\ number' = [number EXCEPT ![accepted'] = n]
  /\ UNCHANGED <<cur, tmp, mutex, shut, list, drainers, data, spent, listening, process>>

LockToEnqueue == Lock(Main, "lock", "enqueue")

\* Seeded fault: a new connection overtakes the ones that wait.
LinkAtHead ==
  /\ pc[Main] = "enqueue" /\ Goto(Main, "set_tail")
  /\ head' = accepted /\ next' = [next EXCEPT ![accepted] = head]
  /\ UNCHANGED <<cur, tmp, mutex, shut, tail, freed, drainers, data, sockets, process>>

\* Seeded fault: the node of a connection that was not accepted is linked.
LinkOffByOne ==
  /\ pc[Main] = "enqueue" /\ Goto(Main, "set_tail")
  /\ head' = accepted + 1
  /\ UNCHANGED <<cur, tmp, mutex, shut, tail, next, freed, drainers, data, sockets, process>>

\* enqueue: the new node goes behind the one tail names.
Link ==
  /\ pc[Main] = "enqueue" /\ Goto(Main, "set_tail")
  /\ IF tail = NIL THEN head' = accepted /\ UNCHANGED next
     ELSE next' = [next EXCEPT ![tail] = accepted] /\ UNCHANGED head
  /\ Read(tail \in freed)
  /\ UNCHANGED <<cur, tmp, mutex, shut, tail, freed, drainers, data, sockets>>

SetTail ==
  /\ pc[Main] = "set_tail" /\ Goto(Main, "signal")
  /\ tail' = accepted
  /\ UNCHANGED <<cur, tmp, mutex, shut, head, next, freed, drainers, data, sockets, process>>

\* Seeded fault: no worker is told of the new connection.
SignalNone ==
  /\ pc[Main] = "signal" /\ Goto(Main, "unlock")
  /\ UNCHANGED <<cur, tmp, mutex, shut, list, drainers, data, sockets, process>>

\* pthread_cond_signal releases one waiting worker, if there is any.
Signal ==
  /\ pc[Main] = "signal"
  /\ \/ \E w \in Workers :
          pc[w] = "wait" /\ pc' = [pc EXCEPT ![w] = "wake", ![Main] = "unlock"]
     \/ (\A w \in Workers : pc[w] # "wait") /\ Goto(Main, "unlock")
  /\ UNCHANGED <<cur, tmp, mutex, shut, list, drainers, data, sockets, process>>

UnlockEnqueued == Unlock(Main, "unlock", "accept")

\* accept() returns -1 once the server socket is shut down.
FreePool == ~listening /\ Free(Main, "accept", "pool", "return")

\* The process ends with main, whatever the workers are doing.
Return ==
  /\ pc[Main] = "return"
  /\ process' = "ended"
  /\ UNCHANGED <<pc, cur, tmp, mutex, shut, list, drainers, data, sockets>>
--------------------------------------------------------------------------------
WorkerStep(w) ==
  \/ TestShut(w) \/ LockMutex(w) \/ Wait(w) \/ Relock(w) \/ Woken(w) \/ Dequeued(w)
  \/ DequeueHead(w) \/ TakeHead(w) \/ KeepNode(w) \/ AdvanceHead(w) \/ FixTail(w) \/ FreeNode(w)
  \/ Handle(w) \/ CloseMain(w) \/ CloseShut(w)
  \/ SetShut(w) \/ Broadcast(w) \/ CloseQueued(w) \/ FreeData(w) \/ StopListening(w)

\* What the descriptor the worker reads from makes it do, and the sends that wait
\* for the client to read or, in a child, for the parts of its transfer.
ClientStep(w) ==
  \/ ClientEnds(w) \/ UnknownMessage(w) \/ PlainRequest(w) \/ FileRequest(w)
  \/ ShutdownRequest(w) \/ FailedRead(w)
  \/ Reply(w) \/ ParentSend(w) \/ ChildSend(w)

MainStep == \/ CreateData \/ Listen \/ LockToEnqueue \/ Link \/ SetTail
            \/ Signal \/ UnlockEnqueued \/ FreePool \/ Return

Running == process \in {"up", "faulty"}

Next == Running /\ (\/ MainStep \/ Accept
                    \/ \E w \in Workers : WorkerStep(w) \/ ClientStep(w) \/ SpuriousWake(w))

Spec == Init /\ [][Next]_vars

\* Every thread keeps running; a blocked lock or wait is not a step.
ThreadFairness == /\ WF_vars(Running /\ MainStep)
                  /\ \A w \in Workers : WF_vars(Running /\ WorkerStep(w))

\* Clients do come, read their replies, and each one ends its session sooner or later.
ClientFairness == /\ WF_vars(Running /\ Accept)
                  /\ \A w \in Workers : /\ WF_vars(Running /\ Reply(w))
                                        /\ SF_vars(Running /\ ClientEnds(w))

\* The list of transfers never becomes a circle, and whoever joins a transfer gets its
\* part of it.
TransfersEnd ==
  \A w \in Workers : WF_vars(Running /\ ParentSend(w)) /\ WF_vars(Running /\ ChildSend(w))

FairSpec == Spec /\ ThreadFairness
--------------------------------------------------------------------------------
Labels == {
  "top", "lock", "dequeue", "take", "keep", "advance", "fix_tail", "free_node", "cond_wait", "wait",
  "wake", "woken", "dequeued", "handle", "get_description", "close", "reply", "parent_send",
  "child_send", "close_shut", "set_shut", "broadcast", "close_queued", "free_dict", "free_directory",
  "free_requests_list", "stop_listening", "exited", "get_config", "create", "listen",
  "accept", "enqueue", "set_tail", "signal", "unlock", "return"}

TypeOK ==
  /\ pc \in [Threads -> Labels]
  /\ cur \in [Workers -> Nodes] /\ tmp \in [Workers -> Nodes]
  /\ mutex \in Threads \cup {Nobody}
  /\ shut \in BOOLEAN /\ listening \in BOOLEAN
  /\ head \in Nodes /\ tail \in Nodes /\ next \in [Conns -> Nodes] /\ freed \subseteq Nodes
  /\ drainers \subseteq Workers
  /\ data \in [Objects -> {"unset", "live", "freed"}]
  /\ accepted \in 0..NumConns /\ sock \in [Conns -> {"new", "open", "closed"}]
  /\ number \in [Conns -> Nodes] /\ spent \subseteq Nodes
  /\ process \in {"up", "faulty", "crashed", "ended"}
================================================================================
