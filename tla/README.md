# Multiplexing server: a TLA+ verification project

The repository holds a TCP server in C that answers echo, directory, file size
and file retrieval requests with a pool of threads, compresses payloads with a
dictionary code, and cuts one file transfer into segments over several
connections; a second server with a ring buffer in place of the list
(`server_optimized.c`); and a proxy in Node.js that lets a browser talk to it.

The modules here translate the code, not its documents. Where the code differs
from what its comments or documents say, a run shows it (section *What the
checks show*).

## 1. Inventory

| Component | State | Operations | Hard part |
|---|---|---|---|
| Pool and server, default build (`server.c`, `tp.c`) | list of accepted sockets, mutex, condition variable, `shut`, tables (`data`, `requests_list`), server socket | `main`'s accept loop with `enqueue`; `tp_create`; `thread_worker` with `dequeue`; `client_handling`, which also runs the shutdown | `enqueue` under the mutex, the shutdown without it; the mutex is kept by workers that exit; threads start before the pool is filled; a descriptor is closed twice |
| List of file requests (`multiplexlist.c`) | linked list with a lock | `create`, `add`, `remove_node`, `find` | `find` hands out a pointer that is used without the lock; `add` leaves `next` as malloc left it; `remove_node` searches from the second node |
| File multiplexing (`message_handling.c`: `dissect_file_request`, `parent_send`, `child_send`; `tp.c:133-176`) | `num_connect`, a pipe per transfer, segments | a parent cuts the range, children take segments from the pipe | `num_connect` is read five times without its lock while children join |
| Optimized server (`server_optimized.c`) | ring of sockets, mutex, condition variable, `shutdown` | `cq_enqueue`, `cq_dequeue`, worker, accept loop, shutdown, join, release | full ring, wrap-around, a broadcast outside of the mutex, release after the join, a descriptor closed twice |
| Reading and replies (`message_handling.c`) | one message, its payload block, the reply | `get_description`, `echo`, `directory_send`, `file_size_response`, `error_send` | who decompresses and who compresses, size of the blocks, names without terminator, payloads in pieces or of nothing, ranges that are not in the file |
| Compression (`compression.c`) and its decoder in the proxy (`decompressor.js`) | dictionary of 256 codes | `create_map`, `compress`, `decompress`; `loadDictionary`, `decompress` | codes that cross bytes, padding, two implementations of one format |
| WebSocket proxy (`proxy-server.js`) | map of WebSocket to TCP connection, a buffer for each connection | `connect`, `handleClientMessage`, the `data` event with `handleTCPResponse`, `error`, `close` | replies are cut out of a stream; the map is filled in a callback, and any close deletes an entry; the length in the header counts UTF-16 units |
| Browser client (`client.js`) | `socket`, `connected`, `pendingFileName` | `connect`, `disconnect`, the four requests, `handleMessage` | messages go out on `this.socket`, whichever that is by then; one pending name for all files |
| Memory pool (`memory_pool.c`) | lists of blocks in three sizes, counters | `mp_create`, `mp_alloc`, `mp_free`, `mp_destroy`, `mp_stats` | blocks of the pool and of `malloc` must go back to where they came from |
| Optimized pool of `tp.h` (`tp_optimized.c`) | ring, flag, the tables, the memory pool | `enqueue`, `dequeue`, worker, `client_handling` with the shutdown | who closes and who frees, a shutdown with the other workers running |
| Optimized replies (`message_handling_optimized.c`) | one message, its payload block, the reply | the functions of `message_handling.c` under their names | which pointer goes to `compress`, payloads in pieces |
| Optimized codecs (`compression_optimized.c`, `compression_opt.c`) | dictionary, trie | `compress_optimized`, `decompress_optimized` of each | no byte for the padding bits |
| Load generator, configuration tool, scripts | none of the server's | | out of scope |

No target of the Makefile builds `memory_pool.c`, `tp_optimized.c`,
`message_handling_optimized.c` and the two optimized codecs: they are written to
take the place of the files whose names and functions they share, and are
modelled as that.

**How they interact.** `main` hands each accepted descriptor to the list (or the
ring) and signals; one worker takes it and keeps it until the client hangs up,
sends a message of unknown type, or the server is shut down. A worker reads a
message, and answers it with the dictionary and directory that all workers
share. A file retrieval looks for a transfer of the same session id in the
shared list: without one the worker becomes the *parent* of a transfer and adds
it, with one it becomes a *child*, raises `num_connect`, and blocks on the
transfer's pipe until the parent has written its segment. A worker that reads a
shutdown message sets the flag, wakes the others, empties the list, frees the
tables and shuts the server socket down, so that `main`'s `accept()` fails.
The page opens a WebSocket to the proxy and asks it to connect; the proxy opens a
TCP connection to the server for it, forwards each request, cuts what comes back
into replies and sends each one to the page. Either side may close at any time.

**What makes each part correct.** Pool: one worker per connection, in order of arrival;
no wake-up lost; no node, table or socket used too early, too late or twice; a shutdown
that gets through. List: holds the transfers under way, and ends. Multiplexing: segments
disjoint and together the range; every child gets one, of its own request. Ring: a
bounded queue, nothing leaked. Exchange: what the browser shows is what was asked for.
Memory pool: every block has one owner. Proxy: replies come whole, once and in order, to
the page that asked, and files are saved under their names. Descriptors: nobody closes
another's connection. `PROJECT.json` lists the hazards by line, with the properties that
cover them.

## 2. Modules

| Module | Models | Steps |
|---|---|---|
| `WorkQueue` | what a pool promises: a bounded queue that hands every connection to one worker, in order | abstract |
| `ThreadPool` | `server.c`, `tp.c` | one action per statement on shared memory |
| `ThreadPoolProperties` | properties, refinement mapping and inductive invariant of `ThreadPool` | |
| `ThreadPoolProofs`, `FileMultiplexProofs`, `OptimizedPoolProofs`, `TpOptimizedProofs`, `ProxyProofs`, `ExchangeProofs` | theorems and proofs about the module of that name | |
| `CodecProofs` | theorems and proofs about the codecs of `Codec` and `CodecOptimized` | |
| `ListLemmas` | facts about sequences without repetitions, about rings and about induction that several of them need | |
| `FileMultiplex` | `multiplexlist.c`, the 0x6 branch of `client_handling`, `parent_send`, `child_send` | one list operation per step, one read of `num_connect` per step |
| `OptimizedPool` | `server_optimized.c` | one critical section per step, every unlocked access its own step |
| `Codec` | `compression.c`, `decompressor.js` | operators |
| `CodecOptimized` | `compression_opt.c`, `compression_optimized.c` | operators |
| `Exchange` | `get_description` and the replies of both `message_handling` files, the proxy's reading of them | one function per step |
| `MemoryPool` | `memory_pool.c`, with `malloc` and `free` | one call per step, for use by others |
| `TpOptimized` | `tp_optimized.c` on `MemoryPool`, with the messages of `get_description_optimized` | one critical section per step |
| `Proxy` | `client.js`, `proxy-server.js` and the server as the proxy sees it | one event per step |
| `Descriptors` | the numbers of sockets and pipes in `server.c`, `tp.c`, `message_handling.c` | one call per step |
| `MC...` | instances for TLC | |

Every mapped definition and its lines are in `PROJECT.json` under `map`.

**ThreadPool.** `pc[t]` names the statement a thread runs next. A connection is
identified with its `clfd` block and its list node, made together by `main` (`next`,
`freed` for the node, `spent` for the block, `cur[w]` for the worker's pointer, `tmp[w]`
for the node that `dequeue` has yet to free). Its socket is `sock`, and `number` is its
descriptor: `accept()` takes one that no open connection has, and `close()` closes
whichever connection has the number then (`Shut`). At the end of a stream the number is
closed twice, by `get_description` (`ClientEnds`, `message_handling.c:49`) and by its
caller (`CloseMain`, `tp.c:107`), and in between it may be given out again. A worker
whose number was closed for another one's session reads from a connection that is not
its own (`Attached`), or from none: `FailedRead` is what then follows, with the type
that the variable `header` held before. A `read()` that is blocked already when another
thread closes its number is not kept apart from one that comes after it. `mutex` has an
owner, and `pthread_cond_wait` is two steps, `Wait` (which releases the mutex) and
`Relock`. `enqueue` is `Link` and `SetTail`, `dequeue` is `DequeueHead`, `TakeHead`,
`KeepNode`, `AdvanceHead`, `FixTail` and `FreeNode`, one for each time it reads or
writes the list, because the shutdown calls `dequeue` without the mutex while others are
in the middle of it; `drainers` are the workers in that loop. A use of something that is
not set up or already freed is undefined: `process` then becomes `faulty` (it goes on)
or `crashed`, and it is a choice which. `Kinds` are the messages clients send. A
transfer is its first step and its last, `ParentSend` or `ChildSend`, which waits for
others and may find the process harmed (`MayFault`): what happens inside is in
`FileMultiplex`. A file size request that succeeds is not among the kinds, because of
what `Exchange` shows of it.

**FileMultiplex.** `block[b]` is a heap block with a request: its fields, and whether it
was never used, is live, or freed. `malloc` hands out either kind but the live, and
`next` is then what it was in the last use. `Walk` is the way along the list from
`head`: a search stops at what it looks for or at the end, and in a circle without
either it never stops and keeps the list locked (`Ends`); it may come across blocks that
are freed (`Strays`). `pipes` never disappear, as the code closes none. `cut[w]` only
records what happened, for the properties. The bytes of the file do not matter to any
property; segments are pairs of offset and length. Offsets and lengths are words below
`WordSize` (2^64): the test of a range adds two of them, and so does the size of a
segment's block (`Allot`). Where the sum of the test wraps, the size of the block wraps
as well, the header is written over its end and a segment outside of the file is
announced; or, with children among whom the length is divided, no block can be had and
the process ends. The process is `faulty` too once a freed block was used or `head` was
left on one. The number of children is read where the code reads it, twice in one
expression at `message_handling.c:420`, in an order the compiler chooses (`Rest`,
`Remaining`).

**OptimizedPool.** `items`, `head`, `tail` and `count` are the ring. Critical
sections are one step each, since everything that touches the ring holds the
mutex; the test of `shutdown` and `pthread_cond_wait` are two, because the
shutdown sets the flag and broadcasts without the mutex. Descriptors and their
second `close` (`server_optimized.c:99`), reading from another's, and transfers are as
in `ThreadPool`.

**Codec, CodecOptimized and Exchange.** A byte has `Width` bits, 3 in the runs. A
dictionary, a payload and a compressed payload are sequences of such bytes, and
the operators read and write them bit by bit as the code does; a trie is a
function from the prefixes of codes to bytes. `Exchange` sends one request
through one of the two servers: `Send`, `GetDescription`, the reply,
`HandleTCPResponse`. What `Send` sends comes from the proxy (`HandleClientMessage`:
nothing is compressed, the name has no 0 and the range is `ProxyHeader` whatever the
file) or from another client (`Requests`). A payload is there as a whole when it is
read, or in two pieces, of which a single `read()` returns the first and leaves the
rest of the block as it was (`Junk`). `Sent` and `Asked` are what the server takes for
range and name in its buffer. A name ends with its first 0; without one it is read on
behind its block (`overread`), so it may turn out to be any name it begins, and gets
that file or an error. A buffer that is NULL, for a payload of nothing or one that
decodes to nothing, is read through (`ReadAstray`); a name that is empty opens the
directory in place of a file (`OpenDirectory`). `ErrorSend` answers what is not there, and a
range that is not in the file: `parent_send` compares it with the size,
`parent_send_optimized` what it has read with the length (`InFile`). A compressed reply
of the optimized handlers uses a pointer that is none (`LoseReply`). The optimized
codecs are compared with `compression.c` on the payloads that are sent; no
handler calls them. The lengths and byte orders of headers are not modelled here.

**MemoryPool and TpOptimized.** A pointer to a block of the pool is its class and
its number. What `malloc` returns has a class of its own and is named for what it
is for (`<<Heap, "clfd", c>>`, `<<Heap, "message", w>>`): each is asked for once at a
time. A double free or a use after `mp_destroy` makes `process` faulty. What harms
memory that is none of the pool's, the wrong pointer of a compressed reply or the list
in a transfer, may make it `corrupt` (`MayCorrupt`). Nothing is said of what follows
either. A transfer is its first step and its last, which waits for others
(`ParentSend`, `ChildSend`): `parent_send_optimized` writes one segment whatever the
number of children, so that a child may wait for ever. `get_description_optimized` does
not close the socket, so here it is closed once.
`TpOptimized` takes `main` for a loop that accepts and calls `enqueue()`. That is
an idealisation: `tp.h` declares no ring, so `server.c` as it is would lock
another mutex and set up fields that `tp_optimized.c` does not use. The mutex is
always released in the function that takes it, so it is no variable; the worker
of a shutdown empties the ring without it, which is why the reading and the
removing of an item are two steps there. What is released one after the other
without anything shared in between is one step.

**Proxy.** A step is one event of Node.js or of the browser, handled to the end as a
single thread does. `ws` and `tcp` are the states of the WebSockets and of the
connections, `up` and `down` what is under way between page and proxy, `log` what the
proxy has sent to the server and `out` what the server has sent back, in units: a header
is `HeaderUnits` of them, a payload one more. A `data` event brings any number of units,
and `Cut` is the loop that takes whole messages off the buffer (`Whole` its condition,
`After` where the next one begins). `Outcomes` are the answers of a server that serves
other pages too, and a retrieve that joins another page's transfer after its parts have
been given out has none (`JoinLate`): its worker waits at the pipe for ever. A text
outside ASCII is "wide": its header announces less than follows it, and what the server
makes of the rest is `Stray`. `outstanding`, `saved`, `overlapped`, `seen` and `on` only
record what happened.

**Descriptors.** `table` says what each number stands for; the queue and the
workers hold numbers, and `serves` records whose number a worker was given. Pipes and
the leaks of numbers are here only; `number` in the two pools is the part of it that
their properties turn on.

**Left out everywhere:** failing `malloc` and `pthread_*` calls, failures at
start-up, logging, and errors of `read()` and `send()` (section 6).

## 3. Runs and bounds

| Run | Instance | Checks |
|---|---|---|
| `pool_serve` | 3 workers, 4 connections that end, ask or send an unknown message, spurious wake-ups, symmetric | `ListShape`, `OneHandler`, `NoLostWakeup`, `TablesReady`, `SocketsReleased` |
| `pool_shutdown` | 2 workers, 3 connections, every message but an unknown one | `TypeOK`, `LockDiscipline`, refinement of `WorkQueue` until the shutdown, `EveryClientServed`, `ShutdownStopsListening` |
| `pool_hang` | 2 workers, 2 shutdowns | `ShutdownEndsProcess` fails |
| `file_transfer` | 3 workers, 2 sessions, 3 blocks, five ranges and names, 3 requests for any of them and a fourth, words of 6 bits, headers of 2 bytes, symmetric | `TypeOK`, `SegmentsDisjoint`, `SegmentsTile`, `CutWithinFile`, `ListHoldsTransfers` |
| `file_crash`, `file_starve` | 2 workers, 2 blocks, 2 requests | `NoCrash`, `EveryChildServed` fail |
| `ring_serve` | 2 workers, ring of 2, 4 connections, every message, spurious wake-ups | `TypeOK`, `OpenAreOwned`, `NoUseAfterFree`, `WakeupsSuffice`, refinement of `WorkQueue`, `EveryClientLeaves`, `ShutdownLeavesLoop` |
| `ring_join` | 2 workers, 2 connections | `ShutdownCompletes` fails |
| `exchange_reply` | all payloads of up to two bytes, whole and in pieces, all types and flags, three ranges, four dictionaries, both servers | `TypeOK`, `RepliesFit`, `MemoryKept`, `DecodersAgree`, `CodecsKeepPayload` |
| `proxy_serve` | 2 WebSockets, 2 TCP connections, 2 requests of every kind, headers of 2 units | `TypeOK`, `AnsweredInOrder`, `MapLeadsToLive`, `SavedUnderItsName`, `EveryRequestAnswered` |
| `tpopt_serve` | 2 workers, ring of 2, 3 connections, every message, one block of the size of messages | `TypeOK`, `MemoryOwned`, `OpenAreOwned`, `NoSleeperAfterShutdown`, refinement of `WorkQueue` until a shutdown, `EveryConnectionClosed` |
| `fd_close` | 2 workers, 6 numbers, 3 connections | `NoForeignClose` fails |

*Why the bounds are enough to matter.* Three workers and four connections give a list of
several nodes with two workers asleep, one in `dequeue` and `main` in `enqueue`. Two
workers and three connections give two concurrent shutdowns with a connection coming in.
The list keeps its order also when a number is given out again, for which one connection
must end while another is accepted. Three workers give a parent with two children (so
that a remainder of the division exists), or two transfers and a child. One range is
within the file, one ends a byte beyond it, and two have an end that wraps around into
the file: one begins beyond it, and the other is so long that the size of its block
wraps too, or does not once it is divided among children. The fourth request finds
blocks that come back from `malloc` with an old `next`, and circles behind the end of
the list do arise; it is followed where all requests are for the plain range or a name
that is refused (`FourthIsPlain`), since the list does not look at ranges. Four
connections fill a ring of two under two busy workers and let `head` and `tail` wrap.
The four dictionaries have codes longer than two bytes, codes of exactly one byte (no
padding, ever), codes that cross bytes, and codes that leave some bit sequences without
a meaning. Two workers with a message each and one block of their size mean that one
message is in the pool and one on the heap; three connections fill the ring of two and
turn its ends round. Two WebSockets are enough for a page that connects twice before the
first is open, or again after a disconnect; two TCP connections for a second connect on
one WebSocket; two requests for replies in one `data` event, for a request behind a wide
text, and for overlapping retrieves. A header of two units and a payload of one can be
cut inside of the header, behind it and behind the message.

Requests, connections and blocks are bounded (`NumConns`, `MaxRequests`,
`Blocks`), so each model stops at its bound; and a server may really stop, since
a shutdown ends its threads and a child may wait for good. That is why the cfgs
say `CHECK_DEADLOCK FALSE`; what must not stop is stated as liveness.

*Fairness.* Each thread of the process, `main` included, is weakly fair: the
scheduler runs a thread that can run, and a step that waits for a lock, a signal
or a pipe is not enabled. Nothing more is assumed in the
specifications; where a property needs more, that is its premise. Three things can make
a thread wait that no other thread is sure to end, and none of them is assumed to end:
the next message and the sending of a reply wait for the client (`ClientFairness` says
that clients come, read and end their sessions); the end of a transfer waits for the list
and for the part of a child (`TransfersEnd`; `file_starve` shows that the code does not
see to that); and a connection waits for a worker (`WorkersFree` in `Proxy`; 20 clients
that say nothing keep all of them, `tp.c:103`). `EveryClientServed`,
`EveryClientLeaves`, `EveryConnectionClosed` and `ShutdownCompletes` have the first two as
their premise, and `EveryRequestAnswered` has the third, with a child that joined too late
among its exceptions. A worker that reads from a number closed for another session may
read for ever (`Robbed`), of which `EveryClientServed` and `EveryClientLeaves` make an
exception. `ShutdownStopsListening` and `ShutdownLeavesLoop` need no premise.
`OptimizedPool` assumes finitely many spurious wake-ups, as endless ones could keep the
mutex busy, and so does `TpOptimized`; `pool_shutdown` has none, and `pool_serve`, which
does, checks only safety. In `Proxy` what is under way arrives and is handled; the user
need not do anything, and the server may stop or not.

For every property of a passing run there is a seeded fault: an operator in the
module, marked as such, that changes one step as a plausible slip would. With it
in place of the step the run finds the property violated.

## 4. What the checks show

Holds: until a shutdown the pool is a queue, in any interleaving, with wake-ups
from nowhere, with threads that start before the pool is ready and with numbers that are
closed twice. The mutex discipline holds in a shutdown too for whoever does not empty
the list, and nobody keeps the mutex but on the two breaks for `shut`. The shutdown
always reaches the server socket. The transfer list is right, on recycled blocks too,
as long as no freed block is used and the process survives, and segments are disjoint
where no offset wraps, and complete if nobody joins during the cut. The test of a range
(`message_handling.c:387`) wraps, but its first half catches what begins beyond the file;
what is left is a length of nearly 2^64, whose block cannot be had or is overrun
before anything is cut. The ring is a bounded queue, and the optimized server leaks no
socket and frees nothing too early. The two decoders agree, and each combination of
flags shows the right reply or the right error, for payloads in pieces too with the
optimized reading. The optimized codecs keep what they compress, but may add to it. The
pool of `tp_optimized.c` is the same queue, loses no memory that it owns and no socket
before a shutdown, and its shutdown leaves no worker asleep. The proxy hands on replies
whole and in order however the stream is cut; its map leads to live connections; files
that are asked for one after the other are saved under their names; and where the server
has workers for its connections, a request is answered unless a connection ends or gets
out of step, or the request joins a transfer too late.

Does not hold (each a run whose property is violated, and a finding):

* `pool_hang`: both exits of the worker loop keep the mutex, so `main` may block
  on it instead of seeing that `accept()` failed.
* `file_crash`: `remove_node` does not find the head of a longer list and runs off
  its end.
* `file_starve`: a child that joins after the cut waits on its pipe for good.
* `ring_join`: a worker between its test and its wait misses the broadcast, and
  `main` joins it for good.
* `fd_close`: a descriptor is closed twice, by `get_description` and again by
  `client_handling`; in between `accept()` may give it to a new client.

Seen in the models, without a run of their own:

* Default build. Clients that never hang up keep every worker
  (`EveryClientServed` needs its premise). The double close may hit the connection of
  another worker, which then reads whatever connection gets the number next
  (`Attached`), with answers in the wrong place, and if none does reads an error for
  ever, with the last header it has seen; so no property says that the connection in a
  worker's hands is open. A mismatched file request (`tp.c:143`)
  leaks its socket, which is why `pool_serve` has no file requests, and a
  transfer leaks its pipe (`tp.c:167`); in `Descriptors` the numbers run out, and
  `main` takes the failed `accept()` for a shutdown. After a shutdown begins,
  nodes and tables may be used after they are freed and freed twice (`tp.c:185`), so
  what is said of them speaks of the time before.
* Transfers. A range with a length of nearly 2^64 passes the test; where its block
  comes out small, a header is written over the end of it and a segment that is not in
  the file is announced, the premise of `CutWithinFile`. A join during the cut gives
  segments that leave bytes out or send some child nothing, hence the premise of
  `SegmentsTile`. A search during the byte swap of `parent_send` misses the transfer. A
  recycled request keeps its `next` (`multiplexlist.c:27`), so that the list can end in
  a circle, in which `find` and `remove_node` go round with the lock held, or
  lead to blocks that were freed. A request that a child has found may be freed and
  handed out for another session before the child reads its pipe (`tp.c:151`): what it
  then takes is a part of that one. No property forbids it, as it happens.
* Replies. A file size reply of the default build frees its path twice. The block
  of an echo is sized before the payload is compressed, which can make it longer. A
  payload that decodes to nothing is read through `NULL` (`message_handling.c:131`, 268),
  and a name without its 0 behind its block (137, 273). `MemoryKept` says that nothing
  else goes wrong where nothing is compressed. The
  optimized handlers pass `compress` a wrong pointer (`message_handling_optimized.c:152`,
  235, 310), so a compressed reply of theirs is lost unless it is an echo. An
  empty payload sent compressed is not recognised by `decompress`, and
  `RepliesFit` leaves it out.
* Retrieves of the proxy. It asks for 36 bytes of `test.txt`, which has 24
  (`proxy-server.js:124-135`), so that the page gets an error for a file that is there, and of
  a longer file with a name it does not know only the beginning, where
  `frontend/README.md:19` lists "Retrieve file contents"; and it sends names without their 0.
  `RepliesFit` says what comes of it, no more.
* Codecs. Without a padding count the decoders of the two optimized codecs may
  append bytes, where `PERFORMANCE_FIXES.md:82` offers them as a replacement.
* Optimized servers. A message of unknown type ends a thread of
  `server_optimized.c`, hence the exceptions of `EveryClientLeaves`. In both, a child
  may wait on its pipe and a parent search the list for ever. A shutdown
  of `tp_optimized.c` frees the tables and the memory pool while other workers use
  them, and a compressed reply or a transfer may spoil memory (`MayCorrupt`), so
  `MemoryOwned` is a property of the time before any of these.
* Proxy. Two connects on one WebSocket, or a connect whose callback comes after
  the WebSocket was closed, leave a TCP connection that nothing leads to
  (`MapLeadsToLive` says that these are the only ways). Overlapping retrieves are
  saved under wrong names. A wide text puts the connection out of step. The page
  is not told when the server closes a connection.

## 5. What is proved

The theorems hold for any number of workers, connections, WebSockets and requests,
any capacity of a ring, any size of a file, any number of children of a transfer,
any way a stream is cut, and data of any length over bytes of any width. Every
safety invariant that a run checks is a theorem, and so is every refinement.

| Module | Theorem | Says |
|---|---|---|
| `ThreadPoolProofs` | `TypeCorrect` | `TypeOK` always |
| | `MutexDiscipline` | `LockDiscipline` always: who is at the list owns the mutex, unless it drains the list for a shutdown, and who owns it is at the list or has left through a break for `shut` |
| | `Inductive` | `IInv` always |
| | `QueueIntegrity`, `OneOwner`, `ServedFromTables` | `ListShape`, `OneHandler`, `TablesReady` always; each speaks of the time before a shutdown |
| | `NoSocketForgotten` | `SocketsReleased` always, where clients send no file requests; it speaks of the time before a shutdown |
| | `WakeupsSuffice` | `NoLostWakeup` always |
| | `PoolIsQueue` | until a shutdown the pool implements `WorkQueue` |
| `FileMultiplexProofs` | `TypeCorrect` | `TypeOK` always |
| | `OnlyTheFileIsCut` | `CutWithinFile` always: what is cut while the process is sound is in the file, the wrap of the sum included |
| | `NoByteTwice`, `PartsAreTheRange` | `SegmentsDisjoint`, `SegmentsTile` always |
| | `ListIsTransfers` | `ListHoldsTransfers` always, on blocks that were used before too, while the process is sound |
| `OptimizedPoolProofs` | `TypeCorrect`, `Inductive` | `TypeOK` and `IInv` always |
| | `NothingFreedInUse`, `SocketsOwned`, `RingIsWatched` | `NoUseAfterFree`, `OpenAreOwned`, `WakeupsSuffice` always, shutdowns included; that a connection somebody holds is open is not claimed |
| | `RingIsQueue` | the ring implements `WorkQueue` |
| `TpOptimizedProofs` | `TypeCorrect`, `Inductive` | `TypeOK` and `IInv` always |
| | `NobodySleeps` | `NoSleeperAfterShutdown` always |
| | `MemoryComesBack`, `SocketsOwned` | `MemoryOwned`, `OpenAreOwned` always; both speak of the time before a shutdown, the first also of the time before memory is spoilt |
| | `RingIsQueue` | until a shutdown the pool implements `WorkQueue` |
| `ProxyProofs` | `TypeCorrect` | `TypeOK` always |
| | `MapIsLive` | `MapLeadsToLive` always |
| | `RepliesInOrder` | `AnsweredInOrder` always |
| | `NamesKept` | `SavedUnderItsName` always |
| `CodecProofs` | `CompressionLosesNothing` | with a prefix code, both decoders of the deployed code give back what `compress` made of any data |
| | `DictionaryReadBack` | `create_map` and `loadDictionary` read the codes that a dictionary file lists |
| | `TrieFindsTheSame` | with a complete prefix code, the trie finds in any data what the table finds |
| | `ShorterKeepsPayload`, `CountingKeepsPayload`, `IdentityIsExact` | what the two optimized codecs make of any data begins with that data, and is exactly it without a dictionary |
| `ExchangeProofs` | `TypeCorrect` | `TypeOK` always |
| | `PlainRepliesKeepMemory` | `MemoryKept` always: for echoes and listings however they come, for sizes and files where the payload is read as a whole and the name has its 0 |
| | `RepliesAreRight` | `RepliesFit` always: for requests that are read as a whole, errors for ranges and names without a 0 included |
| | `DecodersAreOne` | `DecodersAgree` always: server and proxy share the search, the dictionaries and the tests for emptiness are compared; the trie agrees with a search through the table where the code is complete |
| | `CodecsKeep` | `CodecsKeepPayload` always: of `compression_opt.c` only for what it shortens with a complete code |

*Assumptions.* Each module names what it assumes of its constants. Sets of threads and
blocks are finite, `main` and the marks for nobody and for no pointer are none of them,
bounds are natural numbers, and a ring and a header are not empty. `SizesAssumption` of
`FileMultiplex` says that twice the size of a file is a word, as files are shorter than
2^63 bytes, and so is twice that of a header. `RangesAssumption` says that offsets and
lengths are words, nothing more. `DictionaryAssumption` of `Exchange` is about a file
that is not in the repository (`.gitignore` names it): it lists a code for every byte,
each with its length before it in one byte, no code is empty, and none begins with
another. The last is what the decoders rest on, since they take the first code that
fits; with other codes, what is compressed does not come back. That they are met is
shown by the four dictionaries of the run; that nothing else is asked of the file, by
`DictionaryReadBack`: whatever is behind the entries, both sides read these codes. One
theorem about runs has a premise of its own: that of `NoSocketForgotten` is the code's
leak at `tp.c:143`, without which the property is false. The others are about the whole
specification, and what the properties leave out is in their statements. Where
`CodecProofs` asks for a complete code, the trie leaves the data as it is when it cannot
follow it, where the table takes nothing more, so they differ.

**ThreadPool.** None of the properties is inductive alone. `OneHandler` needs to
know that a worker in `dequeue` is alone there, which is `LockDiscipline`, which
during a shutdown holds only for workers that do not drain, which `DrainInv`
describes. `ListShape` says nothing of the list between the two statements of
`enqueue` or the six of `dequeue`; `LinkInv` says what it looks like there, and
`CurInv` what the thread in between holds. `MainInv` ties `main`'s place to the
connection in its hands and to the tables that exist by then. `IInv` is their
conjunction. It says nothing of which sockets are open, as a number may be closed for
another worker's connection; `NoSocketForgotten` shows that `SocketsReleased` is kept
with it. Its proof has one lemma per part, and in it one step per action; the
parts that only hold before a shutdown are guarded by `~shut`, and the lemma
`ShutIsFinal` carries the guard back in time. `WakeupsSuffice` counts: every step
that lowers the number of workers on the way, or lengthens the list, is matched
against `SignalsDue`; it rests on cardinalities of finite sets. `PoolIsQueue`
speaks of every step that begins before the flag of the shutdown is set, whose race
with `enqueue` section 4 describes. It maps `Link` to an arrival, `AdvanceHead` to a
hand-over, `FreeClfd` to an end and every other such step to a
stutter; `LinkInv` makes the abstract queue an interval of
connection numbers.

**OptimizedPool.** `IInv` adds to the types where each thread can be (`WorkerInv`,
`MainInv`) and that the live part of the ring ends where `head` and `count` say, with
every connection in the ring or in a worker's hands once and already accepted
(`RingInv`). The lemmas on rings say what an item at the end and the removal of the
first do to the sequence that starts at `head` and wraps around; the same sequence is
the queue that `RingIsQueue` maps to. `NothingFreedInUse` follows since `main` frees
after the join, and a worker that has exited holds nothing. Nothing here is guarded by
the flag: it holds in shutdowns too. Descriptors are no part of `IInv`; `SocketsOwned`
says that no open socket is forgotten, not that what is held is open.

**FileMultiplex.** Every worker owns its request (`Owned`). `TransferInv` says for
each statement of `parent_send` what is already cut (`CutState`): the segments follow
one another from the offset of the range to where the next one begins, whatever the
number of children was at each read; and while that number is the one the division
used, each has the length the division gave it, and the first `remainder` of them
have one byte more. That a range is in the file rests on both halves of
the test and on the width of a word. `ListInv` says which blocks are linked and that
parent and request belong together; `OrderInv` says that, until a freed block is used or
is left as the head, some sequence without repetitions runs from `head` through `next` to
`tail` and has exactly the transfers under way as members. What the `next` of the last
one is, or of a block that is not linked, does not matter to it, and so it holds on
recycled blocks. `OnlyTheFileIsCut` follows the two ways of a sum that wraps: the block
of what is asked for is either too large to be had, or too small for its header, and
either way the process is not sound when the first segment is cut.

**TpOptimized.** Until a shutdown `IInv` says who owns each connection (ring,
worker or `main`), each open socket, each piece of the heap and each block of the
pool, and that the counter of blocks in use is their number: owners are distinct,
so whatever is given back is given back by its only owner, to where the pointer
came from. After a shutdown only the types and `NoSleeperAfterShutdown` remain. That
one needs no more than itself: no worker begins to wait once the flag is set, and the
broadcast comes after it. `RingIsQueue` speaks of every step that begins before the
flag is set, whatever clients send: a connection joins the abstract queue in `Enqueue`, is
turned away in `Refuse`, is taken in `Dequeue` and given up in `FreeClfd`, and every
other step, the closing of its socket and the setting of the flag included, moves none.

**Proxy.** `MapInv` is nearly `MapLeadsToLive` itself; a twin remains one, since
connections are not undone. `OrderInv` says of each connection that there is a sequence
of answers, the i-th to the i-th request of `log`, such that what the page has handled,
what is on its way to it, what is in the buffer, and what is still on the stream, is
that sequence in units, one part after the other, until a text that is not all ASCII.
The lemmas on `Cut` say that what it takes off the stream and what it leaves are
together what was there, and that from a stream of replies it takes exactly the next
ones (`CutCarries`); they go by induction over the place where the cutting goes on.
`PathInv` says that nothing travels for what was not opened. `NamesKept` rests on
`OrderInv`: `NameInv` says that a request is in one place, on the way to the proxy or in
the log of one connection, that an answer that carries a file is to a request still
outstanding, and that among those there is, unless requests overlapped, one retrieval,
the one that is named.

**Codecs.** Where the code loops over bits, the model folds over a sequence. A fold is
read as the sequence of the states between its steps (`DecodeTrace`, `WalkTrace` and
their like), and what holds of the states is shown by induction over their positions.
Compression is then placed: the codes lie in the payload one after the other, the code
of the k-th byte where the codes before it end (`EncodeAt`), and the bits read back from
packed bytes are those that were packed, for every width of a byte. `ReadCode` is the
heart of it: a decoder that comes to the beginning of a code with no bits collected
finds no other code within it, because none begins with another, and at its end takes
exactly its byte and has collected nothing again. So the decoder is between codes at
each place where one begins, the number of bits in the last byte of the payload makes it
stop behind the last code, and an empty payload is the one case in which `decompress`
and the decoder of the proxy differ. The walk through the trie is at the node of the
bits that the table search has collected (`TrieFindsTheSame`). In `CountingKeepsPayload`
the number of padding bits is less than two to their power, so that it is written over
the padding alone.

**Exchange.** What is in the buffer after each step is written in terms of what the
client means: as it was, or compressed. Every combination of flags then comes down
to the lemma `CodecsInvert`, applied on the way in, on the way out, or for an echo that
is never decompressed on the server, once for both. `SentInv` says that each side only
has bytes, payloads cut short and decoded all the same included, and that what is
marked as compressed is never empty, on which the decoders would differ.

**Induction.** What the prover cannot do is use a theorem of the library that takes an
operator. Induction over the natural numbers is therefore stated of sets
(`InductionOverSet` and `LeastElement` in `ListLemmas`, `DownwardInduction` in
`ProxyProofs`), and what recursive functions and the folds of the community modules
compute is unfolded through the existence of such a function. No module declares a
`RECURSIVE` operator.

**Only model-checked.** All liveness properties, since the prover has no rules for
fairness and `ENABLED`: `EveryClientServed`, `ShutdownStopsListening`,
`EveryClientLeaves`, `ShutdownLeavesLoop`, `EveryConnectionClosed`,
`EveryRequestAnswered`. Of a shutdown in `ThreadPool` everything but the mutex
discipline and the types, and in `TpOptimized` everything but the types and the
sleepers. `Descriptors`, whose one property fails.

## 6. What is left out

The first thing to add are errors of `read()` and `send()` beyond those of a descriptor
that another thread has closed (`FailedRead`): `get_description` tests for 0 only, and the
8-byte length may be read short. A `read()` that is blocked already when its number is
closed by another thread goes on with the old connection; in the model it fails or reads
what has the number next. What could be proved next is what a
shutdown keeps of `IInv` in `ThreadPool`, among the workers that do not take part in it.

Not modelled: `create_config.c`, `stress_test.c`, `benchmark.sh` and the Makefile, which
keep no state of the server; the parser in `compression_optimized.c` (35-87) of a
dictionary as text, since all others read the same file as bits; what the page draws and
logs; failing allocations and start-up errors, which end the process or are not tested.
