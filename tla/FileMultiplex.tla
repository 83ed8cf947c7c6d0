----------------------------- MODULE FileMultiplex -----------------------------
(* File retrieval over several connections (message type 0x6): the first       *)
(* worker with a session id puts its request on the shared list and becomes    *)
(* the parent, the workers that find it there become children.  The parent     *)
(* cuts the file range into one segment per connection and sends the children  *)
(* theirs through a pipe.  The three list operations run under the list lock   *)
(* and are one step each; parent_send reads num_connect again and again        *)
(* without any lock, and each of those reads is a step.                        *)
EXTENDS Integers, Sequences, FiniteSets

CONSTANTS
  Workers,      \* worker threads, each with a client that sends requests
  Blocks,       \* heap blocks that hold a file_request
  Sessions,     \* session ids; none equals another one with its bytes swapped
  Ranges,       \* [name, offset, length] triples that clients ask for
  FileSize,     \* bytes in the file that is there
  HeaderSize,   \* 20: bytes of the header of a segment
  WordSize,     \* 2^64: offsets and lengths are unsigned words
  MaxRequests   \* bound: requests received

\* The size of a file is a signed word (st_size).
ASSUME SizesAssumption == /\ {WordSize, FileSize, HeaderSize} \subseteq Nat /\ 2 * FileSize < WordSize
                          /\ 2 * HeaderSize <= WordSize /\ MaxRequests \in Nat \ {0}

\* The name of the file, of one that is missing, or one with a ".." or a "/" in it
Names == {"there", "missing", "refused"}
ASSUME RangesAssumption ==
  /\ Ranges \subseteq [name : Names, offset : 0..WordSize - 1, length : 0..WordSize - 1]
  /\ Ranges # {}

NIL == 0
ASSUME BlocksAssumption == IsFiniteSet(Blocks) /\ NIL \notin Blocks

VARIABLES
  pc,        \* the statement each worker runs next
  req,       \* the request each worker dissected from its message
  curr,      \* the request of another worker that find returned
  block,     \* contents of every heap block
  head, tail,\* the list of requests
  local,     \* parent_send's division, current_offset, i, remaining, the num_connect
             \* its division was computed from, and one read for remaining
  cut,       \* the segments the parent has cut so far, its own one last
  pipes,     \* the pipes ever opened: the segments inside
  reading,   \* the pipe each child reads from, then the one it has read from
  requests,  \* how many requests were received
  process    \* "up", "faulty" (a freed block was used or is left on the list, or a
             \* block was overrun) or "crashed"

vars == <<pc, req, curr, block, head, tail, local, cut, pipes, reading, requests, process>>

Start == [division |-> 0, offset |-> 0, i |-> 0, remaining |-> 0, num |-> 0, read |-> 0]

\* A heap block that was never allocated reads as zeroes.
Init ==
  /\ pc = [w \in Workers |-> "message"]
  /\ req = [w \in Workers |-> NIL] /\ curr = [w \in Workers |-> NIL]
  /\ block = [b \in Blocks |-> [state |-> "fresh", session |-> NIL, swapped |-> FALSE,
                range |-> CHOOSE r \in Ranges : TRUE, num |-> 0, next |-> NIL, pipe |-> NIL]]
  /\ head = NIL /\ tail = NIL
  /\ local = [w \in Workers |-> Start] /\ cut = [w \in Workers |-> <<>>]
  /\ pipes = <<>> /\ reading = [w \in Workers |-> NIL]
  /\ requests = 0 /\ process = "up"
--------------------------------------------------------------------------------
Goto(w, label) == pc' = [pc EXCEPT ![w] = label]

Read(bad) == process' \in IF bad THEN {"faulty", "crashed"} ELSE {process}

\* The nodes a walk along the list meets, NIL after its end.
Walk == LET at[i \in 0..Cardinality(Blocks)] ==
              IF i = 0 THEN head ELSE IF at[i - 1] = NIL THEN NIL ELSE block[at[i - 1]].next
        IN  at

\* The first node of a walk that is one of the given, NIL if there is none.
First(nodes) ==
  LET hits == {i \in DOMAIN Walk : Walk[i] \in nodes}
  IN  IF hits = {} THEN NIL ELSE Walk[CHOOSE i \in hits : \A j \in hits : i <= j]

\* A search for one of the nodes finds one or the end of the list: in a circle
\* without any it goes on for ever, with the list locked.
Ends(nodes) == \E i \in DOMAIN Walk : Walk[i] \in nodes \cup {NIL}

\* A node that is no request any more is read before the search is over.
Strays(nodes) == \E i \in DOMAIN Walk : /\ Walk[i] # NIL /\ block[Walk[i]].state # "live"
                                        /\ \A j \in DOMAIN Walk : j < i => Walk[j] \notin nodes

SameSession(a, b) == block[a].session = block[b].session /\ ~block[a].swapped

\* The two ways a client is answered and the worker turns to its next message.
Done(w) == /\ Goto(w, "message")
           /\ local' = [local EXCEPT ![w] = Start] /\ cut' = [cut EXCEPT ![w] = <<>>]
           /\ req' = [req EXCEPT ![w] = NIL] /\ curr' = [curr EXCEPT ![w] = NIL]
           /\ reading' = [reading EXCEPT ![w] = NIL]
--------------------------------------------------------------------------------
(* client_handling                                                             *)

\* dissect_file_request: malloc hands out a block that is new or was freed, and
\* leaves the next field as it finds it.
Dissect(w) ==
  /\ pc[w] = "message" /\ Goto(w, "find")
  /\ requests < MaxRequests /\ requests' = requests + 1
  /\ \E b \in Blocks, s \in Sessions, r \in Ranges :
       /\ block[b].state \in {"fresh", "freed"}
       /\ req' = [req EXCEPT ![w] = b]
       /\ block' = [block EXCEPT ![b].state = "live", ![b].session = s, ![b].range = r,
                                 ![b].swapped = FALSE]
  /\ UNCHANGED <<curr, head, tail, local, cut, pipes, reading, process>>

Find(w) ==
  LET wanted == {b \in Blocks : SameSession(b, req[w])}
  IN  /\ pc[w] = "find" /\ Ends(wanted)
      /\ curr' = [curr EXCEPT ![w] = First(wanted)]
      /\ Goto(w, IF curr'[w] = NIL THEN "add" ELSE "compare")
      /\ Read(Strays(wanted))
      /\ UNCHANGED <<req, block, head, tail, local, cut, pipes, reading, requests>>

\* A transfer of the same session but another name or range: error, and the block
\* of the request is never freed.
Mismatch(w) ==
  /\ pc[w] = "compare"
  /\ block[curr[w]].range # block[req[w]].range
  /\ Done(w)
  /\ Read(block[curr[w]].state # "live")
  /\ UNCHANGED <<block, head, tail, pipes, requests>>

Match(w) ==
  /\ pc[w] = "compare" /\ Goto(w, "join")
  /\ block[curr[w]].range = block[req[w]].range
  /\ Read(block[curr[w]].state # "live")
  /\ UNCHANGED <<req, curr, block, head, tail, local, cut, pipes, reading, requests>>

\* Seeded fault: the child counts itself out.
JoinDown(w) ==
  /\ pc[w] = "join" /\ Goto(w, "child")
  /\ block' = [block EXCEPT ![curr[w]].num = @ - 1]
  /\ Read(block[curr[w]].state # "live")
  /\ UNCHANGED <<req, curr, head, tail, local, cut, pipes, reading, requests>>

\* num_connect++ under the lock of the node.
Join(w) ==
  /\ pc[w] = "join" /\ Goto(w, "child")
  /\ block' = [block EXCEPT ![curr[w]].num = @ + 1]
  /\ Read(block[curr[w]].state # "live")
  /\ UNCHANGED <<req, curr, head, tail, local, cut, pipes, reading, requests>>

\* add: a node joins the end of the list; its next field is not set.
Append1(b) == IF head = NIL THEN head' = b /\ tail' = b
              ELSE head' = head /\ tail' = b

LinkBehind(b) == [block EXCEPT ![b].num = 0, ![b].pipe = Len(pipes) + 1,
                               ![IF head = NIL THEN b ELSE tail].next =
                                   IF head = NIL THEN @ ELSE b]

Add(w) ==
  /\ pc[w] = "add" /\ Goto(w, "parent")
  /\ pipes' = Append(pipes, <<>>)
  /\ Append1(req[w])
  /\ block' = LinkBehind(req[w])
  /\ UNCHANGED <<req, curr, local, cut, reading, requests, process>>
--------------------------------------------------------------------------------
(* parent_send                                                                 *)

Num(w) == block[req[w]].num
Length(w) == block[req[w]].range.length
Offset(w) == block[req[w]].range.offset

Sum(x, y) == (x + y) % WordSize

\* Seeded fault: only the end of the range is tested.
BeyondAtEnd(range) == range.name # "there" \/ Sum(range.offset, range.length) > FileSize

\* There is no such file, or the range ends beyond it; the sum of two words is a word.
Beyond(range) == \/ range.name # "there" \/ range.offset > FileSize
                 \/ Sum(range.offset, range.length) > FileSize

\* A name that is refused or cannot be opened, and a range that ends beyond the
\* file, are answered with an error.
Refuse(w) ==
  /\ pc[w] = "parent" /\ Goto(w, "remove")
  /\ Beyond(block[req[w]].range)
  /\ UNCHANGED <<req, curr, block, head, tail, local, cut, pipes, reading, requests, process>>

\* A block for a header and length bytes, and the header written into it, when asked
\* bytes are asked for.  More than the file has are nearly WordSize: they made the sum
\* of the test wrap.  Then either the size of the block wraps as well, and it is
\* too small for the header, or there is no block, and memcpy writes through NULL.
Allot(asked, length) ==
  process' \in IF asked <= FileSize THEN {process}
               ELSE IF length + HeaderSize >= WordSize THEN {"faulty", "crashed"} ELSE {"crashed"}

Divide(w) ==
  /\ pc[w] = "parent" /\ Goto(w, "swap")
  /\ ~Beyond(block[req[w]].range)
  /\ local' = [local EXCEPT ![w] = [division |-> Length(w) \div (Num(w) + 1), offset |-> Offset(w),
                                    i |-> 0, remaining |-> 0, num |-> Num(w), read |-> 0]]
  /\ Allot(Length(w), local'[w].division)
  /\ UNCHANGED <<req, curr, block, head, tail, cut, pipes, reading, requests>>

\* The session id is put into network order in place, copied, and put back.
Swap(w) ==
  /\ pc[w] = "swap" /\ Goto(w, "unswap")
  /\ block' = [block EXCEPT ![req[w]].swapped = TRUE]
  /\ UNCHANGED <<req, curr, head, tail, local, cut, pipes, reading, requests, process>>

Unswap(w) ==
  /\ pc[w] = "unswap" /\ Goto(w, IF Num(w) > 0 THEN "longer" ELSE "send")
  /\ block' = [block EXCEPT ![req[w]].swapped = FALSE]
  /\ UNCHANGED <<req, curr, head, tail, local, cut, pipes, reading, requests, process>>

\* Seeded fault: the offset stays where it is.
WriteInPlace(w, length) ==
  LET segment == <<local[w].offset, length>>
  IN  /\ pipes' = [pipes EXCEPT ![block[req[w]].pipe] = Append(@, segment)]
      /\ cut' = [cut EXCEPT ![w] = Append(@, segment)]
      /\ local' = [local EXCEPT ![w].i = @ + 1]

\* The next segment of the given length goes into the pipe.
Write(w, length) ==
  LET segment == <<local[w].offset, length>>
  IN  /\ pipes' = [pipes EXCEPT ![block[req[w]].pipe] = Append(@, segment)]
      /\ cut' = [cut EXCEPT ![w] = Append(@, segment)]
      /\ local' = [local EXCEPT ![w].offset = Sum(@, length), ![w].i = @ + 1]

\* The remainder of the division goes to the first children, a byte each.
Longer(w) ==
  /\ pc[w] = "longer"
  /\ IF local[w].i < Length(w) % (Num(w) + 1)
     THEN Write(w, Sum(local[w].division, 1)) /\ UNCHANGED pc
     ELSE Goto(w, "rest") /\ UNCHANGED <<local, cut, pipes>>
  /\ UNCHANGED <<req, curr, block, head, tail, reading, requests, process>>

\* num_connect - size % (num_connect + 1): the compiler reads the one or the other
\* num_connect first.
Rest(w) ==
  /\ pc[w] = "rest" /\ \E last \in {"minuend", "divisor"} : Goto(w, last)
  /\ local' = [local EXCEPT ![w].read = Num(w)]
  /\ UNCHANGED <<req, curr, block, head, tail, cut, pipes, reading, requests, process>>

\* Seeded fault: every child is sent a segment, the first ones a second one.
RestAll(w) ==
  /\ pc[w] \in {"minuend", "divisor"} /\ Goto(w, "shorter")
  /\ local' = [local EXCEPT ![w].i = 0, ![w].remaining = Num(w)]
  /\ UNCHANGED <<req, curr, block, head, tail, cut, pipes, reading, requests, process>>

Remaining(w) ==
  LET minuend == IF pc[w] = "minuend" THEN Num(w) ELSE local[w].read
      divisor == IF pc[w] = "divisor" THEN Num(w) ELSE local[w].read
  IN  /\ pc[w] \in {"minuend", "divisor"} /\ Goto(w, "shorter")
      /\ local' = [local EXCEPT ![w].i = 0,
                                ![w].remaining = minuend - (Length(w) % (divisor + 1))]
      /\ UNCHANGED <<req, curr, block, head, tail, cut, pipes, reading, requests, process>>

Shorter(w) ==
  /\ pc[w] = "shorter"
  /\ IF local[w].i < local[w].remaining
     THEN Write(w, local[w].division) /\ UNCHANGED pc
     ELSE Goto(w, "send") /\ UNCHANGED <<local, cut, pipes>>
  /\ UNCHANGED <<req, curr, block, head, tail, reading, requests, process>>

\* The parent sends the segment that is left.
Send(w) ==
  /\ pc[w] = "send" /\ Goto(w, "remove")
  /\ cut' = [cut EXCEPT ![w] = Append(@, <<local[w].offset, local[w].division>>)]
  /\ UNCHANGED <<req, curr, block, head, tail, local, pipes, reading, requests, process>>

\* remove_node: the node before the one removed is looked for among the next fields,
\* where the head of a longer list is not found, unless one of a block that was
\* freed before leads back to it; the head stays what it was then.
Befores(b) == {p \in Blocks : block[p].next = b}
Before(b) == First(Befores(b))

\* Seeded fault: the tail still names the node taken off the list.
UnlinkKeepTail(b) ==
  IF head = b /\ tail = b
  THEN head' = NIL /\ tail' = NIL /\ block' = [block EXCEPT ![b].state = "freed"] /\ UNCHANGED process
  ELSE /\ Before(b) # NIL
       /\ block' = [block EXCEPT ![Before(b)].next = block[b].next, ![b].state = "freed"]
       /\ UNCHANGED <<head, tail, process>>

Unlink(b) ==
  LET only == head = b /\ tail = b
      freed == [block EXCEPT ![b].state = "freed"]
  IN  \/ /\ only
         /\ head' = NIL /\ tail' = NIL /\ block' = freed
         /\ UNCHANGED process
      \/ /\ ~only /\ Before(b) # NIL
         /\ block' = [freed EXCEPT ![Before(b)].next = block[b].next]
         /\ tail' = IF tail = b THEN Before(b) ELSE tail
         /\ Read(head = b \/ Strays(Befores(b))) /\ UNCHANGED head
      \/ /\ ~only /\ Before(b) = NIL /\ Ends(Befores(b))
         /\ process' = IF head = NIL THEN process ELSE "crashed"
         /\ UNCHANGED <<block, head, tail>>

Remove(w) ==
  /\ pc[w] = "remove"
  /\ Unlink(req[w])
  /\ Done(w)
  /\ UNCHANGED <<pipes, requests>>
--------------------------------------------------------------------------------
(* child_send                                                                  *)

\* A name that is refused is answered with an error before the pipe is read.
ChildRefuse(w) ==
  /\ pc[w] = "child" /\ block[curr[w]].range.name = "refused"
  /\ Read(block[curr[w]].state # "live")
  /\ block' = [block EXCEPT ![req[w]].state = "freed"]
  /\ Done(w)
  /\ UNCHANGED <<head, tail, pipes, requests>>

Child(w) ==
  /\ pc[w] = "child" /\ block[curr[w]].range.name # "refused" /\ Goto(w, "read")
  /\ reading' = [reading EXCEPT ![w] = block[curr[w]].pipe]
  /\ Read(block[curr[w]].state # "live")
  /\ UNCHANGED <<req, curr, block, head, tail, local, cut, pipes, requests>>

ReadPipe(w) ==
  /\ pc[w] = "read" /\ Goto(w, "header")
  /\ pipes[reading[w]] # <<>>
  /\ pipes' = [pipes EXCEPT ![reading[w]] = Tail(@)]
  /\ LET length == Head(pipes[reading[w]])[2] IN Allot(length, length)
  /\ UNCHANGED <<req, curr, block, head, tail, local, cut, reading, requests>>

\* The header of the reply holds the session id of the parent's request; a file that
\* cannot be opened is answered with an error.
Header(w) ==
  /\ pc[w] = "header"
  /\ Read(block[curr[w]].state # "live")
  /\ block' = [block EXCEPT ![req[w]].state = "freed"]
  /\ Done(w)
  /\ UNCHANGED <<head, tail, pipes, requests>>
--------------------------------------------------------------------------------
Step(w) ==
  \/ Find(w) \/ Mismatch(w) \/ Match(w) \/ Join(w) \/ Add(w)
  \/ Refuse(w) \/ Divide(w) \/ Swap(w) \/ Unswap(w) \/ Longer(w) \/ Rest(w)
  \/ Remaining(w) \/ Shorter(w) \/ Send(w) \/ Remove(w)
  \/ ChildRefuse(w) \/ Child(w) \/ ReadPipe(w) \/ Header(w)

Running == process # "crashed"

Next == Running /\ \E w \in Workers : Dissect(w) \/ Step(w)

Spec == Init /\ [][Next]_vars

\* Workers keep running; a read from an empty pipe is not a step.
FairSpec == Spec /\ \A w \in Workers : WF_vars(Running /\ Step(w))
--------------------------------------------------------------------------------
ParentLabels == {"parent", "swap", "unswap", "longer", "rest", "minuend", "divisor", "shorter",
                 "send", "remove"}

Labels == ParentLabels \cup {"message", "find", "compare", "join", "add", "child", "read", "header"}

\* What a heap block, and the locals of parent_send, hold
Node == [state : {"fresh", "live", "freed"}, session : Sessions \cup {NIL}, swapped : BOOLEAN,
         range : Ranges, num : Nat, next : Blocks \cup {NIL}, pipe : Nat]
Locals == [division : Nat, offset : Nat, i : Nat, remaining : Int, num : Nat,
           read : Nat]

TypeOK ==
  /\ pc \in [Workers -> Labels]
  /\ req \in [Workers -> Blocks \cup {NIL}] /\ curr \in [Workers -> Blocks \cup {NIL}]
  /\ block \in [Blocks -> Node]
  /\ head \in Blocks \cup {NIL} /\ tail \in Blocks \cup {NIL}
  /\ local \in [Workers -> Locals]
  /\ reading \in [Workers -> Nat] /\ \A w \in Workers : reading[w] <= Len(pipes)
  /\ requests \in 0..MaxRequests /\ process \in {"up", "faulty", "crashed"}

\* The requests of the transfers that are under way
Transfers == {req[w] : w \in {v \in Workers : pc[v] \in ParentLabels}}

\* From its head up to its tail the list holds the transfers that are under way, each
\* of them once, whoever adds and removes at the same time and whatever the next
\* field of a block that comes back from malloc leads to.  So long as no freed block
\* is used or left on the list, as after the removal of the head of a longer list.
ListHoldsTransfers ==
  process = "up" =>
    LET n == Cardinality(Transfers)
    IN  /\ {Walk[i] : i \in 0..n - 1} = Transfers
        /\ IF n = 0 THEN head = NIL /\ tail = NIL ELSE Walk[n - 1] = tail

\* No segment ends behind the last byte that a word counts.
Fits(w) == \A i \in DOMAIN cut[w] : cut[w][i][1] + cut[w][i][2] < WordSize

\* The parent never gives a byte to two connections, however many children join
\* while it cuts: the segments follow one another, unless an offset wraps around.
SegmentsDisjoint ==
  \A w \in Workers : Fits(w) =>
    \A i, j \in DOMAIN cut[w] : i < j => cut[w][i][1] + cut[w][i][2] <= cut[w][j][1]

\* If no child joins between the division and the end, each of the children and
\* the parent gets a segment, and together they are the range asked for.
SegmentsTile ==
  \A w \in Workers :
    (pc[w] = "remove" /\ cut[w] # <<>> /\ Num(w) = local[w].num /\ Fits(w)) =>
      /\ Len(cut[w]) = Num(w) + 1
      /\ cut[w][1][1] = Offset(w)
      /\ \A i \in 1..Num(w) : cut[w][i + 1][1] = cut[w][i][1] + cut[w][i][2]
      /\ cut[w][Num(w) + 1][1] + cut[w][Num(w) + 1][2] = Offset(w) + Length(w)

\* A range outside the file is never cut without a header having been written over
\* the end of its block first: where the sum that the end of the range is tested by
\* wraps around, so does the size of that block.
CutWithinFile ==
  \A w \in Workers : cut[w] # <<>> /\ process = "up" => Offset(w) + Length(w) <= FileSize

\* Taking a request off the list does not bring the server down.
NoCrash == Running

\* A connection that joined a transfer is sent its segment.
EveryChildServed == \A w \in Workers : (pc[w] = "join") ~> (pc[w] = "message")
================================================================================
