------------------------------ MODULE Descriptors ------------------------------
(* The table of descriptors of the default build: accept() and pipe() return   *)
(* the lowest numbers that are free, and close() frees a number whoever is in   *)
(* it now.  The queue and the sessions of tp.c keep numbers.                   *)
EXTENDS Integers, Sequences, FiniteSetsExt

CONSTANTS
  Workers,   \* the worker threads
  Numbers,   \* the numbers that the limit of the process leaves for clients
  NumConns,  \* bound: how many connections are accepted
  Kinds      \* what clients send: a subset of MessageKinds

\* "end" is a client that hangs up (a message that is answered changes nothing
\* here), "file" the
\* parent of a transfer, "differs" a request that differs from the transfer of its
\* session, "last" one that ends the session: a child or an unknown type.
MessageKinds == {"end", "file", "differs", "last"}

Conns == 1..NumConns
Unused == 0
Pipe == NumConns + 1

VARIABLES
  table,     \* what each number stands for: a connection, a pipe or nothing
  queue,     \* the numbers that wait for a worker, each with its connection
  pc, clfd,  \* what each worker does next, and the number it serves
  serves,    \* the connection it was given
  accepted,  \* how many connections accept() has returned
  listening  \* main is in its loop

vars == <<table, queue, pc, clfd, serves, accepted, listening>>

Init ==
  /\ table = [n \in Numbers |-> Unused] /\ queue = <<>>
  /\ pc = [w \in Workers |-> "dequeue"]
  /\ clfd = [w \in Workers |-> Unused] /\ serves = [w \in Workers |-> Unused]
  /\ accepted = 0 /\ listening = TRUE

Free == {n \in Numbers : table[n] = Unused}
Released(n) == [table EXCEPT ![n] = Unused]
--------------------------------------------------------------------------------
Accept ==
  /\ listening /\ accepted < NumConns /\ Free # {}
  /\ accepted' = accepted + 1
  /\ table' = [table EXCEPT ![Min(Free)] = accepted']
  /\ queue' = Append(queue, <<Min(Free), accepted'>>)
  /\ UNCHANGED <<pc, clfd, serves, listening>>

\* No number is left: main takes the failure for a shutdown.
AcceptFails ==
  /\ listening /\ Free = {}
  /\ listening' = FALSE
  /\ UNCHANGED <<table, queue, pc, clfd, serves, accepted>>

Dequeue(w) ==
  /\ pc[w] = "dequeue" /\ queue # <<>>
  /\ pc' = [pc EXCEPT ![w] = "read"]
  /\ clfd' = [clfd EXCEPT ![w] = Head(queue)[1]] /\ serves' = [serves EXCEPT ![w] = Head(queue)[2]]
  /\ queue' = Tail(queue)
  /\ UNCHANGED <<table, accepted, listening>>

\* get_description at the end of the stream
CloseAtEnd(w) ==
  /\ "end" \in Kinds /\ pc[w] = "read"
  /\ pc' = [pc EXCEPT ![w] = "close"] /\ table' = Released(clfd[w])
  /\ UNCHANGED <<queue, clfd, serves, accepted, listening>>

\* close(main) of client_handling, after the end of the stream or another message
\* that ends the session
Close(w) ==
  /\ \/ pc[w] = "close"
     \/ pc[w] = "read" /\ "last" \in Kinds
  /\ pc' = [pc EXCEPT ![w] = "dequeue"] /\ table' = Released(clfd[w])
  /\ UNCHANGED <<queue, clfd, serves, accepted, listening>>

\* The pipe of a transfer, which nobody closes
OpenPipe(w) ==
  /\ "file" \in Kinds /\ pc[w] = "read"
  /\ LET first == Min(Free)
         second == Min(Free \ {first})
     IN  table' = IF \E n, m \in Free : n # m
                  THEN [table EXCEPT ![first] = Pipe, ![second] = Pipe] ELSE table
  /\ UNCHANGED <<queue, pc, clfd, serves, accepted, listening>>

\* A request that differs is answered with an error, and its number forgotten.
Drop(w) ==
  /\ "differs" \in Kinds /\ pc[w] = "read"
  /\ pc' = [pc EXCEPT ![w] = "dequeue"]
  /\ UNCHANGED <<table, queue, clfd, serves, accepted, listening>>

Next == \/ Accept \/ AcceptFails
        \/ \E w \in Workers : Dequeue(w) \/ CloseAtEnd(w) \/ Close(w) \/ OpenPipe(w) \/ Drop(w)

Spec == Init /\ [][Next]_vars
--------------------------------------------------------------------------------
\* A connection that waits in the queue, or whose worker goes on reading from it,
\* is still open under its number: nobody but its own worker closes it.
NoForeignClose ==
  /\ \A i \in DOMAIN queue : table[queue[i][1]] = queue[i][2]
  /\ \A w \in Workers : pc[w] = "read" => table[clfd[w]] = serves[w]
================================================================================
