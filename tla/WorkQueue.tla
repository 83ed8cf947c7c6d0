------------------------------- MODULE WorkQueue -------------------------------
(* What a pool of worker threads promises about the connections handed to it:  *)
(* they queue in the order they arrive, a full queue refuses the newcomer, a   *)
(* free worker takes the oldest one, and no connection is ever handed out      *)
(* twice.  The linked list of tp.c and the rings of server_optimized.c and     *)
(* tp_optimized.c are shown to implement this specification.                   *)
EXTENDS Naturals, Sequences

CONSTANTS
  Workers,   \* the threads that serve connections
  Capacity   \* how many connections the queue can hold

Idle == 0    \* the connection of a worker that serves none

VARIABLES
  arrived,   \* how many connections were offered to the pool
  queue,     \* the connections waiting for a worker, oldest first
  serving    \* the connection each worker serves

wqVars == <<arrived, queue, serving>>

WQInit ==
  /\ arrived = 0
  /\ queue = <<>>
  /\ serving = [w \in Workers |-> Idle]

\* The next connection joins the queue.
Arrive ==
  /\ Len(queue) < Capacity
  /\ arrived' = arrived + 1
  /\ queue' = Append(queue, arrived')
  /\ UNCHANGED serving

\* The next connection finds the queue full and is turned away.
Refuse ==
  /\ Len(queue) = Capacity
  /\ arrived' = arrived + 1
  /\ UNCHANGED <<queue, serving>>

\* An idle worker takes the oldest waiting connection.
Take(w) ==
  /\ serving[w] = Idle
  /\ queue # <<>>
  /\ serving' = [serving EXCEPT ![w] = Head(queue)]
  /\ queue' = Tail(queue)
  /\ UNCHANGED arrived

\* A worker is done with its connection.
Finish(w) ==
  /\ serving[w] # Idle
  /\ serving' = [serving EXCEPT ![w] = Idle]
  /\ UNCHANGED <<arrived, queue>>

WQNext == Arrive \/ Refuse \/ \E w \in Workers : Take(w) \/ Finish(w)

WQSpec == WQInit /\ [][WQNext]_wqVars
================================================================================
