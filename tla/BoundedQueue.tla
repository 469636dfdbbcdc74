---------------------------- MODULE BoundedQueue ----------------------------
(***************************************************************************)
(* What the two rings between the gateway thread and the engine thread     *)
(* promise: a FIFO queue of at most Capacity whole messages.  A push that  *)
(* returns false and a pop that returns false change nothing, so they are  *)
(* stuttering steps here.                                                  *)
(***************************************************************************)
EXTENDS Naturals, Sequences

CONSTANTS Capacity,   \* most messages the queue can hold
          Messages,   \* the messages that may be pushed
          NoMessage   \* what the consumer holds before its first pop

VARIABLES queue,      \* messages pushed and not yet popped, oldest first
          delivered   \* the message the last successful pop returned

qvars == <<queue, delivered>>

QInit == /\ queue = << >>
         /\ delivered = NoMessage

Enqueue(m) == /\ Len(queue) < Capacity
              /\ queue' = Append(queue, m)
              /\ UNCHANGED delivered

Dequeue == /\ queue # << >>
           /\ delivered' = Head(queue)
           /\ queue' = Tail(queue)

QNext == (\E m \in Messages : Enqueue(m)) \/ Dequeue

QSpec == QInit /\ [][QNext]_qvars
=============================================================================
