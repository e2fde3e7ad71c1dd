------------------------------ MODULE FifoQueue ------------------------------
(***************************************************************************)
(* What a blocking queue promises to the threads that share it: an item is *)
(* handed to exactly one taker, in the order in which the items were       *)
(* added, and a take that times out changes nothing.  How threads wait,    *)
(* how the list is linked and how its cells are released is the business   *)
(* of BlockingQueue, which is shown to implement this module.  Radiation   *)
(* uses queues at this level of abstraction.                               *)
(***************************************************************************)
EXTENDS Sequences

CONSTANTS Takers,   \* threads that may take from the queue
          Values,   \* the void* pointers that callers put on the queue
          NULL      \* the null pointer: what callers preset *into with

VARIABLES q,        \* the items on the queue, oldest first
          into      \* into[t]: where taker t's last item was stored

vars == <<q, into>>

Init ==
  /\ q = <<>>
  /\ into = [t \in Takers |-> NULL]

(* blocking_queue_add *)
Add(v) ==
  /\ q' = Append(q, v)
  /\ UNCHANGED into

(* blocking_queue_take that returns BQ_OK.  One that returns BQ_TIMEOUT is *)
(* a stuttering step.                                                      *)
Take(t) ==
  /\ q # <<>>
  /\ into' = [into EXCEPT ![t] = Head(q)]
  /\ q' = Tail(q)

Next ==
  \/ \E v \in Values : Add(v)
  \/ \E t \in Takers : Take(t)

Spec == Init /\ [][Next]_vars
==============================================================================
