---------------------------- MODULE BoundedFIFO ----------------------------
(***************************************************************************)
(* What chronos::utils::MPMCQueue promises its callers: a bounded FIFO     *)
(* queue.  A push and a pop each take effect in one step.  An item leaves  *)
(* the queue once, in the order in which the items entered it, and the     *)
(* popper receives exactly the item that left.  MPMCQueue.tla is shown to  *)
(* implement this specification.                                           *)
(***************************************************************************)
EXTENDS Naturals, Sequences

CONSTANTS Capacity,   \* template parameter N of the queue
          Item,       \* the elements callers push
          Consumer    \* threads that call try_pop

VARIABLES q,     \* the items pushed and not yet popped, oldest first
          got    \* got[c]: the item consumer c popped last

fifoVars == <<q, got>>

Init == /\ q = <<>>
        /\ got \in [Consumer -> {<<>>}]   \* <<>>: nothing popped yet

Enqueue(v) == /\ Len(q) < Capacity
              /\ q' = Append(q, v)
              /\ UNCHANGED got

Dequeue(c) == /\ q # <<>>
              /\ got' = [got EXCEPT ![c] = Head(q)]
              /\ q' = Tail(q)

Next == \/ \E v \in Item : Enqueue(v)
        \/ \E c \in Consumer : Dequeue(c)

Spec == Init /\ [][Next]_fifoVars
=============================================================================
