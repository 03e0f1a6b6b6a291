-------------------------------- MODULE Fifo --------------------------------
(* A first-in first-out queue: what the transaction pool is meant to be. *)
EXTENDS Sequences

CONSTANT Item

VARIABLE queue

Put(x) == queue' = Append(queue, x)

Get == queue # <<>> /\ queue' = Tail(queue)

Init == queue = <<>>

Next == Get \/ \E x \in Item : Put(x)

Spec == Init /\ [][Next]_queue
=============================================================================
