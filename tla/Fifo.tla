-------------------------------- MODULE Fifo --------------------------------
(***************************************************************************)
(* What a message queue of the relay chain promises to one sender and one  *)
(* receiver: messages are delivered from the front, in order and once, and *)
(* every message eventually is, unless the para is offboarded, which drops *)
(* the queue.                                                              *)
(***************************************************************************)
EXTENDS Integers, Sequences

CONSTANT Messages

VARIABLE queue

Init == queue = <<>>

Accept(ms) == queue' = queue \o ms

Deliver ==
    /\ queue # <<>>
    /\ \E n \in 1..Len(queue) : queue' = SubSeq(queue, n + 1, Len(queue))

Drop == queue # <<>> /\ queue' = <<>>

\* What is accepted in one step is read off the new queue.
Next ==
    \/ /\ Len(queue') > Len(queue)
       /\ Accept(SubSeq(queue', Len(queue) + 1, Len(queue')))
    \/ Deliver
    \/ Drop

\* Weak fairness of Deliver, which is enabled exactly while the queue is not empty.
Served == []<>(queue = <<>>) \/ []<><<Deliver>>_queue

\* What is safety of it: nothing is lost, repeated or reordered.
Safe == Init /\ [][Next]_queue

Spec == Safe /\ Served
=============================================================================
