---------------------------- MODULE BoundedQueue ----------------------------
(* The promise of a FIFO: a queue of at most Depth entries, cleared by a   *)
(* reset.                                                                  *)
EXTENDS Fifo

CONSTANTS Data, Depth

VARIABLE queue

Init == queue = <<>>

Reset == queue' = <<>>

Clock ==
  \E wrreq, rdreq \in BOOLEAN, data \in Data :
    queue' = Clocked(queue, Depth, wrreq, data, rdreq)

Next == Reset \/ Clock

Spec == Init /\ [][Next]_queue
=============================================================================
