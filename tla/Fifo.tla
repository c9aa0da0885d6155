-------------------------------- MODULE Fifo --------------------------------
(***************************************************************************)
(* What the hardware's FIFOs look like from outside: a sequence, and what  *)
(* a rising clock edge makes of it.  A full FIFO ignores its wrreq also in *)
(* a cycle in which it is read, an empty one ignores its rdreq.            *)
(***************************************************************************)
EXTENDS Naturals, Sequences

Full(queue, depth) == Len(queue) = depth

Dequeued(queue, rdreq) == IF rdreq /\ queue # <<>> THEN Tail(queue) ELSE queue

Clocked(queue, depth, wrreq, data, rdreq) ==
  IF wrreq /\ ~ Full(queue, depth)
  THEN Append(Dequeued(queue, rdreq), data)
  ELSE Dequeued(queue, rdreq)
=============================================================================
