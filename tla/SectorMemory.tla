---------------------------- MODULE SectorMemory ----------------------------
(* The promise of a block buffer: a memory of sectors that executes the    *)
(* requests in the order it has accepted them, at most one in a cycle.     *)
EXTENDS Fifo

CONSTANTS
  Sector, Value,
  NoValue,    (* what a read writes, no Value            *)
  Depth       (* of the FIFOs of requests and answers    *)

\* A request names a sector and what to write to it.
Request == [sector : Sector, value : Value \cup {NoValue}]
IsWrite(request) == request.value # NoValue

VARIABLES requests, contents, answers

vars == <<requests, contents, answers>>

Init ==
  /\ requests = <<>>
  /\ contents \in [Sector -> Value]
  /\ answers = <<>>

Clock(accepting, request, executing, taking) ==
  LET head == Head(requests)
      runs == executing /\ requests # <<>>
  IN  /\ requests' = Clocked(requests, Depth, accepting, request, executing)
      /\ contents' = IF runs /\ IsWrite(head)
                     THEN [contents EXCEPT ![head.sector] = head.value]
                     ELSE contents
      /\ answers' =
           IF runs /\ ~ IsWrite(head)
           THEN Append(Dequeued(answers, taking), contents[head.sector])
           ELSE Dequeued(answers, taking)

Next ==
  \E accepting, executing, taking \in BOOLEAN, request \in Request :
    Clock(accepting, request, executing, taking)

Spec == Init /\ [][Next]_vars
=============================================================================
