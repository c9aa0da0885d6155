------------------------------ MODULE SoftFIFO ------------------------------
(***************************************************************************)
(* The FIFO behind HullFIFO's types 0 and 1: a ring buffer of RingDepth =  *)
(* 2^LOG_DEPTH entries with a read pointer, a write pointer and a counter  *)
(* of one bit more.  An action is a rising edge of the clock.              *)
(***************************************************************************)
EXTENDS Naturals, Sequences

CONSTANTS Data, RingDepth

ASSUME RingAssumption == RingDepth \in Nat \ {0}

Index == 0 .. RingDepth - 1

VARIABLES buffer, counter, rd_ptr, wr_ptr

ring == <<buffer, counter, rd_ptr, wr_ptr>>

\* Wrong variant: the pointer wraps around one too late.
WrappedLate(i, n) == IF i <= n THEN i ELSE i - n

\* The sum i, less than 2 * n, in a register of n values.
Wrapped(i, n) == IF i < n THEN i ELSE i - n

empty == counter = 0
full  == counter = RingDepth
q     == buffer[rd_ptr]

\* What a reset leaves; the buffer is not reset.
RingInit ==
  /\ buffer \in [Index -> Data]
  /\ counter = 0 /\ rd_ptr = 0 /\ wr_ptr = 0

-----------------------------------------------------------------------------
\* Wrong variant: a FIFO that is full accepts an entry while it is read.
AcceptsWhenRead(wrreq, rdreq) == wrreq /\ (~ full \/ rdreq)

Accepts(wrreq, rdreq) == wrreq /\ ~ full
Yields(rdreq)  == rdreq /\ ~ empty

\* The buffer's write takes no notice of the reset.
Store(accepted, data) ==
  buffer' = IF accepted THEN [buffer EXCEPT ![wr_ptr] = data] ELSE buffer

Reset(wrreq, data) ==
  /\ Store(Accepts(wrreq, FALSE), data)
  /\ counter' = 0 /\ rd_ptr' = 0 /\ wr_ptr' = 0

\* Wrong variant: a read and a write at once count as a write.
CountedWriteFirst(accepted, yielded) ==
  IF accepted THEN counter + 1 ELSE IF yielded THEN counter - 1 ELSE counter

Counted(accepted, yielded) ==
  IF accepted = yielded THEN counter
  ELSE IF accepted THEN Wrapped(counter + 1, 2 * RingDepth) ELSE counter - 1

RingClock(wrreq, data, rdreq) ==
  LET accepted == Accepts(wrreq, rdreq)
      yielded  == Yields(rdreq)
  IN  /\ Store(accepted, data)
      /\ counter' = Counted(accepted, yielded)
      /\ wr_ptr' = IF accepted THEN Wrapped(wr_ptr + 1, RingDepth) ELSE wr_ptr
      /\ rd_ptr' = IF yielded THEN Wrapped(rd_ptr + 1, RingDepth) ELSE rd_ptr

RingNext ==
  \E wrreq, rdreq \in BOOLEAN, data \in Data :
    Reset(wrreq, data) \/ RingClock(wrreq, data, rdreq)

RingSpec == RingInit /\ [][RingNext]_ring

-----------------------------------------------------------------------------
RingOK ==
  /\ buffer \in [Index -> Data]
  /\ counter \in 0 .. RingDepth
  /\ rd_ptr \in Index
  /\ wr_ptr \in Index

\* The two pointers and the counter are kept apart but say the same: the
\* counter is the distance from the one pointer to the other, and tells a full
\* buffer from an empty one when they meet.
PointersAgree == wr_ptr = Wrapped(rd_ptr + counter, RingDepth)

\* The entries from the read pointer on, in the order in which they came.
Contents == [i \in 1 .. counter |-> buffer[Wrapped(rd_ptr + i - 1, RingDepth)]]

Queue == INSTANCE BoundedQueue WITH Depth <- RingDepth, queue <- Contents

\* The ring buffer is a bounded queue: it loses, repeats and reorders nothing,
\* over any number of wrap-arounds.
IsQueue == Queue!Spec

\* What the ports show is what the queue shows.
PortsShowQueue ==
  /\ empty <=> Contents = <<>>
  /\ full <=> Queue!Full(Contents, RingDepth)
  /\ ~ empty => q = Head(Contents)
=============================================================================
