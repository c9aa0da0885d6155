--------------------------- MODULE AXIL2SRProofs ----------------------------
(***************************************************************************)
(* Proofs about AXIL2SR for every depth of its FIFOs, every number of      *)
(* beats and every window of reads under way that is less than 2 * Depth.  *)
(*                                                                         *)
(* The inductive invariant says which beats each queue holds, given how    *)
(* many 64-bit accesses have left it: the i-th entry belongs to access     *)
(* number written + i - 1 (or asked + i - 1, ...), and the select bits say *)
(* by how much one queue is ahead of the other.                            *)
(***************************************************************************)
EXTENDS AXIL2SR, FifoProofs

Bit(b) == IF b THEN 1 ELSE 0

\* The entries of a queue of beats are first, first + 2, first + 4, ...
BeatsFrom(queue, first) == \A i \in 1 .. Len(queue) : queue[i] = first + 2 * (i - 1)

\* The same of a queue of responses, each of which has the next beat as well.
PairsFrom(queue, first) ==
  \A i \in 1 .. Len(queue) : queue[i] = <<first + 2 * (i - 1), first + 2 * (i - 1) + 1>>

WriteQueues ==
  /\ aw + skip_wr_addr_enq = 2 * (written + Len(wr_addrQ))
  /\ w = 2 * (written + Len(wr_dataQ[1])) + write_fifo_select
  /\ Len(wr_dataQ[0]) = Len(wr_dataQ[1]) + write_fifo_select
  /\ BeatsFrom(wr_addrQ, 2 * written)
  /\ \A h \in Half : BeatsFrom(wr_dataQ[h], 2 * written + h)

ReadQueues ==
  /\ ar + read_req_fifo_select = 2 * (asked + Len(read_reqQ[0]))
  /\ Len(read_reqQ[1]) + read_req_fifo_select = Len(read_reqQ[0]) + read_submit_select
  /\ BeatsFrom(read_reqQ[0], 2 * asked)

\* The halves of the responses that the host has got whole.
Done == returned - rd_resp_half_select

Responses ==
  /\ Done \in Nat
  /\ Done + 2 * (Len(rd_respQ) + Len(serving)) = 2 * asked
  /\ PairsFrom(rd_respQ, Done)
  /\ PairsFrom(serving, Done + 2 * Len(rd_respQ))

Credits ==
  /\ read_resp_credit_cnt = ar - returned
  /\ read_resp_credit_cnt <= ReadWindow

WriteTypes ==
  /\ skip_wr_addr_enq \in Half /\ write_fifo_select \in Half
  /\ wr_addrQ \in Seq(Beats) /\ Len(wr_addrQ) <= Depth
  /\ wr_dataQ \in [Half -> Seq(Beats)]
  /\ \A h \in Half : Len(wr_dataQ[h]) <= Depth
  /\ resp_counter \in Nat /\ aw \in Nat /\ w \in Nat /\ written \in Nat

ReadTypes ==
  /\ read_req_fifo_select \in Half /\ read_submit_select \in Half
  /\ read_reqQ \in [Half -> Seq(Beats)]
  /\ \A h \in Half : Len(read_reqQ[h]) <= Depth
  /\ ar \in Nat /\ asked \in Nat

ResponseTypes ==
  /\ rd_resp_half_select \in Half
  /\ rd_respQ \in Seq(Nat \X Nat) /\ Len(rd_respQ) <= Depth
  /\ serving \in Seq(Nat \X Nat)
  /\ read_resp_credit_cnt \in Nat /\ returned \in Nat

WriteInv == WriteTypes /\ WriteQueues
ReadInv  == ReadTypes /\ ReadQueues
ResponseInv == ResponseTypes /\ Responses /\ Credits

-----------------------------------------------------------------------------
(* A clock edge of one queue.                                              *)

LEMMA BeatsStep ==
  ASSUME NEW Entry, NEW queue \in Seq(Entry), NEW depth \in Nat, Len(queue) <= depth,
         NEW push \in BOOLEAN, NEW pop \in BOOLEAN,
         push => Len(queue) # depth, pop => queue # <<>>,
         NEW first \in Nat, BeatsFrom(queue, first),
         NEW data, push => data \in Entry /\ data = first + 2 * Len(queue)
  PROVE  LET new == Clocked(queue, depth, push, data, pop) IN
         /\ new \in Seq(Entry) /\ Len(new) <= depth
         /\ Len(new) = Len(queue) + Bit(push) - Bit(pop)
         /\ BeatsFrom(new, first + 2 * Bit(pop))
<1> DEFINE new == Clocked(queue, depth, push, data, pop)
<1>1. push => data \in Entry
  OBVIOUS
<1>2. /\ new \in Seq(Entry) /\ Len(new) <= depth
      /\ Len(new) = Len(queue) + (IF push /\ Len(queue) # depth THEN 1 ELSE 0)
                               - (IF pop /\ queue # <<>> THEN 1 ELSE 0)
  BY <1>1, ClockedLength
<1>3. \A i \in 1 .. Len(new) :
        new[i] = IF i + (IF pop /\ queue # <<>> THEN 1 ELSE 0) <= Len(queue)
                 THEN queue[i + (IF pop /\ queue # <<>> THEN 1 ELSE 0)] ELSE data
  BY <1>1, ClockedEntries
<1> HIDE DEF new
<1>4. Len(new) = Len(queue) + Bit(push) - Bit(pop)
  BY <1>2 DEF Bit
<1>5. ASSUME NEW i \in 1 .. Len(new)
      PROVE  new[i] = first + 2 * Bit(pop) + 2 * (i - 1)
  <2>1. new[i] = IF i + Bit(pop) <= Len(queue) THEN queue[i + Bit(pop)] ELSE data
    BY <1>3 DEF Bit
  <2>2. CASE i + Bit(pop) <= Len(queue)
    <3> DEFINE j == i + Bit(pop)
    <3>1. j \in 1 .. Len(queue)
      BY <1>2, <2>2 DEF Bit
    <3>2. new[i] = queue[j]
      BY <2>1, <2>2
    <3> HIDE DEF j
    <3>3. queue[j] = first + 2 * (j - 1)
      BY <3>1 DEF BeatsFrom
    <3> QED
      BY <1>2, <3>2, <3>3 DEF Bit, j
  <2>3. CASE i + Bit(pop) > Len(queue)
    <3>1. push /\ i + Bit(pop) = Len(queue) + 1
      BY <1>2, <1>4, <2>3 DEF Bit
    <3>2. new[i] = first + 2 * Len(queue)
      BY <2>1, <2>3, <3>1 DEF Bit
    <3> QED
      BY <1>2, <3>1, <3>2 DEF Bit
  <2>4. i + Bit(pop) \in Int /\ Len(queue) \in Int
    BY DEF Bit
  <2> QED
    BY <2>2, <2>3, <2>4
<1> QED
  BY <1>2, <1>4, <1>5 DEF BeatsFrom, new

LEMMA PairsStep ==
  ASSUME NEW Entry, NEW queue \in Seq(Entry), NEW depth \in Nat, Len(queue) <= depth,
         NEW push \in BOOLEAN, NEW pop \in BOOLEAN,
         push => Len(queue) # depth, pop => queue # <<>>,
         NEW first \in Nat, PairsFrom(queue, first),
         NEW data, push => data \in Entry /\ data = <<first + 2 * Len(queue), first + 2 * Len(queue) + 1>>
  PROVE  LET new == Clocked(queue, depth, push, data, pop) IN
         /\ new \in Seq(Entry) /\ Len(new) <= depth
         /\ Len(new) = Len(queue) + Bit(push) - Bit(pop)
         /\ PairsFrom(new, first + 2 * Bit(pop))
<1> DEFINE new == Clocked(queue, depth, push, data, pop)
<1>1. push => data \in Entry
  OBVIOUS
<1>2. /\ new \in Seq(Entry) /\ Len(new) <= depth
      /\ Len(new) = Len(queue) + (IF push /\ Len(queue) # depth THEN 1 ELSE 0)
                               - (IF pop /\ queue # <<>> THEN 1 ELSE 0)
  BY <1>1, ClockedLength
<1>3. \A i \in 1 .. Len(new) :
        new[i] = IF i + (IF pop /\ queue # <<>> THEN 1 ELSE 0) <= Len(queue)
                 THEN queue[i + (IF pop /\ queue # <<>> THEN 1 ELSE 0)] ELSE data
  BY <1>1, ClockedEntries
<1> HIDE DEF new
<1>4. Len(new) = Len(queue) + Bit(push) - Bit(pop)
  BY <1>2 DEF Bit
<1>5. ASSUME NEW i \in 1 .. Len(new)
      PROVE  new[i] = <<first + 2 * Bit(pop) + 2 * (i - 1), first + 2 * Bit(pop) + 2 * (i - 1) + 1>>
  <2>1. new[i] = IF i + Bit(pop) <= Len(queue) THEN queue[i + Bit(pop)] ELSE data
    BY <1>3 DEF Bit
  <2>2. CASE i + Bit(pop) <= Len(queue)
    <3> DEFINE j == i + Bit(pop)
    <3>1. j \in 1 .. Len(queue)
      BY <1>2, <2>2 DEF Bit
    <3>2. new[i] = queue[j]
      BY <2>1, <2>2
    <3> HIDE DEF j
    <3>3. queue[j] = <<first + 2 * (j - 1), first + 2 * (j - 1) + 1>>
      BY <3>1 DEF PairsFrom
    <3>4. first + 2 * (j - 1) = first + 2 * Bit(pop) + 2 * (i - 1)
      <4>1. first \in Nat /\ i \in Int /\ Bit(pop) \in Int /\ j = i + Bit(pop)
        BY DEF Bit, j
      <4> QED
        BY ONLY <4>1
    <3> QED
      BY <3>2, <3>3, <3>4
  <2>3. CASE i + Bit(pop) > Len(queue)
    <3>1. push /\ i + Bit(pop) = Len(queue) + 1
      BY <1>2, <1>4, <2>3 DEF Bit
    <3>2. new[i] = <<first + 2 * Len(queue), first + 2 * Len(queue) + 1>>
      BY <2>1, <2>3, <3>1 DEF Bit
    <3>3. first + 2 * Len(queue) = first + 2 * Bit(pop) + 2 * (i - 1)
      <4>1. /\ first \in Nat /\ i \in Int /\ Bit(pop) \in Int /\ Len(queue) \in Int
            /\ i + Bit(pop) = Len(queue) + 1
        BY <3>1 DEF Bit
      <4> QED
        BY ONLY <4>1
    <3> QED
      BY <3>2, <3>3
  <2>4. i + Bit(pop) \in Int /\ Len(queue) \in Int
    BY DEF Bit
  <2> QED
    BY <2>2, <2>3, <2>4
<1> QED
  BY <1>2, <1>4, <1>5 DEF PairsFrom, new

-----------------------------------------------------------------------------
(* The write channels.                                                     *)

LEMMA WriteSignals ==
  ASSUME WriteInv, NEW in \in Input
  PROVE  /\ AddrEnq(in) \in BOOLEAN /\ WTaken(in) \in BOOLEAN
         /\ AwTaken(in) \in BOOLEAN /\ WriteSent(in) \in BOOLEAN
         /\ AddrEnq(in) => ~ Full(wr_addrQ, Depth)
         /\ WTaken(in) => \A h \in Half : ~ Full(wr_dataQ[h], Depth)
         /\ WriteSent(in) => wr_addrQ # <<>> /\ \A h \in Half : wr_dataQ[h] # <<>>
BY DEF AddrEnq, AwTaken, WTaken, WriteSent, WriteValid, Input, WriteInv, WriteTypes, Full

LEMMA AddressStep ==
  ASSUME WriteInv, NEW in \in Input, ClockWrites(in)
  PROVE  /\ wr_addrQ' \in Seq(Beats) /\ Len(wr_addrQ') <= Depth
         /\ aw' \in Nat /\ skip_wr_addr_enq' \in Half
         /\ aw' + skip_wr_addr_enq' = 2 * (written' + Len(wr_addrQ'))
         /\ BeatsFrom(wr_addrQ', 2 * written')
<1> DEFINE enq  == AddrEnq(in)
           sent == WriteSent(in)
<1>1. /\ enq \in BOOLEAN /\ sent \in BOOLEAN /\ AwTaken(in) \in BOOLEAN
      /\ enq => ~ Full(wr_addrQ, Depth)
      /\ sent => wr_addrQ # <<>>
  BY WriteSignals
<1>2. enq => aw \in Beats
  BY BridgeAssumption DEF ClockWrites, AddrEnq, AwTaken, Beats, WriteInv, WriteTypes
<1>3. wr_addrQ' = Clocked(wr_addrQ, Depth, enq, aw, sent)
  BY DEF ClockWrites
<1>4. wr_addrQ \in Seq(Beats) /\ Len(wr_addrQ) <= Depth /\ Depth \in Nat
  BY BridgeAssumption DEF WriteInv, WriteTypes
<1> HIDE DEF enq, sent
<1>5. /\ written \in Nat /\ written' = written + Bit(sent) /\ Bit(sent) \in {0, 1}
      /\ aw \in Nat /\ skip_wr_addr_enq \in {0, 1}
      /\ aw + skip_wr_addr_enq = 2 * (written + Len(wr_addrQ))
      /\ BeatsFrom(wr_addrQ, 2 * written)
  BY DEF WriteInv, WriteTypes, WriteQueues, ClockWrites, sent, Bit, Half
<1>6. /\ aw' = aw + Bit(AwTaken(in))
      /\ skip_wr_addr_enq' = IF AwTaken(in) THEN 1 - skip_wr_addr_enq ELSE skip_wr_addr_enq
      /\ enq <=> AwTaken(in) /\ skip_wr_addr_enq = 0
  BY DEF ClockWrites, enq, AddrEnq, Bit, Toggled
<1>7. enq => aw = 2 * written + 2 * Len(wr_addrQ)
  BY <1>4, <1>5, <1>6
<1>8. /\ wr_addrQ' \in Seq(Beats) /\ Len(wr_addrQ') <= Depth
      /\ Len(wr_addrQ') = Len(wr_addrQ) + Bit(enq) - Bit(sent)
      /\ BeatsFrom(wr_addrQ', 2 * written + 2 * Bit(sent))
  <2> DEFINE first == 2 * written
  <2>1. /\ enq \in BOOLEAN /\ sent \in BOOLEAN /\ first \in Nat
        /\ enq => Len(wr_addrQ) # Depth
        /\ sent => wr_addrQ # <<>>
        /\ BeatsFrom(wr_addrQ, first)
        /\ enq => aw \in Beats /\ aw = first + 2 * Len(wr_addrQ)
    BY <1>1, <1>2, <1>5, <1>7 DEF Full
  <2> HIDE DEF first
  <2>2. LET new == Clocked(wr_addrQ, Depth, enq, aw, sent) IN
        /\ new \in Seq(Beats) /\ Len(new) <= Depth
        /\ Len(new) = Len(wr_addrQ) + Bit(enq) - Bit(sent)
        /\ BeatsFrom(new, first + 2 * Bit(sent))
    BY ONLY <1>4, <2>1, BeatsStep
  <2> QED
    BY <1>3, <2>2 DEF first
<1>9. 2 * written' = 2 * written + 2 * Bit(sent)
  BY <1>5
<1>10. aw' + skip_wr_addr_enq' = aw + skip_wr_addr_enq + 2 * Bit(enq)
  <2>1. aw \in Nat /\ skip_wr_addr_enq \in {0, 1}
    BY <1>5
  <2> QED
    BY ONLY <1>6, <2>1 DEF Bit
<1>11. 2 * (written' + Len(wr_addrQ')) = 2 * (written + Len(wr_addrQ)) + 2 * Bit(enq)
  <2> DEFINE l == Len(wr_addrQ)
             k == Len(wr_addrQ')
             e == Bit(enq)
             d == Bit(sent)
  <2>1. /\ l \in Nat /\ e \in Nat /\ d \in Nat
        /\ written \in Nat /\ written' = written + d /\ k = l + e - d
    BY <1>1, <1>4, <1>5, <1>8 DEF Bit
  <2> HIDE DEF l, k, e, d
  <2>2. 2 * (written' + k) = 2 * (written + l) + 2 * e
    BY ONLY <2>1
  <2> QED
    BY <2>2 DEF l, k, e
<1>12. aw' \in Nat /\ skip_wr_addr_enq' \in {0, 1}
  BY <1>1, <1>5, <1>6 DEF Bit
<1> QED
  BY <1>5, <1>8, <1>9, <1>10, <1>11, <1>12 DEF Half

LEMMA DataStep ==
  ASSUME WriteInv, NEW in \in Input, ClockWrites(in)
  PROVE  /\ wr_dataQ' \in [Half -> Seq(Beats)]
         /\ \A h \in Half : Len(wr_dataQ'[h]) <= Depth
         /\ w' \in Nat /\ written' \in Nat /\ write_fifo_select' \in Half
         /\ w' = 2 * (written' + Len(wr_dataQ'[1])) + write_fifo_select'
         /\ Len(wr_dataQ'[0]) = Len(wr_dataQ'[1]) + write_fifo_select'
         /\ \A h \in Half : BeatsFrom(wr_dataQ'[h], 2 * written' + h)
<1> DEFINE taken   == WTaken(in)
           sent    == WriteSent(in)
           push(h) == taken /\ write_fifo_select = h
<1>1. /\ taken \in BOOLEAN /\ sent \in BOOLEAN
      /\ \A h \in Half : push(h) \in BOOLEAN
      /\ taken => \A h \in Half : ~ Full(wr_dataQ[h], Depth)
      /\ sent => \A h \in Half : wr_dataQ[h] # <<>>
  BY WriteSignals
<1>2. taken => w \in Beats
  BY BridgeAssumption DEF ClockWrites, WTaken, Beats, WriteInv, WriteTypes
<1>3. wr_dataQ' = [h \in Half |-> Clocked(wr_dataQ[h], Depth, push(h), w, sent)]
  BY DEF ClockWrites
<1>4. /\ \A h \in Half : wr_dataQ[h] \in Seq(Beats) /\ Len(wr_dataQ[h]) <= Depth
      /\ \A h \in Half : Len(wr_dataQ[h]) \in Nat
      /\ Depth \in Nat
  BY BridgeAssumption DEF WriteInv, WriteTypes
<1> HIDE DEF taken, sent
<1>5. /\ written \in Nat /\ written' = written + Bit(sent) /\ Bit(sent) \in {0, 1}
      /\ w \in Nat /\ w' = w + Bit(taken) /\ Bit(taken) \in {0, 1}
      /\ write_fifo_select \in {0, 1}
      /\ write_fifo_select' = IF taken THEN 1 - write_fifo_select ELSE write_fifo_select
      /\ w = 2 * (written + Len(wr_dataQ[1])) + write_fifo_select
      /\ Len(wr_dataQ[0]) = Len(wr_dataQ[1]) + write_fifo_select
      /\ Len(wr_dataQ[0]) \in Nat /\ Len(wr_dataQ[1]) \in Nat
  <2>1. /\ written' = written + Bit(sent) /\ w' = w + Bit(taken)
        /\ write_fifo_select' = IF taken THEN 1 - write_fifo_select ELSE write_fifo_select
    <3>1. written \in Nat /\ w \in Nat
      BY DEF WriteInv, WriteTypes
    <3>2. /\ written' = IF sent THEN written + 1 ELSE written
          /\ w' = IF taken THEN w + 1 ELSE w
          /\ write_fifo_select' = IF taken THEN 1 - write_fifo_select ELSE write_fifo_select
      BY DEF ClockWrites, taken, sent, Toggled
    <3> QED
      BY ONLY <3>1, <3>2 DEF Bit
  <2>2. /\ written \in Nat /\ w \in Nat /\ write_fifo_select \in {0, 1}
        /\ w = 2 * (written + Len(wr_dataQ[1])) + write_fifo_select
        /\ Len(wr_dataQ[0]) = Len(wr_dataQ[1]) + write_fifo_select
    BY DEF WriteInv, WriteTypes, WriteQueues, Half
  <2>3. Bit(sent) \in {0, 1} /\ Bit(taken) \in {0, 1}
    BY DEF Bit
  <2>4. Len(wr_dataQ[0]) \in Nat /\ Len(wr_dataQ[1]) \in Nat
    BY <1>4 DEF Half
  <2> QED
    BY ONLY <2>1, <2>2, <2>3, <2>4
<1>6. ASSUME NEW h \in Half
      PROVE  /\ wr_dataQ'[h] \in Seq(Beats) /\ Len(wr_dataQ'[h]) <= Depth
             /\ Len(wr_dataQ'[h]) = Len(wr_dataQ[h]) + Bit(push(h)) - Bit(sent)
             /\ BeatsFrom(wr_dataQ'[h], 2 * written + h + 2 * Bit(sent))
  <2>1. ASSUME push(h)
        PROVE  w = 2 * written + h + 2 * Len(wr_dataQ[h])
    <3> DEFINE l == Len(wr_dataQ[h])
    <3>1. /\ l \in Nat /\ h \in {0, 1} /\ written \in Nat /\ w \in Nat
          /\ (h = 0 => w = 2 * (written + l)) /\ (h = 1 => w = 2 * (written + l) + 1)
      BY <1>5, <2>1 DEF Half
    <3> HIDE DEF l
    <3>2. w = 2 * written + h + 2 * l
      BY <3>1
    <3> QED
      BY <3>2 DEF l
  <2>2. wr_dataQ'[h] = Clocked(wr_dataQ[h], Depth, push(h), w, sent)
    BY <1>3
  <2>3. push(h) => w \in Beats /\ Len(wr_dataQ[h]) # Depth
    BY <1>1, <1>2 DEF Full
  <2>4. 2 * written + h \in Nat
    BY <1>5 DEF Half
  <2>5. push(h) \in BOOLEAN /\ (sent => wr_dataQ[h] # <<>>) /\ sent \in BOOLEAN
    BY <1>1
  <2>6. /\ wr_dataQ[h] \in Seq(Beats) /\ Len(wr_dataQ[h]) <= Depth /\ Depth \in Nat
        /\ BeatsFrom(wr_dataQ[h], 2 * written + h)
    BY <1>4 DEF WriteInv, WriteQueues
  <2> DEFINE old   == wr_dataQ[h]
             first == 2 * written + h
             pushh == push(h)
  <2>7. /\ pushh \in BOOLEAN /\ first \in Nat /\ old \in Seq(Beats) /\ Len(old) <= Depth
        /\ BeatsFrom(old, first) /\ (sent => old # <<>>)
        /\ pushh => Len(old) # Depth
        /\ pushh => w \in Beats /\ w = first + 2 * Len(old)
    BY <2>1, <2>3, <2>4, <2>5, <2>6
  <2> HIDE DEF old, first, pushh
  <2>8. LET new == Clocked(old, Depth, pushh, w, sent) IN
        /\ new \in Seq(Beats) /\ Len(new) <= Depth
        /\ Len(new) = Len(old) + Bit(pushh) - Bit(sent)
        /\ BeatsFrom(new, first + 2 * Bit(sent))
    <3>1. sent \in BOOLEAN /\ Depth \in Nat
      BY <2>5, <2>6
    <3> QED
      BY ONLY <2>7, <3>1, BeatsStep
  <2> QED
    BY <2>2, <2>8 DEF old, first, pushh
<1>7. wr_dataQ' \in [Half -> Seq(Beats)] /\ \A h \in Half : Len(wr_dataQ'[h]) <= Depth
  BY <1>3, <1>6
<1>8. written' \in Nat /\ w' \in Nat /\ write_fifo_select' \in {0, 1}
  BY <1>1, <1>5
<1>9. ASSUME NEW h \in Half
      PROVE  BeatsFrom(wr_dataQ'[h], 2 * written' + h)
  <2>1. 2 * written' + h = 2 * written + h + 2 * Bit(sent)
    <3>1. /\ h \in {0, 1} /\ written \in Nat
          /\ written' = written + Bit(sent) /\ Bit(sent) \in {0, 1}
      BY <1>5 DEF Half
    <3> QED
      BY ONLY <3>1
  <2> QED
    BY <1>6, <2>1
<1>10. /\ Len(wr_dataQ'[0]) = Len(wr_dataQ[0]) + Bit(push(0)) - Bit(sent)
       /\ Len(wr_dataQ'[1]) = Len(wr_dataQ[1]) + Bit(push(1)) - Bit(sent)
  BY <1>6 DEF Half
<1>11. /\ Bit(push(0)) = IF write_fifo_select = 0 THEN Bit(taken) ELSE 0
       /\ Bit(push(1)) = IF write_fifo_select = 1 THEN Bit(taken) ELSE 0
       /\ write_fifo_select' = IF Bit(taken) = 1 THEN 1 - write_fifo_select ELSE write_fifo_select
  BY <1>5 DEF Bit
<1> DEFINE l0 == Len(wr_dataQ[0])
           l1 == Len(wr_dataQ[1])
           p0 == Bit(push(0))
           p1 == Bit(push(1))
           t  == Bit(taken)
           d  == Bit(sent)
<1>12. /\ l0 \in Nat /\ l1 \in Nat /\ t \in {0, 1} /\ d \in {0, 1}
       /\ l0' = l0 + p0 - d /\ l1' = l1 + p1 - d
       /\ p0 = IF write_fifo_select = 0 THEN t ELSE 0
       /\ p1 = IF write_fifo_select = 1 THEN t ELSE 0
       /\ write_fifo_select' = IF t = 1 THEN 1 - write_fifo_select ELSE write_fifo_select
       /\ written \in Nat /\ written' = written + d
       /\ w \in Nat /\ w' = w + t /\ write_fifo_select \in {0, 1}
       /\ w = 2 * (written + l1) + write_fifo_select /\ l0 = l1 + write_fifo_select
  BY <1>5, <1>10, <1>11
<1> HIDE DEF l0, l1, p0, p1, t, d
<1>13. l0' = l1' + write_fifo_select' /\ w' = 2 * (written' + l1') + write_fifo_select'
  BY <1>12
<1> QED
  BY <1>7, <1>8, <1>9, <1>13 DEF Half, l0, l1

LEMMA WriteStep ==
  ASSUME WriteInv, NEW in \in Input, ClockWrites(in)
  PROVE  WriteInv'
<1>1. resp_counter' \in Nat
  BY DEF ClockWrites, WriteInv, WriteTypes
<1> QED
  BY <1>1, AddressStep, DataStep DEF WriteInv, WriteTypes, WriteQueues

-----------------------------------------------------------------------------
(* The read request channel, of the bridge without the buffer for requests. *)

LEMMA ReadSignals ==
  ASSUME ~ Extended, ReadInv, NEW in \in Input
  PROVE  /\ ArTaken(in) \in BOOLEAN /\ ReadSent(in) \in BOOLEAN /\ Dropped \in BOOLEAN
         /\ ArTaken(in) => \A h \in Half : Len(read_reqQ[h]) # Depth
         /\ ReadSent(in) => read_submit_select = 0 /\ read_reqQ[0] # <<>>
         /\ ReadSubmitted(in) <=> ReadSent(in)
         /\ Dropped => read_submit_select = 1 /\ read_reqQ[1] # <<>>
BY DEF ArTaken, ReadSent, ReadSubmitted, ReadValid, Accepted, Dropped, Full, Input

LEMMA ReadStep ==
  ASSUME ~ Extended, ReadInv, NEW in \in Input, ClockReads(in)
  PROVE  ReadInv'
<1> DEFINE taken   == ArTaken(in)
           sent    == ReadSent(in)
           dropped == Dropped
           push0   == taken /\ read_req_fifo_select = 0
           push1   == taken /\ read_req_fifo_select = 1
           old0    == read_reqQ[0]
           old1    == read_reqQ[1]
<1>1. /\ taken \in BOOLEAN /\ sent \in BOOLEAN /\ dropped \in BOOLEAN
      /\ push0 \in BOOLEAN /\ push1 \in BOOLEAN
      /\ push0 => Len(old0) # Depth
      /\ push1 => Len(old1) # Depth
      /\ sent => read_submit_select = 0 /\ old0 # <<>>
      /\ dropped => read_submit_select = 1 /\ old1 # <<>>
      /\ ReadSubmitted(in) <=> sent
  BY ReadSignals DEF Half
<1>2. taken => ar \in Beats
  BY BridgeAssumption DEF ClockReads, ArTaken, Beats, ReadInv, ReadTypes
<1>3. /\ read_reqQ' = [h \in Half |-> read_reqQ'[h]]
      /\ read_reqQ'[0] = Clocked(old0, Depth, push0, ar, sent)
      /\ read_reqQ'[1] = Clocked(old1, Depth, push1, ar, dropped)
  BY DEF ClockReads, Half
<1>4. /\ old0 \in Seq(Beats) /\ Len(old0) <= Depth /\ Len(old0) \in Nat
      /\ old1 \in Seq(Beats) /\ Len(old1) <= Depth /\ Len(old1) \in Nat
      /\ BeatsFrom(old0, 2 * asked) /\ Depth \in Nat
  BY BridgeAssumption DEF ReadInv, ReadTypes, ReadQueues, Half
<1>5. /\ asked \in Nat /\ asked' = asked + Bit(sent) /\ Bit(sent) \in {0, 1}
      /\ ar \in Nat /\ ar' = ar + Bit(taken) /\ Bit(taken) \in {0, 1}
      /\ read_req_fifo_select \in {0, 1} /\ read_submit_select \in {0, 1}
      /\ read_req_fifo_select' =
           IF taken THEN 1 - read_req_fifo_select ELSE read_req_fifo_select
      /\ read_submit_select' =
           IF ReadSubmitted(in) THEN 1 ELSE IF dropped THEN 0 ELSE read_submit_select
      /\ ar + read_req_fifo_select = 2 * (asked + Len(old0))
      /\ Len(old1) + read_req_fifo_select = Len(old0) + read_submit_select
  BY DEF ReadInv, ReadTypes, ReadQueues, ClockReads, Bit, Half, Toggled
<1>6. read_submit_select' = IF sent THEN 1 ELSE IF dropped THEN 0 ELSE read_submit_select
  BY <1>1, <1>5
<1>7. push0 => ar \in Beats /\ ar = 2 * asked + 2 * Len(old0)
  <2> DEFINE l == Len(old0)
  <2>1. /\ l \in Nat /\ asked \in Nat /\ ar \in Nat
        /\ push0 => ar + 0 = 2 * (asked + l)
    BY <1>4, <1>5
  <2> HIDE DEF l, push0
  <2>2. push0 => ar = 2 * asked + 2 * l
    BY <2>1
  <2> QED
    BY <1>2, <2>2 DEF l, push0
<1>8. push1 => ar \in Beats
  BY <1>2
<1> DEFINE first == 2 * asked
<1>9. first \in Nat
  BY <1>5
<1>10. /\ Bit(push0) = IF read_req_fifo_select = 0 THEN Bit(taken) ELSE 0
       /\ Bit(push1) = IF read_req_fifo_select = 1 THEN Bit(taken) ELSE 0
       /\ read_req_fifo_select' =
            IF Bit(taken) = 1 THEN 1 - read_req_fifo_select ELSE read_req_fifo_select
       /\ Bit(sent) = 1 => read_submit_select = 0
       /\ Bit(dropped) = 1 => read_submit_select = 1
       /\ read_submit_select' =
            IF Bit(sent) = 1 THEN 1 ELSE IF Bit(dropped) = 1 THEN 0 ELSE read_submit_select
       /\ Bit(dropped) \in {0, 1}
  BY <1>1, <1>5, <1>6 DEF Bit
<1> HIDE DEF taken, sent, dropped, push0, push1, old0, old1, first
<1>11. /\ read_reqQ'[0] \in Seq(Beats) /\ Len(read_reqQ'[0]) <= Depth
       /\ Len(read_reqQ'[0]) = Len(old0) + Bit(push0) - Bit(sent)
       /\ BeatsFrom(read_reqQ'[0], first + 2 * Bit(sent))
  <2>1. push0 => ar \in Beats /\ ar = first + 2 * Len(old0)
    BY <1>7 DEF first
  <2>2. BeatsFrom(old0, first)
    BY <1>4 DEF first
  <2>3. /\ push0 \in BOOLEAN /\ sent \in BOOLEAN
        /\ push0 => Len(old0) # Depth
        /\ sent => old0 # <<>>
        /\ old0 \in Seq(Beats) /\ Len(old0) <= Depth /\ Depth \in Nat
    BY <1>1, <1>4
  <2>4. LET new == Clocked(old0, Depth, push0, ar, sent) IN
        /\ new \in Seq(Beats) /\ Len(new) <= Depth
        /\ Len(new) = Len(old0) + Bit(push0) - Bit(sent)
        /\ BeatsFrom(new, first + 2 * Bit(sent))
    BY ONLY <1>9, <2>1, <2>2, <2>3, BeatsStep
  <2> QED
    BY <1>3, <2>4
<1>12. /\ read_reqQ'[1] \in Seq(Beats) /\ Len(read_reqQ'[1]) <= Depth
       /\ Len(read_reqQ'[1]) = Len(old1) + Bit(push1) - Bit(dropped)
  <2>1. /\ push1 \in BOOLEAN /\ dropped \in BOOLEAN /\ (push1 => ar \in Beats)
        /\ old1 \in Seq(Beats) /\ Len(old1) <= Depth /\ Depth \in Nat
    BY <1>1, <1>4, <1>8
  <2>2. LET new == Clocked(old1, Depth, push1, ar, dropped) IN
        /\ new \in Seq(Beats) /\ Len(new) <= Depth
        /\ Len(new) = Len(old1) + (IF push1 /\ Len(old1) # Depth THEN 1 ELSE 0)
                                - (IF dropped /\ old1 # <<>> THEN 1 ELSE 0)
    BY ONLY <2>1, ClockedLength
  <2> QED
    BY <1>1, <1>3, <2>2 DEF Bit
<1>13. 2 * asked' = first + 2 * Bit(sent)
  <2>1. asked \in Nat /\ asked' = asked + Bit(sent) /\ Bit(sent) \in {0, 1}
    BY <1>5
  <2> QED
    BY ONLY <2>1 DEF first
<1> DEFINE l0 == Len(old0)
           l1 == Len(old1)
           k0 == Len(read_reqQ'[0])
           k1 == Len(read_reqQ'[1])
           t  == Bit(taken)
           d  == Bit(sent)
           e  == Bit(dropped)
           p0 == Bit(push0)
           p1 == Bit(push1)
<1>14. /\ l0 \in Nat /\ l1 \in Nat /\ t \in {0, 1} /\ d \in {0, 1} /\ e \in {0, 1}
       /\ k0 = l0 + p0 - d /\ k1 = l1 + p1 - e
       /\ p0 = IF read_req_fifo_select = 0 THEN t ELSE 0
       /\ p1 = IF read_req_fifo_select = 1 THEN t ELSE 0
       /\ read_req_fifo_select' = IF t = 1 THEN 1 - read_req_fifo_select ELSE read_req_fifo_select
       /\ d = 1 => read_submit_select = 0
       /\ e = 1 => read_submit_select = 1
       /\ read_submit_select' = IF d = 1 THEN 1 ELSE IF e = 1 THEN 0 ELSE read_submit_select
       /\ asked \in Nat /\ asked' = asked + d /\ ar \in Nat /\ ar' = ar + t
       /\ read_req_fifo_select \in {0, 1} /\ read_submit_select \in {0, 1}
       /\ ar + read_req_fifo_select = 2 * (asked + l0)
       /\ l1 + read_req_fifo_select = l0 + read_submit_select
  BY <1>4, <1>5, <1>10, <1>11, <1>12
<1> HIDE DEF l0, l1, k0, k1, t, d, e, p0, p1
<1>15. /\ ar' + read_req_fifo_select' = 2 * (asked' + k0)
       /\ k1 + read_req_fifo_select' = k0 + read_submit_select'
       /\ ar' \in Nat /\ asked' \in Nat
       /\ read_req_fifo_select' \in {0, 1} /\ read_submit_select' \in {0, 1}
  BY <1>14
<1>16. /\ read_reqQ' \in [Half -> Seq(Beats)]
       /\ \A h \in Half : Len(read_reqQ'[h]) <= Depth
  BY <1>3, <1>11, <1>12 DEF Half
<1>17. BeatsFrom(read_reqQ'[0], 2 * asked')
  BY <1>11, <1>13
<1> QED
  BY <1>15, <1>16, <1>17 DEF ReadInv, ReadTypes, ReadQueues, Half, k0, k1

-----------------------------------------------------------------------------
(* The responses.                                                          *)

\* What is under way, asked for or answered, fits rd_respQ: the host has out
\* at most ReadWindow read beats, which are less than Depth + 1 pairs.
LEMMA Room ==
  ASSUME ReadInv, ResponseInv
  PROVE  /\ Len(rd_respQ) + Len(serving) <= Depth
         /\ RoomForResponses
<1> DEFINE l0 == Len(read_reqQ[0])
           r  == Len(rd_respQ)
           s  == Len(serving)
<1>1. /\ l0 \in Nat /\ r \in Nat /\ s \in Nat /\ asked \in Nat /\ ar \in Nat
      /\ returned \in Nat /\ rd_resp_half_select \in {0, 1} /\ read_req_fifo_select \in {0, 1}
      /\ ar + read_req_fifo_select = 2 * (asked + l0)
      /\ returned - rd_resp_half_select + 2 * (r + s) = 2 * asked
      /\ ar - returned <= ReadWindow /\ ReadWindow < 2 * Depth
      /\ Depth \in Nat /\ ReadWindow \in Nat
  BY BridgeAssumption
  DEF ReadInv, ReadTypes, ReadQueues, ResponseInv, ResponseTypes, Responses, Credits, Done, Half
<1>2. serving # <<>> => s > 0
  BY DEF ResponseInv, ResponseTypes
<1> HIDE DEF l0, r, s
<1>3. r + s <= Depth
  BY <1>1
<1>4. s > 0 => r # Depth
  BY <1>1, <1>3
<1> QED
  BY <1>2, <1>3, <1>4 DEF RoomForResponses, Full, r, s

LEMMA LeavesSignals ==
  ASSUME ~ Extended, ReadInv, NEW in \in Input, in.grant => ReqValid
  PROVE  /\ ReadLeaves(in) <=> ReadSent(in)
         /\ ReadSent(in) => softreg_req.addr = 2 * asked
<1>1. CASE WriteValid
  BY <1>1 DEF ReadLeaves, softreg_req, Request, WriteReq, ReadSent
<1>2. CASE ~ WriteValid
  <2>1. softreg_req = ReadReq
    BY <1>2 DEF softreg_req, Request
  <2>2. softreg_req.isWrite = FALSE /\ softreg_req.addr = Head(read_reqQ[0])
    BY <2>1 DEF ReadReq
  <2>3. ReadLeaves(in) <=> ReadSent(in)
    BY <1>2, <2>2 DEF ReadLeaves, ReadSent, Accepted, ReqValid
  <2>4. ASSUME ReadSent(in)
        PROVE  Head(read_reqQ[0]) = 2 * asked
    <3>1. read_reqQ[0] \in Seq(Beats) /\ read_reqQ[0] # <<>> /\ asked \in Nat
      BY <2>4 DEF ReadSent, ReadValid, ReadInv, ReadTypes, Half
    <3>2. BeatsFrom(read_reqQ[0], 2 * asked) /\ Len(read_reqQ[0]) >= 1
      BY <3>1 DEF ReadInv, ReadQueues
    <3>3. read_reqQ[0][1] = 2 * asked + 2 * (1 - 1)
      BY <3>1, <3>2 DEF BeatsFrom
    <3> QED
      BY <3>1, <3>3
  <2> QED
    BY <2>2, <2>3, <2>4
<1> QED
  BY <1>1, <1>2

LEMMA ResponseStep ==
  ASSUME ~ Extended, ReadInv, ResponseInv, NEW in \in Input, Clock(in)
  PROVE  ResponseInv'
<1> DEFINE Entry  == Nat \X Nat
           first  == Done
           behind == Done + 2 * Len(rd_respQ)
           push   == in.resp
           pop    == RespDeq(in)
           taken  == RTaken(in)
           sent   == ReadSent(in)
           last   == <<softreg_req.addr, softreg_req.addr + 1>>
           room   == Len(serving) + 1
<1>1. /\ push \in BOOLEAN /\ pop \in BOOLEAN /\ taken \in BOOLEAN /\ sent \in BOOLEAN
      /\ pop => rd_respQ # <<>>
      /\ push => serving # <<>>
      /\ push => Len(rd_respQ) # Depth
      /\ taken => read_resp_credit_cnt # 0
      /\ pop <=> taken /\ rd_resp_half_select = 1
  BY Room, ReadSignals
  DEF Clock, RespDeq, RTaken, RValid, ReadSent, RoomForResponses, Full, Input
<1>2. /\ rd_respQ \in Seq(Entry) /\ Len(rd_respQ) <= Depth /\ Len(rd_respQ) \in Nat
      /\ serving \in Seq(Entry) /\ Len(serving) \in Nat
      /\ PairsFrom(rd_respQ, first) /\ PairsFrom(serving, behind)
      /\ Depth \in Nat
  BY BridgeAssumption DEF ResponseInv, ResponseTypes, Responses
<1>3. /\ returned \in Nat /\ returned' = returned + Bit(taken) /\ Bit(taken) \in {0, 1}
      /\ rd_resp_half_select \in {0, 1}
      /\ rd_resp_half_select' =
           IF taken THEN 1 - rd_resp_half_select ELSE rd_resp_half_select
      /\ Done \in Nat /\ Done + 2 * (Len(rd_respQ) + Len(serving)) = 2 * asked
      /\ asked \in Nat /\ asked' = asked + Bit(sent) /\ Bit(sent) \in {0, 1}
  BY DEF ReadInv, ReadTypes, ResponseInv, ResponseTypes, Responses, Clock, ClockReads,
         ClockResponses, Bit, Half, Toggled
<1>4. rd_respQ' = Clocked(rd_respQ, Depth, push, Head(serving), pop)
  BY DEF Clock, ClockResponses
<1>5. sent => last = <<2 * asked, 2 * asked + 1>>
  BY LeavesSignals DEF Clock
<1>6. serving' = Clocked(serving, room, sent, last, push)
  <2>1. serving' = IF sent THEN Append(Dequeued(serving, in.resp), last)
                           ELSE Dequeued(serving, in.resp)
    BY LeavesSignals DEF Clock, ClockSoftRegs
  <2>2. ~ Full(serving, room)
    BY <1>2 DEF Full
  <2> QED
    BY <2>1, <2>2 DEF Clocked
<1>7. first \in Nat /\ behind \in Nat
  BY <1>2, <1>3
<1>8. push => Head(serving) \in Entry /\ Head(serving) = <<behind, behind + 1>>
  <2>1. SUFFICES ASSUME push
                 PROVE  Head(serving) \in Entry /\ Head(serving) = <<behind, behind + 1>>
    OBVIOUS
  <2>2. Head(serving) = serving[1] /\ Len(serving) >= 1
    BY <1>1, <1>2, <2>1
  <2>3. serving[1] = <<behind + 2 * (1 - 1), behind + 2 * (1 - 1) + 1>>
    BY <1>2, <2>2 DEF PairsFrom
  <2> QED
    BY <1>7, <2>2, <2>3
<1> HIDE DEF first, behind, push, pop, taken, sent, last, room
<1>9. push => Head(serving) = <<first + 2 * Len(rd_respQ), first + 2 * Len(rd_respQ) + 1>>
  BY <1>8 DEF first, behind
<1>10. sent => /\ last \in Entry
               /\ last = <<behind + 2 * Len(serving), behind + 2 * Len(serving) + 1>>
  <2> DEFINE r == Len(rd_respQ)
             s == Len(serving)
  <2>1. /\ r \in Nat /\ s \in Nat /\ Done \in Nat /\ asked \in Nat
        /\ Done + 2 * (r + s) = 2 * asked /\ behind = Done + 2 * r
    BY <1>2, <1>3 DEF behind
  <2> HIDE DEF r, s
  <2>2. 2 * asked = behind + 2 * s /\ 2 * asked \in Nat /\ 2 * asked + 1 \in Nat
    BY <2>1
  <2> QED
    BY <1>5, <2>2 DEF s
<1>11. /\ rd_respQ' \in Seq(Entry) /\ Len(rd_respQ') <= Depth
       /\ Len(rd_respQ') = Len(rd_respQ) + Bit(push) - Bit(pop)
       /\ PairsFrom(rd_respQ', first + 2 * Bit(pop))
  <2> DEFINE head == Head(serving)
  <2>1. /\ rd_respQ \in Seq(Entry) /\ Len(rd_respQ) <= Depth /\ Depth \in Nat
        /\ push \in BOOLEAN /\ pop \in BOOLEAN
        /\ push => Len(rd_respQ) # Depth
        /\ pop => rd_respQ # <<>>
        /\ first \in Nat /\ PairsFrom(rd_respQ, first)
        /\ push => /\ head \in Entry
                   /\ head = <<first + 2 * Len(rd_respQ), first + 2 * Len(rd_respQ) + 1>>
    BY <1>1, <1>2, <1>7, <1>8, <1>9
  <2> HIDE DEF head, Entry
  <2>2. LET new == Clocked(rd_respQ, Depth, push, head, pop) IN
        /\ new \in Seq(Entry) /\ Len(new) <= Depth
        /\ Len(new) = Len(rd_respQ) + Bit(push) - Bit(pop)
        /\ PairsFrom(new, first + 2 * Bit(pop))
    BY ONLY <2>1, PairsStep
  <2> QED
    BY <1>4, <2>2 DEF head
<1>12. /\ serving' \in Seq(Entry)
       /\ Len(serving') = Len(serving) + Bit(sent) - Bit(push)
       /\ PairsFrom(serving', behind + 2 * Bit(push))
  <2>1. room \in Nat /\ Len(serving) <= room /\ Len(serving) # room
    BY <1>2 DEF room
  <2>2. /\ serving \in Seq(Entry)
        /\ sent \in BOOLEAN /\ push \in BOOLEAN
        /\ push => serving # <<>>
        /\ behind \in Nat /\ PairsFrom(serving, behind)
        /\ sent => /\ last \in Entry
                   /\ last = <<behind + 2 * Len(serving), behind + 2 * Len(serving) + 1>>
    BY <1>1, <1>2, <1>7, <1>10
  <2> HIDE DEF Entry
  <2>3. LET new == Clocked(serving, room, sent, last, push) IN
        /\ new \in Seq(Entry) /\ Len(new) <= room
        /\ Len(new) = Len(serving) + Bit(sent) - Bit(push)
        /\ PairsFrom(new, behind + 2 * Bit(push))
    BY ONLY <2>1, <2>2, PairsStep
  <2> QED
    BY <1>6, <2>3
<1>13. /\ Bit(pop) = IF rd_resp_half_select = 1 THEN Bit(taken) ELSE 0
       /\ rd_resp_half_select' =
            IF Bit(taken) = 1 THEN 1 - rd_resp_half_select ELSE rd_resp_half_select
       /\ Bit(push) \in {0, 1}
  BY <1>1, <1>3 DEF Bit
<1> DEFINE r  == Len(rd_respQ)
           s  == Len(serving)
           t  == Bit(taken)
           d  == Bit(sent)
           i  == Bit(push)
           o  == Bit(pop)
<1>14. /\ r \in Nat /\ s \in Nat /\ t \in {0, 1} /\ d \in {0, 1} /\ i \in {0, 1}
       /\ r' = r + i - o /\ s' = s + d - i
       /\ o = IF rd_resp_half_select = 1 THEN t ELSE 0
       /\ rd_resp_half_select \in {0, 1}
       /\ rd_resp_half_select' = IF t = 1 THEN 1 - rd_resp_half_select ELSE rd_resp_half_select
       /\ returned \in Nat /\ returned' = returned + t
       /\ asked \in Nat /\ asked' = asked + d
       /\ first = returned - rd_resp_half_select /\ first \in Nat
       /\ first + 2 * (r + s) = 2 * asked /\ behind = first + 2 * r
       /\ Done' = returned' - rd_resp_half_select'
  BY <1>2, <1>3, <1>7, <1>11, <1>12, <1>13 DEF first, behind, Done
<1> HIDE DEF r, s, t, d, i, o
<1>15. Done' = first + 2 * o
  BY <1>14
<1>16. Done' + 2 * r' = behind + 2 * i
  BY <1>14, <1>15
<1>17. Done' + 2 * (r' + s') = 2 * asked'
  BY <1>14, <1>15
<1>18. returned' \in Nat /\ rd_resp_half_select' \in {0, 1} /\ Done' \in Nat
  BY <1>14, <1>15
<1>19. /\ read_resp_credit_cnt' \in Nat
       /\ Credits'
  <2> DEFINE a == Bit(ArTaken(in))
             credit == read_resp_credit_cnt
  <2>1. /\ ar \in Nat /\ returned \in Nat /\ ReadWindow \in Nat /\ credit \in Nat
        /\ credit = ar - returned /\ credit <= ReadWindow
        /\ ar' = ar + a /\ a \in {0, 1}
        /\ a = 1 => ar - returned < ReadWindow
        /\ read_resp_credit_cnt' = credit + a - t
        /\ returned' = returned + t /\ t \in {0, 1}
        /\ t = 1 => credit # 0
    BY <1>1, <1>14, BridgeAssumption
    DEF ReadInv, ReadTypes, ResponseInv, ResponseTypes, Credits, Clock, ClockReads,
        ClockResponses, Bit, t, taken, ArTaken
  <2> HIDE DEF a, credit
  <2> QED
    BY <2>1 DEF Credits
<1> QED
  BY <1>11, <1>12, <1>15, <1>16, <1>17, <1>18, <1>19
  DEF ResponseInv, ResponseTypes, Responses, Half, r, s, o, i

-----------------------------------------------------------------------------
(* The theorems.                                                           *)

BridgeInv == WriteInv /\ ReadInv /\ ResponseInv

LEMMA BridgeInit == Init => BridgeInv
BY BridgeAssumption
DEF Init, BridgeInv, WriteInv, WriteTypes, WriteQueues, ReadInv, ReadTypes, ReadQueues,
    ResponseInv, ResponseTypes, Responses, Credits, Done, BeatsFrom, PairsFrom, Half

LEMMA WriteAlways == Spec => []WriteInv
<1>1. Init => WriteInv
  BY BridgeInit DEF BridgeInv
<1>2. ASSUME WriteInv, [Next]_vars
      PROVE  WriteInv'
  <2>1. CASE Next
    BY <1>2, <2>1, WriteStep DEF Next, Clock
  <2>2. CASE UNCHANGED vars
    BY <1>2, <2>2
    DEF vars, selects, queues, counts, world, WriteInv, WriteTypes, WriteQueues, BeatsFrom
  <2> QED
    BY <1>2, <2>1, <2>2
<1> QED
  BY <1>1, <1>2, PTL DEF Spec

LEMMA BridgeAlways == ASSUME ~ Extended PROVE Spec => []BridgeInv
<1>1. Init => BridgeInv
  BY BridgeInit
<1>2. ASSUME BridgeInv, [Next]_vars
      PROVE  BridgeInv'
  <2>1. CASE Next
    BY <1>2, <2>1, WriteStep, ReadStep, ResponseStep DEF Next, Clock, BridgeInv
  <2>2. CASE UNCHANGED vars
    BY <1>2, <2>2
    DEF vars, selects, queues, counts, world, BridgeInv, WriteInv, WriteTypes, WriteQueues,
        ReadInv, ReadTypes, ReadQueues, ResponseInv, ResponseTypes, Responses, Credits,
        Done, BeatsFrom, PairsFrom
  <2> QED
    BY <1>2, <2>1, <2>2
<1> QED
  BY <1>1, <1>2, PTL DEF Spec

(* The bridge keeps its types, with every FIFO within its depth (AXIL2SR,  *)
(* the build without F1_AXIL_USE_EXTENDER).                                *)
THEOREM BridgeTypeCorrect == ASSUME ~ Extended PROVE Spec => []TypeOK
<1>1. BridgeInv => TypeOK
  BY DEF BridgeInv, WriteInv, WriteTypes, ReadInv, ReadTypes, ResponseInv, ResponseTypes, TypeOK
<1> QED
  BY <1>1, BridgeAlways, PTL

(* The data and the address of a SoftReg write belong to one 64-bit write  *)
(* of the host, in both bridges and however the address and the data       *)
(* channels are timed against each other (wr_addrQ and wr_dataQ).          *)
THEOREM WritesArePaired == Spec => []PairsTogether
<1>1. WriteInv => PairsTogether
  <2> SUFFICES ASSUME WriteInv, WriteValid
               PROVE  /\ Head(wr_addrQ) = 2 * written
                      /\ Head(wr_dataQ[0]) = 2 * written
                      /\ Head(wr_dataQ[1]) = 2 * written + 1
    BY DEF PairsTogether
  <2>1. /\ written \in Nat
        /\ wr_addrQ \in Seq(Beats) /\ wr_addrQ # <<>> /\ BeatsFrom(wr_addrQ, 2 * written)
    BY DEF WriteInv, WriteTypes, WriteQueues, WriteValid
  <2>2. Head(wr_addrQ) = 2 * written
    <3>1. 1 \in 1 .. Len(wr_addrQ) /\ Head(wr_addrQ) = wr_addrQ[1]
      BY <2>1
    <3>2. wr_addrQ[1] = 2 * written + 2 * (1 - 1)
      BY <2>1, <3>1 DEF BeatsFrom
    <3> QED
      BY <2>1, <3>1, <3>2
  <2>3. ASSUME NEW h \in Half
        PROVE  Head(wr_dataQ[h]) = 2 * written + h
    <3>1. /\ wr_dataQ[h] \in Seq(Beats) /\ wr_dataQ[h] # <<>>
          /\ BeatsFrom(wr_dataQ[h], 2 * written + h)
      BY DEF WriteInv, WriteTypes, WriteQueues, WriteValid
    <3>2. 1 \in 1 .. Len(wr_dataQ[h]) /\ Head(wr_dataQ[h]) = wr_dataQ[h][1]
      BY <3>1
    <3>3. wr_dataQ[h][1] = 2 * written + h + 2 * (1 - 1)
      BY <3>1, <3>2 DEF BeatsFrom
    <3> QED
      BY <2>1, <3>2, <3>3 DEF Half
  <2> QED
    BY <2>1, <2>2, <2>3 DEF Half
<1> QED
  BY <1>1, WriteAlways, PTL

(* The host's read beats are answered in their order, each after it has    *)
(* been accepted (read_resp_credit_cnt and rd_resp_half_select).           *)
THEOREM ReadsAreAnsweredInOrder == ASSUME ~ Extended PROVE Spec => []ReadsInOrder
<1>1. BridgeInv => ReadsInOrder
  <2> SUFFICES ASSUME BridgeInv, RValid
               PROVE  returned < ar /\ RData = returned
    BY DEF ReadsInOrder
  <2>1. /\ returned \in Nat /\ ar \in Nat /\ rd_resp_half_select \in {0, 1}
        /\ read_resp_credit_cnt = ar - returned /\ read_resp_credit_cnt \in Nat
        /\ read_resp_credit_cnt # 0
        /\ rd_respQ \in Seq(Nat \X Nat) /\ rd_respQ # <<>>
        /\ PairsFrom(rd_respQ, Done) /\ Done \in Nat
    BY DEF BridgeInv, ReadInv, ReadTypes, ResponseInv, ResponseTypes, Responses, Credits,
           RValid, Half
  <2>2. returned < ar
    BY <2>1
  <2>3. Head(rd_respQ) = <<Done, Done + 1>>
    <3>1. 1 \in 1 .. Len(rd_respQ) /\ Head(rd_respQ) = rd_respQ[1]
      BY <2>1
    <3>2. rd_respQ[1] = <<Done + 2 * (1 - 1), Done + 2 * (1 - 1) + 1>>
      BY <2>1, <3>1 DEF PairsFrom
    <3> QED
      BY <2>1, <3>1, <3>2
  <2>4. CASE rd_resp_half_select = 0
    BY <2>1, <2>3, <2>4 DEF RData, Done
  <2>5. CASE rd_resp_half_select = 1
    BY <2>1, <2>3, <2>5 DEF RData, Done
  <2> QED
    BY <2>1, <2>2, <2>4, <2>5
<1> QED
  BY <1>1, BridgeAlways, PTL

(* No second half of a read is left behind in read_reqQ[1].                *)
THEOREM SecondHalvesAreDropped == ASSUME ~ Extended PROVE Spec => []SecondHalvesDropped
<1>1. BridgeInv => SecondHalvesDropped
  BY DEF BridgeInv, ReadInv, ReadTypes, ReadQueues, SecondHalvesDropped, Half
<1> QED
  BY <1>1, BridgeAlways, PTL

(* No response is lost at rd_respQ, although its grant is not looked at.   *)
THEOREM ResponsesHaveRoom == ASSUME ~ Extended PROVE Spec => []RoomForResponses
<1>1. BridgeInv => RoomForResponses
  BY Room DEF BridgeInv
<1> QED
  BY <1>1, BridgeAlways, PTL
=============================================================================
