--------------------------- MODULE AMI2AXI4Proofs ---------------------------
(***************************************************************************)
(* The reads and writes of a memory channel keep their order on the way to *)
(* the DDR controller and back, and the credits know what the controller   *)
(* owes: for FIFOs of any depth, and a controller of any depth that answers *)
(* whenever it likes.                                                      *)
(***************************************************************************)
EXTENDS AMI2AXI4, FifoProofs

(***************************************************************************)
(* What a path's edge does is made of Dequeued, Extended and Clocked: the  *)
(* lemmas of FifoProofs, for an entry that may or may not be moved.        *)
(***************************************************************************)
LEMMA ExtendedType ==
  ASSUME NEW Entry, NEW queue \in Seq(Entry), NEW wrreq \in BOOLEAN,
         NEW data, wrreq => data \in Entry
  PROVE  /\ Extended(queue, wrreq, data) \in Seq(Entry)
         /\ Len(Extended(queue, wrreq, data)) = Len(queue) + (IF wrreq THEN 1 ELSE 0)
BY AppendProperties DEF Extended

LEMMA DequeuedType ==
  ASSUME NEW Entry, NEW queue \in Seq(Entry), NEW rdreq \in BOOLEAN
  PROVE  /\ Dequeued(queue, rdreq) \in Seq(Entry)
         /\ Len(Dequeued(queue, rdreq)) = Len(queue) - (IF rdreq /\ queue # <<>> THEN 1 ELSE 0)
BY HeadTailProperties, EmptySeq DEF Dequeued

\* A FIFO that is not full accepts what it is offered.
LEMMA ClockedExtends ==
  ASSUME NEW queue, NEW depth, NEW wrreq \in BOOLEAN, NEW data, NEW rdreq \in BOOLEAN,
         wrreq => ~ Full(queue, depth)
  PROVE  Clocked(queue, depth, wrreq, data, rdreq) = Extended(Dequeued(queue, rdreq), wrreq, data)
BY DEF Clocked, Extended

-----------------------------------------------------------------------------
(* The conjuncts need each other: a read is accepted from the controller   *)
(* only with a credit, and the credits are the reads it has.               *)
IInv == TypeOK /\ ReadsInOrder /\ CreditsMatch

LEMMA InitInv == Init => IInv
<1> SUFFICES ASSUME Init PROVE IInv
  OBVIOUS
<1>1. TypeOK
  <2>1. \A queue \in {rdReqQ, rdRespQ, wrReq_AddrQ, wrReq_DataQ} : queue = <<>>
    BY DEF Init
  <2>2. <<>> \in Seq(Address) /\ Len(<<>>) <= Depth
    BY AMI2AXI4Assumption
  <2>3. {read_resp_credit_cnt, write_data_credit_cnt, write_resp_credit_cnt, ddrWrites} \subseteq Nat
    BY DEF Init
  <2> QED
    BY <2>1, <2>2, <2>3 DEF Init, TypeOK
<1>2. ReadsInOrder
  BY DEF Init, ReadsInOrder
<1>3. CreditsMatch
  BY DEF Init, CreditsMatch
<1> QED
  BY <1>1, <1>2, <1>3 DEF IInv

LEMMA ReadEdgeInv ==
  ASSUME IInv, NEW request \in Offered,
         NEW grant \in BOOLEAN, NEW arready \in BOOLEAN, NEW rvalid \in BOOLEAN,
         ReadEdge(request, grant, arready, rvalid)
  PROVE  IInv'
<1> DEFINE accepted == RdGrant(request)
           sent     == rdReqQ # <<>> /\ arready
           received == rvalid /\ RReady
<1>1. accepted \in BOOLEAN /\ sent \in BOOLEAN /\ received \in BOOLEAN
  BY DEF RdGrant, RReady
<1>2. /\ rdReqQ' = Clocked(rdReqQ, Depth, accepted, request, sent)
      /\ ddrReads' = Extended(Dequeued(ddrReads, received), sent, Head(rdReqQ))
      /\ rdRespQ' = Clocked(rdRespQ, Depth, received, Head(ddrReads), grant)
      /\ read_resp_credit_cnt' = Credited(read_resp_credit_cnt, sent, received)
      /\ outstanding' =
           Extended(Dequeued(outstanding, grant /\ rdRespQ # <<>>), accepted, request)
      /\ UNCHANGED <<ddr_is_ready_local, writes>>
  BY DEF ReadEdge
<1>3. /\ accepted => request \in Address /\ ~ Full(rdReqQ, Depth)
      /\ sent => rdReqQ # <<>>
      /\ received => ddrReads # <<>> /\ ~ Full(rdRespQ, Depth)
  BY DEF RdGrant, Offered, RReady, EnoughRespCredits, ReadEdge
<1> HIDE DEF accepted, sent, received
<1>4. /\ rdReqQ \in Seq(Address) /\ Len(rdReqQ) <= Depth
      /\ rdRespQ \in Seq(Address) /\ Len(rdRespQ) <= Depth
      /\ ddrReads \in Seq(Address) /\ outstanding \in Seq(Address)
      /\ Depth \in Nat
  BY AMI2AXI4Assumption DEF IInv, TypeOK
<1>5. /\ sent => Head(rdReqQ) \in Address
      /\ received => Head(ddrReads) \in Address
  BY <1>3, <1>4, HeadTailProperties
<1>6. /\ rdReqQ' \in Seq(Address) /\ Len(rdReqQ') <= Depth
      /\ rdRespQ' \in Seq(Address) /\ Len(rdRespQ') <= Depth
  BY ZenonT(60), <1>1, <1>2, <1>3, <1>4, <1>5, ClockedLength
<1>7. /\ Dequeued(ddrReads, received) \in Seq(Address)
      /\ Len(Dequeued(ddrReads, received)) = Len(ddrReads) - (IF received THEN 1 ELSE 0)
  BY <1>1, <1>3, <1>4, DequeuedType, EmptySeq
<1>8. /\ ddrReads' \in Seq(Address)
      /\ Len(ddrReads') = Len(ddrReads) - (IF received THEN 1 ELSE 0) + (IF sent THEN 1 ELSE 0)
  <2>1. CASE sent
    BY <1>2, <1>5, <1>7, <2>1, AppendProperties DEF Extended
  <2>2. CASE ~ sent
    BY <1>2, <1>7, <2>2 DEF Extended
  <2> QED
    BY <1>1, <2>1, <2>2
<1>9. ReadsInOrder'
  <2> DEFINE first  == Dequeued(rdRespQ, grant)
             second == Dequeued(ddrReads, received)
             third  == Dequeued(rdReqQ, sent)
  <2>1. first \in Seq(Address) /\ second \in Seq(Address) /\ third \in Seq(Address)
    BY <1>1, <1>4, DequeuedType
  <2>2. /\ rdRespQ' = Extended(first, received, Head(ddrReads))
        /\ ddrReads' = Extended(second, sent, Head(rdReqQ))
        /\ rdReqQ' = Extended(third, accepted, request)
    BY <1>1, <1>2, <1>3, ClockedExtends
  <2>3. rdRespQ' \in Seq(Address) /\ ddrReads' \in Seq(Address)
    BY <1>6, <1>8
  <2>4. rdRespQ \in Seq(Address) /\ ddrReads \in Seq(Address) /\ rdReqQ \in Seq(Address)
    BY <1>4
  <2> HIDE DEF first
  (* What the controller answers and what it is sent change hands.         *)
  <2>5. rdRespQ' \o second = first \o ddrReads
    <3>1. CASE received
      BY <1>3, <2>1, <2>2, <2>4, <3>1, HandedOver DEF Extended, Dequeued
    <3>2. CASE ~ received
      BY <2>2, <3>2 DEF Extended, Dequeued
    <3> QED
      BY <3>1, <3>2
  <2>6. ddrReads' \o third = second \o rdReqQ
    <3> HIDE DEF second
    <3>1. CASE sent
      BY <1>3, <2>1, <2>2, <2>4, <3>1, HandedOver DEF Extended, Dequeued
    <3>2. CASE ~ sent
      BY <2>2, <3>2 DEF Extended, Dequeued
    <3> QED
      BY <3>1, <3>2
  <2> HIDE DEF second, third
  <2>7. (rdRespQ' \o ddrReads') \o third = (first \o ddrReads) \o rdReqQ
    <3>1. (rdRespQ' \o ddrReads') \o third = rdRespQ' \o (ddrReads' \o third)
      <4>1. third \in Seq(Address)
        BY <2>1
      <4> QED
        BY <2>3, <4>1, ConcatAssociative
    <3>2. (rdRespQ' \o second) \o rdReqQ = rdRespQ' \o (second \o rdReqQ)
      <4>1. rdRespQ' \in Seq(Address) /\ second \in Seq(Address) /\ rdReqQ \in Seq(Address)
        BY <2>1, <2>3, <2>4
      <4> QED
        BY <4>1, ConcatAssociative
    <3> QED
      BY <2>5, <2>6, <3>1, <3>2
  (* The request that comes in is the last of all.                         *)
  <2>8. (rdRespQ' \o ddrReads') \o rdReqQ'
          = Extended((first \o ddrReads) \o rdReqQ, accepted, request)
    <3>1. CASE accepted
      <4>1. rdRespQ' \o ddrReads' \in Seq(Address) /\ request \in Address
        BY <1>3, <2>3, <3>1, ConcatProperties
      <4>2. (rdRespQ' \o ddrReads') \o Append(third, request)
              = Append((rdRespQ' \o ddrReads') \o third, request)
        BY SMTT(30), <2>1, <4>1, AcceptedLast
      <4> QED
        BY <2>2, <2>7, <3>1, <4>2 DEF Extended
    <3>2. CASE ~ accepted
      BY <2>2, <2>7, <3>2 DEF Extended
    <3> QED
      BY <3>1, <3>2
  (* The answer that is taken was the first.                               *)
  <2>9. (first \o ddrReads) \o rdReqQ = Dequeued(outstanding, grant /\ rdRespQ # <<>>)
    <3>1. CASE grant /\ rdRespQ # <<>>
      <4>1. /\ first \o ddrReads = Tail(rdRespQ \o ddrReads)
            /\ rdRespQ \o ddrReads # <<>> /\ rdRespQ \o ddrReads \in Seq(Address)
        BY <2>4, <3>1, TakenFirst, ConcatProperties DEF first, Dequeued
      <4>2. /\ Tail(rdRespQ \o ddrReads) \o rdReqQ = Tail((rdRespQ \o ddrReads) \o rdReqQ)
            /\ (rdRespQ \o ddrReads) \o rdReqQ # <<>>
        BY <2>4, <4>1, TakenFirst
      <4> QED
        BY <3>1, <4>1, <4>2 DEF Dequeued, IInv, ReadsInOrder
    <3>2. CASE ~ (grant /\ rdRespQ # <<>>)
      BY <3>2 DEF first, Dequeued, IInv, ReadsInOrder
    <3> QED
      BY <3>1, <3>2
  <2> QED
    BY <1>2, <2>8, <2>9 DEF ReadsInOrder
<1>10. CreditsMatch'
  BY <1>2, <1>3, <1>4, <1>8, EmptySeq DEF IInv, CreditsMatch, writes, Credited
<1>11. outstanding' \in Seq(Address)
  BY <1>6, <1>8, <1>9, ConcatProperties DEF ReadsInOrder
<1>12. TypeOK'
  BY <1>2, <1>6, <1>8, <1>10, <1>11 DEF IInv, TypeOK, CreditsMatch, writes
<1> QED
  BY <1>9, <1>10, <1>12 DEF IInv

LEMMA WriteEdgeInv ==
  ASSUME IInv, NEW request \in Offered,
         NEW awready \in BOOLEAN, NEW wready \in BOOLEAN, NEW bvalid \in BOOLEAN,
         WriteEdge(request, awready, wready, bvalid)
  PROVE  IInv'
<1> DEFINE accepted  == WrGrant(request)
           addressed == wrReq_AddrQ # <<>> /\ awready
           provided  == WValid /\ wready
           ended     == BReady /\ bvalid
<1>1. accepted \in BOOLEAN /\ addressed \in BOOLEAN /\ provided \in BOOLEAN /\ ended \in BOOLEAN
  BY DEF WrGrant, WValid, BReady, AddrDataNotFull
<1>2. /\ wrReq_AddrQ' = Clocked(wrReq_AddrQ, Depth, accepted, request, addressed)
      /\ wrReq_DataQ' = Clocked(wrReq_DataQ, Depth, accepted, request, provided)
      /\ ddrAddrs' = Extended(Dequeued(ddrAddrs, provided), addressed, Head(wrReq_AddrQ))
      /\ ddrWrites' = Credited(ddrWrites, provided, ended)
      /\ write_data_credit_cnt' = Credited(write_data_credit_cnt, addressed, provided)
      /\ write_resp_credit_cnt' = Credited(write_resp_credit_cnt, provided, ended)
      /\ UNCHANGED <<ddr_is_ready_local, reads>>
  BY DEF WriteEdge
<1>3. /\ accepted => request \in Address /\ ~ Full(wrReq_AddrQ, Depth) /\ ~ Full(wrReq_DataQ, Depth)
      /\ addressed => wrReq_AddrQ # <<>>
      /\ provided => write_data_credit_cnt # 0
      /\ ended => write_resp_credit_cnt # 0
  BY DEF WrGrant, Offered, AddrDataNotFull, WValid, BReady
<1> HIDE DEF accepted, addressed, provided, ended
<1>4. /\ wrReq_AddrQ \in Seq(Address) /\ Len(wrReq_AddrQ) <= Depth
      /\ wrReq_DataQ \in Seq(Address) /\ Len(wrReq_DataQ) <= Depth
      /\ ddrAddrs \in Seq(Address)
      /\ Depth \in Nat /\ ddrWrites \in Nat
      /\ wrReq_DataQ = ddrAddrs \o wrReq_AddrQ
      /\ write_data_credit_cnt = Len(ddrAddrs) /\ write_resp_credit_cnt = ddrWrites
  BY AMI2AXI4Assumption DEF IInv, TypeOK, CreditsMatch
\* The credit for the data is that of an address the controller has.
<1>5. provided => ddrAddrs # <<>>
  BY <1>3, <1>4
<1>6. addressed => Head(wrReq_AddrQ) \in Address
  BY <1>3, <1>4, HeadTailProperties
<1>7. /\ wrReq_AddrQ' \in Seq(Address) /\ Len(wrReq_AddrQ') <= Depth
      /\ wrReq_DataQ' \in Seq(Address) /\ Len(wrReq_DataQ') <= Depth
  BY ZenonT(60), <1>1, <1>2, <1>3, <1>4, ClockedLength
<1>8. /\ Dequeued(ddrAddrs, provided) \in Seq(Address)
      /\ Len(Dequeued(ddrAddrs, provided)) = Len(ddrAddrs) - (IF provided THEN 1 ELSE 0)
  BY <1>1, <1>4, <1>5, DequeuedType, EmptySeq
<1>9. /\ ddrAddrs' \in Seq(Address)
      /\ Len(ddrAddrs') = Len(ddrAddrs) - (IF provided THEN 1 ELSE 0) + (IF addressed THEN 1 ELSE 0)
  <2>1. CASE addressed
    BY <1>2, <1>6, <1>8, <2>1, AppendProperties DEF Extended
  <2>2. CASE ~ addressed
    BY <1>2, <1>8, <2>2 DEF Extended
  <2> QED
    BY <1>1, <2>1, <2>2
<1>10. wrReq_DataQ' = ddrAddrs' \o wrReq_AddrQ'
  <2> DEFINE first  == Dequeued(ddrAddrs, provided)
             second == Dequeued(wrReq_AddrQ, addressed)
  <2>1. first \in Seq(Address) /\ second \in Seq(Address) /\ ddrAddrs' \in Seq(Address)
    BY <1>1, <1>4, <1>9, DequeuedType
  <2>2. /\ ddrAddrs' = Extended(first, addressed, Head(wrReq_AddrQ))
        /\ wrReq_AddrQ' = Extended(second, accepted, request)
        /\ wrReq_DataQ' = Extended(Dequeued(wrReq_DataQ, provided), accepted, request)
    BY <1>1, <1>2, <1>3, ClockedExtends
  <2>3. ddrAddrs \in Seq(Address) /\ wrReq_AddrQ \in Seq(Address)
    BY <1>4
  <2>4. first \o wrReq_AddrQ = Dequeued(wrReq_DataQ, provided)
    <3>1. CASE provided
      BY <1>4, <1>5, <2>3, <3>1, TakenFirst DEF Dequeued
    <3>2. CASE ~ provided
      BY <1>4, <3>2 DEF Dequeued
    <3> QED
      BY <3>1, <3>2
  <2> HIDE DEF first
  <2>5. ddrAddrs' \o second = first \o wrReq_AddrQ
    <3>1. CASE addressed
      BY <1>3, <2>1, <2>2, <2>3, <3>1, HandedOver DEF Extended, Dequeued
    <3>2. CASE ~ addressed
      BY <2>2, <3>2 DEF Extended, Dequeued
    <3> QED
      BY <3>1, <3>2
  <2> HIDE DEF second
  <2>6. CASE accepted
    <3>1. ddrAddrs' \o Append(second, request) = Append(ddrAddrs' \o second, request)
      BY <1>3, <2>1, <2>6, AcceptedLast
    <3> QED
      BY <2>2, <2>4, <2>5, <2>6, <3>1 DEF Extended
  <2>7. CASE ~ accepted
    BY <2>2, <2>4, <2>5, <2>7 DEF Extended
  <2> QED
    BY <2>6, <2>7
<1>11. CreditsMatch'
  BY <1>2, <1>4, <1>5, <1>9, <1>10, EmptySeq DEF IInv, CreditsMatch, reads, Credited
<1>12. ddrWrites' \in Nat
  BY <1>2, <1>3, <1>4 DEF Credited
<1>13. ReadsInOrder'
  BY <1>2 DEF IInv, ReadsInOrder, reads
<1>14. TypeOK'
  BY <1>2, <1>7, <1>9, <1>11, <1>12 DEF IInv, TypeOK, CreditsMatch, reads
<1> QED
  BY <1>11, <1>13, <1>14 DEF IInv

LEMMA StepInv == IInv /\ [Next]_vars => IInv'
<1> SUFFICES ASSUME IInv, [Next]_vars PROVE IInv'
  OBVIOUS
<1>1. CASE Ready
  BY <1>1 DEF IInv, TypeOK, ReadsInOrder, CreditsMatch, Ready, reads, writes
<1>2. CASE \E request \in Offered, grant, arready, rvalid \in BOOLEAN :
             ReadEdge(request, grant, arready, rvalid)
  BY <1>2, ReadEdgeInv
<1>3. CASE \E request \in Offered, awready, wready, bvalid \in BOOLEAN :
             WriteEdge(request, awready, wready, bvalid)
  BY <1>3, WriteEdgeInv
<1>4. CASE UNCHANGED vars
  BY <1>4 DEF IInv, TypeOK, ReadsInOrder, CreditsMatch, vars, reads, writes
<1> QED
  BY <1>1, <1>2, <1>3, <1>4 DEF Next

LEMMA Invariance == Spec => []IInv
BY InitInv, StepInv, PTL DEF Spec

(* The queues hold what they may: none gets an entry it has no room for.   *)
THEOREM ChannelTypeCorrect == Spec => []TypeOK
<1>1. IInv => TypeOK
  BY DEF IInv
<1> QED
  BY <1>1, Invariance, PTL

(* A read that was granted is not lost and not overtaken by another one.   *)
THEOREM ReadsAlwaysInOrder == Spec => []ReadsInOrder
<1>1. IInv => ReadsInOrder
  BY DEF IInv
<1> QED
  BY <1>1, Invariance, PTL

(* Data goes with its own address, and the credits are what the controller *)
(* owes.                                                                   *)
THEOREM CreditsAlwaysMatch == Spec => []CreditsMatch
<1>1. IInv => CreditsMatch
  BY DEF IInv
<1> QED
  BY <1>1, Invariance, PTL
=============================================================================
