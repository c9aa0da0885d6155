------------------------------ MODULE AMI2AXI4 ------------------------------
(***************************************************************************)
(* A memory channel's requests on the AXI4 bus of a DDR controller: the    *)
(* reads on AMI2AXI4_RdPath, the writes, with address and data apart, on   *)
(* AMI2AXI4_WrPath.                                                        *)
(*                                                                         *)
(* An action is a rising clock edge of one of the paths.  They share no    *)
(* more than the latched ddr_is_ready and the request that is offered,     *)
(* which is either's, so an edge of both is one of each.  A read, and the  *)
(* data that answers it, is its address, and a write is represented by its *)
(* address in the queues of addresses and in that of data.                 *)
(***************************************************************************)
EXTENDS Integers, Fifo

CONSTANTS
  Address,
  NoRequest,  (* no request of the path's kind is offered     *)
  Depth,      (* of the four FIFOs, 2^2                       *)
  SlaveDepth  (* transactions the controller has at a time    *)

ASSUME AMI2AXI4Assumption ==
  /\ NoRequest \notin Address
  /\ Depth \in Nat \ {0} /\ SlaveDepth \in Nat \ {0}

VARIABLES
  ddr_is_ready_local,
  outstanding,            \* history: reads granted that have no answer yet
  rdReqQ, rdRespQ,
  read_resp_credit_cnt,
  ddrReads,               \* environment: reads the controller has
  wrReq_AddrQ, wrReq_DataQ,
  write_data_credit_cnt,
  write_resp_credit_cnt,
  ddrAddrs,               \* environment: addresses whose data has not come
  ddrWrites               \* environment: writes it has not acknowledged

reads  == <<outstanding, rdReqQ, rdRespQ, read_resp_credit_cnt, ddrReads>>
writes == <<wrReq_AddrQ, wrReq_DataQ, write_data_credit_cnt, write_resp_credit_cnt,
            ddrAddrs, ddrWrites>>
vars   == <<ddr_is_ready_local, reads, writes>>

Init ==
  /\ ddr_is_ready_local = FALSE
  /\ outstanding = <<>>
  /\ rdReqQ = <<>> /\ rdRespQ = <<>>
  /\ read_resp_credit_cnt = 0
  /\ ddrReads = <<>>
  /\ wrReq_AddrQ = <<>> /\ wrReq_DataQ = <<>>
  /\ write_data_credit_cnt = 0
  /\ write_resp_credit_cnt = 0
  /\ ddrAddrs = <<>>
  /\ ddrWrites = 0

\* sh_cl_ddr_is_ready is seen once and for ever.
Ready ==
  /\ ddr_is_ready_local' = TRUE
  /\ UNCHANGED <<reads, writes>>

\* Wrong variant: a credit gained hides the one lost at the same edge.
CreditedGainFirst(count, incr, decr) ==
  IF incr THEN count + 1 ELSE IF decr THEN count - 1 ELSE count

\* Gained and lost at the same edge, a credit count stays.
Credited(count, incr, decr) ==
  IF incr /\ ~ decr THEN count + 1 ELSE IF decr /\ ~ incr THEN count - 1 ELSE count

Extended(queue, wrreq, data) == IF wrreq THEN Append(queue, data) ELSE queue

-----------------------------------------------------------------------------
RdGrant(request) == ddr_is_ready_local /\ request # NoRequest /\ ~ Full(rdReqQ, Depth)

\* Wrong variant: the last answer is not waited for.
EnoughRespCreditsButOne == read_resp_credit_cnt > 1

EnoughRespCredits == read_resp_credit_cnt # 0

\* Wrong variant: an answer is accepted without room for it.
RReadyAlways == EnoughRespCredits

RReady == ~ Full(rdRespQ, Depth) /\ EnoughRespCredits

\* grant is in_rd_resp_grant; arready and rvalid are the controller's, which
\* answers reads of one id in order.
ReadEdge(request, grant, arready, rvalid) ==
  LET accepted == RdGrant(request)
      sent     == rdReqQ # <<>> /\ arready
      received == rvalid /\ RReady
  IN  /\ arready => Len(ddrReads) < SlaveDepth
      /\ rvalid => ddrReads # <<>>
      /\ outstanding' = Extended(Dequeued(outstanding, grant /\ rdRespQ # <<>>), accepted, request)
      /\ rdReqQ' = Clocked(rdReqQ, Depth, accepted, request, sent)
      /\ ddrReads' = Extended(Dequeued(ddrReads, received), sent, Head(rdReqQ))
      /\ rdRespQ' = Clocked(rdRespQ, Depth, received, Head(ddrReads), grant)
      /\ read_resp_credit_cnt' = Credited(read_resp_credit_cnt, sent, received)
      /\ UNCHANGED <<ddr_is_ready_local, writes>>

-----------------------------------------------------------------------------
\* Wrong variant: only the address has to have room.
AddrNotFull == ~ Full(wrReq_AddrQ, Depth)

AddrDataNotFull == ~ Full(wrReq_AddrQ, Depth) /\ ~ Full(wrReq_DataQ, Depth)

WrGrant(request) == ddr_is_ready_local /\ request # NoRequest /\ AddrDataNotFull

\* Wrong variant: the data does not wait for its address.
WValidUncredited == wrReq_DataQ # <<>>

\* "Do we need to check if the request portion was already submitted"
WValid == wrReq_DataQ # <<>> /\ write_data_credit_cnt # 0

BReady == write_resp_credit_cnt # 0

\* The controller has a write when it has its address and its data.
WriteEdge(request, awready, wready, bvalid) ==
  LET accepted  == WrGrant(request)
      addressed == wrReq_AddrQ # <<>> /\ awready
      provided  == WValid /\ wready
      ended     == BReady /\ bvalid
  IN  /\ wready => ddrWrites < SlaveDepth
      /\ bvalid => ddrWrites > 0
      /\ wrReq_AddrQ' = Clocked(wrReq_AddrQ, Depth, accepted, request, addressed)
      /\ wrReq_DataQ' = Clocked(wrReq_DataQ, Depth, accepted, request, provided)
      /\ ddrAddrs' = Extended(Dequeued(ddrAddrs, provided), addressed, Head(wrReq_AddrQ))
      /\ ddrWrites' = Credited(ddrWrites, provided, ended)
      /\ write_data_credit_cnt' = Credited(write_data_credit_cnt, addressed, provided)
      /\ write_resp_credit_cnt' = Credited(write_resp_credit_cnt, provided, ended)
      /\ UNCHANGED <<ddr_is_ready_local, reads>>

Offered == Address \cup {NoRequest}

Next ==
  \/ Ready
  \/ \E request \in Offered, grant, arready, rvalid \in BOOLEAN :
       ReadEdge(request, grant, arready, rvalid)
  \/ \E request \in Offered, awready, wready, bvalid \in BOOLEAN :
       WriteEdge(request, awready, wready, bvalid)

\* The controller accepts the addresses and the data it is given, and answers
\* reads if it may.  Nothing makes the channel send requests.
Fairness ==
  /\ WF_vars(rdReqQ # <<>> /\ \E request \in Offered, grant, rvalid \in BOOLEAN :
               ReadEdge(request, grant, TRUE, rvalid))
  /\ WF_vars(RReady /\ \E request \in Offered, grant, arready \in BOOLEAN :
               ReadEdge(request, grant, arready, TRUE))
  /\ WF_vars(wrReq_AddrQ # <<>> /\ \E request \in Offered, wready, bvalid \in BOOLEAN :
               WriteEdge(request, TRUE, wready, bvalid))
  /\ WF_vars(WValid /\ \E request \in Offered, awready, bvalid \in BOOLEAN :
               WriteEdge(request, awready, TRUE, bvalid))

Spec == Init /\ [][Next]_vars /\ Fairness

-----------------------------------------------------------------------------
TypeOK ==
  /\ ddr_is_ready_local \in BOOLEAN
  /\ outstanding \in Seq(Address) /\ ddrReads \in Seq(Address) /\ ddrAddrs \in Seq(Address)
  /\ \A queue \in {rdReqQ, rdRespQ, wrReq_AddrQ, wrReq_DataQ} :
       queue \in Seq(Address) /\ Len(queue) <= Depth
  /\ {read_resp_credit_cnt, write_data_credit_cnt, write_resp_credit_cnt, ddrWrites}
       \subseteq Nat

\* Every read that was granted is on its way, with the controller, or answered,
\* in this order: none is lost, and the answers are those of the oldest.
ReadsInOrder == outstanding = rdRespQ \o ddrReads \o rdReqQ

\* The data of a write follows its own address and never comes before it, and
\* the credits know what the controller owes: the answers to reads, the data to
\* addresses and the acknowledgements of writes.
CreditsMatch ==
  /\ wrReq_DataQ = ddrAddrs \o wrReq_AddrQ
  /\ read_resp_credit_cnt = Len(ddrReads)
  /\ write_data_credit_cnt = Len(ddrAddrs)
  /\ write_resp_credit_cnt = ddrWrites

\* A read that was granted is answered, and a write reaches the controller:
\* neither rready nor wvalid, which wait for credits, stays away for ever.
RequestsServed ==
  /\ outstanding # <<>> ~> rdRespQ # <<>>
  /\ wrReq_DataQ # <<>> ~> ddrWrites > 0
=============================================================================
