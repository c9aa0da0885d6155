------------------------------ MODULE AXIL2SR -------------------------------
(***************************************************************************)
(* The bridge from BAR1 to the SoftReg interface: AXIL2SR, and with        *)
(* Extended = TRUE AXIL2SR_Extended, which has a FIFO for its requests.    *)
(*                                                                         *)
(* The host makes a 64-bit access as two 32-bit accesses, first the lower  *)
(* half, over five AXI-Lite channels that know nothing of each other.  The *)
(* bridge puts two write beats and every other address together to one     *)
(* SoftReg write, turns every other read address into a SoftReg read and   *)
(* throws the next one away, and sends each 64-bit response in two halves. *)
(*                                                                         *)
(* An action is a rising clock edge; the signals of the cycle before it    *)
(* are operators of the state and of the inputs.  A beat stands for its    *)
(* address or data: the host's write beats are 0, 1, 2, ... on both write  *)
(* channels, its read beats 0, 1, 2, ... on the read channel, and the      *)
(* SoftReg behind address 2 * n answers with <<2 * n, 2 * n + 1>>.         *)
(***************************************************************************)
EXTENDS Integers, Fifo

CONSTANTS
  Depth,       (* of all FIFOs, 2^2 in AOSF1Types                         *)
  ReadWindow,  (* read beats the host has out without an answer           *)
  MaxBeats,    (* bound: beats of the host on each of its channels        *)
  Extended

ASSUME BridgeAssumption ==
  /\ Depth \in Nat \ {0}
  /\ ReadWindow \in Nat \ {0} /\ ReadWindow < 2 * Depth
  /\ MaxBeats \in Nat
  /\ Extended \in BOOLEAN

Half == {0, 1}

VARIABLES
  skip_wr_addr_enq, write_fifo_select, read_req_fifo_select,
  read_submit_select, rd_resp_half_select,
  wr_addrQ,               \* beats
  wr_dataQ,               \* half -> beats
  resp_counter,           \* write responses to send
  read_reqQ,              \* half -> beats
  read_resp_credit_cnt,
  rd_respQ,               \* pairs of beats
  sr_reqQ,                \* buffer_sr_req_queue, requests
  serving,                \* environment: reads the SoftRegs have yet to answer
  aw, w, ar,              \* environment: beats of the host that were accepted
  written, asked,         \* history: SoftReg writes and reads put together
  returned                \* history: halves the host has got back

selects == <<skip_wr_addr_enq, write_fifo_select, read_req_fifo_select,
             read_submit_select, rd_resp_half_select>>
queues  == <<wr_addrQ, wr_dataQ, read_reqQ, rd_respQ, sr_reqQ>>
counts  == <<resp_counter, read_resp_credit_cnt>>
world   == <<serving, aw, w, ar, written, asked, returned>>
vars    == <<selects, queues, counts, world>>

Init ==
  /\ skip_wr_addr_enq = 0 /\ write_fifo_select = 0
  /\ read_req_fifo_select = 0 /\ read_submit_select = 0 /\ rd_resp_half_select = 0
  /\ wr_addrQ = <<>> /\ wr_dataQ = [h \in Half |-> <<>>]
  /\ read_reqQ = [h \in Half |-> <<>>]
  /\ rd_respQ = <<>> /\ sr_reqQ = <<>>
  /\ resp_counter = 0 /\ read_resp_credit_cnt = 0
  /\ serving = <<>>
  /\ aw = 0 /\ w = 0 /\ ar = 0
  /\ written = 0 /\ asked = 0 /\ returned = 0

\* What the other sides drive in a cycle.
Input == [awvalid : BOOLEAN, wvalid : BOOLEAN, bready : BOOLEAN, arvalid : BOOLEAN,
          rready : BOOLEAN, grant : BOOLEAN, resp : BOOLEAN]

-----------------------------------------------------------------------------
(* The signals of the three input channels.                                *)

AwTaken(in) == in.awvalid /\ ~ Full(wr_addrQ, Depth)

\* Wrong variant: the address of every beat is kept.
AddrEnqAll(in) == AwTaken(in)

AddrEnq(in) == AwTaken(in) /\ skip_wr_addr_enq = 0

WTaken(in)  == in.wvalid /\ \A h \in Half : ~ Full(wr_dataQ[h], Depth)
ArTaken(in) == in.arvalid /\ \A h \in Half : ~ Full(read_reqQ[h], Depth)

\* Wrong variant: the second half may go before its read beat has come.
RValidUncredited == rd_respQ # <<>>

RValid == rd_respQ # <<>> /\ read_resp_credit_cnt # 0

\* Wrong variant: the host's rready alone counts.
RTakenAnyway(in) == in.rready

RTaken(in) == RValid /\ in.rready

\* Wrong variant: a response that comes has priority.
RespDeqWhenIdle(in) == RTaken(in) /\ rd_resp_half_select = 1 /\ ~ in.resp

RespDeq(in) == RTaken(in) /\ rd_resp_half_select = 1

RData == Head(rd_respQ)[rd_resp_half_select + 1]

-----------------------------------------------------------------------------
(* Requests to the SoftRegs.                                               *)

WriteValid == wr_addrQ # <<>> /\ \A h \in Half : wr_dataQ[h] # <<>>
ReadValid  == read_reqQ[0] # <<>> /\ read_submit_select = 0

WriteReq == [isWrite |-> TRUE, addr |-> Head(wr_addrQ),
             data |-> <<Head(wr_dataQ[0]), Head(wr_dataQ[1])>>]
ReadReq  == [isWrite |-> FALSE, addr |-> Head(read_reqQ[0]), data |-> <<>>]
Request  == IF WriteValid THEN WriteReq ELSE ReadReq

\* softreg_req.valid, which the grant follows (assign in cl_aos.sv).
ReqValid == IF Extended THEN sr_reqQ # <<>> ELSE WriteValid \/ ReadValid

Accepted(in) == IF Extended THEN ~ Full(sr_reqQ, Depth) ELSE in.grant

WriteSent(in) == WriteValid /\ Accepted(in)
ReadSent(in)  == ~ WriteValid /\ ReadValid /\ Accepted(in)

\* The second half of a read that has been submitted is thrown away.
Dropped == read_submit_select = 1 /\ read_reqQ[1] # <<>>

\* Wrong variant: only with the second half at hand.
ReadSubmittedWhole(in) ==
  ReadValid /\ in.grant /\ ~ WriteValid /\ read_reqQ[1] # <<>>

ReadSubmitted(in) == ReadValid /\ in.grant /\ ~ WriteValid

\* softreg_req, and whether a read leaves the bridge at this edge.
softreg_req == IF Extended THEN Head(sr_reqQ) ELSE Request
ReadLeaves(in) == in.grant /\ ~ softreg_req.isWrite

-----------------------------------------------------------------------------
(* The edge of the clock, channel by channel.                              *)

Toggled(select, b) == IF b THEN 1 - select ELSE select

ClockWrites(in) ==
  /\ in.awvalid => aw < MaxBeats
  /\ in.wvalid => w < MaxBeats
  /\ wr_addrQ' = Clocked(wr_addrQ, Depth, AddrEnq(in), aw, WriteSent(in))
  /\ wr_dataQ' = [h \in Half |->
       Clocked(wr_dataQ[h], Depth, WTaken(in) /\ write_fifo_select = h, w, WriteSent(in))]
  /\ skip_wr_addr_enq' = Toggled(skip_wr_addr_enq, AwTaken(in))
  /\ write_fifo_select' = Toggled(write_fifo_select, WTaken(in))
  /\ LET sent == in.bready /\ resp_counter # 0
     IN  resp_counter' = resp_counter + (IF WTaken(in) THEN 1 ELSE 0) - (IF sent THEN 1 ELSE 0)
  /\ aw' = IF AwTaken(in) THEN aw + 1 ELSE aw
  /\ w' = IF WTaken(in) THEN w + 1 ELSE w
  /\ written' = IF WriteSent(in) THEN written + 1 ELSE written

ClockReads(in) ==
  /\ in.arvalid => ar < MaxBeats /\ ar - returned < ReadWindow
  /\ read_reqQ' = [h \in Half |->
       Clocked(read_reqQ[h], Depth, ArTaken(in) /\ read_req_fifo_select = h, ar,
               IF h = 0 THEN ReadSent(in) ELSE Dropped)]
  /\ read_req_fifo_select' = Toggled(read_req_fifo_select, ArTaken(in))
  /\ read_submit_select' = IF ReadSubmitted(in) THEN 1 ELSE IF Dropped THEN 0 ELSE read_submit_select
  /\ ar' = IF ArTaken(in) THEN ar + 1 ELSE ar
  /\ asked' = IF ReadSent(in) THEN asked + 1 ELSE asked

\* A response that finds rd_respQ full is lost: nobody looks at its grant
\* (AmorphOSSoftReg has no such port).
ClockResponses(in) ==
  /\ rd_respQ' = Clocked(rd_respQ, Depth, in.resp, Head(serving), RespDeq(in))
  /\ rd_resp_half_select' = Toggled(rd_resp_half_select, RTaken(in))
  /\ read_resp_credit_cnt' = read_resp_credit_cnt + (IF ArTaken(in) THEN 1 ELSE 0)
                                                  - (IF RTaken(in) THEN 1 ELSE 0)
  /\ returned' = IF RTaken(in) THEN returned + 1 ELSE returned

\* The SoftRegs answer their reads one after the other, each in a later cycle.
ClockSoftRegs(in) ==
  /\ sr_reqQ' = IF Extended
                THEN Clocked(sr_reqQ, Depth, WriteValid \/ ReadValid, Request, in.grant)
                ELSE sr_reqQ
  /\ LET answered == Dequeued(serving, in.resp)
     IN  serving' = IF ReadLeaves(in)
                    THEN Append(answered, <<softreg_req.addr, softreg_req.addr + 1>>)
                    ELSE answered

Clock(in) ==
  /\ in.grant => ReqValid
  /\ in.resp => serving # <<>>
  /\ ClockWrites(in) /\ ClockReads(in) /\ ClockResponses(in) /\ ClockSoftRegs(in)

Next == \E in \in Input : Clock(in)

Spec == Init /\ [][Next]_vars

-----------------------------------------------------------------------------
Beats == 0 .. MaxBeats

TypeOK ==
  /\ skip_wr_addr_enq \in Half /\ write_fifo_select \in Half
  /\ read_req_fifo_select \in Half /\ read_submit_select \in Half
  /\ rd_resp_half_select \in Half
  /\ wr_addrQ \in Seq(Beats) /\ Len(wr_addrQ) <= Depth
  /\ wr_dataQ \in [Half -> Seq(Beats)]
  /\ read_reqQ \in [Half -> Seq(Beats)]
  /\ \A h \in Half : Len(wr_dataQ[h]) <= Depth /\ Len(read_reqQ[h]) <= Depth
  /\ rd_respQ \in Seq(Nat \X Nat) /\ Len(rd_respQ) <= Depth
  /\ serving \in Seq(Nat \X Nat)
  /\ resp_counter \in Nat /\ read_resp_credit_cnt \in Nat
  /\ {aw, w, ar, written, asked, returned} \subseteq Nat

\* The two halves of a SoftReg write and its address are of one 64-bit write
\* of the host, and the writes come in its order, although addresses and data
\* come on channels of their own and half of the addresses are left out.
PairsTogether ==
  WriteValid => /\ Head(wr_addrQ) = 2 * written
                /\ Head(wr_dataQ[0]) = 2 * written
                /\ Head(wr_dataQ[1]) = 2 * written + 1

\* Every beat the host gets on its read channel is the answer to the read beat
\* it has sent first of those without an answer: the halves come in order, none
\* is repeated, and none comes before its own read beat was accepted.
ReadsInOrder == RValid => returned < ar /\ RData = returned

\* "throw away this request as the first was already converted to a 64-bit
\* softreg read request" (the comment in the read submit logic): a second half
\* waits only behind its first half or to be thrown away next.  Otherwise the
\* second halves pile up until arready falls for good.
SecondHalvesDropped == Len(read_reqQ[1]) <= Len(read_reqQ[0]) + read_submit_select

\* A response finds room in rd_respQ, as its sender does not wait for a grant.
RoomForResponses == serving # <<>> => ~ Full(rd_respQ, Depth)
=============================================================================
