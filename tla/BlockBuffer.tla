---------------------------- MODULE BlockBuffer -----------------------------
(***************************************************************************)
(* A buffer of one block between an app that reads and writes sectors and  *)
(* a memory that reads (on port 0) and writes (on port 1) whole blocks.    *)
(*                                                                         *)
(* An action is a rising clock edge: what the state machine does with the  *)
(* request at the head of its queue, with a request that may come in and   *)
(* an answer that may be taken in the same cycle.                          *)
(***************************************************************************)
EXTENDS Fifo, FiniteSets

CONSTANTS
  Block,      (* block indices, from 0                                   *)
  Place,      (* of a sector in a block, 0 .. 7                          *)
  Value,      (* of a sector                                             *)
  NoValue,    (* what a read writes                                      *)
  Depth,      (* of reqInQ and respOutQ, 2^3                             *)
  Window      (* reads the app has out without having taken the answer   *)

\* TestBlockBuffer has as many reads out as respOutQ holds, and no more: a read
\* is executed without a look at respOutQ_full.
ASSUME BlockBufferAssumption ==
  /\ 0 \in Block /\ Place # {} /\ 0 \in Value /\ NoValue \notin Value
  /\ Depth \in Nat \ {0} /\ Window \in 1 .. Depth

Sector == Block \X Place

Request   == [sector : Sector, value : Value \cup {NoValue}]
NoRequest == [sector |-> <<>>, value |-> NoValue]

IsWrite(request) == request.value # NoValue

VARIABLES
  current_state,
  current_block_index,
  dataout,      \* place -> what the block holds there
  reqInQ,
  respOutQ,
  memory        \* environment: block -> its sectors

vars == <<current_state, current_block_index, dataout, reqInQ, respOutQ, memory>>

Init ==
  /\ current_state = "INVALID"
  /\ current_block_index = 0
  /\ dataout = [s \in Place |-> 0]
  /\ reqInQ = <<>>
  /\ respOutQ = <<>>
  /\ memory \in [Block -> [Place -> Value]]

-----------------------------------------------------------------------------
Waiting   == reqInQ # <<>>
Wanted    == Head(reqInQ).sector[1]
WantedAt  == Head(reqInQ).sector[2]

\* Wrong variant: block 0 is there from the start.
HasBlockAnyState == current_state # "PENDING" /\ current_block_index = Wanted

HasBlock  == current_state \in {"CLEAN", "MODIFIED"} /\ current_block_index = Wanted

\* Wrong variant: a write is answered too.
QueuesAnsweringAll(request, taking, deq, responds, answer) ==
  /\ reqInQ' = Clocked(reqInQ, Depth, request # NoRequest, request, deq)
  /\ respOutQ' = Clocked(respOutQ, Depth, deq, answer, taking)

\* What the edge makes of the queues: deq is the state machine's, answer what it
\* writes to respOutQ if responds.
Queues(request, taking, deq, responds, answer) ==
  /\ reqInQ' = Clocked(reqInQ, Depth, request # NoRequest, request, deq)
  /\ respOutQ' = Clocked(respOutQ, Depth, responds, answer, taking)

QueuesOnly(request, taking) == Queues(request, taking, FALSE, FALSE, NoValue)

\* Wrong variant: a modified block is given up like a clean one.
MayReplaceAnyBlock == current_state \in {"CLEAN", "MODIFIED"} /\ current_block_index # Wanted

MayReplace == current_state = "CLEAN" /\ current_block_index # Wanted

\* The read port grants the read of the block that the head is for.
Fetch(request, taking) ==
  /\ Waiting
  /\ current_state = "INVALID" \/ MayReplace
  /\ current_block_index' = Wanted
  /\ current_state' = "PENDING"
  /\ QueuesOnly(request, taking)
  /\ UNCHANGED <<dataout, memory>>

\* The memory answers.  It executes what it grants in that order, and no write
\* is granted while a block is fetched.
Fill(request, taking) ==
  /\ current_state = "PENDING"
  /\ dataout' = memory[current_block_index]
  /\ current_state' = "CLEAN"
  /\ QueuesOnly(request, taking)
  /\ UNCHANGED <<current_block_index, memory>>

ReadSector(request, taking) ==
  /\ Waiting /\ HasBlock /\ ~ IsWrite(Head(reqInQ))
  /\ Queues(request, taking, TRUE, TRUE, dataout[WantedAt])
  /\ UNCHANGED <<current_state, current_block_index, dataout, memory>>

\* Wrong variant: a block that is written stays clean.
StateWrittenSame == current_state

StateWritten == "MODIFIED"

WriteSector(request, taking) ==
  /\ Waiting /\ HasBlock /\ IsWrite(Head(reqInQ))
  /\ dataout' = [dataout EXCEPT ![WantedAt] = Head(reqInQ).value]
  /\ current_state' = StateWritten
  /\ Queues(request, taking, TRUE, FALSE, NoValue)
  /\ UNCHANGED <<current_block_index, memory>>

\* Wrong variant: the block stays modified when it has been written back.
StateWrittenBackSame == current_state

StateWrittenBack == "CLEAN"

\* The write port grants the write of a block that has to make room.
WriteBack(request, taking) ==
  /\ Waiting /\ current_state = "MODIFIED" /\ ~ HasBlock
  /\ memory' = [memory EXCEPT ![current_block_index] = dataout]
  /\ current_state' = StateWrittenBack
  /\ QueuesOnly(request, taking)
  /\ UNCHANGED <<current_block_index, dataout>>

\* No request, no grant or no answer; a request that has its block is not idle.
Idle(request, taking) ==
  /\ ~ (Waiting /\ HasBlock)
  /\ QueuesOnly(request, taking)
  /\ UNCHANGED <<current_state, current_block_index, dataout, memory>>

\* The reads the app has out, reqInQ's and those with an answer in respOutQ.
ReadsOut ==
  Cardinality({i \in DOMAIN reqInQ : ~ IsWrite(reqInQ[i])}) + Len(respOutQ)

\* The app keeps a request up until it is granted: one that finds reqInQ full
\* comes again.
Incoming ==
  {NoRequest} \cup {r \in Request : IsWrite(r) \/ ReadsOut < Window}

WithMemory(request, taking) ==
  Fetch(request, taking) \/ Fill(request, taking) \/ WriteBack(request, taking)

Clock(request, taking) ==
  \/ WithMemory(request, taking)
  \/ ReadSector(request, taking)
  \/ WriteSector(request, taking)
  \/ Idle(request, taking)

Next == \E request \in Incoming, taking \in BOOLEAN : Clock(request, taking)

\* The memory grants and answers.
Fairness == WF_vars(\E request \in Incoming, taking \in BOOLEAN : WithMemory(request, taking))

Spec == Init /\ [][Next]_vars /\ Fairness

-----------------------------------------------------------------------------
TypeOK ==
  /\ current_state \in {"INVALID", "PENDING", "CLEAN", "MODIFIED"}
  /\ current_block_index \in Block
  /\ dataout \in [Place -> Value]
  /\ reqInQ \in Seq(Request) /\ Len(reqInQ) <= Depth
  /\ respOutQ \in Seq(Value) /\ Len(respOutQ) <= Depth
  /\ memory \in [Block -> [Place -> Value]]

\* The buffer is a memory of sectors: whatever blocks it fetches, writes back
\* and fetches again ("Re read the first block"), a read returns what was last
\* written before it, and no answer is dropped.
Contents ==
  [s \in Sector |->
     IF current_state \in {"CLEAN", "MODIFIED"} /\ s[1] = current_block_index
     THEN dataout[s[2]] ELSE memory[s[1]][s[2]]]

Promise == INSTANCE SectorMemory WITH
             requests <- reqInQ, contents <- Contents, answers <- respOutQ

ImplementsMemory == Promise!Spec

\* A request that waits gets its block, whether the block before it has to be
\* written back or not.
BlockArrives == Waiting ~> (Waiting /\ HasBlock)
=============================================================================
