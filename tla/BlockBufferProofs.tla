------------------------- MODULE BlockBufferProofs --------------------------
(***************************************************************************)
(* The block buffer is a memory of sectors: whatever blocks it fetches and *)
(* writes back, for blocks of any number and size, FIFOs of any depth and  *)
(* an app that has no more reads out than its FIFO of answers holds.       *)
(***************************************************************************)
EXTENDS BlockBuffer, FifoProofs

Reads == {r \in Request : ~ IsWrite(r)}

\* A block that is not modified is the memory's.
CleanIsMemory == current_state = "CLEAN" => dataout = memory[current_block_index]

\* The app keeps to its window: there is room for every answer.
WindowKept == ReadsOut <= Window

IInv == TypeOK /\ CleanIsMemory /\ WindowKept

LEMMA ReadsOutIsHeld == TypeOK => ReadsOut = Held(reqInQ, Reads) + Len(respOutQ)
<1> SUFFICES ASSUME TypeOK
             PROVE  {i \in DOMAIN reqInQ : ~ IsWrite(reqInQ[i])} = Places(reqInQ, Reads)
  BY DEF ReadsOut, Held
<1>1. DOMAIN reqInQ = 1 .. Len(reqInQ) /\ \A i \in 1 .. Len(reqInQ) : reqInQ[i] \in Request
  BY LenProperties DEF TypeOK
<1> QED
  BY <1>1 DEF Places, Reads

LEMMA InitInv == Init => IInv
<1> SUFFICES ASSUME Init PROVE IInv
  OBVIOUS
<1>1. TypeOK
  BY BlockBufferAssumption DEF Init, TypeOK
<1>2. ReadsOut = 0
  BY <1>1, ReadsOutIsHeld, HeldEmpty DEF Init
<1> QED
  BY <1>1, <1>2, BlockBufferAssumption DEF Init, IInv, CleanIsMemory, WindowKept

\* What a request that comes in, an answer that is taken and a request that is
\* executed make of the queues: the window is kept, and an answer has its room.
LEMMA QueuesInv ==
  ASSUME TypeOK, WindowKept, NEW request \in Incoming,
         NEW taking \in BOOLEAN, NEW deq \in BOOLEAN, NEW responds \in BOOLEAN, NEW answer,
         deq => Waiting, responds => answer \in Value,
         responds <=> deq /\ ~ IsWrite(Head(reqInQ)),
         Queues(request, taking, deq, responds, answer)
  PROVE  /\ reqInQ' \in Seq(Request) /\ Len(reqInQ') <= Depth
         /\ respOutQ' \in Seq(Value) /\ Len(respOutQ') <= Depth
         /\ Held(reqInQ', Reads) + Len(respOutQ') <= Window
         /\ responds => ~ Full(respOutQ, Depth)
<1> DEFINE offered == request # NoRequest
           out     == Held(reqInQ, Reads)
           size    == Len(respOutQ)
<1>1. /\ reqInQ \in Seq(Request) /\ Len(reqInQ) <= Depth
      /\ respOutQ \in Seq(Value) /\ Len(respOutQ) <= Depth
      /\ Depth \in Nat /\ Window \in Nat /\ Window <= Depth
  BY BlockBufferAssumption DEF TypeOK
<1>2. /\ out \in Nat /\ size \in Nat /\ out + size <= Window /\ ReadsOut = out + size
  BY <1>1, ReadsOutIsHeld, HeldType, LenProperties DEF WindowKept
<1>3. /\ offered => request \in Request
      /\ offered /\ request \in Reads => out + size < Window
      /\ offered \in BOOLEAN
  BY <1>2 DEF Incoming, Reads
<1> HIDE DEF offered
<1>4. deq => reqInQ # <<>> /\ Head(reqInQ) \in Request
  BY <1>1, HeadTailProperties DEF Waiting
<1>5. responds => out > 0
  <2> SUFFICES ASSUME responds PROVE out > 0
    OBVIOUS
  <2>1. Len(reqInQ) > 0 /\ reqInQ[1] = Head(reqInQ) /\ Head(reqInQ) \in Reads
    BY <1>1, <1>4, EmptySeq DEF Reads
  <2> QED
    BY <1>1, <2>1, HeldSome
<1>6. responds => ~ Full(respOutQ, Depth)
  BY <1>1, <1>2, <1>5 DEF Full
<1>7. /\ reqInQ' \in Seq(Request) /\ Len(reqInQ') <= Depth
      /\ Held(reqInQ', Reads)
           = out + Gained(reqInQ, Depth, offered, request, Reads) - Lost(reqInQ, deq, Reads)
  <2>1. reqInQ' = Clocked(reqInQ, Depth, offered, request, deq)
    BY DEF Queues, offered
  <2> QED
    <3>1. /\ reqInQ \in Seq(Request) /\ Len(reqInQ) <= Depth /\ Depth \in Nat
          /\ offered \in BOOLEAN
          /\ offered => request \in Request
      BY <1>1, <1>3
    <3>2. reqInQ' \in Seq(Request) /\ Len(reqInQ') <= Depth
      BY <2>1, <3>1, ClockedLength
    <3>3. Held(Clocked(reqInQ, Depth, offered, request, deq), Reads)
            = out + Gained(reqInQ, Depth, offered, request, Reads) - Lost(reqInQ, deq, Reads)
      BY <3>1, HeldClocked
    <3> QED
      BY <2>1, <3>2, <3>3
<1>8. /\ respOutQ' \in Seq(Value) /\ Len(respOutQ') <= Depth
      /\ Len(respOutQ') = size + (IF responds /\ size # Depth THEN 1 ELSE 0)
                               - (IF taking /\ respOutQ # <<>> THEN 1 ELSE 0)
  <2>1. respOutQ' = Clocked(respOutQ, Depth, responds, answer, taking)
    BY DEF Queues
  <2> QED
    <3>1. /\ respOutQ \in Seq(Value) /\ Len(respOutQ) <= Depth /\ Depth \in Nat
          /\ responds => answer \in Value
      BY <1>1
    <3> HIDE DEF out, size
    <3>2. /\ Clocked(respOutQ, Depth, responds, answer, taking) \in Seq(Value)
          /\ Len(Clocked(respOutQ, Depth, responds, answer, taking)) <= Depth
      BY <3>1, ClockedLength
    <3>3. Len(Clocked(respOutQ, Depth, responds, answer, taking))
            = Len(respOutQ) + (IF responds /\ Len(respOutQ) # Depth THEN 1 ELSE 0)
                            - (IF taking /\ respOutQ # <<>> THEN 1 ELSE 0)
      BY <3>1, ClockedLength
    <3> QED
      BY <2>1, <3>2, <3>3 DEF size
<1>9. Held(reqInQ', Reads) + Len(respOutQ') <= Window
  <2>1. deq /\ reqInQ # <<>> /\ Head(reqInQ) \in Reads <=> responds
    BY <1>4 DEF Reads
  <2>2. Held(reqInQ', Reads) <= out + (IF offered /\ request \in Reads THEN 1 ELSE 0)
                                    - (IF responds THEN 1 ELSE 0)
    BY <1>2, <1>7, <2>1 DEF Gained, Lost
  <2>3. Len(respOutQ') <= size + (IF responds THEN 1 ELSE 0)
    <3> DEFINE stored == IF responds /\ size # Depth THEN 1 ELSE 0
               taken  == IF taking /\ respOutQ # <<>> THEN 1 ELSE 0
    <3>1. /\ stored \in Nat /\ taken \in Nat /\ size \in Nat
          /\ stored <= IF responds THEN 1 ELSE 0
          /\ Len(respOutQ') = size + stored - taken
      BY <1>2, <1>8
    <3> HIDE DEF stored, taken, size
    <3> QED
      BY <3>1
  <2>4. Held(reqInQ', Reads) \in Nat /\ Len(respOutQ') \in Nat
    BY <1>7, <1>8, HeldType, LenProperties
  <2> HIDE DEF out, size
  <2> QED
    BY <1>2, <1>3, <2>2, <2>3, <2>4, <1>1
<1> QED
  BY <1>6, <1>7, <1>8, <1>9

(* The invariant needs of a step that it keeps the window of the queues,   *)
(* and what the step makes of the block.                                   *)
LEMMA WindowStep ==
  ASSUME TypeOK', Held(reqInQ', Reads) + Len(respOutQ') <= Window
  PROVE  WindowKept'
<1>1. (ReadsOut = Held(reqInQ, Reads) + Len(respOutQ))'
  <2>1. (TypeOK => ReadsOut = Held(reqInQ, Reads) + Len(respOutQ))'
    BY ReadsOutIsHeld, PTL
  <2> QED
    BY <2>1
<1> QED
  BY <1>1 DEF WindowKept

LEMMA HeadType ==
  ASSUME TypeOK, Waiting
  PROVE  /\ Head(reqInQ) \in Request /\ Wanted \in Block /\ WantedAt \in Place
         /\ IsWrite(Head(reqInQ)) => Head(reqInQ).value \in Value
<1>1. Head(reqInQ) \in Request
  BY HeadTailProperties DEF TypeOK, Waiting
<1> QED
  BY <1>1 DEF Request, Sector, Wanted, WantedAt, IsWrite

LEMMA ClockInv ==
  ASSUME IInv, NEW request \in Incoming, NEW taking \in BOOLEAN, Clock(request, taking)
  PROVE  IInv'
<1> USE BlockBufferAssumption DEF IInv
<1>1. ASSUME QueuesOnly(request, taking)
      PROVE  /\ reqInQ' \in Seq(Request) /\ Len(reqInQ') <= Depth
             /\ respOutQ' \in Seq(Value) /\ Len(respOutQ') <= Depth
             /\ Held(reqInQ', Reads) + Len(respOutQ') <= Window
  BY <1>1, QueuesInv DEF QueuesOnly
<1>2. SUFFICES TypeOK' /\ CleanIsMemory' /\ Held(reqInQ', Reads) + Len(respOutQ') <= Window
  BY WindowStep
<1>3. CASE Fetch(request, taking)
  BY <1>1, <1>3, HeadType DEF Fetch, TypeOK, CleanIsMemory
<1>4. CASE Fill(request, taking)
  BY <1>1, <1>4 DEF Fill, TypeOK, CleanIsMemory
<1>5. CASE WriteBack(request, taking)
  BY <1>1, <1>5 DEF WriteBack, StateWrittenBack, TypeOK, CleanIsMemory
<1>6. CASE Idle(request, taking)
  BY <1>1, <1>6 DEF Idle, TypeOK, CleanIsMemory
<1>7. CASE ReadSector(request, taking)
  <2>1. dataout[WantedAt] \in Value
    BY <1>7, HeadType DEF ReadSector, TypeOK
  <2>2. /\ reqInQ' \in Seq(Request) /\ Len(reqInQ') <= Depth
        /\ respOutQ' \in Seq(Value) /\ Len(respOutQ') <= Depth
        /\ Held(reqInQ', Reads) + Len(respOutQ') <= Window
    BY <1>7, <2>1, QueuesInv DEF ReadSector
  <2> QED
    BY <1>7, <2>2 DEF ReadSector, TypeOK, CleanIsMemory
<1>8. CASE WriteSector(request, taking)
  <2>1. /\ reqInQ' \in Seq(Request) /\ Len(reqInQ') <= Depth
        /\ respOutQ' \in Seq(Value) /\ Len(respOutQ') <= Depth
        /\ Held(reqInQ', Reads) + Len(respOutQ') <= Window
    BY <1>8, QueuesInv DEF WriteSector
  <2> QED
    BY <1>8, <2>1, HeadType DEF WriteSector, StateWritten, TypeOK, CleanIsMemory
<1> QED
  BY <1>3, <1>4, <1>5, <1>6, <1>7, <1>8 DEF Clock, WithMemory

LEMMA Invariance == Spec => []IInv
<1>1. IInv /\ [Next]_vars => IInv'
  <2> SUFFICES ASSUME IInv, [Next]_vars PROVE IInv'
    OBVIOUS
  <2>1. CASE Next
    BY <2>1, ClockInv DEF Next
  <2>2. CASE UNCHANGED vars
    BY <2>2 DEF vars, IInv, TypeOK, CleanIsMemory, WindowKept, ReadsOut
  <2> QED
    BY <2>1, <2>2
<1> QED
  BY <1>1, InitInv, PTL DEF Spec

(* No queue takes more than it holds, and no answer is dropped for want of *)
(* room although a read is executed without a look at respOutQ_full.       *)
THEOREM BufferTypeCorrect == Spec => []TypeOK
<1>1. IInv => TypeOK
  BY DEF IInv
<1> QED
  BY <1>1, Invariance, PTL

-----------------------------------------------------------------------------
(* The refinement.  What the memory and the block hold together changes by *)
(* a write and by nothing else.                                            *)
LEMMA ContentsType == TypeOK => Contents \in [Sector -> Value]
BY DEF TypeOK, Contents, Sector

LEMMA ContentsKept ==
  ASSUME IInv, NEW request, NEW taking,
         WithMemory(request, taking) \/ Idle(request, taking) \/ ReadSector(request, taking)
  PROVE  Contents' = Contents
<1> SUFFICES ASSUME NEW s \in Sector PROVE Contents'[s] = Contents[s]
  BY DEF Contents
<1>1. s[1] \in Block /\ s[2] \in Place
  BY DEF Sector
<1>2. CASE Fetch(request, taking)
  BY <1>1, <1>2 DEF Fetch, MayReplace, IInv, TypeOK, CleanIsMemory, Contents
<1>3. CASE Fill(request, taking)
  BY <1>1, <1>3 DEF Fill, Contents
<1>4. CASE WriteBack(request, taking)
  BY <1>1, <1>4 DEF WriteBack, StateWrittenBack, IInv, TypeOK, Contents
<1>5. CASE Idle(request, taking)
  BY <1>5 DEF Idle, Contents
<1>6. CASE ReadSector(request, taking)
  BY <1>6 DEF ReadSector, Contents
<1> QED
  BY <1>2, <1>3, <1>4, <1>5, <1>6 DEF WithMemory

LEMMA ContentsWritten ==
  ASSUME IInv, NEW request, NEW taking, WriteSector(request, taking)
  PROVE  Contents' = [Contents EXCEPT ![Head(reqInQ).sector] = Head(reqInQ).value]
<1> DEFINE at == Head(reqInQ).sector
<1>1. /\ at \in Sector /\ at[1] = current_block_index
      /\ current_state \in {"CLEAN", "MODIFIED"} /\ current_state' = "MODIFIED"
      /\ dataout' = [dataout EXCEPT ![at[2]] = Head(reqInQ).value]
      /\ UNCHANGED <<current_block_index, memory>>
  BY HeadType DEF WriteSector, HasBlock, Wanted, WantedAt, StateWritten, IInv, Request
<1>2. dataout \in [Place -> Value]
  BY DEF IInv, TypeOK
<1> SUFFICES ASSUME NEW s \in Sector
             PROVE  Contents'[s] = IF s = at THEN Head(reqInQ).value ELSE Contents[s]
  BY DEF Contents
<1>3. /\ s[1] \in Block /\ s[2] \in Place /\ at[2] \in Place
      /\ s = at <=> s[1] = at[1] /\ s[2] = at[2]
  BY <1>1 DEF Sector
<1> HIDE DEF at
<1> QED
  BY <1>1, <1>2, <1>3 DEF Contents

LEMMA ContentsRead ==
  ASSUME TypeOK, Waiting, HasBlock
  PROVE  dataout[WantedAt] = Contents[Head(reqInQ).sector]
BY HeadType DEF HasBlock, Wanted, WantedAt, Contents, Request

(* The queues as the promise has them.  An edge at which no request comes  *)
(* in is one at which some request is not accepted.                        *)
LEMMA SomeRequest ==
  ASSUME NEW request \in Incoming
  PROVE  \E asked \in Request : request # NoRequest => asked = request
<1>1. [sector |-> <<0, CHOOSE s \in Place : TRUE>>, value |-> NoValue] \in Request
  BY BlockBufferAssumption DEF Request, Sector
<1> QED
  BY <1>1 DEF Incoming

LEMMA PromisedQueues ==
  ASSUME NEW request, NEW asked, request # NoRequest => asked = request,
         NEW taking, NEW deq, NEW responds, NEW answer,
         responds => ~ Full(respOutQ, Depth),
         Queues(request, taking, deq, responds, answer)
  PROVE  /\ reqInQ' = Promise!Clocked(reqInQ, Depth, request # NoRequest, asked, deq)
         /\ respOutQ' = IF responds THEN Append(Promise!Dequeued(respOutQ, taking), answer)
                        ELSE Promise!Dequeued(respOutQ, taking)
BY DEF Queues, Clocked, Dequeued, Full, Promise!Clocked, Promise!Dequeued, Promise!Full

LEMMA StepImplements ==
  ASSUME IInv, NEW request \in Incoming, NEW taking \in BOOLEAN, Clock(request, taking)
  PROVE  Promise!Next
<1> PICK asked \in Request : request # NoRequest => asked = request
  BY SomeRequest
<1> DEFINE accepting == request # NoRequest
<1>1. asked \in Promise!Request /\ accepting \in BOOLEAN
  BY DEF Request, Promise!Request
<1>2. SUFFICES \E executing \in BOOLEAN : Promise!Clock(accepting, asked, executing, taking)
  BY <1>1 DEF Promise!Next
<1>3. CASE WithMemory(request, taking) \/ Idle(request, taking)
  <2>1. Queues(request, taking, FALSE, FALSE, NoValue)
    BY <1>3 DEF WithMemory, Fetch, Fill, WriteBack, Idle, QueuesOnly
  <2>2. Contents' = Contents
    BY <1>3, ContentsKept
  <2>3. /\ reqInQ' = Promise!Clocked(reqInQ, Depth, request # NoRequest, asked, FALSE)
        /\ respOutQ' = Promise!Dequeued(respOutQ, taking)
    BY <2>1, PromisedQueues
  <2> QED
    BY <2>2, <2>3 DEF Promise!Clock
<1>4. CASE ReadSector(request, taking)
  <2>1. /\ Waiting /\ HasBlock /\ ~ IsWrite(Head(reqInQ))
        /\ Queues(request, taking, TRUE, TRUE, dataout[WantedAt])
    BY <1>4 DEF ReadSector
  <2>2. dataout[WantedAt] = Contents[Head(reqInQ).sector] /\ dataout[WantedAt] \in Value
    BY <2>1, ContentsRead, HeadType DEF IInv, TypeOK
  <2>3. ~ Full(respOutQ, Depth)
    BY <2>1, <2>2, QueuesInv DEF IInv
  <2>4. /\ reqInQ' = Promise!Clocked(reqInQ, Depth, request # NoRequest, asked, TRUE)
        /\ respOutQ' = Append(Promise!Dequeued(respOutQ, taking), dataout[WantedAt])
    BY <2>1, <2>3, PromisedQueues
  <2>5. Contents' = Contents
    BY <1>4, ContentsKept
  <2> QED
    BY <2>1, <2>2, <2>4, <2>5 DEF Promise!Clock, Promise!IsWrite, IsWrite, Waiting
<1>5. CASE WriteSector(request, taking)
  <2>1. /\ Waiting /\ IsWrite(Head(reqInQ))
        /\ Queues(request, taking, TRUE, FALSE, NoValue)
    BY <1>5 DEF WriteSector
  <2>2. /\ reqInQ' = Promise!Clocked(reqInQ, Depth, request # NoRequest, asked, TRUE)
        /\ respOutQ' = Promise!Dequeued(respOutQ, taking)
    BY <2>1, PromisedQueues
  <2>3. Contents' = [Contents EXCEPT ![Head(reqInQ).sector] = Head(reqInQ).value]
    BY <1>5, ContentsWritten
  <2> QED
    BY <2>1, <2>2, <2>3 DEF Promise!Clock, Promise!IsWrite, IsWrite, Waiting
<1> QED
  BY <1>3, <1>4, <1>5 DEF Clock

(* A read returns what was last written to its sector before it, whatever  *)
(* blocks come and go in between, and every read is answered once, in turn.*)
THEOREM BufferIsMemory == Spec => ImplementsMemory
<1>1. Init => Promise!Init
  <2> SUFFICES ASSUME Init PROVE Promise!Init
    OBVIOUS
  <2>1. Contents \in [Sector -> Value]
    BY InitInv, ContentsType DEF IInv
  <2> QED
    BY <2>1 DEF Init, Promise!Init
<1>2. IInv /\ [Next]_vars => [Promise!Next]_Promise!vars
  <2> SUFFICES ASSUME IInv, [Next]_vars PROVE [Promise!Next]_Promise!vars
    OBVIOUS
  <2>1. CASE Next
    BY <2>1, StepImplements DEF Next
  <2>2. CASE UNCHANGED vars
    BY <2>2 DEF vars, Promise!vars, Contents
  <2> QED
    BY <2>1, <2>2
<1> QED
  BY <1>1, <1>2, Invariance, PTL DEF Spec, ImplementsMemory, Promise!Spec
=============================================================================
