------------------------- MODULE RegisterPathProofs -------------------------
(***************************************************************************)
(* The calls of the clients, for any number of sessions, FPGAs and slots.  *)
(* Register accesses: types, WritesKept as long as pokes do not fail and   *)
(* addresses stay inside a slot's part of the window, and AnswersInOrder   *)
(* as long as peeks do not fail and every response that is asked for has a *)
(* request, on top of the leases of SlotLease.                             *)
(* Bulk data, in the last part: every transfer fits its buffer, and what   *)
(* waits for the DMA engine is what the buffers hold.                      *)
(***************************************************************************)
EXTENDS RegisterPath, BulkData, TLAPS, FiniteSetTheorems, WellFoundedInduction

(* The leases, for every way the actions of SlotLease interleave: no slot is *)
(* ever on lease twice, and a lease is always one for the app of its session. *)

\* An open session has had its id issued, so Open meets a closed one.
OpenIsIssued == \A s \in Session : app[s] # Null => s \in issued

LInv == TypeOK /\ Exclusive /\ Fits /\ OpenIsIssued

\* An FPGA's new image leaves every lease on the other FPGAs as it was.
LEMMA ReconfigureInv ==
  ASSUME LInv, NEW s \in Session, NEW p \in Place, Reconfigure(s, p)
  PROVE  LInv'
<1>1. PICK image \in Image : image[p[2]] = app[s] /\ config' = [config EXCEPT ![p[1]] = image]
  BY DEF Reconfigure
<1>2. /\ p[1] \in Fpga /\ p[2] \in Slot /\ UNCHANGED <<issued, app>>
      /\ app[s] # Null /\ lease[s] = Null
  BY DEF Place, Reconfigure, Waiting
<1>3. \A t \in Session :
        lease'[t] = IF t = s THEN p
                    ELSE IF lease[t] # Null /\ lease[t][1] = p[1] THEN Null ELSE lease[t]
  BY DEF Reconfigure
<1>4. config' \in [Fpga -> [Slot -> App \cup {Null}]]
  BY <1>1, LeaseAssumption DEF LInv, TypeOK
<1>5. TypeOK'
  BY <1>2, <1>4 DEF LInv, TypeOK, Reconfigure
<1>6. Exclusive'
  BY <1>2, <1>3, LeaseAssumption DEF LInv, Exclusive
<1>7. Fits'
  <2> SUFFICES ASSUME NEW t \in Session, lease'[t] # Null
               PROVE  app'[t] # Null /\ config'[lease'[t][1]][lease'[t][2]] = app'[t]
    BY DEF Fits, Offers
  <2>1. CASE t = s
    BY <1>1, <1>2, <1>3, <2>1 DEF LInv, TypeOK
  <2>2. CASE t # s
    <3>1. lease'[t] = lease[t] /\ lease[t][1] # p[1] /\ lease[t] \in Place
      BY <1>3, <2>2 DEF LInv, TypeOK
    <3>2. config'[lease[t][1]] = config[lease[t][1]]
      BY <1>1, <3>1 DEF LInv, TypeOK, Place
    <3> QED
      BY <1>2, <3>1, <3>2 DEF LInv, Fits, Offers
  <2> QED
    BY <2>1, <2>2
<1>8. OpenIsIssued'
  BY <1>2 DEF LInv, OpenIsIssued
<1> QED
  BY <1>5, <1>6, <1>7, <1>8 DEF LInv

LEMMA LeaseStepInv == LInv /\ [Next]_vars => LInv'
<1> SUFFICES ASSUME LInv, [Next]_vars PROVE LInv'
  OBVIOUS
<1> USE LeaseAssumption DEF LInv, TypeOK, Exclusive, Fits, Offers, OpenIsIssued
<1>1. ASSUME NEW s \in Session, NEW a \in App, Open(s, a) PROVE LInv'
  BY <1>1 DEF Open
<1>2. ASSUME NEW s \in Session, Close(s) PROVE LInv'
  BY <1>2 DEF Close
<1>3. ASSUME NEW s \in Session, NEW p \in Place, Grant(s, p) PROVE LInv'
  BY <1>3 DEF Grant, Waiting
<1>4. ASSUME NEW s \in Session, NEW t \in Session, NEW p \in Place, Take(s, t, p) PROVE LInv'
  BY <1>4 DEF Take, Waiting
<1>5. ASSUME NEW s \in Session, NEW p \in Place, Reconfigure(s, p) PROVE LInv'
  BY <1>5, ReconfigureInv
<1>6. ASSUME NEW f \in Fpga, Flash(f) PROVE LInv'
  <2>1. PICK image \in Image : config' = [config EXCEPT ![f] = image]
    BY <1>6 DEF Flash
  <2>2. \A t \in Session : lease[t] # Null => config'[lease[t][1]] = config[lease[t][1]]
    BY <1>6, <2>1 DEF Flash, Idle, Place
  <2> QED
    BY <1>6, <2>1, <2>2 DEF Flash
<1>7. CASE UNCHANGED vars
  BY <1>7 DEF vars
<1> QED
  BY <1>1, <1>2, <1>3, <1>4, <1>5, <1>6, <1>7 DEF Next

-----------------------------------------------------------------------------
(* The daemon, its clients and the registers.                              *)

Near == Addr \subseteq 0 .. SlotSpan - 1

\* What handlers rely on: a command carries what its kind asks for.
WellFormed(c) ==
  /\ c.kind = "INIT" => c.addr \in App
  /\ c.kind = "WRITE" => c.addr \in Addr /\ c.data \in Value
  /\ c.kind = "READ_REQUEST" => c.addr \in Addr

BacklogOK ==
  /\ backlog \in Seq(Commands)
  /\ \A i \in 1 .. Len(backlog) : WellFormed(backlog[i])

DeviceOK ==
  /\ regs \in [Fpga -> [Bar1 -> Value]]
  /\ wrote \in [Session -> [Addr -> Value \cup {Null}]]

SocketOK ==
  /\ daemon \in {"run", "down"}
  /\ inbox \in [Session -> Packets \cup {Null}]
  /\ client \in [Session -> {"new", "open", "ended", "dead"}]

QueuesOK ==
  /\ responses \in [Session -> Seq(Value) \cup {Null}]
  /\ owed \in [Session -> Seq(Value)]

RInv == LInv /\ BacklogOK /\ DeviceOK /\ SocketOK /\ QueuesOK

-----------------------------------------------------------------------------
(* The window.                                                             *)

LEMMA OrZero == \A k \in 0 .. 7 : Or(k, 0) = k
<1> SUFFICES ASSUME NEW k \in 0 .. 7 PROVE Or(k, 0) = k
  OBVIOUS
<1>1. Bits(0) = {}
  BY DEF Bits
<1>2. \A n \in 0 .. 7 : Bits(n) = Bits(k) => n = k
  <2> SUFFICES ASSUME NEW n \in 0 .. 7, Bits(n) = Bits(k) PROVE n = k
    OBVIOUS
  <2>1. \A m \in 0 .. 7 : m = (IF 1 \in Bits(m) THEN 1 ELSE 0)
                            + (IF 2 \in Bits(m) THEN 2 ELSE 0)
                            + (IF 4 \in Bits(m) THEN 4 ELSE 0)
    BY DEF Bits
  <2> QED
    BY <2>1
<1> QED
  BY <1>1, <1>2 DEF Or

LEMMA NearAddress ==
  ASSUME Near, NEW a \in Addr
  PROVE  a \div SlotSpan = 0 /\ a % SlotSpan = a
BY RegisterAssumption DEF Near

\* Two slots, or two addresses of a slot, never meet in the window.
LEMMA MaskInjective ==
  ASSUME Near, NEW k \in Slot, NEW a \in Addr, NEW j \in Slot, NEW b \in Addr,
         SlotMask(k, a) = SlotMask(j, b)
  PROVE  k = j /\ a = b
<1>1. SlotMask(k, a) = <<k, a>> /\ SlotMask(j, b) = <<j, b>>
  BY OrZero, NearAddress, RegisterAssumption DEF SlotMask
<1>2. <<k, a>> = <<j, b>>
  BY <1>1
<1> QED
  BY <1>2

LEMMA MaskInBar1 == \A k \in Slot, a \in Addr : SlotMask(k, a) \in Bar1
BY DEF Bar1

-----------------------------------------------------------------------------
(* The steps of the daemon and of the clients.                             *)

\* Scheduling keeps the invariant of the leases, and never wipes an FPGA under
\* a lease that goes on.
LEMMA ScheduledKeepsLeases ==
  ASSUME LInv, NEW s \in Session, NEW wiped \in SUBSET Fpga, Scheduled(s, wiped)
  PROVE  /\ LInv'
         /\ lease'[s] \in Place
         /\ \A t \in Session :
              lease[t] # Null /\ lease'[t] = lease[t] => lease[t][1] \notin wiped
<1>1. [Next]_vars
  BY DEF Scheduled, Next, vars, leases
<1>2. LInv'
  BY <1>1, LeaseStepInv
<1>3. CASE lease[s] # Null /\ wiped = {} /\ UNCHANGED leases
  BY <1>2, <1>3 DEF leases, LInv, TypeOK
<1>4. ASSUME wiped = {}, NEW p \in Place, Grant(s, p) \/ \E t \in Session : Take(s, t, p)
      PROVE  lease'[s] \in Place
  BY <1>4, LeaseAssumption DEF Grant, Take, Waiting, LInv, TypeOK
<1>5. ASSUME NEW p \in Place, Reconfigure(s, p), wiped = {p[1]}
      PROVE  /\ lease'[s] \in Place
             /\ \A t \in Session :
                  lease[t] # Null /\ lease'[t] = lease[t] => lease[t][1] \notin wiped
  <2>1. lease[s] = Null /\ lease'[s] = p
    BY <1>5 DEF Reconfigure, Waiting
  <2>2. \A t \in Session : t # s /\ lease[t] # Null /\ lease[t][1] = p[1] => lease'[t] = Null
    BY <1>5 DEF Reconfigure
  <2> QED
    BY <1>5, <2>1, <2>2
<1> QED
  BY <1>2, <1>3, <1>4, <1>5 DEF Scheduled

\* Serving the first connection moves the others up.
LEMMA TailBacklog ==
  ASSUME BacklogOK, backlog # <<>>, backlog' = Tail(backlog)
  PROVE  /\ BacklogOK'
         /\ Len(backlog) \in Nat /\ Len(backlog') = Len(backlog) - 1
         /\ \A i \in 1 .. Len(backlog') :
              i + 1 \in 1 .. Len(backlog) /\ backlog'[i] = backlog[i + 1]
         /\ Head(backlog) = backlog[1] /\ 1 \in 1 .. Len(backlog)
         /\ Head(backlog) \in Commands /\ WellFormed(Head(backlog))
<1>1. backlog \in Seq(Commands)
  BY DEF BacklogOK
<1>2. /\ Len(backlog) \in Nat /\ Len(backlog') = Len(backlog) - 1
      /\ \A i \in 1 .. Len(backlog') :
           i + 1 \in 1 .. Len(backlog) /\ backlog'[i] = backlog[i + 1]
  BY <1>1
<1>3. /\ Head(backlog) = backlog[1] /\ 1 \in 1 .. Len(backlog)
      /\ backlog' \in Seq(Commands) /\ Head(backlog) \in Commands
  BY <1>1
<1>4. \A i \in 1 .. Len(backlog') : WellFormed(backlog'[i])
  BY <1>2 DEF BacklogOK
<1>5. BacklogOK'
  BY <1>3, <1>4 DEF BacklogOK, WellFormed
<1> QED
  BY <1>2, <1>3, <1>5 DEF BacklogOK

\* A handler takes the first command, which is well formed.
LEMMA AcceptHead ==
  ASSUME BacklogOK, NEW kind, Accept(kind)
  PROVE  /\ BacklogOK'
         /\ Head(backlog) \in Commands /\ WellFormed(Head(backlog))
         /\ Head(backlog).kind = kind
BY TailBacklog DEF Accept

LEMMA WipedType ==
  ASSUME DeviceOK, NEW wiped \in SUBSET Fpga
  PROVE  Wiped(wiped) \in [Fpga -> [Bar1 -> Value]]
BY RegisterAssumption DEF DeviceOK, Wiped

LEMMA StillWroteType ==
  ASSUME DeviceOK
  PROVE  StillWrote \in [Session -> [Addr -> Value \cup {Null}]]
BY DEF DeviceOK, StillWrote, Nothing

\* What a session that keeps its lease has written survives the scheduling of
\* another one.
LEMMA WipedKeeps ==
  ASSUME RInv, WritesKept, NEW s \in Session, NEW wiped \in SUBSET Fpga, Scheduled(s, wiped),
         NEW t \in Session, NEW a \in Addr, lease'[t] # Null, StillWrote[t][a] # Null
  PROVE  /\ lease'[t] = lease[t] /\ lease[t] \in Place
         /\ Wiped(wiped)[lease[t][1]][SlotMask(lease[t][2], a)] = StillWrote[t][a]
<1>1. lease'[t] = lease[t] /\ StillWrote[t] = wrote[t]
  BY DEF StillWrote, Nothing
<1>2. lease[t] \in Place
  BY <1>1 DEF RInv, LInv, TypeOK
<1>3. lease[t][1] \notin wiped
  BY <1>1, ScheduledKeepsLeases DEF RInv
<1>4. lease[t][1] \in Fpga /\ Wiped(wiped)[lease[t][1]] = regs[lease[t][1]]
  BY <1>2, <1>3 DEF Place, Wiped
<1>5. regs[lease[t][1]][SlotMask(lease[t][2], a)] = wrote[t][a]
  BY <1>1 DEF WritesKept
<1> QED
  BY <1>1, <1>2, <1>4, <1>5

LEMMA AnswerType ==
  ASSUME SocketOK, NEW s \in Session, NEW kind \in Kinds, NEW code \in Codes, NEW v \in Value,
         Answer(s, kind, code, v), UNCHANGED client
  PROVE  SocketOK'
BY DEF SocketOK, Answer, Packets

\* What HandleWrite does, in the terms of the invariants.
LEMMA WriteEffect ==
  ASSUME RInv, HandleWrite
  PROVE  \E s \in Session, a \in Addr, v \in Value, wiped \in SUBSET Fpga :
           /\ "poke" \notin Faults =>
                regs' = [Wiped(wiped) EXCEPT ![lease'[s][1]][SlotMask(lease'[s][2], a)] = v]
           /\ \/ regs' = Wiped(wiped)
              \/ regs' = [Wiped(wiped) EXCEPT ![lease'[s][1]][SlotMask(lease'[s][2], a)] = v]
           /\ Scheduled(s, wiped)
           /\ wrote' = [StillWrote EXCEPT ![s][a] = v]
<1> DEFINE c == Head(backlog)
<1>1. c.session \in Session /\ c.addr \in Addr /\ c.data \in Value
  BY AcceptHead DEF HandleWrite, RInv, Commands, WellFormed
<1>2. PICK wiped \in SUBSET Fpga, failed \in Fails("poke") :
        /\ Scheduled(c.session, wiped)
        /\ regs' = IF failed THEN Wiped(wiped)
                   ELSE [Wiped(wiped) EXCEPT
                           ![lease'[c.session][1]][SlotMask(lease'[c.session][2], c.addr)] = c.data]
        /\ wrote' = [StillWrote EXCEPT ![c.session][c.addr] = c.data]
  BY DEF HandleWrite
<1>3. "poke" \notin Faults => ~ failed
  BY DEF Fails
<1> HIDE DEF c
<1> QED
  BY <1>1, <1>2, <1>3

LEMMA HandleWriteTypes ==
  ASSUME RInv, HandleWrite
  PROVE  RInv'
<1>1. BacklogOK' /\ Head(backlog).session \in Session
  BY AcceptHead DEF HandleWrite, RInv, Commands
<1>2. SocketOK'
  BY <1>1, AnswerType, RegisterAssumption DEF HandleWrite, Accept, RInv, Kinds, Codes
<1>3. QueuesOK'
  BY DEF HandleWrite, RInv, QueuesOK
<1>4. PICK s \in Session, a \in Addr, v \in Value, wiped \in SUBSET Fpga :
        /\ \/ regs' = Wiped(wiped)
           \/ regs' = [Wiped(wiped) EXCEPT ![lease'[s][1]][SlotMask(lease'[s][2], a)] = v]
        /\ Scheduled(s, wiped)
        /\ wrote' = [StillWrote EXCEPT ![s][a] = v]
  BY WriteEffect
<1>5. LInv' /\ lease'[s] \in Place
  BY <1>4, ScheduledKeepsLeases DEF RInv
<1>6. DeviceOK'
  <2>1. Wiped(wiped) \in [Fpga -> [Bar1 -> Value]]
    BY WipedType DEF RInv
  <2>2. StillWrote \in [Session -> [Addr -> Value \cup {Null}]]
    BY StillWroteType DEF RInv
  <2>3. lease'[s][1] \in Fpga /\ SlotMask(lease'[s][2], a) \in Bar1
    BY <1>5, MaskInBar1 DEF Place
  <2>4. regs' \in [Fpga -> [Bar1 -> Value]]
    BY <1>4, <2>1, <2>3
  <2>5. wrote' \in [Session -> [Addr -> Value \cup {Null}]]
    BY <1>4, <2>2
  <2> QED
    BY <2>4, <2>5 DEF DeviceOK
<1> QED
  BY <1>1, <1>2, <1>3, <1>5, <1>6 DEF RInv

LEMMA HandleReadRequestTypes ==
  ASSUME RInv, HandleReadRequest
  PROVE  RInv'
<1> DEFINE s == Head(backlog).session
           a == Head(backlog).addr
<1>1. BacklogOK' /\ s \in Session /\ a \in Addr
  BY AcceptHead DEF HandleReadRequest, RInv, Commands, WellFormed
<1>2. PICK wiped \in SUBSET Fpga :
        Scheduled(s, wiped) /\ regs' = Wiped(wiped) /\ wrote' = StillWrote
  BY DEF HandleReadRequest
<1>3. LInv' /\ lease'[s] \in Place
  BY <1>1, <1>2, ScheduledKeepsLeases DEF RInv
<1>4. DeviceOK'
  BY <1>2, WipedType, StillWroteType DEF RInv, DeviceOK
<1>5. regs'[lease'[s][1]][SlotMask(lease'[s][2], a)] \in Value
  <2>1. lease'[s][1] \in Fpga /\ SlotMask(lease'[s][2], a) \in Bar1
    BY <1>1, <1>3, MaskInBar1 DEF Place
  <2> QED
    BY <1>4, <2>1 DEF DeviceOK
<1>6. SocketOK'
  BY <1>1, AnswerType, RegisterAssumption DEF HandleReadRequest, Accept, RInv, Kinds, Codes
<1>7. QueuesOK'
  <2> DEFINE fetched == regs'[lease'[s][1]][SlotMask(lease'[s][2], a)]
  <2>1. /\ \E v \in Value : responses' = [responses EXCEPT ![s] =
                               IF @ = Null THEN Null ELSE Append(@, v)]
        /\ owed' = owed \/ owed' = [owed EXCEPT ![s] = Append(@, fetched)]
    BY <1>5 DEF HandleReadRequest, Enqueue
  <2> HIDE DEF s, fetched
  <2>2. \A q \in Seq(Value), v \in Value : Append(q, v) \in Seq(Value)
    OBVIOUS
  <2>3. fetched \in Value
    BY <1>5 DEF fetched
  <2>4. responses' \in [Session -> Seq(Value) \cup {Null}]
    BY <1>1, <2>1, <2>2 DEF RInv, QueuesOK
  <2>5. owed' \in [Session -> Seq(Value)]
    <3>1. owed \in [Session -> Seq(Value)] /\ Append(owed[s], fetched) \in Seq(Value)
      BY <1>1, <2>2, <2>3 DEF RInv, QueuesOK
    <3>2. owed' = owed \/ owed' = [owed EXCEPT ![s] = Append(owed[s], fetched)]
      BY <2>1
    <3> QED
      BY <1>1, <3>1, <3>2
  <2> QED
    BY <2>4, <2>5 DEF QueuesOK
<1> QED
  BY <1>1, <1>3, <1>4, <1>6, <1>7 DEF RInv

LEMMA HandleReadResponseTypes ==
  ASSUME RInv, HandleReadResponse
  PROVE  RInv'
<1> DEFINE s == Head(backlog).session
<1>1. BacklogOK' /\ s \in Session
  BY AcceptHead DEF HandleReadResponse, RInv, Commands
<1>2. responses[s] \in Seq(Value) /\ responses[s] # <<>>
  BY <1>1 DEF HandleReadResponse, RInv, QueuesOK
<1>3. Head(responses[s]) \in Value /\ Tail(responses[s]) \in Seq(Value)
  BY <1>2
<1>4. SocketOK'
  BY <1>1, <1>3, AnswerType DEF HandleReadResponse, Accept, RInv, Kinds, Codes
<1>5. QueuesOK'
  BY <1>1, <1>3 DEF HandleReadResponse, RInv, QueuesOK
<1>6. LInv' /\ DeviceOK'
  BY LeaseStepInv DEF HandleReadResponse, RInv, leases, vars, DeviceOK
<1> QED
  BY <1>1, <1>4, <1>5, <1>6 DEF RInv

LEMMA HandleNoResponseTypes ==
  ASSUME RInv, HandleNoResponse
  PROVE  RInv'
<1> DEFINE s == Head(backlog).session
<1>1. BacklogOK' /\ s \in Session
  BY AcceptHead DEF HandleNoResponse, RInv, Commands
<1>2. SocketOK'
  <2>1. CASE daemon' = "down" /\ UNCHANGED inbox
    BY <2>1 DEF HandleNoResponse, Accept, RInv, SocketOK
  <2>2. ASSUME NEW garbage \in Value, Answer(s, "READ_RESPONSE", "SUCCESS", garbage)
        PROVE  SocketOK'
    BY <1>1, <2>2, AnswerType DEF HandleNoResponse, Accept, RInv, Kinds, Codes
  <2> QED
    BY <2>1, <2>2 DEF HandleNoResponse
<1>3. QueuesOK'
  BY <1>1 DEF HandleNoResponse, RInv, QueuesOK
<1>4. LInv' /\ DeviceOK'
  BY LeaseStepInv DEF HandleNoResponse, RInv, leases, vars, DeviceOK
<1> QED
  BY <1>1, <1>2, <1>3, <1>4 DEF RInv

LEMMA HandleNothingTypes ==
  ASSUME RInv, HandleNothing
  PROVE  RInv'
<1>1. BacklogOK'
  BY TailBacklog DEF HandleNothing, RInv
<1>2. LInv'
  BY LeaseStepInv DEF HandleNothing, RInv, leases, vars
<1> QED
  BY <1>1, <1>2 DEF HandleNothing, RInv, SocketOK, DeviceOK, QueuesOK

LEMMA HandleSessionTypes ==
  ASSUME RInv, HandleInit \/ HandleEnd \/ HandleInvalid
  PROVE  RInv'
<1> USE RegisterAssumption
<1> DEFINE s == Head(backlog).session
<1>1. CASE HandleInit
  <2>1. BacklogOK' /\ s \in Session /\ Head(backlog).addr \in App
    BY <1>1, AcceptHead DEF HandleInit, RInv, Commands, WellFormed
  <2>2. LInv'
    BY <1>1, <2>1, LeaseStepInv DEF HandleInit, RInv, Next
  <2>3. SocketOK'
    BY <1>1, <2>1, AnswerType DEF HandleInit, Accept, RInv, Kinds, Codes
  <2> QED
    BY <1>1, <2>1, <2>2, <2>3 DEF HandleInit, RInv, DeviceOK, QueuesOK
<1>2. CASE HandleEnd
  <2>1. BacklogOK' /\ s \in Session
    BY <1>2, AcceptHead DEF HandleEnd, RInv, Commands
  <2>2. LInv'
    BY <1>2, <2>1, LeaseStepInv DEF HandleEnd, RInv, Next
  <2>3. DeviceOK'
    BY <1>2 DEF HandleEnd, RInv, DeviceOK, Nothing
  <2> QED
    BY <1>2, <2>1, <2>2, <2>3 DEF HandleEnd, Accept, RInv, SocketOK, QueuesOK
<1>3. CASE HandleInvalid
  <2>1. BacklogOK' /\ s \in Session
    BY <1>3, AcceptHead DEF HandleInvalid, RInv, Commands
  <2>2. SocketOK'
    BY <1>3, <2>1, AnswerType DEF HandleInvalid, Refuse, Accept, RInv, Kinds, Codes
  <2>3. LInv'
    BY <1>3, LeaseStepInv DEF HandleInvalid, RInv, leases, vars
  <2> QED
    BY <1>3, <2>1, <2>2, <2>3 DEF HandleInvalid, RInv, DeviceOK, QueuesOK
<1> QED
  BY <1>1, <1>2, <1>3

LEMMA ConnectBacklog ==
  ASSUME BacklogOK, NEW c \in Commands, WellFormed(c), backlog' = Append(backlog, c)
  PROVE  BacklogOK'
<1>1. /\ backlog' \in Seq(Commands)
      /\ \A i \in 1 .. Len(backlog') :
           backlog'[i] = c \/ (i \in 1 .. Len(backlog) /\ backlog'[i] = backlog[i])
  BY DEF BacklogOK
<1> QED
  BY <1>1 DEF BacklogOK, WellFormed

\* Sending a command changes nothing else of it.
LEMMA SendEffect ==
  ASSUME BacklogOK, NEW s \in Session, Send(s)
  PROVE  /\ BacklogOK' /\ Len(backlog') = Len(backlog)
         /\ \A j \in 1 .. Len(backlog) : /\ backlog'[j].session = backlog[j].session
                                        /\ backlog'[j].kind = backlog[j].kind
<1>0. DOMAIN backlog = 1 .. Len(backlog)
  BY DEF BacklogOK
<1>1. PICK i \in 1 .. Len(backlog) : backlog' = [backlog EXCEPT ![i].sent = TRUE]
  BY <1>0, Zenon DEF Send
<1> DEFINE c == [backlog[i] EXCEPT !.sent = TRUE]
<1>2. backlog \in Seq(Commands) /\ backlog[i] \in Commands /\ WellFormed(backlog[i])
  BY DEF BacklogOK
<1>3. /\ c \in Commands /\ WellFormed(c)
      /\ c.session = backlog[i].session /\ c.kind = backlog[i].kind
  BY <1>2 DEF Commands, WellFormed
<1>4. backlog' = [backlog EXCEPT ![i] = c]
  BY <1>1
<1> HIDE DEF c
<1>5. /\ backlog' \in Seq(Commands) /\ Len(backlog') = Len(backlog)
      /\ \A j \in 1 .. Len(backlog) : backlog'[j] = IF j = i THEN c ELSE backlog[j]
  BY <1>2, <1>3, <1>4
<1>6. \A j \in 1 .. Len(backlog') : WellFormed(backlog'[j])
  BY <1>3, <1>5 DEF BacklogOK
<1>7. BacklogOK'
  BY <1>5, <1>6 DEF BacklogOK, WellFormed
<1> QED
  BY <1>3, <1>5, <1>7

Calls(s) ==
  CallInit(s) \/ CallEnd(s) \/ CallWrite(s) \/ CallReadRequest(s) \/ CallReadResponse(s)

LEMMA ClientTypes ==
  ASSUME RInv, NEW s \in Session, Calls(s) \/ Send(s) \/ Return(s) \/ Die(s)
  PROVE  RInv'
<1>1. CASE Calls(s)
  <2>1. PICK c \in Commands : WellFormed(c) /\ Connect(c)
    BY <1>1 DEF Calls, CallInit, CallEnd, CallWrite, CallReadRequest, CallReadResponse,
                Command, Commands, WellFormed, Kinds
  <2>2. BacklogOK'
    BY <2>1, ConnectBacklog DEF Connect, RInv
  <2>3. LInv'
    BY <2>1, LeaseStepInv DEF Connect, RInv, leases, vars
  <2>4. client' = client \/ client' = [client EXCEPT ![s] = "ended"]
    BY <1>1 DEF Calls, CallInit, CallEnd, CallWrite, CallReadRequest, CallReadResponse
  <2>5. SocketOK'
    BY <2>1, <2>4 DEF Connect, RInv, SocketOK
  <2> QED
    BY <2>1, <2>2, <2>3, <2>5 DEF Connect, RInv, DeviceOK, QueuesOK
<1>2. CASE Return(s)
  <2>1. LInv'
    BY <1>2, LeaseStepInv DEF Return, RInv, leases, vars
  <2>2. SocketOK'
    BY <1>2 DEF Return, RInv, SocketOK
  <2>3. owed' \in [Session -> Seq(Value)]
    <3>1. owed[s] \in Seq(Value)
      BY DEF RInv, QueuesOK
    <3>2. owed[s] # <<>> => Tail(owed[s]) \in Seq(Value)
      BY <3>1
    <3> QED
      BY <1>2, <3>1, <3>2 DEF Return, RInv, QueuesOK
  <2> QED
    BY <1>2, <2>1, <2>2, <2>3 DEF Return, RInv, BacklogOK, DeviceOK, QueuesOK
<1>3. CASE Die(s)
  <2>1. LInv'
    BY <1>3, LeaseStepInv DEF Die, RInv, leases, vars
  <2> QED
    BY <1>3, <2>1 DEF Die, RInv, BacklogOK, DeviceOK, SocketOK, QueuesOK
<1>4. CASE Send(s)
  <2>1. BacklogOK'
    BY <1>4, SendEffect DEF RInv
  <2>2. LInv'
    BY <1>4, LeaseStepInv DEF Send, RInv, leases, vars
  <2> QED
    BY <1>4, <2>1, <2>2 DEF Send, RInv, DeviceOK, SocketOK, QueuesOK
<1> QED
  BY <1>1, <1>2, <1>3, <1>4

LEMMA RTypesStep == RInv /\ [RNext]_all => RInv'
<1> SUFFICES ASSUME RInv, [RNext]_all PROVE RInv'
  OBVIOUS
<1>1. CASE Handle
  BY <1>1, HandleWriteTypes, HandleReadRequestTypes, HandleReadResponseTypes,
     HandleSessionTypes, HandleNothingTypes, HandleNoResponseTypes DEF Handle
<1>2. ASSUME NEW s \in Session, Calls(s) \/ Send(s) \/ Return(s) \/ Die(s) PROVE RInv'
  BY <1>2, ClientTypes
<1>3. CASE UNCHANGED all
  <2>1. LInv'
    BY <1>3, LeaseStepInv DEF RInv, all, leases, vars
  <2> QED
    BY <1>3, <2>1 DEF all, calls, RInv, BacklogOK, DeviceOK, SocketOK, QueuesOK
<1> QED
  BY <1>1, <1>2, <1>3 DEF RNext, Calls

LEMMA RInitInv == RInit => RInv
<1> SUFFICES ASSUME RInit PROVE RInv
  OBVIOUS
<1>1. LInv
  BY LeaseAssumption DEF RInit, LInv, TypeOK, Exclusive, Fits, OpenIsIssued
<1>2. BacklogOK
  BY DEF RInit, BacklogOK
<1>3. DeviceOK /\ SocketOK /\ QueuesOK
  BY RegisterAssumption DEF RInit, DeviceOK, SocketOK, QueuesOK, Nothing
<1> QED
  BY <1>1, <1>2, <1>3 DEF RInv

\* Every variable of the register path keeps its type, for every fault.
THEOREM RegistersTypeCorrect == RSpec => []RegistersOK
<1>1. RInv => RegistersOK
  BY DEF RInv, LInv, BacklogOK, DeviceOK, SocketOK, QueuesOK, RegistersOK
<1> QED
  BY <1>1, RInitInv, RTypesStep, PTL DEF RSpec

-----------------------------------------------------------------------------
(* A slot keeps what was written to it.                                    *)

LEMMA WriteKeeps ==
  ASSUME RInv, WritesKept, Near, "poke" \notin Faults, HandleWrite
  PROVE  WritesKept'
<1>1. PICK s \in Session, c \in Addr, v \in Value, wiped \in SUBSET Fpga :
        /\ regs' = [Wiped(wiped) EXCEPT ![lease'[s][1]][SlotMask(lease'[s][2], c)] = v]
        /\ Scheduled(s, wiped)
        /\ wrote' = [StillWrote EXCEPT ![s][c] = v]
  BY WriteEffect
<1>2. /\ LInv' /\ lease'[s] \in Place
      /\ lease'[s][1] \in Fpga /\ lease'[s][2] \in Slot
  BY <1>1, ScheduledKeepsLeases DEF RInv, Place
<1>3. Wiped(wiped) \in [Fpga -> [Bar1 -> Value]]
  BY WipedType DEF RInv
<1>4. StillWrote \in [Session -> [Addr -> Value \cup {Null}]]
  BY StillWroteType DEF RInv
<1> SUFFICES ASSUME NEW t \in Session, NEW a \in Addr,
                    lease'[t] # Null, wrote'[t][a] # Null
             PROVE  regs'[lease'[t][1]][SlotMask(lease'[t][2], a)] = wrote'[t][a]
  BY DEF WritesKept
<1>5. CASE t = s /\ a = c
  BY <1>1, <1>2, <1>3, <1>4, <1>5, MaskInBar1
<1>6. CASE ~ (t = s /\ a = c)
  <2>1. wrote'[t][a] = StillWrote[t][a]
    BY <1>1, <1>4, <1>6
  <2>2. /\ lease'[t] = lease[t] /\ lease[t] \in Place
        /\ Wiped(wiped)[lease[t][1]][SlotMask(lease[t][2], a)] = StillWrote[t][a]
    BY <1>1, <2>1, WipedKeeps
  <2>3. lease[t][1] \in Fpga /\ lease[t][2] \in Slot
    BY <2>2 DEF Place
  <2>4. lease[t][1] # lease'[s][1] \/ SlotMask(lease[t][2], a) # SlotMask(lease'[s][2], c)
    <3>1. CASE t = s
      BY <1>2, <1>6, <2>3, <3>1, MaskInjective
    <3>2. CASE t # s
      <4>1. lease[t] # lease'[s]
        BY <1>2, <2>2, <3>2 DEF LInv, Exclusive
      <4>2. lease[t][1] # lease'[s][1] \/ lease[t][2] # lease'[s][2]
        BY <1>2, <2>2, <4>1 DEF Place
      <4> QED
        BY <1>2, <2>3, <4>2, MaskInjective
    <3> QED
      BY <3>1, <3>2
  <2>5. regs'[lease[t][1]][SlotMask(lease[t][2], a)]
          = Wiped(wiped)[lease[t][1]][SlotMask(lease[t][2], a)]
    BY <1>1, <1>2, <1>3, <2>3, <2>4, MaskInBar1
  <2> QED
    BY <2>1, <2>2, <2>5
<1> QED
  BY <1>5, <1>6

LEMMA KeepStep ==
  ASSUME Near, "poke" \notin Faults
  PROVE  RInv /\ WritesKept /\ [RNext]_all => WritesKept'
<1> SUFFICES ASSUME RInv, WritesKept, [RNext]_all PROVE WritesKept'
  OBVIOUS
<1>1. CASE HandleWrite
  BY <1>1, WriteKeeps
<1>2. CASE HandleReadRequest
  <2>1. Head(backlog).session \in Session
    BY <1>2, AcceptHead DEF HandleReadRequest, RInv, Commands
  <2>2. PICK wiped \in SUBSET Fpga :
          /\ Scheduled(Head(backlog).session, wiped)
          /\ regs' = Wiped(wiped) /\ wrote' = StillWrote
    BY <1>2 DEF HandleReadRequest
  <2> QED
    BY <2>1, <2>2, WipedKeeps DEF WritesKept
<1>3. CASE HandleEnd
  <2>1. PICK s \in Session : /\ lease' = [lease EXCEPT ![s] = Null] /\ regs' = regs
                             /\ wrote' = [wrote EXCEPT ![s] = Nothing]
    BY <1>3, AcceptHead DEF HandleEnd, Close, RInv, Commands
  <2> QED
    BY <2>1 DEF RInv, LInv, TypeOK, DeviceOK, WritesKept
<1>4. CASE UNCHANGED <<lease, regs, wrote>>
  BY <1>4 DEF WritesKept
<1>5. ASSUME \/ HandleNothing \/ HandleInit \/ HandleInvalid
             \/ HandleReadResponse \/ HandleNoResponse
      PROVE  WritesKept'
  BY <1>4, <1>5 DEF HandleNothing, HandleInit, HandleInvalid, HandleReadResponse,
                    HandleNoResponse, Open, leases
<1>6. ASSUME NEW s \in Session, Calls(s) \/ Send(s) \/ Return(s) \/ Die(s)
      PROVE  WritesKept'
  BY <1>4, <1>6 DEF Calls, CallInit, CallEnd, CallWrite, CallReadRequest, CallReadResponse,
                    Connect, Send, Return, Die, leases
<1>7. CASE UNCHANGED all
  BY <1>4, <1>7 DEF all, leases
<1> QED
  BY <1>1, <1>2, <1>3, <1>5, <1>6, <1>7 DEF RNext, Handle, Calls

\* A register of a session's slot holds what the session last wrote to it since
\* it got the slot, if no poke fails and the addresses are those of one slot.
THEOREM WritesAlwaysKept ==
  ASSUME Near, "poke" \notin Faults
  PROVE  RSpec => []WritesKept
<1>1. RInv /\ WritesKept /\ [RNext]_all => WritesKept'
  BY KeepStep
<1>2. RInit => WritesKept
  BY DEF RInit, WritesKept
<1> QED
  BY <1>1, <1>2, RInitInv, RTypesStep, PTL DEF RSpec

-----------------------------------------------------------------------------
(* Read responses come in the order of their requests.                     *)

\* A client waits for the answer to one command at most: the connections in the
\* backlog, those of END_SESSION aside, are of different sessions, and none of
\* these has an answer to read.
OneCall ==
  \A i \in 1 .. Len(backlog) : backlog[i].kind # "END" =>
    /\ inbox[backlog[i].session] = Null
    /\ \A j \in 1 .. Len(backlog) :
         backlog[j].kind # "END" /\ backlog[j].session = backlog[i].session => j = i

Collects(s) == inbox[s] # Null /\ inbox[s].to = "READ_RESPONSE"

\* While the daemon runs, the response queue holds what the session is owed,
\* but for the response that is on its way to the client.
InStep ==
  \A s \in Session :
    IF Collects(s)
    THEN /\ owed[s] # <<>> /\ inbox[s].data = Head(owed[s])
         /\ daemon = "run" => responses[s] = Tail(owed[s])
    ELSE daemon = "run" => responses[s] = owed[s]

LEMMA OneCallAccept ==
  ASSUME RInv, OneCall, backlog # <<>>, backlog' = Tail(backlog),
         \A t \in Session :
           inbox'[t] = inbox[t] \/ (Head(backlog).kind # "END" /\ t = Head(backlog).session)
  PROVE  /\ OneCall'
         /\ Head(backlog).kind # "END" => inbox[Head(backlog).session] = Null
<1>1. /\ Len(backlog') = Len(backlog) - 1 /\ Len(backlog) \in Nat
      /\ \A i \in 1 .. Len(backlog') : i + 1 \in 1 .. Len(backlog) /\ backlog'[i] = backlog[i + 1]
      /\ Head(backlog) = backlog[1] /\ 1 \in 1 .. Len(backlog)
  BY TailBacklog DEF RInv
<1>2. \A i \in 1 .. Len(backlog) : backlog[i].session \in Session
  <2>1. \A i \in 1 .. Len(backlog) : backlog[i] \in Commands
    BY DEF RInv, BacklogOK
  <2> QED
    BY <2>1 DEF Commands
<1>3. Head(backlog).kind # "END" => inbox[Head(backlog).session] = Null
  BY <1>1 DEF OneCall
<1> SUFFICES ASSUME NEW i \in 1 .. Len(backlog'), backlog'[i].kind # "END"
             PROVE  /\ inbox'[backlog'[i].session] = Null
                    /\ \A j \in 1 .. Len(backlog') :
                         /\ backlog'[j].kind # "END"
                         /\ backlog'[j].session = backlog'[i].session
                         => j = i
  BY <1>3 DEF OneCall
<1>4. backlog'[i] = backlog[i + 1] /\ i + 1 \in 1 .. Len(backlog) /\ i + 1 # 1
  BY <1>1
<1>5. inbox[backlog[i + 1].session] = Null
  BY <1>4 DEF OneCall
<1>6. Head(backlog).kind # "END" => backlog[i + 1].session # Head(backlog).session
  BY <1>1, <1>4 DEF OneCall
<1>7. inbox'[backlog'[i].session] = Null
  BY <1>2, <1>4, <1>5, <1>6
<1>8. ASSUME NEW j \in 1 .. Len(backlog'), backlog'[j].kind # "END",
             backlog'[j].session = backlog'[i].session
      PROVE  j = i
  <2>1. backlog'[j] = backlog[j + 1] /\ j + 1 \in 1 .. Len(backlog)
    BY <1>1
  <2>2. j + 1 = i + 1
    BY <1>4, <1>8, <2>1 DEF OneCall
  <2> QED
    BY <2>2
<1> QED
  BY <1>7, <1>8

LEMMA OneCallConnect ==
  ASSUME RInv, OneCall, NEW c \in Commands, Connect(c)
  PROVE  OneCall'
<1>1. /\ backlog \in Seq(Commands) /\ backlog' = Append(backlog, c) /\ inbox' = inbox
      /\ inbox[c.session] = Null
      /\ \A i \in 1 .. Len(backlog) : backlog[i].kind # "END" => backlog[i].session # c.session
  BY DEF Connect, Busy, Unanswered, RInv, BacklogOK
<1>2. /\ Len(backlog) \in Nat /\ Len(backlog') = Len(backlog) + 1
      /\ backlog'[Len(backlog) + 1] = c
      /\ \A i \in 1 .. Len(backlog) : backlog'[i] = backlog[i]
  BY <1>1
<1>3. \A i \in 1 .. Len(backlog') : i \in 1 .. Len(backlog) \/ i = Len(backlog) + 1
  BY <1>2
<1> QED
  BY <1>1, <1>2, <1>3 DEF OneCall

\* An answer other than that of a read response.
LEMMA AnswerInStep ==
  ASSUME RInv, InStep, NEW s \in Session, inbox[s] = Null,
         NEW kind \in Kinds \ {"READ_RESPONSE"}, NEW code \in Codes, NEW v \in Value,
         Answer(s, kind, code, v),
         \/ UNCHANGED <<responses, owed>>
         \/ \E x \in Value : /\ responses' = [responses EXCEPT ![s] = Append(@, x)]
                             /\ owed' = [owed EXCEPT ![s] = Append(@, x)]
  PROVE  InStep'
<1>1. /\ \A t \in Session \ {s} :
           inbox'[t] = inbox[t] /\ responses'[t] = responses[t] /\ owed'[t] = owed[t]
      /\ responses[s] = owed[s] => responses'[s] = owed'[s]
  <2>1. \A t \in Session \ {s} : inbox'[t] = inbox[t]
    BY DEF Answer, RInv, SocketOK
  <2>2. CASE UNCHANGED <<responses, owed>>
    BY <2>1, <2>2
  <2>3. ASSUME NEW x \in Value,
               responses' = [responses EXCEPT ![s] = Append(responses[s], x)],
               owed' = [owed EXCEPT ![s] = Append(owed[s], x)]
        PROVE  /\ \A t \in Session \ {s} :
                    inbox'[t] = inbox[t] /\ responses'[t] = responses[t] /\ owed'[t] = owed[t]
               /\ responses[s] = owed[s] => responses'[s] = owed'[s]
    BY <2>1, <2>3 DEF RInv, QueuesOK
  <2> QED
    BY <2>2, <2>3
<1>2. daemon' = "run" => daemon = "run"
  BY DEF Answer, RInv, SocketOK
<1>3. ~ Collects(s) /\ ~ Collects(s)'
  BY DEF Answer, RInv, SocketOK, Collects
<1>4. \A t \in Session \ {s} : Collects(t)' = Collects(t)
  BY <1>1 DEF Collects
<1> SUFFICES ASSUME NEW t \in Session
             PROVE  IF Collects(t)'
                    THEN /\ owed'[t] # <<>> /\ inbox'[t].data = Head(owed'[t])
                         /\ daemon' = "run" => responses'[t] = Tail(owed'[t])
                    ELSE daemon' = "run" => responses'[t] = owed'[t]
  BY DEF InStep
<1>5. CASE t = s
  BY <1>1, <1>2, <1>3, <1>5 DEF InStep
<1>6. CASE t # s
  BY <1>1, <1>2, <1>4, <1>6 DEF InStep
<1> QED
  BY <1>5, <1>6

\* A client asks for a response only while it is owed one.
Asked ==
  \A i \in 1 .. Len(backlog) :
    backlog[i].kind = "READ_RESPONSE" => owed[backlog[i].session] # <<>>

\* What is served goes, and a client that is owed a response stays so.
LEMMA AskedTail ==
  ASSUME RInv, Asked, backlog # <<>>, backlog' = Tail(backlog),
         \/ UNCHANGED owed
         \/ \E s \in Session, v \in Value : owed' = [owed EXCEPT ![s] = Append(@, v)]
  PROVE  Asked'
<1>1. /\ \A i \in 1 .. Len(backlog') : i + 1 \in 1 .. Len(backlog) /\ backlog'[i] = backlog[i + 1]
      /\ BacklogOK'
  BY TailBacklog DEF RInv
<1>2. \A i \in 1 .. Len(backlog') : backlog'[i].session \in Session
  <2>1. \A i \in 1 .. Len(backlog') : backlog'[i] \in Commands
    BY <1>1 DEF BacklogOK
  <2> QED
    BY <2>1 DEF Commands
<1>3. \A t \in Session : owed[t] # <<>> => owed'[t] # <<>>
  <2>1. ASSUME NEW s \in Session, NEW v \in Value,
               owed' = [owed EXCEPT ![s] = Append(owed[s], v)], NEW t \in Session
        PROVE  owed[t] # <<>> => owed'[t] # <<>>
    <3>1. owed[s] \in Seq(Value)
      BY DEF RInv, QueuesOK
    <3>2. Append(owed[s], v) # <<>>
      BY <3>1
    <3> QED
      BY <2>1, <3>2 DEF RInv, QueuesOK
  <2> QED
    BY <2>1
<1> QED
  BY <1>1, <1>2, <1>3 DEF Asked

LEMMA AskedConnect ==
  ASSUME RInv, Asked, NEW c \in Commands, Connect(c),
         c.kind = "READ_RESPONSE" => owed[c.session] # <<>>
  PROVE  Asked'
<1>1. backlog \in Seq(Commands) /\ backlog' = Append(backlog, c) /\ owed' = owed
  BY DEF Connect, RInv, BacklogOK
<1>2. /\ Len(backlog) \in Nat /\ Len(backlog') = Len(backlog) + 1
      /\ backlog'[Len(backlog) + 1] = c
      /\ \A i \in 1 .. Len(backlog) : backlog'[i] = backlog[i]
  BY <1>1
<1>3. \A i \in 1 .. Len(backlog') : i \in 1 .. Len(backlog) \/ i = Len(backlog) + 1
  BY <1>2
<1> QED
  BY <1>1, <1>2, <1>3 DEF Asked

\* A client that gets an answer has no other call waiting.
LEMMA AskedReturn ==
  ASSUME RInv, OneCall, Asked, NEW s \in Session, Return(s)
  PROVE  Asked'
<1>1. inbox[s] # Null /\ UNCHANGED backlog /\ \A t \in Session \ {s} : owed'[t] = owed[t]
  BY DEF Return, RInv, QueuesOK
<1>2. \A i \in 1 .. Len(backlog) : backlog[i].session \in Session
  <2>1. \A i \in 1 .. Len(backlog) : backlog[i] \in Commands
    BY DEF RInv, BacklogOK
  <2> QED
    BY <2>1 DEF Commands
<1>3. \A i \in 1 .. Len(backlog) :
        backlog[i].kind = "READ_RESPONSE" => backlog[i].session # s
  BY <1>1 DEF OneCall
<1> QED
  BY <1>1, <1>2, <1>3 DEF Asked

LEMMA AskedStep ==
  ASSUME "unasked" \notin Faults
  PROVE  RInv /\ OneCall /\ Asked /\ [RNext]_all => Asked'
<1> SUFFICES ASSUME RInv, OneCall, Asked, [RNext]_all PROVE Asked'
  OBVIOUS
<1>1. CASE HandleReadRequest
  <2> DEFINE s == Head(backlog).session
             a == Head(backlog).addr
  <2>1. s \in Session /\ a \in Addr
    BY <1>1, AcceptHead DEF HandleReadRequest, RInv, Commands, WellFormed
  <2>2. PICK wiped \in SUBSET Fpga : Scheduled(s, wiped) /\ regs' = Wiped(wiped)
    BY <1>1 DEF HandleReadRequest
  <2>3. lease'[s][1] \in Fpga /\ SlotMask(lease'[s][2], a) \in Bar1
    BY <2>1, <2>2, ScheduledKeepsLeases, MaskInBar1 DEF RInv, Place
  <2>4. regs'[lease'[s][1]][SlotMask(lease'[s][2], a)] \in Value
    BY <2>2, <2>3, WipedType DEF RInv
  <2>5. \/ UNCHANGED owed
        \/ owed' = [owed EXCEPT ![s] =
                      Append(@, regs'[lease'[s][1]][SlotMask(lease'[s][2], a)])]
    BY <1>1 DEF HandleReadRequest
  <2>6. backlog # <<>> /\ backlog' = Tail(backlog)
    BY <1>1 DEF HandleReadRequest, Accept
  <2> HIDE DEF s, a
  <2> QED
    BY <2>1, <2>4, <2>5, <2>6, AskedTail
<1>2. ASSUME \/ HandleNothing \/ HandleInit \/ HandleEnd \/ HandleInvalid
             \/ HandleWrite \/ HandleReadResponse \/ HandleNoResponse
      PROVE  Asked'
  <2>1. backlog # <<>> /\ backlog' = Tail(backlog) /\ UNCHANGED owed
    BY <1>2 DEF HandleNothing, HandleInit, HandleEnd, HandleInvalid, HandleWrite,
                HandleReadResponse, HandleNoResponse, Accept
  <2> QED
    BY <2>1, AskedTail
<1>3. ASSUME NEW t \in Session, Calls(t) PROVE Asked'
  <2>1. PICK c \in Commands :
          Connect(c) /\ (c.kind = "READ_RESPONSE" => owed[c.session] # <<>>)
    <3>1. CASE CallReadResponse(t)
      <4> DEFINE c == Command(t, "READ_RESPONSE", Null, Null)
      <4>1. c \in Commands /\ c.session = t
        BY DEF Command, Commands, Kinds
      <4>2. Connect(c) /\ owed[t] # <<>>
        BY <3>1 DEF CallReadResponse
      <4> QED
        BY <4>1, <4>2
    <3>2. CASE CallInit(t) \/ CallEnd(t) \/ CallWrite(t) \/ CallReadRequest(t)
      <4>1. \A kind \in Kinds, x \in Addr \cup App \cup {Null}, v \in Value \cup {Null} :
              Command(t, kind, x, v) \in Commands /\ Command(t, kind, x, v).kind = kind
        BY DEF Command, Commands
      <4>2. \E kind \in Kinds \ {"READ_RESPONSE"}, x \in Addr \cup App \cup {Null},
               v \in Value \cup {Null} : Connect(Command(t, kind, x, v))
        BY <3>2 DEF CallInit, CallEnd, CallWrite, CallReadRequest, Kinds
      <4> QED
        BY <4>1, <4>2
    <3> QED
      BY <1>3, <3>1, <3>2 DEF Calls
  <2> QED
    BY <2>1, AskedConnect
<1>4. ASSUME NEW t \in Session, Send(t) PROVE Asked'
  BY <1>4, SendEffect DEF Send, RInv, Asked
<1>5. ASSUME NEW t \in Session, Die(t) PROVE Asked'
  BY <1>5 DEF Die, Asked
<1>6. CASE UNCHANGED all
  BY <1>6 DEF all, calls, Asked
<1> QED
  BY <1>1, <1>2, <1>3, <1>4, <1>5, <1>6, AskedReturn DEF RNext, Handle, Calls

LEMMA ReadResponseInStep ==
  ASSUME RInv, InStep, OneCall, HandleReadResponse
  PROVE  InStep'
<1> DEFINE s == Head(backlog).session
<1>1. s \in Session /\ daemon = "run" /\ client' = client
  BY AcceptHead DEF HandleReadResponse, Accept, RInv, Commands
<1>2. inbox[s] = Null
  <2>1. 1 \in 1 .. Len(backlog) /\ Head(backlog) = backlog[1]
    BY DEF HandleReadResponse, Accept, RInv, BacklogOK
  <2>2. Head(backlog).kind # "END"
    BY DEF HandleReadResponse, Accept
  <2> QED
    BY <2>1, <2>2 DEF OneCall
<1>3. /\ responses[s] = owed[s] /\ owed[s] # <<>>
      /\ responses' = [responses EXCEPT ![s] = Tail(responses[s])] /\ owed' = owed
      /\ Answer(s, "READ_RESPONSE", "SUCCESS", Head(responses[s]))
  BY <1>1, <1>2 DEF HandleReadResponse, InStep, Collects
<1> HIDE DEF s
<1>4. Head(responses[s]) \in Value
  BY <1>1, <1>3 DEF RInv, QueuesOK
<1>5. CASE client[s] = "dead"
  BY <1>1, <1>2, <1>3, <1>5 DEF Answer, InStep, Collects
<1>6. CASE client[s] # "dead"
  <2> DEFINE packet == [to |-> "READ_RESPONSE", code |-> "SUCCESS", data |-> Head(responses[s])]
  <2>1. packet \in Packets
    BY <1>4 DEF Packets, Kinds, Codes
  <2>2. packet # Null /\ packet.to = "READ_RESPONSE" /\ packet.data = Head(responses[s])
    BY <2>1, RegisterAssumption
  <2>3. inbox' = [inbox EXCEPT ![s] = packet] /\ daemon' = daemon
    BY <1>3, <1>6 DEF Answer
  <2> HIDE DEF packet
  <2> SUFFICES ASSUME NEW t \in Session
               PROVE  IF Collects(t)'
                      THEN /\ owed'[t] # <<>> /\ inbox'[t].data = Head(owed'[t])
                           /\ daemon' = "run" => responses'[t] = Tail(owed'[t])
                      ELSE daemon' = "run" => responses'[t] = owed'[t]
    BY DEF InStep
  <2>4. CASE t = s
    <3>1. inbox'[s] = packet /\ responses'[s] = Tail(owed[s])
      BY <1>1, <1>3, <2>3 DEF RInv, SocketOK, QueuesOK
    <3> QED
      BY <1>3, <2>2, <2>4, <3>1 DEF Collects
  <2>5. CASE t # s
    BY <1>1, <1>3, <2>3, <2>5 DEF RInv, SocketOK, QueuesOK, InStep, Collects
  <2> QED
    BY <2>4, <2>5
<1> QED
  BY <1>5, <1>6

LEMMA ReturnInStep ==
  ASSUME RInv, InStep, NEW s \in Session, Return(s)
  PROVE  InStep'
<1>1. /\ inbox[s] # Null /\ inbox' = [inbox EXCEPT ![s] = Null]
      /\ UNCHANGED <<daemon, responses>>
      /\ owed' = [owed EXCEPT ![s] = IF Collects(s) /\ owed[s] # <<>>
                                     THEN Tail(owed[s]) ELSE owed[s]]
  BY DEF Return, Collects
<1> SUFFICES ASSUME NEW t \in Session
             PROVE  IF Collects(t)'
                    THEN /\ owed'[t] # <<>> /\ inbox'[t].data = Head(owed'[t])
                         /\ daemon' = "run" => responses'[t] = Tail(owed'[t])
                    ELSE daemon' = "run" => responses'[t] = owed'[t]
  BY DEF InStep
<1>2. CASE t = s
  BY <1>1, <1>2 DEF RInv, SocketOK, QueuesOK, InStep, Collects
<1>3. CASE t # s
  BY <1>1, <1>3 DEF RInv, SocketOK, QueuesOK, InStep, Collects
<1> QED
  BY <1>2, <1>3

LEMMA OrderStep ==
  ASSUME "peek" \notin Faults
  PROVE  RInv /\ OneCall /\ Asked /\ InStep /\ [RNext]_all => OneCall' /\ InStep'
<1> SUFFICES ASSUME RInv, OneCall, Asked, InStep, [RNext]_all PROVE OneCall' /\ InStep'
  OBVIOUS
<1> USE RegisterAssumption
<1> DEFINE s == Head(backlog).session
<1>1. ASSUME NEW kind \in Kinds \ {"END"}, Accept(kind), NEW code \in Codes, NEW v \in Value,
             Answer(s, kind, code, v)
      PROVE  OneCall' /\ s \in Session /\ inbox[s] = Null
  <2>1. s \in Session
    BY <1>1, AcceptHead DEF RInv, Commands
  <2>2. \A t \in Session : inbox'[t] = inbox[t] \/ t = s
    BY <1>1, <2>1 DEF Answer, RInv, SocketOK
  <2>3. backlog # <<>> /\ backlog' = Tail(backlog) /\ Head(backlog).kind # "END"
    BY <1>1 DEF Accept
  <2> QED
    BY <2>1, <2>2, <2>3, OneCallAccept
<1>2. CASE HandleInit
  <2>1. OneCall' /\ s \in Session /\ inbox[s] = Null
    BY <1>1, <1>2 DEF HandleInit, Kinds, Codes
  <2> QED
    BY <1>2, <2>1, AnswerInStep DEF HandleInit, Kinds, Codes
<1>3. CASE HandleInvalid
  <2>1. PICK kind \in {"WRITE", "READ_REQUEST"} : Accept(kind) /\ Refuse(s, kind)
    BY <1>3 DEF HandleInvalid
  <2>2. OneCall' /\ s \in Session /\ inbox[s] = Null
    BY <1>1, <2>1 DEF Refuse, Kinds, Codes
  <2> QED
    BY <1>3, <2>1, <2>2, AnswerInStep DEF HandleInvalid, Refuse, Kinds, Codes
<1>4. CASE HandleWrite
  <2>1. OneCall' /\ s \in Session /\ inbox[s] = Null
    BY <1>1, <1>4 DEF HandleWrite, Kinds, Codes
  <2> QED
    BY <1>4, <2>1, AnswerInStep DEF HandleWrite, Kinds, Codes
<1>5. CASE HandleReadRequest
  <2>0. responses[s] # Null
    <3>1. daemon = "run" /\ s \in Session /\ inbox[s] = Null
      BY <1>1, <1>5 DEF HandleReadRequest, Kinds, Codes, Accept
    <3>2. responses[s] = owed[s] /\ owed[s] \in Seq(Value)
      BY <3>1 DEF InStep, Collects, RInv, QueuesOK
    <3> QED
      BY <3>2
  <2>1. PICK wiped \in SUBSET Fpga :
          /\ Accept("READ_REQUEST")
          /\ Scheduled(s, wiped)
          /\ regs' = Wiped(wiped)
          /\ LET fetched == regs'[lease'[s][1]][SlotMask(lease'[s][2], Head(backlog).addr)]
             IN  /\ responses' = [responses EXCEPT ![s] = Append(@, fetched)]
                 /\ owed' = [owed EXCEPT ![s] = Append(@, fetched)]
          /\ Answer(s, "READ_REQUEST", "SUCCESS", 0)
    BY <1>5, <2>0 DEF HandleReadRequest, Fails, Enqueue
  <2>2. OneCall' /\ s \in Session /\ inbox[s] = Null
    BY <1>1, <2>1 DEF Kinds, Codes
  <2>3. Head(backlog).addr \in Addr
    BY <2>1, AcceptHead DEF RInv, WellFormed
  <2>4. lease'[s][1] \in Fpga /\ SlotMask(lease'[s][2], Head(backlog).addr) \in Bar1
    BY <2>1, <2>2, <2>3, ScheduledKeepsLeases, MaskInBar1 DEF RInv, Place
  <2>5. regs' \in [Fpga -> [Bar1 -> Value]]
    BY <2>1, WipedType DEF RInv
  <2>6. regs'[lease'[s][1]][SlotMask(lease'[s][2], Head(backlog).addr)] \in Value
    BY <2>4, <2>5
  <2>7. \E x \in Value : /\ responses' = [responses EXCEPT ![s] = Append(@, x)]
                         /\ owed' = [owed EXCEPT ![s] = Append(@, x)]
    BY <2>1, <2>6
  <2> QED
    BY <2>1, <2>2, <2>7, AnswerInStep DEF Kinds, Codes
<1>6. CASE HandleReadResponse
  <2>1. responses[s] \notin {<<>>, Null} /\ s \in Session
    BY <1>6, AcceptHead DEF HandleReadResponse, RInv, Commands
  <2>2. Head(responses[s]) \in Value
    BY <2>1 DEF RInv, QueuesOK
  <2>3. OneCall'
    BY <1>1, <1>6, <2>2 DEF HandleReadResponse, Kinds, Codes
  <2> QED
    BY <1>6, <2>3, ReadResponseInStep
<1>7. CASE HandleEnd
  <2>1. OneCall'
    BY <1>7, OneCallAccept DEF HandleEnd, Accept
  <2> QED
    BY <1>7, <2>1 DEF HandleEnd, InStep, Collects
<1>8. ASSUME NEW t \in Session, Calls(t) PROVE OneCall' /\ InStep'
  <2>1. PICK c \in Commands : Connect(c)
    BY <1>8 DEF Calls, CallInit, CallEnd, CallWrite, CallReadRequest, CallReadResponse,
                Command, Commands, Kinds
  <2> QED
    BY <2>1, OneCallConnect DEF Connect, InStep, Collects
<1>13. ASSUME NEW t \in Session, Send(t) PROVE OneCall' /\ InStep'
  <2>1. OneCall'
    BY <1>13, SendEffect DEF Send, RInv, OneCall
  <2> QED
    BY <1>13, <2>1 DEF Send, InStep, Collects
<1>14. CASE HandleNothing
  <2>1. OneCall'
    BY <1>14, OneCallAccept DEF HandleNothing
  <2> QED
    BY <1>14, <2>1 DEF HandleNothing, InStep, Collects
<1>15. ~ HandleNoResponse
  <2> SUFFICES ASSUME HandleNoResponse PROVE FALSE
    OBVIOUS
  <2>1. /\ s \in Session /\ daemon = "run" /\ Head(backlog).kind = "READ_RESPONSE"
        /\ responses[s] \in {<<>>, Null}
    BY AcceptHead DEF HandleNoResponse, Accept, RInv, Commands
  <2>2. 1 \in 1 .. Len(backlog) /\ Head(backlog) = backlog[1]
    BY DEF HandleNoResponse, Accept, RInv, BacklogOK
  <2>3. owed[s] # <<>> /\ inbox[s] = Null
    BY <2>1, <2>2 DEF Asked, OneCall
  <2>4. responses[s] = owed[s] /\ owed[s] \in Seq(Value)
    BY <2>1, <2>3 DEF InStep, Collects, RInv, QueuesOK
  <2> QED
    BY <2>1, <2>3, <2>4
<1>9. ASSUME NEW t \in Session, Return(t) PROVE OneCall' /\ InStep'
  <2>1. UNCHANGED backlog /\ inbox' = [inbox EXCEPT ![t] = Null]
    BY <1>9 DEF Return
  <2>2. \A r \in Session : inbox[r] = Null => inbox'[r] = Null
    BY <2>1 DEF RInv, SocketOK
  <2>3. \A i \in 1 .. Len(backlog) : backlog[i].session \in Session
    <3>1. \A i \in 1 .. Len(backlog) : backlog[i] \in Commands
      BY DEF RInv, BacklogOK
    <3> QED
      BY <3>1 DEF Commands
  <2>4. OneCall'
    BY <2>1, <2>2, <2>3 DEF OneCall
  <2> QED
    BY <1>9, <2>4, ReturnInStep
<1>10. ASSUME UNCHANGED <<backlog, inbox, daemon, responses, owed>> PROVE OneCall' /\ InStep'
  BY <1>10 DEF OneCall, InStep, Collects
<1>11. ASSUME NEW t \in Session, Die(t) PROVE OneCall' /\ InStep'
  BY <1>10, <1>11 DEF Die
<1>12. CASE UNCHANGED all
  BY <1>10, <1>12 DEF all, calls
<1> QED
  BY <1>2, <1>3, <1>4, <1>5, <1>6, <1>7, <1>8, <1>9, <1>11, <1>12, <1>13, <1>14, <1>15
  DEF RNext, Handle, Calls

\* A read response has the value its own request fetched, in the order of the
\* requests, if no peek fails and no client asks for a response it has made no
\* request for.
THEOREM AnswersAlwaysInOrder ==
  ASSUME "peek" \notin Faults, "unasked" \notin Faults
  PROVE  RSpec => []AnswersInOrder
<1>1. RInv /\ OneCall /\ Asked /\ InStep /\ [RNext]_all => OneCall' /\ InStep'
  BY OrderStep
<1>2. RInv /\ OneCall /\ Asked /\ [RNext]_all => Asked'
  BY AskedStep
<1>3. RInit => OneCall /\ Asked /\ InStep
  BY DEF RInit, OneCall, Asked, InStep, Collects
<1>4. InStep => AnswersInOrder
  BY DEF InStep, Collects, AnswersInOrder
<1> QED
  BY <1>1, <1>2, <1>3, <1>4, RInitInv, RTypesStep, PTL DEF RSpec

-----------------------------------------------------------------------------
(* Bulk data: the sizes of the buffers and the operations that wait for    *)
(* the DMA engine.                                                         *)

\* A power of two counts the subsets of an interval: the one way here to reason
\* about an exponent that is not a number.
LEMMA PowerIs ==
  ASSUME NEW n \in Nat
  PROVE  /\ 2 ^ n = Cardinality(SUBSET (1 .. n)) /\ 2 ^ n \in Nat
         /\ IsFiniteSet(SUBSET (1 .. n))
<1>1. IsFiniteSet(1 .. n) /\ Cardinality(1 .. n) = n
  BY FS_Interval
<1>2. IsFiniteSet(SUBSET (1 .. n)) /\ Cardinality(SUBSET (1 .. n)) = 2 ^ Cardinality(1 .. n)
  BY <1>1, FS_SUBSET
<1>3. Cardinality(SUBSET (1 .. n)) \in Nat
  BY <1>2, FS_CardinalityType
<1>4. Cardinality(SUBSET (1 .. n)) = 2 ^ n
  BY <1>1, <1>2
<1> QED
  BY <1>2, <1>3, <1>4

LEMMA PowersGrow ==
  ASSUME NEW n \in Nat
  PROVE  2 ^ n <= 2 ^ (n + 1)
<1> DEFINE m == n + 1
<1>1. SUBSET (1 .. n) \subseteq SUBSET (1 .. m)
  OBVIOUS
<1>2. m \in Nat
  OBVIOUS
<1> HIDE DEF m
<1>3. /\ 2 ^ n = Cardinality(SUBSET (1 .. n))
      /\ 2 ^ m = Cardinality(SUBSET (1 .. m)) /\ IsFiniteSet(SUBSET (1 .. m))
  BY <1>2, PowerIs
<1>4. Cardinality(SUBSET (1 .. n)) <= Cardinality(SUBSET (1 .. m))
  BY <1>1, <1>3, FS_Subset
<1>5. 2 ^ n <= 2 ^ m
  BY <1>3, <1>4
<1> QED
  BY <1>5 DEF m

\* A non-empty set of naturals has a least element.
LEMMA LeastExists ==
  ASSUME NEW S \in SUBSET Nat, S # {}
  PROVE  \E m \in S : \A n \in S : m <= n
<1>1. IsWellFoundedOn(OpToRel(<, Nat), Nat)
  BY NatLessThanWellFounded
<1>2. PICK m \in S : \A n \in S : ~ (<<n, m>> \in OpToRel(<, Nat))
  BY <1>1, WFMin
<1>3. \A n \in S : ~ (n < m)
  BY <1>2 DEF OpToRel
<1> QED
  BY <1>3

LEMMA BytesType ==
  ASSUME NEW n \in Bytes
  PROVE  n \in Nat /\ MaxLog \in Nat /\ n <= 2 ^ MaxLog
BY PowerIs, BulkAssumption

LEMMA CeilLogIs ==
  ASSUME NEW n \in Bytes
  PROVE  CeilLog(n) \in 0 .. MaxLog /\ n <= 2 ^ CeilLog(n)
<1> DEFINE hits == {i \in 0 .. MaxLog : n <= 2 ^ i}
<1>1. MaxLog \in Nat /\ n \in Nat /\ n <= 2 ^ MaxLog
  BY BytesType
<1>2. hits \in SUBSET Nat /\ hits # {}
  <2>1. MaxLog \in 0 .. MaxLog
    BY <1>1
  <2>2. MaxLog \in hits
    BY <1>1, <2>1
  <2>3. hits \in SUBSET Nat
    OBVIOUS
  <2> QED
    BY <2>2, <2>3
<1>3. PICK i \in hits : \A j \in hits : i <= j
  BY <1>2, LeastExists
<1>4. \A j \in 0 .. i - 1 : 2 ^ j < n
  <2> TAKE j \in 0 .. i - 1
  <2>1. j \in 0 .. MaxLog /\ j \in Nat /\ ~ i <= j
    BY <1>1
  <2>2. 2 ^ j \in Nat
    BY <2>1, PowerIs
  <2> QED
    BY <1>1, <1>3, <2>1, <2>2
<1> QED
  BY <1>3, <1>4 DEF CeilLog

LEMMA SizesAreNumbers == \A size \in Sizes : size \in Nat
<1> SUFFICES ASSUME NEW j \in 0 .. MaxLog + 1 PROVE 2 ^ j \in Nat
  BY BulkAssumption DEF Sizes
<1>1. j \in Nat
  BY BulkAssumption
<1> QED
  BY <1>1, PowerIs

\* A buffer that was resized for a transfer is large enough for it.
LEMMA ResizedFits ==
  ASSUME NEW size \in Sizes, NEW n \in Bytes
  PROVE  Resized(size, n) \in Sizes /\ Resized(size, n) \in Nat /\ n <= Resized(size, n)
<1> DEFINE i == CeilLog(n)
<1>1. i \in Nat /\ n <= 2 ^ i /\ n \in Nat
  BY CeilLogIs, BytesType
<1> HIDE DEF i
<1>2. 2 ^ i \in Nat /\ 2 ^ (i + 1) \in Nat /\ 2 ^ i <= 2 ^ (i + 1)
  BY <1>1, PowerIs, PowersGrow
<1>3. NextPower(n) \in Nat /\ n <= NextPower(n)
  BY <1>1, <1>2 DEF NextPower, i
<1>4. NextPower(n) \in {2 ^ j : j \in 0 .. MaxLog + 1}
  <2>1. i \in 0 .. MaxLog + 1 /\ i + 1 \in 0 .. MaxLog + 1
    BY CeilLogIs, BytesType DEF i
  <2>2. NextPower(n) = 2 ^ i \/ NextPower(n) = 2 ^ (i + 1)
    BY DEF NextPower, i
  <2> QED
    BY <2>1, <2>2
<1>5. size \in Nat
  BY SizesAreNumbers
<1> QED
  BY <1>1, <1>3, <1>4, <1>5 DEF Resized, Sizes

\* The positions of a session's writes in the two queues of operations.
Writes(ids, types, s) == {i \in DOMAIN ids : ids[i] = s /\ types[i] = "WRITE"}

LEMMA WritesAppend ==
  ASSUME NEW ids \in Seq(BulkSession), NEW types \in Seq({"WRITE", "READ"}),
         Len(ids) = Len(types),
         NEW s \in BulkSession, NEW t \in BulkSession, NEW type \in {"WRITE", "READ"}
  PROVE  /\ Cardinality(Writes(ids, types, t)) \in Nat
         /\ Cardinality(Writes(Append(ids, s), Append(types, type), t))
              = Cardinality(Writes(ids, types, t)) + IF s = t /\ type = "WRITE" THEN 1 ELSE 0
<1> DEFINE n   == Len(ids)
           old == Writes(ids, types, t)
           new == Writes(Append(ids, s), Append(types, type), t)
<1>1. n \in Nat /\ DOMAIN ids = 1 .. n /\ DOMAIN Append(ids, s) = 1 .. (n + 1)
  OBVIOUS
<1>2. /\ \A i \in 1 .. n : Append(ids, s)[i] = ids[i] /\ Append(types, type)[i] = types[i]
      /\ Append(ids, s)[n + 1] = s /\ Append(types, type)[n + 1] = type
  OBVIOUS
<1>3. old \subseteq 1 .. n /\ n + 1 \notin old
  BY <1>1 DEF Writes
<1>4. IsFiniteSet(old) /\ Cardinality(old) \in Nat
  <2>1. IsFiniteSet(1 .. n)
    BY <1>1, FS_Interval
  <2>2. IsFiniteSet(old)
    BY <1>3, <2>1, FS_Subset
  <2> QED
    BY <2>2, FS_CardinalityType
<1>5. \A i \in 1 .. (n + 1) : i \in 1 .. n \/ i = n + 1
  BY <1>1
<1>6. \A i \in 1 .. n : i \in 1 .. (n + 1)
  BY <1>1
<1>7. n + 1 \in 1 .. (n + 1)
  BY <1>1
<1>8. new = IF s = t /\ type = "WRITE" THEN old \cup {n + 1} ELSE old
  <2>1. \A i \in 1 .. n : i \in new <=> i \in old
    BY <1>1, <1>2, <1>6 DEF Writes
  <2>2. n + 1 \in new <=> s = t /\ type = "WRITE"
    BY <1>1, <1>2, <1>7 DEF Writes
  <2>3. new \subseteq 1 .. (n + 1)
    BY <1>1 DEF Writes
  <2> HIDE DEF new, old, n
  <2>4. \A i : i \in new <=> i \in old \/ (i = n + 1 /\ s = t /\ type = "WRITE")
    BY <1>3, <1>5, <2>1, <2>2, <2>3
  <2>5. CASE s = t /\ type = "WRITE"
    BY <2>4, <2>5
  <2>6. CASE ~ (s = t /\ type = "WRITE")
    BY <2>4, <2>6
  <2> QED
    BY <2>5, <2>6
<1>9. Cardinality(old \cup {n + 1}) = Cardinality(old) + 1
  BY <1>3, <1>4, FS_AddElement
<1> HIDE DEF new, old, n
<1>10. Cardinality(new) = Cardinality(old) + IF s = t /\ type = "WRITE" THEN 1 ELSE 0
  BY <1>4, <1>8, <1>9
<1> QED
  BY <1>4, <1>10 DEF old, new

BulkInv == BulkOK /\ TransferFits /\ PendingMatchesBuffers

LEMMA BulkInitInv == BulkInit => BulkInv
<1> SUFFICES ASSUME BulkInit PROVE BulkInv
  OBVIOUS
<1>1. BulkOK
  BY BulkAssumption DEF BulkInit, BulkOK, FreshBuffer, BulkCodes, Sizes
<1>2. TransferFits
  BY DEF BulkInit, TransferFits, FreshBuffer
<1>3. PendingMatchesBuffers
  <2>1. \A s : {i \in DOMAIN pending_id : pending_id[i] = s /\ pending_type[i] = "WRITE"} = {}
    BY DEF BulkInit
  <2> QED
    BY <2>1, FS_EmptySet DEF BulkInit, PendingMatchesBuffers, FreshBuffer
<1> QED
  BY <1>1, <1>2, <1>3 DEF BulkInv

LEMMA WriteAcceptedInv ==
  ASSUME BulkInv, NEW s \in BulkSession, WriteAccepted(s)
  PROVE  BulkInv'
<1> DEFINE n == wants[s]
           size == Resized(write_buffer[s].size, n)
           filled == [size |-> size, busy |-> TRUE, valid |-> n]
<1>1. BulkOK /\ n \in Bytes /\ n \in Nat /\ ~ write_buffer[s].busy
  <2>1. BulkOK /\ wants[s] # 0 /\ ~ write_buffer[s].busy
    BY DEF BulkInv, WriteAccepted, FillBuffer
  <2>2. n \in Bytes
    BY <2>1 DEF BulkOK
  <2>3. n \in Nat
    BY <2>2, BytesType
  <2> QED
    BY <2>1, <2>2, <2>3
<1>2. size \in Sizes /\ n <= size
  BY <1>1, ResizedFits DEF BulkOK
<1> HIDE DEF size
<1>3. write_buffer' = [write_buffer EXCEPT ![s] = filled]
  BY DEF WriteAccepted, FillBuffer, size
<1>4. /\ pending_id' = Append(pending_id, s) /\ pending_type' = Append(pending_type, "WRITE")
      /\ wants' = [wants EXCEPT ![s] = 0] /\ reply' = [reply EXCEPT ![s] = "SUCCESS"]
      /\ UNCHANGED <<open, read_size, reading>>
  BY DEF WriteAccepted, Push, Reply
<1>5. BulkOK'
  <2>1. filled \in [size : Sizes, busy : BOOLEAN, valid : Nat]
    BY <1>1, <1>2
  <2>2. write_buffer' \in [BulkSession -> [size : Sizes, busy : BOOLEAN, valid : Nat]]
    BY <1>1, <1>3, <2>1 DEF BulkOK
  <2>3. /\ pending_id' \in Seq(BulkSession) /\ pending_type' \in Seq({"WRITE", "READ"})
        /\ wants' \in [BulkSession -> Bytes \cup {0}]
        /\ reply' \in [BulkSession -> BulkCodes]
    BY <1>1, <1>4 DEF BulkOK, BulkCodes
  <2> QED
    BY <1>1, <1>4, <2>2, <2>3 DEF BulkOK
<1>6. \A t \in BulkSession : write_buffer'[t] = IF t = s THEN filled ELSE write_buffer[t]
  BY <1>1, <1>3 DEF BulkOK
<1>7. TransferFits'
  BY <1>2, <1>6 DEF BulkInv, TransferFits
<1>8. PendingMatchesBuffers'
  <2>1. Len(pending_id') = Len(pending_type')
    BY <1>1, <1>4 DEF BulkOK, BulkInv, PendingMatchesBuffers
  <2> SUFFICES ASSUME NEW t \in BulkSession
               PROVE  Cardinality(Writes(pending_id', pending_type', t))
                        = IF write_buffer'[t].busy THEN 1 ELSE 0
    BY <2>1 DEF PendingMatchesBuffers, Writes
  <2>2. Cardinality(Writes(pending_id, pending_type, t)) = IF write_buffer[t].busy THEN 1 ELSE 0
    BY DEF BulkInv, PendingMatchesBuffers, Writes
  <2>3. Cardinality(Writes(pending_id', pending_type', t))
          = Cardinality(Writes(pending_id, pending_type, t)) + IF s = t THEN 1 ELSE 0
    BY <1>1, <1>4, WritesAppend DEF BulkOK, BulkInv, PendingMatchesBuffers
  <2> QED
    BY <1>1, <1>6, <2>2, <2>3
<1> QED
  BY <1>5, <1>7, <1>8 DEF BulkInv

LEMMA ReadRequestInv ==
  ASSUME BulkInv, NEW s \in BulkSession, NEW n \in Bytes, ReadRequest(s, n)
  PROVE  BulkInv'
<1>1. BulkOK /\ n \in Bytes
  BY DEF BulkInv
<1>2. /\ pending_id' = Append(pending_id, s) /\ pending_type' = Append(pending_type, "READ")
      /\ read_size' = [read_size EXCEPT ![s] = Resized(read_size[s], n)]
      /\ reading' = [reading EXCEPT ![s] = TRUE] /\ reply' = [reply EXCEPT ![s] = "SUCCESS"]
      /\ UNCHANGED <<open, write_buffer, wants>>
  BY DEF ReadRequest, Push, Reply
<1>3. BulkOK'
  <2>1. Resized(read_size[s], n) \in Sizes
    BY <1>1, ResizedFits DEF BulkOK
  <2>2. read_size' \in [BulkSession -> Sizes]
    BY <1>1, <1>2, <2>1 DEF BulkOK
  <2>3. /\ pending_id' \in Seq(BulkSession) /\ pending_type' \in Seq({"WRITE", "READ"})
        /\ reading' \in [BulkSession -> BOOLEAN]
        /\ reply' \in [BulkSession -> BulkCodes]
    BY <1>1, <1>2 DEF BulkOK, BulkCodes
  <2> QED
    BY <1>1, <1>2, <2>2, <2>3 DEF BulkOK
<1>4. TransferFits'
  BY <1>2 DEF BulkInv, TransferFits
<1>5. PendingMatchesBuffers'
  <2>1. Len(pending_id') = Len(pending_type')
    BY <1>1, <1>2 DEF BulkOK, BulkInv, PendingMatchesBuffers
  <2> SUFFICES ASSUME NEW t \in BulkSession
               PROVE  Cardinality(Writes(pending_id', pending_type', t))
                        = IF write_buffer'[t].busy THEN 1 ELSE 0
    BY <2>1 DEF PendingMatchesBuffers, Writes
  <2>2. Cardinality(Writes(pending_id, pending_type, t)) = IF write_buffer[t].busy THEN 1 ELSE 0
    BY DEF BulkInv, PendingMatchesBuffers, Writes
  <2>3. Cardinality(Writes(pending_id', pending_type', t))
          = Cardinality(Writes(pending_id, pending_type, t))
    <3>1. /\ Cardinality(Writes(pending_id, pending_type, t)) \in Nat
          /\ Cardinality(Writes(pending_id', pending_type', t))
               = Cardinality(Writes(pending_id, pending_type, t)) + 0
      BY <1>1, <1>2, WritesAppend DEF BulkOK, BulkInv, PendingMatchesBuffers
    <3> QED
      BY <3>1
  <2> QED
    BY <1>2, <2>2, <2>3
<1> QED
  BY <1>3, <1>4, <1>5 DEF BulkInv

\* The other calls change neither a write buffer nor a queue.
LEMMA BulkQuietInv ==
  ASSUME BulkInv, BulkOK', UNCHANGED <<write_buffer, pending>>
  PROVE  BulkInv'
<1>1. TransferFits'
  BY DEF BulkInv, TransferFits
<1>2. PendingMatchesBuffers'
  BY DEF BulkInv, PendingMatchesBuffers, pending
<1> QED
  BY <1>1, <1>2 DEF BulkInv

LEMMA BulkStepInv == BulkInv /\ [BulkNext]_bulk => BulkInv'
<1> SUFFICES ASSUME BulkInv, [BulkNext]_bulk PROVE BulkInv'
  OBVIOUS
<1>1. BulkOK
  BY DEF BulkInv
<1>2. ASSUME NEW s \in BulkSession,
             InitiateSession(s) \/ EndSession(s) \/ WriteRefused(s) \/ WriteRetry(s)
               \/ ReadResponse(s) \/ ReadRefused(s)
      PROVE  BulkInv'
  <2>1. BulkOK'
    BY <1>1, <1>2 DEF BulkOK, BulkCodes, pending, Reply,
       InitiateSession, EndSession, WriteRefused, WriteRetry, ReadResponse, ReadRefused
  <2>2. UNCHANGED <<write_buffer, pending>>
    BY <1>2 DEF InitiateSession, EndSession, WriteRefused, WriteRetry, ReadResponse, ReadRefused
  <2> QED
    BY <2>1, <2>2, BulkQuietInv
<1>3. ASSUME NEW s \in BulkSession, NEW n \in Bytes, WantToWrite(s, n)
      PROVE  BulkInv'
  <2>1. BulkOK' /\ UNCHANGED <<write_buffer, pending>>
    BY <1>1, <1>3 DEF BulkOK, pending, WantToWrite
  <2> QED
    BY <2>1, BulkQuietInv
<1>4. CASE UNCHANGED bulk
  <2>1. BulkOK' /\ UNCHANGED <<write_buffer, pending>>
    BY <1>1, <1>4 DEF BulkOK, pending, bulk
  <2> QED
    BY <2>1, BulkQuietInv
<1> QED
  BY <1>2, <1>3, <1>4, WriteAcceptedInv, ReadRequestInv DEF BulkNext, Write

LEMMA BulkAlways == BulkSpec => []BulkInv
BY BulkInitInv, BulkStepInv, PTL DEF BulkSpec

\* The bulk data calls keep their records well typed.
THEOREM BulkTypeCorrect == BulkSpec => []BulkOK
<1>1. BulkInv => BulkOK
  BY DEF BulkInv
<1> QED
  BY <1>1, BulkAlways, PTL

\* The daemon never reads more bytes from the socket than the write buffer that
\* was resized for them has, whatever their number, and also where the rounding
\* of the logarithm doubles the buffer.
THEOREM TransferAlwaysFits == BulkSpec => []TransferFits
<1>1. BulkInv => TransferFits
  BY DEF BulkInv
<1> QED
  BY <1>1, BulkAlways, PTL

\* The two queues of pending operations go together, and a session's write is in
\* them exactly once while its buffer is busy with it, and else not at all.
THEOREM PendingAlwaysMatchesBuffers == BulkSpec => []PendingMatchesBuffers
<1>1. BulkInv => PendingMatchesBuffers
  BY DEF BulkInv
<1> QED
  BY <1>1, BulkAlways, PTL

=============================================================================
