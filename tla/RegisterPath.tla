---------------------------- MODULE RegisterPath ----------------------------
(***************************************************************************)
(* Register accesses from the client's call to the register in its slot:   *)
(* class aos_client, the Unix socket, the CNTRLREG handlers of aos_host    *)
(* with their per-session queues, and the slots' registers on BAR1.        *)
(*                                                                         *)
(* Which slot a session gets is left to SlotLease, which the scheduler     *)
(* implements (HostScheduler, ImplementsLease).  A call is a connection:   *)
(* the client connects, then writes its one command, and the daemon serves *)
(* the connections in the order of the connects; other clients' calls come *)
(* in between, and one that does not write keeps the daemon waiting.       *)
(*                                                                         *)
(* An app's register keeps what was last written to it and is 0 in a fresh *)
(* image.  The slot's part of the BAR1 window is the same for every app.   *)
(***************************************************************************)
EXTENDS SlotLease, Integers, Sequences

CONSTANTS
  Addr,       (* register addresses of the calls, 64-bit aligned          *)
  Value,      (* what is written; 0 is what a fresh register holds        *)
  SlotSpan,   (* 2^13, the part of the BAR1 window a slot has             *)
  MaxOwed,    (* bound: no read is requested with so many not collected   *)
  Faults      (* a subset of AccessFaults                                 *)

AccessFaults ==
  { "poke",     \* fpga_pci_poke fails at the first half of a write
    "peek",     \* fpga_pci_peek fails at the first half of a read
    "client",   \* a client dies during a call
    "unasked" } \* a client asks for a response it has made no request for

Kinds    == {"INIT", "END", "WRITE", "READ_REQUEST", "READ_RESPONSE"}
Codes    == {"SUCCESS", "INVALID_SESSION_ID", "UNKNOWN_FAILURE"}
Commands == [session : Session, kind : Kinds, addr : Addr \cup App \cup {Null},
             data : Value \cup {Null}, sent : BOOLEAN]
Packets  == [to : Kinds, code : Codes, data : Value]

ASSUME RegisterAssumption ==
  /\ Slot \subseteq 0 .. 7
  /\ SlotSpan \in Nat \ {0}
  /\ Addr \subseteq 0 .. 8 * SlotSpan - 1
  /\ 0 \in Value /\ Null \notin Value \cup Packets \cup Seq(Value)
  /\ MaxOwed \in Nat \ {0}
  /\ Faults \subseteq AccessFaults

VARIABLES
  daemon,      \* "run" or "down"
  backlog,     \* connections in the order of connect, and whether the client
               \* has sent the command already
  inbox,       \* session -> the response packet its client has yet to read
  client,      \* session -> "new", "open", "ended" or "dead"
  responses,   \* cntrlreg_read_response_queue, a session's queue being Null
               \* after a pop when it was empty
  regs,        \* FPGA -> BAR1 address -> value
  owed,        \* history: session -> what its accepted reads have fetched
  wrote        \* history: session -> address -> what it last wrote in its slot

leases == <<issued, app, lease, config>>
calls  == <<backlog, inbox, client>>
all    == <<leases, daemon, calls, responses, regs, owed, wrote>>

-----------------------------------------------------------------------------
(* applySlotMaskForBAR1: the slot's number is or-ed over the address.      *)

Bits(n)  == {b \in {1, 2, 4} : (n \div b) % 2 = 1}
Or(k, j) == CHOOSE n \in 0 .. 7 : Bits(n) = Bits(k) \cup Bits(j)

\* Wrong variant: every slot at the start of the window.
NoSlotMask(k, a) == <<0, a % SlotSpan>>

SlotMask(k, a) == <<Or(k, a \div SlotSpan), a % SlotSpan>>

Bar1 == {SlotMask(k, a) : k \in Slot, a \in Addr}

Nothing == [a \in Addr |-> Null]

\* main has put the default image on every FPGA before the socket is opened.
RInit ==
  /\ issued = {}
  /\ app = [s \in Session |-> Null]
  /\ lease = [s \in Session |-> Null]
  /\ \E image \in Image : config = [f \in Fpga |-> image]
  /\ daemon = "run"
  /\ backlog = <<>>
  /\ inbox = [s \in Session |-> Null]
  /\ client = [s \in Session |-> "new"]
  /\ responses = [s \in Session |-> <<>>]
  /\ regs = [f \in Fpga |-> [w \in Bar1 |-> 0]]
  /\ owed = [s \in Session |-> <<>>]
  /\ wrote = [s \in Session |-> Nothing]

-----------------------------------------------------------------------------
(* The client: one call at a time, each on a connection of its own.        *)

Unanswered(c) == c.kind # "END" \/ ~ c.sent

Busy(s) ==
  \/ inbox[s] # Null
  \/ \E i \in DOMAIN backlog : backlog[i].session = s /\ Unanswered(backlog[i])

Command(s, kind, a, v) ==
  [session |-> s, kind |-> kind, addr |-> a, data |-> v, sent |-> FALSE]

Connect(c) ==
  /\ daemon = "run" /\ ~ Busy(c.session)
  /\ backlog' = Append(backlog, c)
  /\ UNCHANGED <<leases, daemon, inbox, responses, regs, owed, wrote>>

CallInit(s) ==
  /\ client[s] = "new"
  /\ \E a \in App : Connect(Command(s, "INIT", a, Null))
  /\ UNCHANGED client

\* The client leaves without an answer, and may go on with its old session id.
CallEnd(s) ==
  /\ client[s] = "open"
  /\ Connect(Command(s, "END", Null, Null))
  /\ client' = [client EXCEPT ![s] = "ended"]

CallWrite(s) ==
  /\ client[s] \in {"open", "ended"}
  /\ \E a \in Addr, v \in Value : Connect(Command(s, "WRITE", a, v))
  /\ UNCHANGED client

CallReadRequest(s) ==
  /\ client[s] \in {"open", "ended"}
  /\ Len(owed[s]) < MaxOwed
  /\ responses[s] # Null => Len(responses[s]) < MaxOwed
  /\ \E a \in Addr : Connect(Command(s, "READ_REQUEST", a, Null))
  /\ UNCHANGED client

\* aos_cntrlreg_read goes on to the response of a request that was answered
\* SUCCESS; nothing keeps a client from calling for a response without one.
CallReadResponse(s) ==
  /\ client[s] \in {"open", "ended"}
  /\ owed[s] # <<>> \/ "unasked" \in Faults
  /\ Connect(Command(s, "READ_RESPONSE", Null, Null))
  /\ UNCHANGED client

\* writeCommandPacket, some time after the connect.
Send(s) ==
  /\ daemon = "run" /\ client[s] # "dead"
  /\ \E i \in DOMAIN backlog :
       /\ backlog[i].session = s /\ ~ backlog[i].sent
       /\ backlog' = [backlog EXCEPT ![i].sent = TRUE]
  /\ UNCHANGED <<leases, daemon, inbox, client, responses, regs, owed, wrote>>

Return(s) ==
  /\ inbox[s] # Null /\ client[s] # "dead"
  /\ inbox' = [inbox EXCEPT ![s] = Null]
  /\ client' = [client EXCEPT ![s] = IF @ = "new" THEN "open" ELSE @]
  /\ owed' = [owed EXCEPT ![s] =
                IF inbox[s].to = "READ_RESPONSE" /\ @ # <<>> THEN Tail(@) ELSE @]
  /\ UNCHANGED <<leases, daemon, backlog, responses, regs, wrote>>

Die(s) ==
  /\ "client" \in Faults /\ Busy(s)
  /\ client' = [client EXCEPT ![s] = "dead"]
  /\ UNCHANGED <<leases, daemon, backlog, inbox, responses, regs, owed, wrote>>

-----------------------------------------------------------------------------
(* The daemon: accept, read the command, handle it, answer, close.         *)

\* The read after the accept blocks until the client has sent its command.
Accept(kind) ==
  /\ daemon = "run" /\ backlog # <<>>
  /\ Head(backlog).kind = kind /\ Head(backlog).sent
  /\ backlog' = Tail(backlog)
  /\ UNCHANGED client

\* The client of the connection has died without sending: the read returns 0
\* bytes and the packet keeps the last command, which is handled once more and
\* ends the daemon, with the answer to the dead client or, when it was an
\* END_SESSION, by the session that is no longer there.  Before the first
\* command the packet is uninitialized and may be of no known type.
HandleNothing ==
  /\ daemon = "run" /\ backlog # <<>>
  /\ ~ Head(backlog).sent /\ client[Head(backlog).session] = "dead"
  /\ backlog' = Tail(backlog)
  /\ daemon' = "down" \/ (issued = {} /\ UNCHANGED daemon)
  /\ UNCHANGED <<leases, inbox, client, responses, regs, owed, wrote>>

\* Writing to a socket whose peer is gone raises SIGPIPE, which nobody handles.
Answer(s, kind, code, v) ==
  IF client[s] = "dead"
  THEN daemon' = "down" /\ UNCHANGED inbox
  ELSE /\ inbox' = [inbox EXCEPT ![s] = [to |-> kind, code |-> code, data |-> v]]
       /\ UNCHANGED daemon

HandleInit ==
  /\ Accept("INIT")
  /\ LET c == Head(backlog)
     IN  /\ Open(c.session, c.addr)
         /\ Answer(c.session, "INIT", "SUCCESS", 0)
  /\ UNCHANGED <<responses, regs, owed, wrote>>

HandleEnd ==
  /\ Accept("END")
  /\ LET s == Head(backlog).session
     IN  /\ Close(s)
         /\ wrote' = [wrote EXCEPT ![s] = Nothing]
  /\ UNCHANGED <<daemon, inbox, responses, regs, owed>>

\* Wrong variant: the invalid session is not told.
RefuseSilently(s, kind) == UNCHANGED <<daemon, inbox>>

Refuse(s, kind) == Answer(s, kind, "INVALID_SESSION_ID", 0)

HandleInvalid ==
  /\ \E kind \in {"WRITE", "READ_REQUEST"} :
       /\ Accept(kind)
       /\ LET s == Head(backlog).session IN app[s] = Null /\ Refuse(s, kind)
  /\ UNCHANGED <<leases, responses, regs, owed, wrote>>

\* isSessionScheduled, and handleScheduling when it is not: s has a place in the
\* next state.  The FPGAs that got an image for it are wiped.
Scheduled(s, wiped) ==
  \/ /\ lease[s] # Null /\ wiped = {}
     /\ UNCHANGED leases
  \/ /\ wiped = {}
     /\ \E p \in Place : Grant(s, p) \/ \E t \in Session : Take(s, t, p)
  \/ \E p \in Place : Reconfigure(s, p) /\ wiped = {p[1]}

\* Wrong variant: the image says nothing of what its registers hold at first.
WipedUndefined(wiped) ==
  [f \in Fpga |-> IF f \in wiped THEN [w \in Bar1 |-> Null] ELSE regs[f]]

Wiped(wiped) ==
  [f \in Fpga |-> IF f \in wiped THEN [w \in Bar1 |-> 0] ELSE regs[f]]

\* What sessions wrote in slots they have lost is of no more interest.
StillWrote ==
  [t \in Session |-> IF lease'[t] = lease[t] THEN wrote[t] ELSE Nothing]

Fails(kind) == IF kind \in Faults THEN BOOLEAN ELSE {FALSE}

HandleWrite ==
  /\ Accept("WRITE")
  /\ \E wiped \in SUBSET Fpga, failed \in Fails("poke") :
       LET c == Head(backlog)
           s == c.session
       IN  /\ app[s] # Null
           /\ Scheduled(s, wiped)
           /\ LET p == lease'[s]
              IN  regs' = IF failed THEN Wiped(wiped)
                          ELSE [Wiped(wiped) EXCEPT ![p[1]][SlotMask(p[2], c.addr)] = c.data]
           /\ wrote' = [StillWrote EXCEPT ![s][c.addr] = c.data]
           /\ Answer(s, "WRITE", "SUCCESS", 0)
  /\ UNCHANGED <<responses, owed>>

\* Wrong variant: the newest response is the next to be collected.
EnqueueFirst(s, v) ==
  responses' = [responses EXCEPT ![s] = IF @ = Null THEN Null ELSE <<v>> \o @]

Enqueue(s, v) ==
  responses' = [responses EXCEPT ![s] = IF @ = Null THEN Null ELSE Append(@, v)]

\* The request fetches the value at once.  When the fetch fails, what the
\* uninitialized read_value_ holds is queued all the same.
HandleReadRequest ==
  /\ Accept("READ_REQUEST")
  /\ \E wiped \in SUBSET Fpga, failed \in Fails("peek") :
       LET s == Head(backlog).session
       IN  /\ app[s] # Null
           /\ Scheduled(s, wiped)
           /\ regs' = Wiped(wiped)
           /\ LET p       == lease'[s]
                  fetched == regs'[p[1]][SlotMask(p[2], Head(backlog).addr)]
              IN  IF failed
                  THEN /\ \E garbage \in Value : Enqueue(s, garbage)
                       /\ Answer(s, "READ_REQUEST", "UNKNOWN_FAILURE", 0)
                       /\ UNCHANGED owed
                  ELSE /\ Enqueue(s, fetched)
                       /\ Answer(s, "READ_REQUEST", "SUCCESS", 0)
                       /\ owed' = [owed EXCEPT ![s] = Append(@, fetched)]
  /\ wrote' = StillWrote

\* Whether the session is still valid is not asked.
HandleReadResponse ==
  /\ Accept("READ_RESPONSE")
  /\ LET s == Head(backlog).session
     IN  /\ responses[s] \notin {<<>>, Null}
         /\ responses' = [responses EXCEPT ![s] = Tail(@)]
         /\ Answer(s, "READ_RESPONSE", "SUCCESS", Head(responses[s]))
  /\ UNCHANGED <<leases, regs, owed, wrote>>

\* An empty queue is reported and then popped all the same, which is undefined:
\* the daemon goes down, or answers with anything and the queue is spoilt.
HandleNoResponse ==
  /\ Accept("READ_RESPONSE")
  /\ LET s == Head(backlog).session
     IN  /\ responses[s] \in {<<>>, Null}
         /\ \/ daemon' = "down" /\ UNCHANGED <<inbox, responses>>
            \/ /\ responses' = [responses EXCEPT ![s] = Null]
               /\ \E garbage \in Value : Answer(s, "READ_RESPONSE", "SUCCESS", garbage)
  /\ UNCHANGED <<leases, regs, owed, wrote>>

Handle ==
  \/ HandleNothing \/ HandleInit \/ HandleEnd \/ HandleInvalid
  \/ HandleWrite \/ HandleReadRequest \/ HandleReadResponse \/ HandleNoResponse

RNext ==
  \/ Handle
  \/ \E s \in Session :
       \/ CallInit(s) \/ CallEnd(s) \/ CallWrite(s)
       \/ CallReadRequest(s) \/ CallReadResponse(s)
       \/ Send(s) \/ Return(s) \/ Die(s)

RSpec == RInit /\ [][RNext]_all

\* listen_loop goes on as long as the daemon lives and is not waiting in a read.
\* No client has to make a call, to send its command or to read its answer.
FairSpec == RSpec /\ WF_all(Handle)

-----------------------------------------------------------------------------
RegistersOK ==
  /\ TypeOK
  /\ daemon \in {"run", "down"}
  /\ backlog \in Seq(Commands)
  /\ inbox \in [Session -> Packets \cup {Null}]
  /\ client \in [Session -> {"new", "open", "ended", "dead"}]
  /\ responses \in [Session -> Seq(Value) \cup {Null}]
  /\ regs \in [Fpga -> [Bar1 -> Value]]
  /\ owed \in [Session -> Seq(Value)]
  /\ wrote \in [Session -> [Addr -> Value \cup {Null}]]

\* A read response has the value that its own request fetched, in the order of
\* the requests, whatever other sessions do in between and also when the slot
\* has been lost since ("decouples request from response", host/README.md).
AnswersInOrder ==
  \A s \in Session :
    inbox[s] # Null /\ inbox[s].to = "READ_RESPONSE" =>
      owed[s] # <<>> /\ inbox[s].data = Head(owed[s])

\* A register of a session's slot holds what the session has last written to
\* it with success since it got the slot: no access of another session, in
\* this slot or in another one of the FPGA, gets there.
WritesKept ==
  \A s \in Session, a \in Addr :
    lease[s] # Null /\ wrote[s][a] # Null =>
      regs[lease[s][1]][SlotMask(lease[s][2], a)] = wrote[s][a]

\* A call of s is on its way, its command sent.
Called(s) ==
  \E i \in DOMAIN backlog :
    backlog[i].session = s /\ backlog[i].kind # "END" /\ backlog[i].sent

\* The daemon waits for the command of another client, which lives.
HeldUp(s) ==
  /\ backlog # <<>>
  /\ ~ Head(backlog).sent
  /\ Head(backlog).session # s /\ client[Head(backlog).session] # "dead"

\* The daemon answers every command that has been sent, whatever the others
\* before it ask for, unless it goes down, the client dies, or one other client
\* has connected and never sends its command: listen_loop's read has no timeout.
CallsAnswered ==
  \A s \in Session :
    Called(s) ~> \/ inbox[s] # Null \/ client[s] = "dead" \/ daemon = "down"
                 \/ []HeldUp(s)
=============================================================================
