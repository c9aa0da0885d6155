# AmorphOS in TLA+

AmorphOS shares FPGAs among applications. A host daemon hands out *slots* of the
images that are loaded on the FPGAs to client sessions, and logic on each FPGA
(the *hull*) gives the app in a slot its registers, its memory and its PCIe
traffic. This directory models the program, checks the models with TLC and proves
theorems about them with TLAPS. Every definition that models code names its
lines in `PROJECT.json` (`map`).

## 1. Inventory

### Host (`src/src/host`)

| component | state | operations | what is hard | what makes it correct |
|---|---|---|---|---|
| `aos_host`, scheduling (`include/aos_daemon.h`), `aos_scheduler` | `sessions`, `slot_session_map`, `slot_appid_map`, `next_session_id`, `current_image`, `interfaces_enabled`, the attached BARs | start a session, end it, schedule it on its first access, switch an image | one binding in two maps; the order of the scan; results of clear, load and attach dropped; asserts | the two records agree; a session's slot is of its app; scheduling always succeeds; no needless eviction |
| `aos_host`, CNTRLREG handlers | `cntrlreg_read_request_queue`, `cntrlreg_read_response_queue` | write, read request, read response | calls of several clients and pre-emptions between a request and its response; failing pokes and peeks; a client that dies, or connects and stays silent | every response carries what its own request fetched; writes stay in the session's slot; commands are answered |
| `aos_host`, BULKDATA handlers, `aos_app_session` | DMA buffers (size, busy, valid bytes), the two pending queues | write, read request, read response | boundary of the resize; busy buffers; short reads of the socket | a transfer fits its buffer; the queues match the buffers |
| `aos_client` (`include/aos.h`) | session id, one socket per call | the nine calls | read request and response are two calls | as above |

The daemon is one thread: `listen_loop` accepts a connection, waits for its one command
in a `read` without a timeout, handles it to the end and closes the connection. Clients are
processes of their own, whose connections wait in the socket's backlog; a client connects and then
writes its command. Scheduling happens inside a register access.

### FPGA, independent of the board (`src/src/fpga/src`)

| component | state | operations | what is hard | what makes it correct |
|---|---|---|---|---|
| `SoftFIFO`, `FIFO` | ring buffer, two pointers, a counter | enqueue, dequeue, both in one cycle | full and empty, wrap-around | it is a bounded queue |
| `AmorphOSSoftReg` (+ `_RouteTree`) | a response queue per app, the arbiter's state | route a request by its address, arbitrate the responses | responses dropped when a queue is full; responses of two apps in an order the host does not expect | every read is answered once, by the app it addressed, each app's in order |
| `RRWCArbiter`, `TwoInputArbiter`, `FourInputArbiter`, one-hot muxes | `last_serviced` in every node of a tree | grant | an inner node does not know whether it will be granted: starvation | one grant in a cycle with a request; each requester gets its turn before any other has had two |
| `AmorphOSMem`: `AddressTranslate`, `AppLevelTranslate`, `ChannelMerge`, `ChannelArbiter`, `RespMerge` | request, translation, tag and response queues per app, port and channel | translate, select the channel, merge, arbitrate, put responses back in order | responses of several channels out of order; a full queue of one app in the way of another | responses in request order, with what the port wrote before, never from another app; an app that stops reading does not stop the others |
| `BlockBuffer` | one block of sectors, its state, two queues | read, write, fetch, write back | a modified block makes room for another and comes back; response queue full | it is a memory of sectors |
| `AmorphOSPCIE` | packet queues, a lock on the responding app | route packets | a lock held for ever | packets whole and to their slot |
| `AMI2SimpleDRAM`, `AmorphOSMem2SDRAM`, `SimSimpleDram` | request queues | protocol conversion | stalls | one response per read, in order |
| `MemDrive`, `MemDrive_SoftReg` | test app | | | |

### AWS F1 (`src/src/system/f1`)

| component | state | operations | what is hard | what makes it correct |
|---|---|---|---|---|
| `AXIL2SR` (+ `_Extended`) | six queues, half selects, credits | pair 32-bit accesses of BAR1 to 64-bit SoftReg requests, split responses | two channels that run apart; halves; credits | pairs are the host's pairs; halves come back in order |
| `AMI2AXI4` (`RdPath`, `WrPath`) | four queues, three credit counts | AMI to AXI4 | address and data accepted in different cycles; gain and loss of a credit at one edge | one AXI transfer per request; data after its address; the credits are what the controller owes |
| `PCIS2ABD` (`RdPath`, `WrPath`), `DMA_PCIS_CONTROLLER`, `DMA_PCIM_CONTROLLER`, bridges | bursts under way, id queues | AXI4 bursts from the host | ids, last beats | one response per burst |
| `SR_Splitter`, `OCL_BAR0_CONTROLLER`, `amorphos_cl.sv`, `cl_aos.sv` | none | wiring (`SR_Splitter` is an empty body) | | |

## 2. Plan

1. *Host scheduler*: `SlotScan`, `SlotScanLoop`, `SlotLease`, `HostScheduler`, and
   the proofs of their invariants and of the refinement. **Done.**
2. *Register accesses on the host*: `RegisterPath` on top of `SlotLease`. **Done.**
3. *Bulk data on the host*: `BulkData`. **Done.**
4. *FIFOs*: a bounded queue as the abstract specification, `SoftFIFO` as its
   implementation, proved for every depth; the other hardware modules use the
   abstract queue. **Done.**
5. *SoftReg path of the FPGA*: `AXIL2SR` and its proofs, `Arbiter`, `AmorphOSSoftReg` and its proofs. **Done.**
6. *Memory path*: `AmorphOSMem` with all its units, `AMI2AXI4` behind it, `BlockBuffer` in front of
   it with `SectorMemory` as its promise, and the proofs about the three. **Done.**
7. *What proofs are left*: the types and the order of reads of `AXIL2SR_Extended`, whose queue between the
   bridge and the SoftReg side the invariant of the default bridge does not cover. Every invariant, action
   property and refinement that a run checks is proved (section 7); liveness stays with TLC.

How they compose: `RegisterPath` extends `SlotLease`, which `HostScheduler` implements. It treats BAR1
as an array of registers, which is what `AXIL2SR` (pairs and order) and `AmorphOSSoftReg` (one
answer per read, from the app addressed) together give it for one read at a time.
`BlockBuffer` and `AmorphOSMem` each assume a memory that executes requests in the order it
grants them; section 6 says what is known of that assumption. The queues of all FPGA
modules are `Fifo`'s, which `SoftFIFO` implements.

## 3. Modules and code

### Host

`SlotScan` holds the operators of the scheduler that only compute: which slots match an app,
which are vacant, an FPGA's load, the replacement image, and what the scan of
`handleScheduling` (step 2) finds, in closed form. `SlotScanLoop` has the same scan as the
double loop the code is, one step per slot, with its locals as variables; `LoopMeetsClosedForm` is that
the two agree.

`HostScheduler` is `aos_host` with its scheduler and its sessions. `slot_session` and
`slot_appid` are the two slot maps, `sessions` and `binding` the session objects and their
`fpga_id`/`fpga_slot`, `current_image`, `loaded`, `interfaces_enabled` and `attached` what
`aos_scheduler` and `aos_fpga_handle` know of a device and what the device really has. One
command is one action, since the daemon finishes a command before it accepts the
next: `InitiateSession`, `RefuseSession`, `EndSession`, `EndUnknownSession`, and for an
access by a session `AccessRefused`, `AccessBound` or one of the branches of
`handleScheduling` (`FlashIdleFpga`, `TakeVacantSlot`, `PreemptSlot`, `ReplaceImage`,
`AbortScheduling`). `LoadDefaultImage` is one turn of `main`'s loop over the FPGAs. `SwitchDevice` is what
`switchImage` does to the device: clear, load, attach. Whether each of these works is
nondeterministic, as far as `Faults` allows failures, and as in the code nobody asks: after a load that
has failed the FPGA is empty or, when the clear has failed too, still has its old image
(`AfterClear`). `mishaps` is a history variable with the FPGAs whose last switch met with a load or an attach that failed.

`SlotLease` is the abstract specification: sessions are opened once, a lease is for one
slot that offers the app and that nobody else has, it is taken from others only by `Take` and
`Reconfigure`. `HostScheduler!ImplementsLease` is the refinement: `app` and `lease` are
`sessions` and `binding`, `config` is `slot_appid`, and `issued` the ids below `next_session_id`.

`RegisterPath` extends `SlotLease` with the CNTRLREG calls: `backlog` is the socket's queue
of connections, each with its command and whether that has been written yet (`sent`); `inbox` the
answer a client has yet to read; `responses` is `cntrlreg_read_response_queue`; `regs` the registers behind
BAR1. `Call...` (the connect), `Send` (the write of the command) and `Return` are the client's side (`aos.h`), `Handle...`
the daemon's, which waits with the connection at the head of the backlog until its command is
there. `HandleNothing` is the empty read from a client that died before it sent: the packet still holds the
last command, which is handled again. `HandleNoResponse` is a read response without a request, for which the
code pops an empty queue; as this is undefined, the daemon goes down, or answers anything and the
queue is spoilt from then on (`responses` is `Null`). Scheduling is one of the
steps of `SlotLease`, so what is shown of `RegisterPath` does not depend on how slots are
chosen. `SlotMask` is `applySlotMaskForBAR1`: it or-s the slot's number over the address, and
does not look at the address's bits.

`BulkData` has the BULKDATA handlers, the DMA buffers and the two queues of pending
operations. A transfer holds its connection from the command to the last byte and is one
action. `NextPower` is the resize's `pow(2, ceil(log(n)/log(2)))`. In doubles the quotient of the
logarithms of an exact power 2^i can come out a little above i, and the buffer then gets twice the size: for
sizes up to 2^48 this is so at i = 29, 31, 39 and 47, and nothing is rounded down. `RoundedUp` is
the set of these i, of which nothing is assumed. Above 2^48 some quotients come out too small; `MaxLog` keeps transfers
below that.

### FPGA

`Fifo` says what a clock edge does to a FIFO seen from outside; `BoundedQueue` is that as a
specification. `SoftFIFO` is the ring buffer with pointers and counter; `Contents` reads the
queue off the ring, and `IsQueue` is the refinement.

`AXIL2SR` is the bridge of BAR1. An action is a rising clock edge with all inputs of the
cycle (`Input`); combinational signals are operators of state and input, named after
the signals where they have a name; the registers and queues are the variables of the
same names. The host's k-th beat on a channel is the number k, so that a beat
says which half of which access it is. `Extended = TRUE` is `AXIL2SR_Extended`, with
`buffer_sr_req_queue` between the bridge and the SoftReg side. `serving` stands for what is
behind the bridge: the apps' registers answer reads one after the other.

`Arbiter` is `RRWCArbiter` for two, four and eight requesters as one tree: `Requests` is what goes up
from the requesters, `Grants` what comes down, `Serviced` the next `last_serviced` of every node,
which changes only where the node is granted. `AmorphOSSoftReg` extends it: an action is a
clock edge with the request of the host and the apps that respond in that cycle; `serving`
stands for the apps, `outstanding` is the history that the answers are compared with, and `passed` counts
how often an answer at the head of its queue has seen another one granted.

`AmorphOSMem` has the five units of memory virtualization. Its edges are not synchronous: an action is one
transfer, `Accept` (app to `AddressTranslate`), `Merge` (to `ChannelMerge`, with the tag for
`RespMerge`), `Arbitrate` (to `ChannelArbiter`), `Access` (the memory), `Route` (back to `RespMerge`), `Collect` (to
its output) and `Take`. A clock edge is a sequence of such transfers, and its comment says in which order,
so every behaviour of the clocked circuit is one of the model; arbiters may grant any requester.
Data is the write it comes from, so that a read's answer tells which write it saw.

`BlockBuffer` is the state machine with its block, its two queues and the memory behind it; an action
is an edge on which the state machine takes one of its branches. `ImplementsMemory` is the refinement of
`SectorMemory`: `Contents` is the block's sectors where it is valid, and the memory's elsewhere.

`AMI2AXI4` has the two paths of a DDR channel with their credits, an action per path and edge, and the
controller's side as inputs that obey AXI4: it accepts what it has room for, and answers reads of
one id in order.

## 4. Runs

| run | shows | bounds |
|---|---|---|
| `slot_scan` | the double loop leaves in its locals what `SlotScan`'s closed form says, for every pair of tables | three FPGAs of two slots: a first candidate, a better one and one behind both |
| `sched_faults` | with every fault: both records of a binding agree, a bound session has a slot of its app, scheduling finds a slot for every waiting session, the slot is on the image the device has unless a load or an attach failed when this FPGA was last switched, image switches evict sessions only when every FPGA is in use and none offers the app, the daemon implements `SlotLease` | two FPGAs of two slots, three images, three sessions, so that slots run out for an app and evictions happen |
| `sched_eviction` (violated) | a session is evicted although a vacant slot of the app exists | as before, four sessions, images that share an app |
| `reg_calls` | read responses carry what their own request fetched; a session's registers hold what it wrote since it got its slot | two clients on two slots that an image gives to one app or to two, so that they are neighbours or pre-empt each other; up to two reads out; no faults, which these properties do not survive (peek, poke, unasked) or do not depend on (client) |
| `reg_answers` | every command that is sent is answered unless the daemon is down, its client dies, or another client keeps the daemon waiting for ever; the types under every fault | two clients after one slot, so that each access may pre-empt the other; one read out; every fault |
| `bulk_buffers` | a transfer fits its buffer, whose size is the default or a power of two; a write is pending exactly while its buffer is busy | sizes 3, 4, 5 against a fresh buffer of 4, with 4 a size whose logarithm is rounded up; three pending operations |
| `soft_fifo` | counter and pointers agree; the ring is a queue | four entries of three kinds, all inputs |
| `bridge` | 64-bit writes and reads are put together right, answers come in order and find room | FIFOs of two entries, eight beats per channel: each queue fills up and the selects go around twice; three read beats out, the most below two FIFOs of pairs |
| `soft_regs` | no answer is dropped, repeated, out of its app's order or from another app; every requester of the arbiter gets its turn | four apps, so that the tree has two levels; FIFOs of two entries, two reads out at each app |
| `memory` | each port's reads are answered in order and with what was written before them; nothing waits at the head of a channel for an app; a port whose app takes its answers has them all, whatever the other does | two ports, of one app or of two; two channels, two lines per app; inner queues of one entry, tags and answers of two, four requests, so that each queue is full and each arbiter has a choice; the app of port (0, 0) may stop taking answers |
| `block_buffer` | the buffer implements a memory of sectors; every request gets its block | two blocks of two sectors, so that a block is given up and comes back; queues of two, two reads out |
| `ddr` | reads in order and with room for the answers, data after addresses, credits that match, all served | queues of two, a controller with two transactions of each kind, two addresses |

The bounds are `MaxSessions` (ids issued in one life of the daemon; ids are not reused, so
more sessions only repeat what three or four do on four slots), `MaxOwed` (read requests a
client has out), `MaxPending` (operations that wait for the DMA engine), `MaxBeats`
(beats on a channel, which count up and are compared only with each other), `Window` (reads out
at an app or from a block buffer: what software is trusted to keep to, at most `Depth`) and
`MaxSent` (requests to the memory in all; with four, two reads of a port can be with different channels
behind writes of their own and of another port). The scheduler's
instances are the smallest with two FPGAs to choose from and two slots to choose
from in each; the theorems below cover the other sizes.

`reg_calls` and `bulk_buffers` permute the sessions; `reg_answers` uses no symmetry reduction because it checks liveness.

## 5. Fairness and deadlock

- `reg_answers`: `FairSpec` has weak fairness of `Handle` and of nothing else. `listen_loop` is an endless loop in the
  daemon's only thread, and once the connection at the head of the backlog has its command (or its client
  is gone) the handler is enabled until it has run, so a daemon that is scheduled at all takes it. Before that
  the daemon is blocked in `read`, `Handle` is disabled, and nothing obliges a client to write, to read its answer or to
  make a call. So an answer can fail to come in three ways, and `CallsAnswered` names them: the daemon
  goes down (a client that dies before its answer or its command brings that about, or an unasked read response), the caller
  itself dies, or one other client has connected before it and never sends (`[]HeldUp`). It is not claimed that a
  call returns whatever other clients do.
- `memory`: weak fairness of `Served`, which is that some transfer happens as long as one can: every
  unit moves what it can at every clock edge. It is not assumed of any port or arbiter by itself;
  since no request comes after `MaxSent`, everything gets its turn in the end, and what could keep a
  read from its answer is only a transfer that waits for one that never comes. That is what
  `ReadsAnswered` is about; that no requester is passed over for ever is `ServedInTurn`'s question.
  The app of a port in `Deaf` need not take its answers.
- `block_buffer`: the memory grants and answers in the end.
- `ddr`: the controller accepts addresses and data that are offered to it, and answers a read when it has
  one and `rready` is up. The channel need not send requests.

Deadlock is checked in all passing runs except where the program stops: the daemon may be
down (`sched_faults`, `reg_answers`), the scan ends (`slot_scan`), and `memory` ends when all
requests are served.

## 6. Where the code departs from what it says

One run ends in a violation of what a comment of the repository says, a finding of `PROJECT.json`:

- `sched_eviction`: the scan's `break` on an occupied slot (`aos_daemon.h:1189`) skips vacant
  slots behind it, and a session is evicted without need, although the comment at line 1102 has an
  empty slot of any flashed FPGA tried first.

Others were seen while the models were written, and the properties are checked for executions
without them, as the configurations' `Faults`, windows and addresses say:

- The check of END_SESSION has an empty body (`aos_daemon.h:472`), and an id that is not open is
  dereferenced: a second END_SESSION of the same session takes the daemon down (fault `end_twice` of
  `HostScheduler`).
- A read request whose peek fails still enqueues a response (`aos_daemon.h:275`), which nobody
  collects; with fault `peek` of `RegisterPath`, `AnswersInOrder` is violated.
- `AXIL2SR_Extended` moves a read into its FIFO on one condition and sets the select for its second
  half on another (`AXIL2SR_Extended.sv:300`); with `Extended = TRUE`, `SecondHalvesDropped` is
  violated. `cl_aos` instantiates the default bridge (`F1_AXIL_USE_EXTENDER` = 0).
- `AmorphOSSoftReg` sends responses of different apps in the arbiter's order, not in that of the requests
  (`AmorphOSSoftReg.sv:112`), and the bridge above it matches them by order. The daemon waits for each read, so
  it has never two under way.
- A response that finds its app's queue full is dropped (`AmorphOSSoftReg.sv:100`); a read of
  `BlockBuffer` is executed when the queue of answers is full (`BlockBuffer.sv:434`). `NoneDropped` and
  `ImplementsMemory` need the bound on reads that software keeps to.
- An app's address is not bounded (`AppLevelTranslate.sv:26`); one beyond 8 GB is another app's.
- `AMI2AXI4` grants reads and writes in order and sends them on separate AXI4 paths; a read does not
  wait for the response of a write before it (`AMI2AXI4.sv:179`). Whether it sees that write is up to the
  controller: nothing in the code makes it. `AmorphOSMem` and `BlockBuffer` are checked for a memory that
  executes requests in the order it grants them.
- `flush_buffer` is not read (`BlockBuffer.sv:144`): a modified block stays in the buffer until another
  one is wanted.

- The results of clearing an FPGA, of loading an image and of attaching a BAR are dropped (`aos_scheduler.cpp:46`,
  `:75`, `aos_daemon.h:510`). After a failed load the session is bound to a slot of an FPGA that has no image or, if
  the clear has failed as well, an image other than the one `slot_appid_map` lists. `SlotIsReal` holds with all these
  faults because it excludes the sessions on an FPGA whose own last switch failed (`mishaps`): a
  failed clear alone does no harm, and neither does a failure on another FPGA or before the last switch.
- After a failed attach, the next switch of that FPGA fails an assertion (`aos_daemon.h:525`) and ends the daemon.
- Step 4 compares loads and does not keep the least one (`aos_daemon.h:1225`), so the last FPGA is always the victim. No
  comment says which it should be, and no property depends on it.
- `resetSlotState` is empty (`aos_daemon.h:880`), although its comment says what it is for; a
  session that gets a used slot finds its predecessor's registers.
- A write to a socket whose client is gone raises SIGPIPE, which ends the daemon
  (`aos_daemon.h:106`). `CallsAnswered` has it as an exception.
- A client that connects and sends nothing holds the daemon in `read` (`aos_daemon.h:151`), with all clients
  behind it: the other exception of `CallsAnswered`.
- If that client dies, the read returns no bytes and the last command is handled once more
  (`aos_daemon.h:114`). Its answer goes to a closed connection and raises SIGPIPE; END_SESSION, which has no
  answer, meets the null session of `aos_daemon.h:472`. `HandleNothing` models it.
- A read response that no request was made for is reported on stderr and popped from the empty queue all the same
  (`aos_daemon.h:785`), which is undefined. `AnswersInOrder` is checked and proved for clients that do not ask so
  (fault `unasked`).
- `applySlotMaskForBAR1` (`aos_daemon.h:812`) does not bound the address, so one that
  reaches beyond a slot's 8 KiB is or-ed into another slot's. `WritesKept` is checked and proved for
  addresses within them.
- A failed poke is answered with SUCCESS (`aos_daemon.h:227`). `WritesKept` is checked and
  proved without that fault.
- The DMA engine is a stub (`aos_daemon.h:1289`): once a write is pending, the session's next ones
  are told to retry for ever; a read response is told that no read was
  requested, since `enqueDMARead` has no caller (`aos_daemon.h:399`).
- One `read` of the socket is taken for a whole command or a whole transfer
  (`aos_daemon.h:114`, `:120`).

## 7. Proofs

Assumptions are those of the modules, which TLC evaluates in the runs: `ScanAssumption`,
`LoopAssumption`, `HostAssumption`, `LeaseAssumption` (numbers that are not zero, images that fill a prefix of
the slots, a `Null` that is no other value); `RegisterAssumption` (slot numbers of three bits, addresses within the
window); `BulkAssumption` (transfers up to 2^48 bytes); `RingAssumption`, `BridgeAssumption`,
`SoftRegAssumption`, `MemAssumption`, `BlockBufferAssumption` and `AMI2AXI4Assumption` (FIFOs that are not empty
of entries, and what a depth must cover). Three of the last kind carry the argument of a
theorem: `ReadWindow < 2 * Depth` (bridge; the daemon reads one 64-bit register at a time), `Window <= Depth`
(SoftReg responses and block buffer; software is trusted with it) and `TagDepth <= RespDepth` (memory; the
comment at `AMITypes.sv:40` asks for it and the defaults there are equal). Constants are otherwise arbitrary,
except that `AmorphOSSoftReg` has 2, 4 or 8 apps, the sizes `RRWCArbiter` is built for.

- **`HostSchedulerProofs`**: `IInv` is the type invariant, `BindingsAgree`, `AppMatchesSlot`, and two
  conjuncts these need: `SessionsFresh` (ids from `next_session_id` on are not in `sessions`, so a new
  session does not inherit a binding) and `BootedImages` (after the boot every FPGA has an image, and
  its row of `slot_appid` is that image's). One lemma per action; the actions that bind share
  `BindInv`. `SchedulingSucceeds` follows from `IInv` and the closed form of the scan: when no slot is
  found, no FPGA offers the app, and step 4 applies. `SlotIsReal` needs `HardwareMatches` besides: on
  every FPGA that has no mishap from its last switch, what the daemon records of the image and the BARs is what the device
  has. Every switch establishes it anew for its FPGA, whatever was there before, and touches no other.
  `EvictionJustified` is an action property: only `PreemptSlot` and `ReplaceImage` take slots from
  others, and both are reached only after every FPGA was found in use.
  `Refinement` maps every action to a step of `SlotLease` or a stutter. All this holds for every
  set of faults.
  The last part is about `SlotScanLoop`. `LoopInv` says what the locals hold in the middle of the loop: with the
  FPGAs below n done they are `Settled` (nothing of the app seen, the least loaded
  victim so far, or the least loaded vacant slot so far, in terms of the closed form's sets cut off at n), and
  inside an FPGA they are `Within` it. One lemma per branch of the loop's body, and one for the end of an
  FPGA. `LoopAlwaysMeetsClosedForm` is the case n = `NumFpga`.
- **`RegisterPathProofs`**: `RInv` (types, well-formed commands in the backlog) for `RegistersOK`;
  `WritesKept` with `RInv` and the lease's invariants (`Exclusive`, that no slot is leased
  twice, and `Fits`), if addresses are within the slot's part of
  the window (`Near`) and pokes do not fail; `AnswersInOrder`, if peeks do not fail and no client
  asks for a response it made no request for, from `OneCall` (a
  session has at most one command or one answer under way) and `InStep` (the response queue is what the
  session is owed, less the response that is on its way).
  The last part is about `BulkData`: `BulkOK`, `TransferFits` and `PendingMatchesBuffers` are inductive together.
  That a resized buffer is large enough (`ResizedFits`) needs that some power of two in range is, and that powers grow;
  the prover knows a power with a variable exponent only as the number of subsets of an interval, so
  `PowersGrow` compares those.
- **`SoftRegProofs`**: `SoftRegInv` for `AmorphOSSoftReg`. `NoneDropped` is inductive with `WithinWindow`: a
  response that arrives finds room because those in the queue are of the at most `Depth` reads that are out.
  `ServedInTurn` is not inductive; `TurnsLeft` is, which adds to the grants a response has seen
  those it may still see, `Ahead`, read off `last_serviced` along the path to the root of the tree. A
  grant to another app takes one from `Ahead`, or leaves the response's side of a node next in turn; the
  lemmas for a node and its two inputs make it a statement about trees of any of the sizes.
  The second part is `SoftFIFO`: `RingInv` is `RingOK` and `PointersAgree`; the step of
  the refinement shows that the sequence read off the ring changes as `Clocked` says.
- **`FifoProofs`** holds the lemmas on one queue that the four modules about hardware share: what a clock edge
  does to its length, to its entries, and to the number of those of a kind (`Held`).
- **`AXIL2SRProofs`**: the invariant gives every queue as
  an arithmetic progression of beats that starts where the accesses already put together end
  (`WriteQueues`, `ReadQueues`, `Responses`), with the select bits as the difference in length of two
  queues; `Credits` counts the accepted reads that have no answer. `WritesArePaired` needs only the write
  half and covers both bridges; the other theorems are for the default one, which is the one `cl_aos`
  instantiates. `Room` is the argument about the size of `rd_respQ`: pairs under way never outnumber its entries
  as long as the host has fewer than `2 * Depth` read beats out.
- **`AmorphOSMemProofs`**: `IInv` has a conjunct per question. `WayInv`: a port's requests are in the queues on the way to
  their channels in the order they were sent, those `OnWay` to a channel after those `Done` there
  (`RequestsInOrder`), as the port made them (`RequestsKept`). `MemoryHolds`: a line holds
  nothing older than any write to it that is done, and only what a port of its app wrote. `TagsMatch`:
  the channel arbiter's tags are those of the answers it has and of the reads it is to ask. `AnswersGood`: an answer on
  its way is one its read may have; with `MemoryHolds` it gives `ReadsSeeWrites`. `OrderInv`: a port's tags name,
  in the order of its reads, the channels that these were sent to, and what is on its way to a channel and
  back goes up in number; so the answer `RespMerge` takes at a tag is that read's (`AnswersInOrder`). `RoomKept`:
  the tags of a port for a channel are as many as its reads and answers there, so `TagDepth <= RespDepth`
  leaves room for every answer (`RoomForAnswers`).
- **`BlockBufferProofs`**: `IInv` is `TypeOK`, `CleanIsMemory` (a block that is not modified is the memory's, so
  giving it up loses nothing) and `WindowKept` (reads waiting and answers are at most `Window`, so an answer
  is not dropped, although the state machine does not look at `respOutQ_full`). `BufferIsMemory` maps
  every edge to a step of `SectorMemory` or a stutter.
- **`AMI2AXI4Proofs`**: `ReadsInOrder` and `CreditsMatch` are inductive with the types: an answer is
  put into `rdRespQ` only at an edge where the credits say that the controller owes it.

Only model-checked: liveness (`CallsAnswered`, `ReadsAnswered`, `BlockArrives`, `RequestsServed`), since TLAPS
proves nothing about fairness or `ENABLED` here, and the violation of `sched_eviction`. No induction
theorem with an operator as its parameter can be used; where an argument is an induction over numbers, it is
written as the existence of a least one (`LeastExists`). No module has a `RECURSIVE` operator.

## 8. What is left out

- *Daemon*: branches that no caller reaches (`lazy_reads` = false, `isDummy` = false); a poke or a
  peek whose first half succeeds and whose second fails; a restart of the daemon, which fails at `bind` since nobody
  unlinks the socket; the growth of the response queue after failed
  peeks; rounding of `pow` and `log` above 2^48.
- *Bridge*: a reset in the middle of operation. Writes have priority over reads, so a host that
  never stops writing starves reads; the code says that this should not matter, and no
  property says otherwise. `ReadWindow < 2 * Depth` is justified by the daemon, which reads one 64-bit
  register at a time: two beats. `HullFIFO` types that no parameter selects are not modelled.
- *SoftReg path*: `AmorphOSSoftReg_RouteTree`, which no configuration selects
  (`F1_AXIL_USE_ROUTE_TREE` = 0), and `F1SoftRegLoopback`, which is test logic.
- *Memory path*: the data widths, and the sizes of requests, which nothing behind the app looks at. The
  outputs of `AddressTranslate`'s two FIFOs in a row are those of one FIFO of their common depth. The back ends for
  simulation and for another board (`AMI2SimpleDRAM`, `AmorphOSMem2SDRAM`, `SimSimpleDram`).
- *PCIe and DMA*: `AmorphOSPCIE` is instantiated by its own test only, and `cl_aos` ties the apps' PCIe
  ports off. (Read of it: a packet is stored although `pcie_full_out` is up for another app's queue,
  `AmorphOSPCIE.sv:154`. The deadlock that its line 351 fears does not come about, since `active_app` is
  cleared when a message has ended and no other app waits.) `PCIS2ABD`, the DMA controllers and their
  bridges are instantiated by nothing; the daemon's DMA engine is a stub.
- *Parsing*: `json.hpp` is a vendored library of 20587 lines, which the image library is read with. It
  is nine tenths of the C++ code, so the share of all lines that the models cover is small whatever else they
  cover.
- *Test programs, build files, generated simulation files and examples* are not part of the
  system.
