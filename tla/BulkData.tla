------------------------------ MODULE BulkData ------------------------------
(***************************************************************************)
(* The bulk data calls: the BULKDATA handlers of aos_host, the DMA buffers *)
(* of aos_app_session and the client's side of the transfer.  A call holds *)
(* its connection, and so the daemon, from the command to the last byte:   *)
(* it is one action.                                                       *)
(*                                                                         *)
(* After each command the daemon calls scheduleDMAOperations, which is     *)
(* empty: nothing ever leaves a write buffer or fills a read buffer, and   *)
(* enqueDMARead, which would mark the latter busy, has no caller.          *)
(***************************************************************************)
EXTENDS Integers, Sequences, FiniteSets

CONSTANTS
  BulkSession,  (* the sessions, those that are over included              *)
  Bytes,        (* sizes of the transfers                                 *)
  DefaultSize,  (* DEFAULT_DMA_WRITE_BUF_SIZE, DEFAULT_DMA_READ_BUF_SIZE  *)
  MaxLog,       (* the logarithm of the largest transfer                  *)
  RoundedUp,    (* the exponents i for which log(2^i)/log(2), computed in *)
                (* doubles, comes out above i: 29, 31, 39 and 47          *)
  MaxPending    (* bound: no read is requested with so many operations    *)
                (* waiting for the DMA engine                             *)

ASSUME BulkAssumption ==
  /\ MaxLog \in 0 .. 48
  /\ Bytes \subseteq 1 .. 2 ^ MaxLog
  /\ DefaultSize \in Nat
  /\ MaxPending \in Nat

VARIABLES
  open,          \* sessions: the open ones
  write_buffer,  \* session -> its DMA write buffer
  read_size,     \* session -> dma_read_buffer_size
  pending_id,    \* pending_dma_session_id
  pending_type,  \* pending_dma_operation_type
  wants,         \* session -> bytes its client is trying to write, 0 for none
  reading,       \* session -> whether its client has a read accepted
  reply          \* session -> the error code its client got last

pending == <<pending_id, pending_type>>
bulk == <<open, write_buffer, read_size, pending, wants, reading, reply>>

FreshBuffer == [size |-> DefaultSize, busy |-> FALSE, valid |-> 0]

BulkInit ==
  /\ open = {}
  /\ write_buffer = [s \in BulkSession |-> FreshBuffer]
  /\ read_size = [s \in BulkSession |-> DefaultSize]
  /\ pending_id = <<>> /\ pending_type = <<>>
  /\ wants = [s \in BulkSession |-> 0]
  /\ reading = [s \in BulkSession |-> FALSE]
  /\ reply = [s \in BulkSession |-> "NONE"]

-----------------------------------------------------------------------------
\* Wrong variant: the power of two below the size.
NextPowerBelow(n) == 2 ^ (CHOOSE i \in 0 .. MaxLog : 2 ^ i <= n /\ n < 2 ^ (i + 1))

\* ceil(log(numBytes)/log(2)) for exact logarithms.
CeilLog(n) == CHOOSE i \in 0 .. MaxLog : n <= 2 ^ i /\ \A j \in 0 .. i - 1 : 2 ^ j < n

\* The next power of two, or twice that.
NextPower(n) ==
  LET i == CeilLog(n)
  IN  IF n = 2 ^ i /\ i \in RoundedUp THEN 2 ^ (i + 1) ELSE 2 ^ i

\* Wrong variant: the new size is not rounded.
ResizedExactly(size, n) == IF n < size THEN size ELSE n

Resized(size, n) == IF n < size THEN size ELSE NextPower(n)

Reply(s, code) == reply' = [reply EXCEPT ![s] = code]

Push(s, type) ==
  /\ pending_id' = Append(pending_id, s)
  /\ pending_type' = Append(pending_type, type)

InitiateSession(s) ==
  /\ s \notin open /\ reply[s] = "NONE"
  /\ open' = open \cup {s}
  /\ Reply(s, "SUCCESS")
  /\ UNCHANGED <<write_buffer, read_size, pending, wants, reading>>

\* What the session has pending stays pending.
EndSession(s) ==
  /\ open' = open \ {s}
  /\ s \in open
  /\ UNCHANGED <<write_buffer, read_size, pending, wants, reading, reply>>

-----------------------------------------------------------------------------
(* aos_bulkdata_write and handleBulkDataWriteRequest.                      *)

WantToWrite(s, n) ==
  /\ reply[s] # "NONE" /\ wants[s] = 0
  /\ wants' = [wants EXCEPT ![s] = n]
  /\ UNCHANGED <<open, write_buffer, read_size, pending, reading, reply>>

WriteRefused(s) ==
  /\ wants[s] # 0 /\ s \notin open
  /\ Reply(s, "INVALID_SESSION_ID")
  /\ wants' = [wants EXCEPT ![s] = 0]
  /\ UNCHANGED <<open, write_buffer, read_size, pending, reading>>

\* The client may try again.
WriteRetry(s) ==
  /\ wants[s] # 0 /\ s \in open
  /\ write_buffer[s].busy
  /\ Reply(s, "RETRY")
  /\ UNCHANGED <<open, write_buffer, read_size, pending, wants, reading>>

\* Wrong variant: a busy buffer is filled again.
FillAnyBuffer(s) ==
  LET n == wants[s]
  IN  write_buffer' = [write_buffer EXCEPT ![s] =
        [size |-> Resized(@.size, n), busy |-> TRUE, valid |-> n]]

\* checkAndResizeMDAWriteBuffer, the read from the socket, enqueDMAWrite.
FillBuffer(s) ==
  LET n == wants[s]
  IN  /\ ~ write_buffer[s].busy
      /\ write_buffer' = [write_buffer EXCEPT ![s] =
           [size |-> Resized(@.size, n), busy |-> TRUE, valid |-> n]]

WriteAccepted(s) ==
  /\ wants[s] # 0 /\ s \in open
  /\ FillBuffer(s)
  /\ Push(s, "WRITE")
  /\ Reply(s, "SUCCESS")
  /\ wants' = [wants EXCEPT ![s] = 0]
  /\ UNCHANGED <<open, read_size, reading>>

-----------------------------------------------------------------------------
(* aos_bulkdata_read: a request and, when that succeeds, a response.       *)

ReadRequest(s, n) ==
  /\ s \in open /\ wants[s] = 0 /\ ~ reading[s]
  /\ Len(pending_id) < MaxPending
  /\ read_size' = [read_size EXCEPT ![s] = Resized(@, n)]
  /\ Push(s, "READ")
  /\ Reply(s, "SUCCESS")
  /\ reading' = [reading EXCEPT ![s] = TRUE]
  /\ UNCHANGED <<open, write_buffer, wants>>

\* The read buffer is not busy: INVALID_REQUEST is sent, and then 0 bytes of the
\* buffer; the packet prepared after it is never written.
ReadResponse(s) ==
  /\ s \in open /\ reading[s]
  /\ Reply(s, "INVALID_REQUEST")
  /\ reading' = [reading EXCEPT ![s] = FALSE]
  /\ UNCHANGED <<open, write_buffer, read_size, pending, wants>>

ReadRefused(s) ==
  /\ s \notin open /\ reply[s] # "NONE" /\ wants[s] = 0
  /\ Reply(s, "INVALID_SESSION_ID")
  /\ reading' = [reading EXCEPT ![s] = FALSE]
  /\ UNCHANGED <<open, write_buffer, read_size, pending, wants>>

Write(s) == WriteRefused(s) \/ WriteRetry(s) \/ WriteAccepted(s)

BulkNext ==
  \E s \in BulkSession :
    \/ InitiateSession(s) \/ EndSession(s)
    \/ Write(s) \/ ReadResponse(s) \/ ReadRefused(s)
    \/ \E n \in Bytes : WantToWrite(s, n) \/ ReadRequest(s, n)

BulkSpec == BulkInit /\ [][BulkNext]_bulk

-----------------------------------------------------------------------------
BulkCodes == {"NONE", "SUCCESS", "RETRY", "INVALID_SESSION_ID", "INVALID_REQUEST"}

\* A buffer has its default size or, once it was too small, a power of two.
Sizes == {DefaultSize} \cup {2 ^ i : i \in 0 .. MaxLog + 1}

BulkOK ==
  /\ open \subseteq BulkSession
  /\ write_buffer \in [BulkSession -> [size : Sizes, busy : BOOLEAN, valid : Nat]]
  /\ read_size \in [BulkSession -> Sizes]
  /\ pending_id \in Seq(BulkSession)
  /\ pending_type \in Seq({"WRITE", "READ"})
  /\ wants \in [BulkSession -> Bytes \cup {0}]
  /\ reading \in [BulkSession -> BOOLEAN]
  /\ reply \in [BulkSession -> BulkCodes]

\* The bytes of a transfer fit the buffer that was resized for it: the daemon
\* reads them from the socket without looking at the buffer's size again.
TransferFits ==
  \A s \in BulkSession : write_buffer[s].busy => write_buffer[s].valid <= write_buffer[s].size

\* What the DMA engine will find: the two queues go together, and a session's
\* write is in them exactly once, as long as its buffer is busy with it.
PendingMatchesBuffers ==
  /\ Len(pending_id) = Len(pending_type)
  /\ \A s \in BulkSession :
       Cardinality({i \in DOMAIN pending_id : pending_id[i] = s /\ pending_type[i] = "WRITE"})
         = IF write_buffer[s].busy THEN 1 ELSE 0
=============================================================================
