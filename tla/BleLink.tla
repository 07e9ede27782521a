------------------------------- MODULE BleLink -------------------------------
(***************************************************************************)
(* The transmit side and the connection of the BLE transport               *)
(* (src/ble_rpc.c).  Replies come from the processing thread, framing      *)
(* errors from the BT RX context; both go through one ring buffer to a     *)
(* work handler that notifies the client chunk by chunk.  The Bluetooth    *)
(* callbacks are cooperative and so atomic; the processing thread and the  *)
(* handler may be interrupted between any two statements.  A line in the   *)
(* ring is LineSegs segments, the last of which holds the newline.         *)
(***************************************************************************)
EXTENDS Naturals, Sequences

CONSTANTS RingLen,     \* ZW3021_BLE_TX_RINGBUF_LEN, in segments
          LineSegs,    \* segments of a response line
          ChunkMax,    \* largest notification, in segments
          QueueLen,    \* lines zw3021_ble_rpc_msgq holds
          Retries,     \* how often a notify is repeated
          MaxLines,    \* bound on requests and framing errors
          MaxConns,    \* bound on connections
          MaxFaults    \* bound on failing notifies and advertising starts

ASSUME LinkAssumption ==
    /\ {RingLen, LineSegs, ChunkMax, QueueLen} \subseteq Nat \ {0}
    /\ {Retries, MaxLines, MaxConns, MaxFaults} \subseteq Nat

\* In units of BLE_RPC_ADV_RETRY_INITIAL_DELAY_MS.
InitialDelay == 1
MaxDelay == 10

VARIABLES ble_rpc_conn,   \* number of the connection, 0 for NULL
          conns,          \* connections so far
          adv, adv_retry_delay_ms,     \* the advertising set and its work
          tx_ring_buf,
          msgq,           \* requests that wait, by their connection
          proc,           \* where rpc_processing_thread() is
          pending,        \* tx_work is submitted
          tx, tx_chunk, chunk_size, attempts,   \* where tx_work_handler() is
          received,       \* what the client of this connection was notified
          lines,          \* lines put so far, which numbers them
          asked,          \* requests and framing errors so far
          broken,         \* history: a notify on this connection was given up
          faults

link  == <<ble_rpc_conn, conns, adv, adv_retry_delay_ms>>
work  == <<tx, tx_chunk, chunk_size, attempts>>
heard == <<received, broken>>
vars  == <<link, tx_ring_buf, msgq, proc, pending, work, heard, lines, asked,
           faults>>

Segments == [line : 1 .. MaxLines, seg : 1 .. LineSegs]
Line(n) == [i \in 1 .. LineSegs |-> [line |-> n, seg |-> i]]

\* Types; the ring holds no more than its length (ble_rpc.c:159) and the backoff
\* of the advertising start stays within its cap (306).  A client has made it
\* end: the retries after one disconnect never delay the start after the next.
TypeOK ==
    /\ ble_rpc_conn \in {0, conns}
    /\ conns \in 0 .. MaxConns
    /\ adv \in {"off", "scheduled", "on"}
    /\ adv_retry_delay_ms \in InitialDelay .. MaxDelay
    /\ ble_rpc_conn # 0 => adv_retry_delay_ms = InitialDelay
    /\ tx_ring_buf \in Seq(Segments) /\ Len(tx_ring_buf) <= RingLen
    /\ msgq \in Seq(1 .. MaxConns) /\ Len(msgq) <= QueueLen
    /\ proc \in {"idle", "command", "put", "submit"}
    /\ pending \in BOOLEAN
    /\ tx \in {"idle", "reset", "loop", "notify"}
    /\ tx_chunk \in Seq(Segments) /\ Len(tx_chunk) <= ChunkMax
    /\ chunk_size \in 1 .. ChunkMax
    /\ attempts \in 0 .. Retries
    /\ received \in Seq(Segments)
    /\ lines \in 0 .. MaxLines
    /\ asked \in 0 .. MaxLines
    /\ broken \in BOOLEAN
    /\ faults \in 0 .. MaxFaults

\* ble_rpc_settings_commit() has scheduled the first start.
Init ==
    /\ ble_rpc_conn = 0
    /\ conns = 0
    /\ adv = "scheduled"
    /\ adv_retry_delay_ms = InitialDelay
    /\ tx_ring_buf = <<>>
    /\ msgq = <<>>
    /\ proc = "idle"
    /\ pending = FALSE
    /\ tx = "idle"
    /\ tx_chunk = <<>>
    /\ chunk_size = ChunkMax
    /\ attempts = 0
    /\ received = <<>>
    /\ lines = 0
    /\ asked = 0
    /\ broken = FALSE
    /\ faults = 0

-----------------------------------------------------------------------------
(* ble_rpc_transmit(): the put, under the spinlock.                        *)

BugPartialPut == Len(tx_ring_buf) < RingLen

\* ring_buf_space_get(&tx_ring_buf) >= len
Fits == RingLen - Len(tx_ring_buf) >= LineSegs

PutLine ==
    /\ tx_ring_buf' =
           LET all  == tx_ring_buf \o Line(lines + 1)
               room == IF Len(all) < RingLen THEN Len(all) ELSE RingLen
           IN  SubSeq(all, 1, room)
    /\ lines' = lines + 1

\* BT RX context: "line too long", or "busy" when the queue is full.
FramingError ==
    /\ ble_rpc_conn # 0
    /\ asked < MaxLines
    /\ asked' = asked + 1
    /\ IF Fits THEN PutLine /\ pending' = TRUE
               ELSE UNCHANGED <<tx_ring_buf, lines, pending>>
    /\ UNCHANGED <<link, msgq, proc, work, heard, faults>>

\* BT RX context: a request is complete.
Request ==
    /\ ble_rpc_conn # 0
    /\ Len(msgq) < QueueLen
    /\ asked < MaxLines
    /\ asked' = asked + 1
    /\ msgq' = Append(msgq, ble_rpc_conn)
    /\ UNCHANGED <<link, tx_ring_buf, proc, pending, work, heard, lines,
                   faults>>

-----------------------------------------------------------------------------
(* rpc_processing_thread(), with ble_rpc_transmit() a statement at a time. *)

ProcStep == UNCHANGED <<link, work, heard, asked, faults>>

TakeRequest ==
    /\ proc = "idle"
    /\ msgq # <<>>
    /\ msgq' = Tail(msgq)
    /\ proc' = "command"
    /\ UNCHANGED <<tx_ring_buf, pending, lines>>
    /\ ProcStep

\* The command is done and its handler transmits; without a connection the
\* reply is dropped.
CheckConnected ==
    /\ proc = "command"
    /\ proc' = IF ble_rpc_conn = 0 THEN "idle" ELSE "put"
    /\ UNCHANGED <<tx_ring_buf, msgq, pending, lines>>
    /\ ProcStep

\* All or nothing; a reply that does not fit is dropped.
PutReply ==
    /\ proc = "put"
    /\ IF Fits THEN PutLine /\ proc' = "submit"
               ELSE proc' = "idle" /\ UNCHANGED <<tx_ring_buf, lines>>
    /\ UNCHANGED <<msgq, pending>>
    /\ ProcStep

SubmitWork ==
    /\ proc = "submit"
    /\ pending' = TRUE
    /\ proc' = "idle"
    /\ UNCHANGED <<tx_ring_buf, msgq, lines>>
    /\ ProcStep

Processing == TakeRequest \/ CheckConnected \/ PutReply \/ SubmitWork

-----------------------------------------------------------------------------
(* tx_work_handler().                                                      *)

TxStep == UNCHANGED <<link, msgq, proc, lines, asked>>

\* The work queue takes the item; notify_size_for_conn() depends on the MTU.
StartHandler ==
    /\ tx = "idle"
    /\ pending
    /\ pending' = FALSE
    /\ IF ble_rpc_conn = 0
         THEN tx' = "reset" /\ UNCHANGED chunk_size
         ELSE tx' = "loop" /\ chunk_size' \in 1 .. ChunkMax
    /\ UNCHANGED <<tx_ring_buf, tx_chunk, attempts, heard, faults>>
    /\ TxStep

ResetRing ==
    /\ tx = "reset"
    /\ tx_ring_buf' = <<>>
    /\ tx' = "idle"
    /\ UNCHANGED <<pending, tx_chunk, chunk_size, attempts, heard, faults>>
    /\ TxStep

TakeChunk ==
    /\ tx = "loop"
    /\ tx_ring_buf # <<>>
    /\ LET got == IF Len(tx_ring_buf) < chunk_size THEN Len(tx_ring_buf)
                                                   ELSE chunk_size
       IN  /\ tx_chunk' = SubSeq(tx_ring_buf, 1, got)
           /\ tx_ring_buf' = SubSeq(tx_ring_buf, got + 1, Len(tx_ring_buf))
    /\ attempts' = Retries
    /\ tx' = "notify"
    /\ UNCHANGED <<pending, chunk_size, heard, faults>>
    /\ TxStep

RingEmpty ==
    /\ tx = "loop"
    /\ tx_ring_buf = <<>>
    /\ tx' = "idle"
    /\ UNCHANGED <<tx_ring_buf, pending, tx_chunk, chunk_size, attempts,
                   heard, faults>>
    /\ TxStep

BugOneChunk == "idle"

\* After a chunk the handler looks at the ring again.
AfterNotify == "loop"

\* bt_gatt_notify_cb() on whatever connection there is by now.
NotifyOk ==
    /\ tx = "notify"
    /\ ble_rpc_conn # 0
    /\ received' = received \o tx_chunk
    /\ tx_chunk' = <<>>
    /\ tx' = AfterNotify
    /\ UNCHANGED <<tx_ring_buf, pending, chunk_size, attempts, broken, faults>>
    /\ TxStep

\* Out of buffers: k_sleep() and try again.
NotifyRetry ==
    /\ tx = "notify"
    /\ ble_rpc_conn # 0
    /\ attempts > 0
    /\ attempts' = attempts - 1
    /\ faults < MaxFaults /\ faults' = faults + 1
    /\ UNCHANGED <<tx_ring_buf, pending, tx, tx_chunk, chunk_size, heard>>
    /\ TxStep

\* The last attempt failed: the chunk is lost, what the ring still holds
\* stays there.
NotifyGiveUp ==
    /\ tx = "notify"
    /\ ble_rpc_conn # 0
    /\ attempts = 0
    /\ faults < MaxFaults /\ faults' = faults + 1
    /\ broken' = TRUE
    /\ tx_chunk' = <<>>
    /\ tx' = "idle"
    /\ UNCHANGED <<tx_ring_buf, pending, chunk_size, attempts, received>>
    /\ TxStep

\* -ENOTCONN ends the loop at once.
NotifyNotConnected ==
    /\ tx = "notify"
    /\ ble_rpc_conn = 0
    /\ tx_chunk' = <<>>
    /\ tx' = "idle"
    /\ UNCHANGED <<tx_ring_buf, pending, chunk_size, attempts, heard, faults>>
    /\ TxStep

Handler == \/ StartHandler \/ ResetRing \/ TakeChunk \/ RingEmpty
           \/ NotifyOk \/ NotifyRetry \/ NotifyGiveUp \/ NotifyNotConnected

-----------------------------------------------------------------------------
(* Connection and advertising.                                             *)

LinkStep == UNCHANGED <<proc, pending, work, lines, asked>>

\* on_ext_adv_connected(); the controller ends the advertising set.
Connected ==
    /\ adv = "on"
    /\ conns < MaxConns
    /\ conns' = conns + 1
    /\ ble_rpc_conn' = conns + 1
    /\ adv' = "off"
    /\ received' = <<>>
    /\ broken' = FALSE
    /\ UNCHANGED <<adv_retry_delay_ms, tx_ring_buf, msgq, faults>>
    /\ LinkStep

BugKeepRing == tx_ring_buf

\* ring_buf_reset() in on_disconnected().
RingAfterDisconnect == <<>>

\* on_disconnected(); scheduling a work item that is scheduled does nothing.
Disconnected ==
    /\ ble_rpc_conn # 0
    /\ ble_rpc_conn' = 0
    /\ tx_ring_buf' = RingAfterDisconnect
    /\ msgq' = <<>>
    /\ adv' = IF adv = "off" THEN "scheduled" ELSE adv
    /\ UNCHANGED <<conns, adv_retry_delay_ms, heard, faults>>
    /\ LinkStep

\* The delay of at least 500 ms is over.  Compared with it the statements of
\* a transmit and of the handler take no time: a handler in a notify sleeps
\* for 20 ms and then finds the link gone.  A command may take longer.
AdvDelayOver == /\ adv = "scheduled"
                /\ tx = "idle" /\ ~pending
                /\ proc \in {"idle", "command"}

BugKeepsDelay == adv_retry_delay_ms

\* A start that succeeds ends the backoff.
DelayAfterStart == InitialDelay

\* start_adv_work_handler()
AdvStarted ==
    /\ AdvDelayOver
    /\ adv' = "on"
    /\ adv_retry_delay_ms' = DelayAfterStart
    /\ UNCHANGED <<ble_rpc_conn, conns, tx_ring_buf, msgq, heard, faults>>
    /\ LinkStep

BugNoRetry == "off"

\* k_work_schedule() from the handler.
AdvAfterFailure == "scheduled"

BugUncapped == 2 * adv_retry_delay_ms

NextDelay == IF 2 * adv_retry_delay_ms < MaxDelay
             THEN 2 * adv_retry_delay_ms ELSE MaxDelay

AdvFailed ==
    /\ AdvDelayOver
    /\ faults < MaxFaults /\ faults' = faults + 1
    /\ adv' = AdvAfterFailure
    /\ adv_retry_delay_ms' = NextDelay
    /\ UNCHANGED <<ble_rpc_conn, conns, tx_ring_buf, msgq, heard>>
    /\ LinkStep

Advertising == AdvStarted \/ AdvFailed

Next == \/ FramingError \/ Request
        \/ Processing
        \/ Handler
        \/ Connected \/ Disconnected
        \/ Advertising

Spec == Init /\ [][Next]_vars

(* The threads and the work queues run.  Nobody has to connect, to ask or  *)
(* to disconnect.                                                          *)
Fairness == /\ WF_vars(Processing)
            /\ WF_vars(Handler)
            /\ WF_vars(Advertising)

FairSpec == Spec /\ Fairness

-----------------------------------------------------------------------------
(* Properties.                                                             *)

Follows(s, t) == \/ t.line = s.line /\ t.seg = s.seg + 1
                 \/ t.line > s.line /\ s.seg = LineSegs /\ t.seg = 1

\* As long as no notify on its connection was given up, a client receives
\* whole lines, each at most once and in order, from its first byte on:
\* whatever the ring held when the last client left, whichever context puts
\* the lines, and however the ring fills up.
WholeLines ==
    ~broken => /\ received # <<>> => received[1].seg = 1
               /\ \A i \in 1 .. Len(received) - 1 :
                      Follows(received[i], received[i + 1])

\* Nothing stays in the ring: a line that was put is sent or dropped without
\* waiting for the next one, unless a notify was given up.
RingDrains == tx_ring_buf # <<>> ~> tx_ring_buf = <<>> \/ broken

\* A keyboard without a client is advertising again after finitely many
\* failed starts.
Reconnectable == ble_rpc_conn = 0 ~> adv = "on"
=============================================================================
