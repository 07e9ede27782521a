----------------------------- MODULE BleFraming -----------------------------
(***************************************************************************)
(* The receive side of the BLE transport (src/ble_rpc.c): GATT writes feed *)
(* bytes to feed_byte(), which cuts out request lines and hands them to    *)
(* the processing thread through a message queue of two lines.  The client *)
(* (docs/index.html) ends every request with a newline and may fail in the *)
(* middle of one, a write at a time.                                       *)
(***************************************************************************)
EXTENDS BraceFraming

CONSTANTS LineMax,    \* ZW3021_BLE_LINE_MAX, terminating NUL included
          QueueLen,   \* lines zw3021_ble_rpc_msgq holds
          Requests,   \* the well-formed requests the client may send
          MaxFaults   \* bound on broken-off writes, stalls, disconnects

ASSUME FramingAssumption ==
    /\ LineMax \in Nat \ {0, 1}
    /\ QueueLen \in Nat \ {0}
    /\ Requests \subseteq Seq(Bytes \ {"newline"})
    /\ MaxFaults \in Nat

VARIABLES rx,           \* the scanner
          rx_discard,
          rx_stale,     \* no byte for more than ZW3021_BLE_RX_STALE_MS
          msgq,         \* zw3021_ble_rpc_msgq
          sending,      \* what the client has yet to write of its request
          request,      \* the request it is sending
          clean,        \* history: the receiver was idle when it started
          outcome,      \* history: what the last byte caused
          faults

vars == <<rx, rx_discard, rx_stale, msgq, sending, request, clean, outcome,
          faults>>
client == <<request, clean, faults>>

Idle == rx.line = <<>> /\ ~rx_discard

TypeOK ==
    /\ rx \in Scanner
    /\ Len(rx.line) <= LineMax - 1
    /\ rx_discard \in BOOLEAN
    /\ rx_stale \in BOOLEAN
    /\ msgq \in Seq(Seq(Bytes)) /\ Len(msgq) <= QueueLen
    /\ sending \in Seq(Bytes)
    /\ request \in Seq(Bytes)
    /\ clean \in BOOLEAN
    /\ outcome \in {"none", "queued", "busy", "line too long"}
    /\ faults \in 0 .. MaxFaults

Init ==
    /\ rx = Reset
    /\ rx_discard = FALSE
    /\ rx_stale = FALSE
    /\ msgq = <<>>
    /\ sending = <<>>
    /\ request = <<>>
    /\ clean = TRUE
    /\ outcome = "none"
    /\ faults = 0

-----------------------------------------------------------------------------
(* The client.                                                             *)

StartRequest(r) ==
    /\ sending = <<>>
    /\ sending' = Append(r, "newline")
    /\ request' = r
    /\ clean' = Idle
    /\ outcome' = "none"
    /\ UNCHANGED <<rx, rx_discard, rx_stale, msgq, faults>>

\* A GATT write fails for good: the rest of the request is never sent.
BreakOff ==
    /\ sending # <<>>
    /\ faults < MaxFaults
    /\ faults' = faults + 1
    /\ sending' = <<>>
    /\ UNCHANGED <<rx, rx_discard, rx_stale, msgq, request, clean, outcome>>

\* More than ZW3021_BLE_RX_STALE_MS pass before the next byte: between two
\* requests at any time, in the middle of one when the link stalls.
Quiet ==
    /\ ~rx_stale
    /\ rx_stale' = TRUE
    /\ IF sending = <<>>
         THEN UNCHANGED <<clean, faults>>
         ELSE faults < MaxFaults /\ faults' = faults + 1 /\ clean' = FALSE
    /\ UNCHANGED <<rx, rx_discard, msgq, sending, request, outcome>>

-----------------------------------------------------------------------------
(* feed_byte(): the stale check, then one of its five ways through.        *)

BugKeepFlagsOnStale == IF rx_stale THEN [rx EXCEPT !.line = <<>>] ELSE rx

\* A partial message left alone for too long is dropped.
Fresh == IF rx_stale /\ (rx.line # <<>> \/ rx_discard) THEN Reset ELSE rx
FreshDiscard == rx_discard /\ ~rx_stale

Feed == /\ sending # <<>>
        /\ sending' = Tail(sending)
        /\ rx_stale' = FALSE
        /\ UNCHANGED client
Byte == Head(sending)

BugNeverResync ==
    /\ Feed
    /\ FreshDiscard
    /\ rx' = Fresh
    /\ rx_discard' = TRUE
    /\ UNCHANGED <<msgq, outcome>>

\* Discarding an over-long message up to its newline.
DiscardByte ==
    /\ Feed
    /\ FreshDiscard
    /\ rx' = Fresh
    /\ rx_discard' = (Byte # "newline")
    /\ UNCHANGED <<msgq, outcome>>

SkipBlank ==
    /\ Feed
    /\ ~FreshDiscard
    /\ Skipped(Fresh, Byte)
    /\ rx' = Fresh
    /\ rx_discard' = FALSE
    /\ UNCHANGED <<msgq, outcome>>

BugNoRoomForNul == Len(Fresh.line) >= LineMax

\* rx_pos >= sizeof(rx_line) - 1
Full == Len(Fresh.line) >= LineMax - 1

Overflow ==
    /\ Feed
    /\ ~FreshDiscard
    /\ ~Skipped(Fresh, Byte)
    /\ Full
    /\ rx' = Reset
    /\ rx_discard' = TRUE
    /\ outcome' = "line too long"
    /\ UNCHANGED msgq

Stored == ~FreshDiscard /\ ~Skipped(Fresh, Byte) /\ ~Full

StoreByte ==
    /\ Feed
    /\ Stored
    /\ ~Completes(Fresh, Byte)
    /\ rx' = Scan(Fresh, Byte)
    /\ rx_discard' = FALSE
    /\ UNCHANGED <<msgq, outcome>>

\* k_msgq_put(..., K_NO_WAIT): a full queue drops the request.
CompleteLine ==
    /\ Feed
    /\ Stored
    /\ Completes(Fresh, Byte)
    /\ IF Len(msgq) < QueueLen
         THEN /\ msgq' = Append(msgq, Append(Fresh.line, Byte))
              /\ outcome' = "queued"
         ELSE outcome' = "busy" /\ UNCHANGED msgq
    /\ rx' = HandedOff(Fresh, Byte)
    /\ rx_discard' = FALSE

FeedByte == \/ DiscardByte \/ SkipBlank \/ Overflow \/ StoreByte
            \/ CompleteLine

-----------------------------------------------------------------------------
\* rpc_processing_thread() takes the next line.
ProcessLine ==
    /\ msgq # <<>>
    /\ msgq' = Tail(msgq)
    /\ UNCHANGED <<rx, rx_discard, rx_stale, sending, outcome, client>>

\* on_disconnected(): the receiver and the queue start afresh.
Disconnect ==
    /\ faults < MaxFaults
    /\ faults' = faults + 1
    /\ rx' = Reset
    /\ rx_discard' = FALSE
    /\ msgq' = <<>>
    /\ sending' = <<>>
    /\ UNCHANGED <<rx_stale, outcome, request, clean>>

Next == \/ \E r \in Requests : StartRequest(r)
        \/ BreakOff
        \/ Quiet
        \/ FeedByte
        \/ ProcessLine
        \/ Disconnect

Spec == Init /\ [][Next]_vars

(* The client keeps sending and its writes arrive; BT RX context and the   *)
(* processing thread are scheduled.  Nothing obliges the link to fall      *)
(* quiet or to drop: recovery must not need them.                          *)
Fairness == /\ WF_vars(\E r \in Requests : StartRequest(r))
            /\ WF_vars(FeedByte)
            /\ WF_vars(ProcessLine)

FairSpec == Spec /\ Fairness

-----------------------------------------------------------------------------
(* Properties.                                                             *)

Fits(r) == Len(r) <= LineMax - 1

\* Between messages nothing is left of the last one: a quote or a brace of
\* an abandoned message never leaks into the next.
IdleMeansClean == rx.line = <<>> => rx = Reset

\* A request that fits and starts on an idle receiver is queued exactly as
\* it was sent when its last byte arrives, whatever its strings hold, or is
\* refused with "busy" because two requests wait already.
IntactDispatch ==
    [][ Len(sending) = 2 /\ clean /\ Fits(request) /\ FeedByte
          => \/ msgq' = Append(msgq, request)
             \/ Len(msgq) = QueueLen /\ outcome' = "busy" ]_vars

\* README: "an over-long request is discarded up to its trailing newline".
\* After the newline of a request the receiver is not discarding any more.
NewlineEndsDiscard ==
    [][Feed /\ Byte = "newline" => ~rx_discard']_vars

\* However requests were broken off before, a client that keeps sending
\* requests that fit is understood again and again, without a pause and
\* without reconnecting.
Answered == outcome = "busy" \/ (outcome = "queued" /\ clean)
Asking == sending # <<>> /\ Fits(request) /\ outcome = "none"
Recovers == []<>Asking => []<>Answered
=============================================================================
