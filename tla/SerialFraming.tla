---------------------------- MODULE SerialFraming ----------------------------
(***************************************************************************)
(* The serial transport (src/serial_rpc.c): rpc_thread() polls the CDC-ACM *)
(* console every 20 ms, cuts request lines out of the bytes and answers    *)
(* each one before it reads on.  There is no discard mode: after an        *)
(* overflow the rest of the message is read as the start of a new one, and *)
(* only a silence of two seconds restores the framing.  The client         *)
(* (docs/index.html) has one request outstanding and gives it up after     *)
(* COMMAND_TIMEOUT_MS, ten times that silence.                             *)
(***************************************************************************)
EXTENDS BraceFraming

CONSTANTS LineMax,    \* ZW3021_RPC_LINE_MAX, terminating NUL included
          Requests,   \* the well-formed requests the client may send
          MaxFaults   \* bound on requests broken off and on stalls

ASSUME FramingAssumption ==
    /\ LineMax \in Nat \ {0, 1}
    /\ Requests \subseteq Seq(Bytes \ {"newline"})
    /\ MaxFaults \in Nat

VARIABLES rx,           \* the scanner
          sending,      \* what the client has yet to write of its request
          request,      \* the request it is sending or waiting for
          processed,    \* the line zw3021_rpc_process_line() got last
          clean,        \* history: the receiver was idle when it started
          outcome,      \* history: how the receiver answered since then
          faults

vars == <<rx, sending, request, processed, clean, outcome, faults>>
client == <<request, clean, faults>>

TypeOK ==
    /\ rx \in Scanner
    /\ Len(rx.line) <= LineMax - 1
    /\ sending \in Seq(Bytes)
    /\ request \in Seq(Bytes)
    /\ processed \in Seq(Bytes)
    /\ clean \in BOOLEAN
    /\ outcome \in {"none", "processed", "line too long", "given up"}
    /\ faults \in 0 .. MaxFaults

Init ==
    /\ rx = Reset
    /\ sending = <<>>
    /\ request = <<>>
    /\ processed = <<>>
    /\ clean = TRUE
    /\ outcome = "given up"
    /\ faults = 0

\* The last request was answered or given up.
StartRequest(r) ==
    /\ sending = <<>>
    /\ outcome \in {"processed", "given up"}
    /\ sending' = Append(r, "newline")
    /\ request' = r
    /\ clean' = (rx.line = <<>>)
    /\ outcome' = "none"
    /\ UNCHANGED <<rx, processed, faults>>

\* The cable or the tab goes away in the middle of a request.
BreakOff ==
    /\ sending # <<>>
    /\ faults < MaxFaults
    /\ faults' = faults + 1
    /\ sending' = <<>>
    /\ outcome' = "given up"
    /\ UNCHANGED <<rx, request, processed, clean>>

BugNeverStale == rx.line # <<>> /\ rx.brace_depth = 0

\* Whether a message is under way that silence would discard.
Partial == rx.line # <<>>

\* COMMAND_TIMEOUT_MS without an answer: the receiver has had its two
\* seconds of silence by then, and has discarded what they discard.
GiveUp ==
    /\ sending = <<>>
    /\ outcome \in {"none", "line too long"}
    /\ ~Partial
    /\ outcome' = "given up"
    /\ UNCHANGED <<rx, sending, processed, client>>

-----------------------------------------------------------------------------
(* rpc_thread(): one byte of the inner loop, or the check after it.        *)

Byte == Head(sending)
Take == /\ sending # <<>>
        /\ sending' = Tail(sending)
        /\ UNCHANGED client

BugNoRoomForNul == Len(rx.line) >= LineMax

\* rpc_rx_pos >= sizeof(rpc_rx_line) - 1
Full == Len(rx.line) >= LineMax - 1

SkipBlank ==
    /\ Take
    /\ Skipped(rx, Byte)
    /\ UNCHANGED <<rx, processed, outcome>>

BugOnlyPosReset == [rx EXCEPT !.line = <<>>]

\* What is left of the scanner after an overflow.
AfterOverflow == Reset

Overflow ==
    /\ Take
    /\ ~Skipped(rx, Byte)
    /\ Full
    /\ rx' = AfterOverflow
    /\ outcome' = "line too long"
    /\ UNCHANGED processed

StoreByte ==
    /\ Take
    /\ ~Skipped(rx, Byte)
    /\ ~Full
    /\ ~Completes(rx, Byte)
    /\ rx' = Scan(rx, Byte)
    /\ UNCHANGED <<processed, outcome>>

CompleteLine ==
    /\ Take
    /\ ~Skipped(rx, Byte)
    /\ ~Full
    /\ Completes(rx, Byte)
    /\ processed' = Append(rx.line, Byte)
    /\ outcome' = "processed"
    /\ rx' = HandedOff(rx, Byte)

\* No byte for more than 2000 ms in the middle of a message: the client has
\* stopped sending, or the link stalls.
DiscardStale ==
    /\ Partial
    /\ rx' = Reset
    /\ IF sending = <<>>
         THEN UNCHANGED <<clean, faults>>
         ELSE faults < MaxFaults /\ faults' = faults + 1 /\ clean' = FALSE
    /\ UNCHANGED <<sending, request, processed, outcome>>

ReadByte == SkipBlank \/ Overflow \/ StoreByte \/ CompleteLine

Next == \/ \E r \in Requests : StartRequest(r)
        \/ BreakOff
        \/ GiveUp
        \/ ReadByte
        \/ DiscardStale

Spec == Init /\ [][Next]_vars

(* The thread polls for ever, and the client keeps sending and does not    *)
(* wait for ever.                                                          *)
Fairness == /\ WF_vars(\E r \in Requests : StartRequest(r))
            /\ WF_vars(GiveUp)
            /\ WF_vars(ReadByte)
            /\ WF_vars(sending = <<>> /\ DiscardStale)

FairSpec == Spec /\ Fairness

-----------------------------------------------------------------------------
(* Properties.                                                             *)

Fits(r) == Len(r) <= LineMax - 1

\* Between messages nothing is left of the last one: neither an overflow
\* nor a dropped partial leaves the scanner inside a string or a brace.
IdleMeansClean == rx.line = <<>> => rx = Reset

\* A request that fits and starts on an idle receiver is processed exactly
\* as it was sent, whatever its strings hold.
IntactDispatch ==
    [][ Len(sending) = 2 /\ clean /\ Fits(request) /\ ReadByte
          => processed' = request /\ outcome' = "processed" ]_vars

\* A client that keeps sending requests that fit is understood again and
\* again, however requests before were broken off or did not fit: the
\* silence while it waits for an answer restores the framing.
Asking == sending # <<>> /\ Fits(request) /\ outcome = "none"
Recovers == []<>Asking => []<>(outcome = "processed" /\ processed = request)
=============================================================================
