-------------------------- MODULE BleFramingProofs --------------------------
(***************************************************************************)
(* Theorems about BleFraming for any buffer of at least two bytes, any     *)
(* queue length, any number of faults and any requests: the buffer never   *)
(* overruns, an idle receiver is clean and, for well-formed requests, what *)
(* fits and starts on an idle receiver is queued as it was sent.           *)
(***************************************************************************)
EXTENDS BleFraming, SequenceTheorems, TLAPS

\* The scanner is the serial receiver's too: Reader gives the lemmas about it,
\* none of which speaks of a variable, the serial receiver's own included.
Reader == INSTANCE SerialFramingProofs WITH processed <- request

WellFormed(r) == Reader!WellFormed(r)
Following(s, left, r) == Reader!Following(s, left, r)

\* Every request is a JSON object.
ClientIsWellFormed == \A r \in Requests : WellFormed(r)

\* A request that fits and started on an idle receiver is under way: the
\* scanner holds what was sent of it and stands where a reader of JSON would.
FollowsInv ==
    sending # <<>> /\ Len(sending) > 1 /\ clean /\ Fits(request) =>
        /\ request \in Requests
        /\ Following(rx, sending, request)
        /\ ~rx_discard
        /\ rx_stale => Len(sending) = Len(request) + 1

BufferInv == TypeOK /\ IdleMeansClean

-----------------------------------------------------------------------------
(* The lemmas about the scanner.                                           *)

(* Both receivers have the scanner of BraceFraming.                        *)
LEMMA SameScanner ==
    /\ Reader!Bytes = Bytes /\ Reader!Scanner = Scanner
    /\ Reader!Reset = Reset
    /\ \A s, b : /\ Reader!Skipped(s, b) <=> Skipped(s, b)
                 /\ Reader!Scan(s, b) = Scan(s, b)
                 /\ Reader!Completes(s, b) <=> Completes(s, b)
                 /\ Reader!HandedOff(s, b) = HandedOff(s, b)
BY DEF Reader!Bytes, Bytes, Reader!Scanner, Scanner, Reader!Reset, Reset,
   Reader!Skipped, Skipped, Reader!Scan, Scan, Reader!Completes, Completes,
   Reader!HandedOff, HandedOff

(* Every byte leaves the scanner with a line that it can hold.             *)
LEMMA ScanType ==
    ASSUME NEW s \in Scanner, NEW b \in Bytes
    PROVE  /\ Scan(s, b) \in Scanner
           /\ Scan(s, b).line = Append(s.line, b)
           /\ Len(Scan(s, b).line) = Len(s.line) + 1
           /\ Scan(s, b).line # <<>>
BY Reader!ScanType, SameScanner, FramingAssumption

(* The byte that completes a message leaves nothing of it behind.          *)
LEMMA HandedOffClean ==
    ASSUME NEW s \in Scanner, NEW b \in Bytes, Completes(s, b)
    PROVE  HandedOff(s, b) = Reset
BY Reader!HandedOffClean, SameScanner, FramingAssumption

(* After an overflow, a stale partial or a disconnect it is clean.         *)
LEMMA ResetType ==
    Reset \in Scanner /\ Reset.line = <<>> /\ Len(Reset.line) = 0
BY Reader!ResetType, SameScanner, FramingAssumption

(* A clean scanner follows a request that is about to be sent.             *)
LEMMA FollowingStarts ==
    ASSUME NEW r \in Seq(Bytes)
    PROVE  Following(Reset, Append(r, "newline"), r)
BY Reader!FollowingStarts, SameScanner, FramingAssumption DEF Following

(* The next byte of a well-formed request is stored; it completes the line *)
(* exactly if it is the last one, and the line is the request then.        *)
LEMMA FollowingStep ==
    ASSUME NEW r \in Seq(Bytes), WellFormed(r),
           NEW left \in Seq(Bytes), Len(left) > 1,
           NEW s \in Scanner, Following(s, left, r)
    PROVE  LET b == Head(left)
           IN  /\ ~Skipped(s, b)
               /\ Len(s.line) = Len(r) + 1 - Len(left)
               /\ Len(s.line) < Len(r)
               /\ Completes(s, b) <=> Len(left) = 2
               /\ Len(left) > 2 => Following(Scan(s, b), Tail(left), r)
               /\ Len(left) = 2 => Append(s.line, b) = r
BY Reader!FollowingStep, SameScanner, FramingAssumption DEF WellFormed,
   Following

-----------------------------------------------------------------------------
(* Type correctness: the buffer bound among the types.                     *)

(* The numbers among the constants.                                        *)
LEMMA Bounds == /\ LineMax \in Nat /\ LineMax > 1
                /\ QueueLen \in Nat /\ QueueLen > 0
                /\ MaxFaults \in Nat
BY FramingAssumption

(* A fault that may happen is counted within the bound.                    *)
LEMMA FaultCounted ==
    ASSUME TypeOK, faults < MaxFaults
    PROVE  faults + 1 \in 0 .. MaxFaults
<1>1. faults \in 0 .. MaxFaults
    BY DEF TypeOK
<1>. QED
    BY <1>1, Bounds

(* The empty line and the empty queue have their types.                    *)
LEMMA EmptyLine == <<>> \in Seq(Bytes) /\ <<>> \in Seq(Seq(Bytes))
                   /\ Len(<<>>) = 0
OBVIOUS

(* What the stale check hands to the rest of feed_byte().                  *)
LEMMA FreshType ==
    ASSUME BufferInv
    PROVE  /\ Fresh \in Scanner
           /\ Len(Fresh.line) <= LineMax - 1
           /\ Fresh.line = <<>> => Fresh = Reset
<1>1. Reset \in Scanner /\ Len(Reset.line) <= LineMax - 1
    BY ResetType, Bounds
<1>2. Fresh = Reset \/ Fresh = rx
    BY DEF Fresh
<1>. QED
    BY <1>1, <1>2 DEF BufferInv, TypeOK, IdleMeansClean

(* The byte fed is one the client sent.                                    *)
LEMMA FeedType ==
    ASSUME BufferInv, Feed
    PROVE  /\ Byte \in Bytes
           /\ sending' \in Seq(Bytes)
           /\ Len(sending') = Len(sending) - 1
<1>1. sending \in Seq(Bytes) /\ sending # <<>>
    BY DEF BufferInv, TypeOK, Feed
<1>2. Head(sending) \in Bytes /\ Tail(sending) \in Seq(Bytes)
      /\ Len(Tail(sending)) = Len(sending) - 1
    BY <1>1, HeadTailProperties
<1>. QED
    BY <1>2 DEF Feed, Byte

(* Init establishes the invariant of the buffer.                           *)
LEMMA BufferInvInit == Init => BufferInv
<1> SUFFICES ASSUME Init PROVE BufferInv
    OBVIOUS
<1>1. rx \in Scanner /\ Len(rx.line) <= LineMax - 1
    BY ResetType, Bounds DEF Init
<1>2. /\ msgq \in Seq(Seq(Bytes)) /\ Len(msgq) <= QueueLen
      /\ sending \in Seq(Bytes) /\ request \in Seq(Bytes)
    BY Bounds DEF Init
<1>3. faults \in 0 .. MaxFaults
    BY Bounds DEF Init
<1>. QED
    BY <1>1, <1>2, <1>3 DEF Init, BufferInv, TypeOK, IdleMeansClean

(* Every step keeps the invariant of the buffer.                           *)
LEMMA BufferInvStep == BufferInv /\ [Next]_vars => BufferInv'
<1> SUFFICES ASSUME BufferInv, [Next]_vars PROVE BufferInv'
    OBVIOUS
<1>. USE DEF BufferInv
<1>1. ASSUME NEW r \in Requests, StartRequest(r)
      PROVE  BufferInv'
    <2>1. r \in Seq(Bytes) /\ Append(r, "newline") \in Seq(Bytes)
        <3>1. r \in Seq(Bytes \ {"newline"})
            BY FramingAssumption
        <3>2. r \in Seq(Bytes)
            BY <3>1
        <3>. QED
            BY <3>2 DEF Bytes
    <2>. QED
        BY <1>1, <2>1 DEF TypeOK, IdleMeansClean, StartRequest, Idle
<1>2. CASE BreakOff
    BY <1>2, FaultCounted, EmptyLine DEF TypeOK, IdleMeansClean, BreakOff
<1>3. CASE Quiet
    BY <1>3, FaultCounted DEF TypeOK, IdleMeansClean, Quiet
<1>4. CASE DiscardByte
    BY <1>4, FreshType, FeedType DEF TypeOK, IdleMeansClean, DiscardByte,
       Feed, client
<1>5. CASE SkipBlank
    BY <1>5, FreshType, FeedType DEF TypeOK, IdleMeansClean, SkipBlank, Feed,
       client
<1>6. CASE Overflow
    <2>1. Reset \in Scanner /\ Len(Reset.line) <= LineMax - 1
        BY ResetType, Bounds
    <2>. QED
        BY <1>6, <2>1, FeedType DEF TypeOK, IdleMeansClean, Overflow, Feed,
           client
<1>7. CASE StoreByte
    <2>1. Fresh \in Scanner /\ Len(Fresh.line) < LineMax - 1 /\ Byte \in Bytes
        BY <1>7, FreshType, FeedType, Bounds DEF StoreByte, Stored,
           Full, Scanner
    <2>2. /\ rx' \in Scanner /\ rx'.line # <<>>
          /\ Len(rx'.line) <= LineMax - 1
        BY <1>7, <2>1, ScanType, Bounds DEF StoreByte, Scanner
    <2>. QED
        BY <1>7, <2>2, FeedType DEF TypeOK, IdleMeansClean, StoreByte, Feed,
           client
<1>8. CASE CompleteLine
    <2>1. Fresh \in Scanner /\ Byte \in Bytes
        BY <1>8, FreshType, FeedType DEF CompleteLine
    <2>2. rx' = Reset
        BY <1>8, <2>1, HandedOffClean DEF CompleteLine
    <2>3. Append(Fresh.line, Byte) \in Seq(Bytes)
        BY <2>1 DEF Scanner
    <2>4. msgq' \in Seq(Seq(Bytes)) /\ Len(msgq') <= QueueLen
        <3>1. msgq \in Seq(Seq(Bytes)) /\ Len(msgq) <= QueueLen
            BY DEF TypeOK
        <3>2. CASE Len(msgq) < QueueLen
            <4>1. msgq' = Append(msgq, Append(Fresh.line, Byte))
                BY <1>8, <3>2 DEF CompleteLine
            <4>. QED
                BY <2>3, <3>1, <3>2, <4>1, Bounds, AppendProperties
        <3>3. CASE ~(Len(msgq) < QueueLen)
            BY <1>8, <3>1, <3>3 DEF CompleteLine
        <3>. QED
            BY <3>2, <3>3
    <2>5. outcome' \in {"queued", "busy"}
        BY <1>8 DEF CompleteLine
    <2>. QED
        <3>1. Reset \in Scanner /\ Len(Reset.line) <= LineMax - 1
            BY ResetType, Bounds
        <3>. QED
            BY <1>8, <2>2, <2>4, <2>5, <3>1, FeedType
               DEF TypeOK, IdleMeansClean, CompleteLine, Feed, client
<1>9. CASE ProcessLine
    <2>1. /\ Tail(msgq) \in Seq(Seq(Bytes))
          /\ Len(Tail(msgq)) = Len(msgq) - 1 /\ Len(msgq) \in Nat
        BY <1>9, HeadTailProperties, LenProperties DEF TypeOK, ProcessLine
    <2>2. Len(Tail(msgq)) <= QueueLen
        <3>1. Len(msgq) <= QueueLen
            BY DEF TypeOK
        <3>2. \A m, n \in Nat : m <= n => m - 1 <= n
            OBVIOUS
        <3>3. Len(msgq) - 1 <= QueueLen
            BY <2>1, <3>1, <3>2, Bounds
        <3>. QED
            BY <2>1, <3>3
    <2>. QED
        BY <1>9, <2>1, <2>2 DEF TypeOK, IdleMeansClean, ProcessLine, client
<1>10. CASE Disconnect
    <2>1. Reset \in Scanner /\ Len(Reset.line) <= LineMax - 1
        BY ResetType, Bounds
    <2>2. 0 <= QueueLen
        BY Bounds
    <2>. QED
        BY <1>10, <2>1, <2>2, FaultCounted, EmptyLine DEF TypeOK,
           IdleMeansClean, Disconnect
<1>11. CASE UNCHANGED vars
    BY <1>11 DEF TypeOK, IdleMeansClean, vars
<1>. QED
    BY <1>1, <1>2, <1>3, <1>4, <1>5, <1>6, <1>7, <1>8, <1>9, <1>10, <1>11
       DEF Next, FeedByte

(* The invariant of the buffer holds in every reachable state.             *)
LEMMA BufferInvariance == Spec => []BufferInv
BY BufferInvInit, BufferInvStep, PTL DEF Spec

(* Every variable keeps its type: rx_line never holds more than            *)
(* LineMax - 1 bytes, whatever arrives and whenever the link breaks.       *)
THEOREM TypeCorrect == Spec => []TypeOK
BY BufferInvariance, PTL DEF BufferInv

(* A receiver between messages is in its initial state.                    *)
THEOREM CleanWhenIdle == Spec => []IdleMeansClean
BY BufferInvariance, PTL DEF BufferInv

-----------------------------------------------------------------------------
(* Intact dispatch.                                                        *)

(* What FollowsInv says of the byte of a request that is read next.        *)
LEMMA UnderWay ==
    ASSUME BufferInv, FollowsInv, sending # <<>>, Len(sending) > 1, clean,
           Fits(request), ClientIsWellFormed
    PROVE  /\ Fresh = rx /\ ~FreshDiscard /\ ~Skipped(rx, Byte) /\ ~Full
           /\ Completes(rx, Byte) <=> Len(sending) = 2
           /\ Len(sending) > 2 =>
                  Following(Scan(rx, Byte), Tail(sending), request)
           /\ Len(sending) = 2 => Append(rx.line, Byte) = request
<1>1. /\ request \in Seq(Bytes) /\ WellFormed(request)
      /\ sending \in Seq(Bytes) /\ rx \in Scanner
      /\ Following(rx, sending, request)
      /\ ~rx_discard
      /\ rx_stale => Len(sending) = Len(request) + 1
    BY DEF BufferInv, TypeOK, FollowsInv, ClientIsWellFormed
<1>2. /\ ~Skipped(rx, Byte)
      /\ Len(rx.line) = Len(request) + 1 - Len(sending)
      /\ Len(rx.line) < Len(request)
      /\ Completes(rx, Byte) <=> Len(sending) = 2
      /\ Len(sending) > 2 => Following(Scan(rx, Byte), Tail(sending), request)
      /\ Len(sending) = 2 => Append(rx.line, Byte) = request
    BY <1>1, FollowingStep DEF Byte
<1>3. Len(request) \in Nat /\ rx.line \in Seq(Bytes) /\ Len(rx.line) \in Nat
    BY <1>1, LenProperties DEF Scanner
<1>4. Fresh = rx /\ ~FreshDiscard
    <2>1. ASSUME rx_stale PROVE rx.line = <<>>
        <3>1. Len(rx.line) = Len(request) + 1 - (Len(request) + 1)
            BY <1>1, <1>2, <2>1
        <3>2. Len(rx.line) = 0
            BY <1>3, <3>1
        <3>. QED
            BY <1>3, <3>2, EmptySeq
    <2>2. ~rx_discard
        BY <1>1
    <2>. QED
        BY <2>1, <2>2 DEF Fresh, FreshDiscard
<1>5. ~Full
    BY <1>2, <1>3, <1>4, Bounds DEF Full, Fits
<1>. QED
    BY <1>2, <1>4, <1>5

(* Every step keeps the scanner where a reader of JSON would be.           *)
LEMMA FollowsInvStep ==
    ASSUME ClientIsWellFormed
    PROVE  BufferInv /\ FollowsInv /\ [Next]_vars => FollowsInv'
<1> SUFFICES ASSUME BufferInv, FollowsInv, [Next]_vars PROVE FollowsInv'
    OBVIOUS
<1>1. ASSUME NEW r \in Requests, StartRequest(r)
      PROVE  FollowsInv'
    <2>1. r \in Seq(Bytes)
        <3>1. r \in Seq(Bytes \ {"newline"})
            BY FramingAssumption
        <3>. QED
            BY <3>1
    <2>2. /\ sending' = Append(r, "newline") /\ request' = r
          /\ clean' = Idle /\ rx' = rx /\ rx_discard' = rx_discard
        BY <1>1 DEF StartRequest
    <2>3. Len(sending') = Len(r) + 1
        BY <2>1, <2>2, AppendProperties DEF Bytes
    <2>4. ASSUME clean'
          PROVE  ~rx_discard' /\ Following(rx', sending', request')
        <3>1. rx = Reset /\ ~rx_discard
            BY <2>2, <2>4 DEF Idle, BufferInv, IdleMeansClean
        <3>. QED
            BY <2>1, <2>2, <3>1, FollowingStarts
    <2>. QED
        BY <2>2, <2>3, <2>4 DEF FollowsInv
<1>2. CASE BreakOff \/ Disconnect
    BY <1>2 DEF FollowsInv, BreakOff, Disconnect
<1>3. CASE Quiet
    <2>1. sending' = sending
        BY <1>3 DEF Quiet
    <2>2. CASE sending = <<>>
        BY <2>1, <2>2 DEF FollowsInv
    <2>3. CASE sending # <<>>
        BY <1>3, <2>3 DEF FollowsInv, Quiet
    <2>. QED
        BY <2>2, <2>3
<1>4. CASE FeedByte
    <2>1. SUFFICES ASSUME sending' # <<>>, Len(sending') > 1, clean,
                          Fits(request)
                   PROVE  FollowsInv'
        BY <1>4 DEF FollowsInv, FeedByte, DiscardByte, SkipBlank, Overflow,
           StoreByte, CompleteLine, Feed, client, Fits
    <2>2. /\ request' = request /\ rx_stale' = FALSE
          /\ sending' = Tail(sending) /\ sending # <<>> /\ Feed
        BY <1>4 DEF FeedByte, DiscardByte, SkipBlank, Overflow,
           StoreByte, CompleteLine, Feed, client
    <2>3. Len(sending) > 2 /\ Len(sending) # 2
        <3>1. Len(sending') = Len(sending) - 1 /\ Len(sending) \in Nat
            BY <2>2, FeedType, LenProperties DEF BufferInv, TypeOK
        <3>2. \A n \in Nat : n - 1 > 1 => n > 2 /\ n # 2
            OBVIOUS
        <3>. QED
            BY <2>1, <3>1, <3>2
    <2>4. request \in Requests
        BY <2>1, <2>2, <2>3 DEF FollowsInv
    <2>5. /\ Fresh = rx /\ ~FreshDiscard /\ ~Skipped(rx, Byte) /\ ~Full
          /\ Completes(rx, Byte) <=> Len(sending) = 2
          /\ Following(Scan(rx, Byte), Tail(sending), request)
        BY <2>1, <2>2, <2>3, UnderWay
    <2>6. StoreByte
        <3>1. ~Completes(Fresh, Byte) /\ ~Skipped(Fresh, Byte)
            BY <2>3, <2>5
        <3>. QED
            BY <1>4, <2>5, <3>1 DEF FeedByte, DiscardByte, SkipBlank,
               Overflow, CompleteLine
    <2>7. rx' = Scan(rx, Byte) /\ rx_discard' = FALSE
        BY <2>5, <2>6 DEF StoreByte
    <2>. QED
        BY <2>2, <2>4, <2>5, <2>7 DEF FollowsInv
<1>5. CASE ProcessLine \/ UNCHANGED vars
    BY <1>5 DEF FollowsInv, ProcessLine, client, vars
<1>. QED
    BY <1>1, <1>2, <1>3, <1>4, <1>5 DEF Next

(* The scanner is always where a reader of JSON would be.                  *)
LEMMA FollowsInvariance ==
    ASSUME ClientIsWellFormed
    PROVE  Spec => [](BufferInv /\ FollowsInv)
<1>1. Init => FollowsInv
    BY DEF Init, FollowsInv
<1>. QED
    BY <1>1, FollowsInvStep, BufferInvInit, BufferInvStep, PTL DEF Spec

(* A well-formed request that fits the buffer and starts on an idle        *)
(* receiver is queued byte for byte as it was sent when its closing brace  *)
(* arrives, or refused because the queue is full: for every request, every *)
(* buffer and queue size, whatever broke before it.                        *)
THEOREM IntactlyDispatched ==
    ASSUME ClientIsWellFormed
    PROVE  Spec => IntactDispatch
<1> DEFINE Dispatched == Len(sending) = 2 /\ clean /\ Fits(request) /\ FeedByte
                => \/ msgq' = Append(msgq, request)
                   \/ Len(msgq) = QueueLen /\ outcome' = "busy"
<1>1. BufferInv /\ FollowsInv /\ [Next]_vars => [Dispatched]_vars
    <2> SUFFICES ASSUME BufferInv, FollowsInv, Len(sending) = 2, clean,
                        Fits(request), FeedByte
                 PROVE  \/ msgq' = Append(msgq, request)
                        \/ Len(msgq) = QueueLen /\ outcome' = "busy"
        OBVIOUS
    <2>1. sending # <<>> /\ Len(sending) > 1
        <3>1. sending # <<>>
            BY DEF FeedByte, DiscardByte, SkipBlank, Overflow, StoreByte,
               CompleteLine, Feed
        <3>2. Len(sending) > 1
            OBVIOUS
        <3>. QED
            BY <3>1, <3>2
    <2>2. /\ Fresh = rx /\ ~FreshDiscard /\ ~Skipped(rx, Byte) /\ ~Full
          /\ Completes(rx, Byte) /\ Append(rx.line, Byte) = request
        BY <2>1, UnderWay
    <2>3. CompleteLine
        <3>1. ~Skipped(Fresh, Byte) /\ Completes(Fresh, Byte)
            BY <2>2
        <3>. QED
            BY <2>2, <3>1 DEF FeedByte, DiscardByte, SkipBlank, Overflow,
               StoreByte
    <2>4. Len(msgq) \in Nat /\ Len(msgq) <= QueueLen
        BY LenProperties DEF BufferInv, TypeOK
    <2>. QED
        BY <2>2, <2>3, <2>4, Bounds DEF CompleteLine
<1>. QED
    BY <1>1, FollowsInvariance, PTL DEF Spec, IntactDispatch
=============================================================================
