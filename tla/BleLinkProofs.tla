---------------------------- MODULE BleLinkProofs ----------------------------
(***************************************************************************)
(* Theorems about BleLink for every size of the ring, of a line and of a   *)
(* notification, and every number of lines, connections and faults: the    *)
(* ring never overruns, and a client receives whole lines in order until a *)
(* notify on its connection is given up.                                   *)
(***************************************************************************)
EXTENDS BleLink, SequenceTheorems, TLAPS

\* Requests that are still to be answered.
Unanswered == Len(msgq) + (IF proc \in {"command", "put"} THEN 1 ELSE 0)

CountInv == lines + Unanswered <= asked

\* The ring of a connection that is gone is reset before advertising starts
\* again: the work that resets it is on its way.  A start that succeeds ends
\* the backoff.
LinkInv ==
    /\ ble_rpc_conn # 0 => adv = "off"
    /\ tx = "reset" => ble_rpc_conn = 0
    /\ ble_rpc_conn = 0 /\ tx_ring_buf # <<>> =>
           proc = "submit" \/ pending \/ tx = "reset"
    /\ ble_rpc_conn = 0 /\ adv = "on" =>
           /\ tx = "idle" /\ ~pending /\ tx_ring_buf = <<>>
           /\ proc \in {"idle", "command"}
    /\ tx # "notify" => tx_chunk = <<>>
    /\ adv = "on" => adv_retry_delay_ms = InitialDelay

\* s starts with a first segment and goes on segment by segment.
InOrder(s) == /\ s # <<>> => s[1].seg = 1
              /\ \A i \in 1 .. Len(s) - 1 : Follows(s[i], s[i + 1])

\* s ends with a last segment, of a line up to n.
Ended(s, n) == s # <<>> => s[Len(s)].seg = LineSegs /\ s[Len(s)].line <= n

\* Everything that was put for this connection and not lost, in order.
Stream == (received \o tx_chunk) \o tx_ring_buf

StreamInv ==
    ~broken => /\ InOrder(received)
               /\ ble_rpc_conn # 0 => InOrder(Stream) /\ Ended(Stream, lines)

CoreInv == TypeOK /\ CountInv /\ LinkInv

IInv == CoreInv /\ StreamInv

-----------------------------------------------------------------------------
(* Lines and sequences of segments.                                        *)

(* The constants one by one.                                               *)
LEMMA Numbers ==
    /\ RingLen \in Nat /\ RingLen > 0 /\ LineSegs \in Nat /\ LineSegs > 0
    /\ ChunkMax \in Nat /\ ChunkMax > 0 /\ QueueLen \in Nat /\ QueueLen > 0
    /\ Retries \in Nat /\ MaxLines \in Nat /\ MaxConns \in Nat
    /\ MaxFaults \in Nat
BY LinkAssumption

(* A line is its number's segments in order.                               *)
LEMMA LineType ==
    ASSUME NEW n \in 1 .. MaxLines
    PROVE  /\ Line(n) \in Seq(Segments)
           /\ Len(Line(n)) = LineSegs
           /\ \A i \in 1 .. LineSegs : Line(n)[i].line = n /\ Line(n)[i].seg = i
<1>1. \A i \in 1 .. LineSegs : [line |-> n, seg |-> i] \in Segments
    BY DEF Segments
<1>2. Line(n) \in [1 .. LineSegs -> Segments]
    BY <1>1 DEF Line
<1>3. Line(n) \in Seq(Segments)
    BY <1>2, Numbers, IsASeq DEF Line
<1>4. Len(Line(n)) = LineSegs
    BY <1>2, <1>3, Numbers, LenProperties
<1>. QED
    BY <1>3, <1>4 DEF Line

(* What is in order stays so when the next line follows it.                *)
LEMMA LineFollows ==
    ASSUME NEW s \in Seq(Segments), NEW n \in Nat, n + 1 \in 1 .. MaxLines,
           InOrder(s), Ended(s, n)
    PROVE  InOrder(s \o Line(n + 1)) /\ Ended(s \o Line(n + 1), n + 1)
<1> DEFINE l == Line(n + 1)
           t == s \o l
<1>1. /\ l \in Seq(Segments) /\ Len(l) = LineSegs
      /\ \A i \in 1 .. LineSegs : l[i].line = n + 1 /\ l[i].seg = i
    BY LineType
<1>. HIDE DEF l
<1>2. /\ t \in Seq(Segments) /\ Len(s) \in Nat /\ Len(t) = Len(s) + LineSegs
      /\ \A i \in 1 .. Len(s) : t[i] = s[i]
      /\ \A i \in 1 .. LineSegs : t[Len(s) + i] = l[i]
    <2>1. /\ t \in Seq(Segments) /\ Len(t) = Len(s) + LineSegs
          /\ \A i \in 1 .. Len(s) + LineSegs :
                 t[i] = IF i <= Len(s) THEN s[i] ELSE l[i - Len(s)]
        BY <1>1, ConcatProperties
    <2>2. Len(s) \in Nat
        BY LenProperties
    <2>. HIDE DEF t
    <2>3. ASSUME NEW i \in 1 .. Len(s) PROVE t[i] = s[i]
        BY <2>1, <2>2, Numbers
    <2>4. ASSUME NEW i \in 1 .. LineSegs PROVE t[Len(s) + i] = l[i]
        <3>1. /\ Len(s) + i \in 1 .. Len(s) + LineSegs
              /\ ~(Len(s) + i <= Len(s)) /\ (Len(s) + i) - Len(s) = i
            BY <2>2, Numbers
        <3>. QED
            BY <2>1, <3>1
    <2>. QED
        BY <2>1, <2>2, <2>3, <2>4
<1>. HIDE DEF t
<1>3. t[1].seg = 1
    <2>1. CASE s = <<>>
        <3>1. Len(s) = 0 /\ 1 \in 1 .. LineSegs
            BY <2>1, Numbers
        <3>2. t[0 + 1] = l[1]
            BY <1>2, <3>1
        <3>. QED
            BY <1>1, <3>1, <3>2
    <2>2. CASE s # <<>>
        <3>1. 1 \in 1 .. Len(s)
            BY <1>2, <2>2, EmptySeq
        <3>. QED
            BY <1>2, <2>2, <3>1 DEF InOrder
    <2>. QED
        BY <2>1, <2>2
<1>4. ASSUME NEW i \in 1 .. Len(t) - 1
      PROVE  Follows(t[i], t[i + 1])
    <2>1. CASE i < Len(s)
        <3>1. /\ i \in 1 .. Len(s) /\ i + 1 \in 1 .. Len(s)
              /\ i \in 1 .. Len(s) - 1
            BY <1>2, <2>1
        <3>. QED
            BY <1>2, <3>1 DEF InOrder
    <2>2. CASE i = Len(s)
        <3>1. i \in 1 .. Len(s) /\ s # <<>>
            BY <1>2, <2>2, EmptySeq
        <3>2. /\ t[i] = s[Len(s)] /\ s[Len(s)].seg = LineSegs
              /\ s[Len(s)].line <= n /\ s[Len(s)].line \in Nat
            <4>1. s[Len(s)] \in Segments
                BY <2>2, <3>1, ElementOfSeq
            <4>2. s[Len(s)].line \in Nat
                BY <4>1 DEF Segments
            <4>. QED
                BY <1>2, <2>2, <3>1, <4>2 DEF Ended
        <3>3. t[i + 1].line = n + 1 /\ t[i + 1].seg = 1
            <4>1. 1 \in 1 .. LineSegs
                BY Numbers
            <4>. QED
                BY <1>1, <1>2, <2>2, <4>1
        <3>4. t[i + 1].line > t[i].line
            BY <3>2, <3>3
        <3>. QED
            BY <3>2, <3>3, <3>4 DEF Follows
    <2>3. CASE i > Len(s)
        <3>1. PICK j \in 1 .. LineSegs : i = Len(s) + j
            <4>1. i - Len(s) \in 1 .. LineSegs /\ i = Len(s) + (i - Len(s))
                BY <1>2, <2>3, Numbers
            <4>. QED
                BY <4>1
        <3>2. j + 1 \in 1 .. LineSegs /\ i + 1 = Len(s) + (j + 1)
            BY <1>2, <3>1, Numbers
        <3>3. t[i] = l[j] /\ t[i + 1] = l[j + 1]
            BY <1>2, <3>1, <3>2
        <3>. QED
            BY <1>1, <3>2, <3>3 DEF Follows
    <2>. QED
        BY <1>2, <2>1, <2>2, <2>3, Numbers
<1>5. t[Len(t)].seg = LineSegs /\ t[Len(t)].line <= n + 1
    <2>1. LineSegs \in 1 .. LineSegs
        BY Numbers
    <2>2. t[Len(t)] = l[LineSegs]
        BY <1>2, <2>1
    <2>. QED
        BY <1>1, <2>1, <2>2
<1>. QED
    BY <1>3, <1>4, <1>5 DEF InOrder, Ended, t, l

(* A prefix of what is in order is in order.                               *)
LEMMA PrefixInOrder ==
    ASSUME NEW s \in Seq(Segments), NEW t \in Seq(Segments), InOrder(s \o t)
    PROVE  InOrder(s)
<1>1. /\ Len(s) \in Nat /\ Len(t) \in Nat /\ Len(s \o t) = Len(s) + Len(t)
      /\ \A i \in 1 .. Len(s) + Len(t) :
             (s \o t)[i] = IF i <= Len(s) THEN s[i] ELSE t[i - Len(s)]
    BY ConcatProperties, LenProperties
<1>2. \A i \in 1 .. Len(s) : (s \o t)[i] = s[i]
    <2> SUFFICES ASSUME NEW i \in 1 .. Len(s) PROVE (s \o t)[i] = s[i]
        OBVIOUS
    <2>1. i \in 1 .. Len(s) + Len(t) /\ i <= Len(s)
        BY <1>1
    <2>. QED
        BY <1>1, <2>1
<1>3. ASSUME s # <<>> PROVE s[1].seg = 1
    <2>1. 1 \in 1 .. Len(s) /\ s \o t # <<>>
        BY <1>1, <1>3, EmptySeq, ConcatEqualIffEmpty
    <2>. QED
        BY <1>2, <2>1 DEF InOrder
<1>4. ASSUME NEW i \in 1 .. Len(s) - 1 PROVE Follows(s[i], s[i + 1])
    <2>1. /\ i \in 1 .. Len(s) /\ i + 1 \in 1 .. Len(s)
          /\ i \in 1 .. Len(s \o t) - 1
        BY <1>1
    <2>. QED
        BY <1>2, <2>1 DEF InOrder
<1>. QED
    BY <1>3, <1>4 DEF InOrder

(* A line that fits is appended as a whole.                                *)
LEMMA WholePut ==
    ASSUME TypeOK, Fits, PutLine, lines < MaxLines
    PROVE  /\ lines + 1 \in 1 .. MaxLines /\ lines \in Nat
           /\ tx_ring_buf' = tx_ring_buf \o Line(lines + 1)
           /\ tx_ring_buf' \in Seq(Segments)
           /\ Len(tx_ring_buf') <= RingLen
<1> DEFINE all == tx_ring_buf \o Line(lines + 1)
<1>1. lines + 1 \in 1 .. MaxLines /\ lines \in Nat
    BY Numbers DEF TypeOK
<1>2. /\ Line(lines + 1) \in Seq(Segments) /\ Len(Line(lines + 1)) = LineSegs
    BY <1>1, LineType
<1>3. tx_ring_buf \in Seq(Segments) /\ Len(tx_ring_buf) \in Nat
    BY LenProperties DEF TypeOK
<1>4. all \in Seq(Segments) /\ Len(all) = Len(tx_ring_buf) + LineSegs
    BY <1>2, <1>3, ConcatProperties
<1>. HIDE DEF all
<1>5. Len(all) <= RingLen /\ Len(all) \in Nat
    BY <1>3, <1>4, Numbers DEF Fits
<1>6. tx_ring_buf' = SubSeq(all, 1, IF Len(all) < RingLen THEN Len(all)
                                                          ELSE RingLen)
    BY DEF PutLine, all
<1>7. (IF Len(all) < RingLen THEN Len(all) ELSE RingLen) = Len(all)
    BY <1>5, Numbers
<1>8. tx_ring_buf' = all
    BY <1>4, <1>6, <1>7, SubSeqFull
<1>. QED
    BY <1>1, <1>4, <1>5, <1>8 DEF all

-----------------------------------------------------------------------------
(* Types, the count of lines and the state of the link.                    *)

(* Init establishes types, counts and what holds of a gone connection.     *)
LEMMA CoreInvInit == Init => CoreInv
<1> SUFFICES ASSUME Init PROVE CoreInv
    OBVIOUS
<1>1. TypeOK
    <2>1. /\ tx_ring_buf = <<>> /\ msgq = <<>> /\ tx_chunk = <<>>
          /\ received = <<>>
        BY DEF Init
    <2>2. /\ tx_ring_buf \in Seq(Segments) /\ tx_chunk \in Seq(Segments)
          /\ received \in Seq(Segments) /\ msgq \in Seq(1 .. MaxConns)
          /\ Len(tx_ring_buf) = 0 /\ Len(msgq) = 0 /\ Len(tx_chunk) = 0
        BY <2>1
    <2>3. /\ ChunkMax \in 1 .. ChunkMax /\ 0 \in 0 .. Retries
          /\ 0 \in 0 .. MaxLines /\ 0 \in 0 .. MaxConns /\ 0 \in 0 .. MaxFaults
          /\ 0 <= RingLen /\ 0 <= QueueLen /\ 0 <= ChunkMax
        BY Numbers
    <2>4. InitialDelay \in InitialDelay .. MaxDelay
        BY DEF InitialDelay, MaxDelay
    <2>. QED
        BY <2>2, <2>3, <2>4 DEF Init, TypeOK
<1>2. CountInv
    BY DEF Init, CountInv, Unanswered
<1>3. LinkInv
    BY DEF Init, LinkInv
<1>. QED
    BY <1>1, <1>2, <1>3 DEF CoreInv

(* What is unanswered is a number.                                         *)
LEMMA Counted ==
    ASSUME CoreInv
    PROVE  /\ Len(msgq) \in Nat /\ Len(tx_ring_buf) \in Nat
           /\ lines \in 0 .. MaxLines /\ asked \in 0 .. MaxLines
           /\ msgq \in Seq(1 .. MaxConns)
           /\ lines + Len(msgq) + (IF proc \in {"command", "put"} THEN 1 ELSE 0)
                  <= asked
<1>1. TypeOK /\ CountInv
    BY DEF CoreInv
<1>2. Len(msgq) \in Nat /\ Len(tx_ring_buf) \in Nat
      /\ lines \in 0 .. MaxLines /\ asked \in 0 .. MaxLines
      /\ msgq \in Seq(1 .. MaxConns)
    BY <1>1, LenProperties DEF TypeOK
<1>. QED
    BY <1>1, <1>2, Numbers DEF CountInv, Unanswered

(* A fault that may happen is counted within the bound.                    *)
LEMMA FaultCounted ==
    ASSUME TypeOK, faults < MaxFaults
    PROVE  faults + 1 \in 0 .. MaxFaults
<1>1. faults \in 0 .. MaxFaults
    BY DEF TypeOK
<1>. QED
    BY <1>1, Numbers

(* There is a number for every line that is put.                           *)
LEMMA LineCounted ==
    ASSUME CoreInv, FramingError \/ PutReply
    PROVE  lines < MaxLines
<1>1. CASE FramingError
    BY <1>1, Counted, Numbers DEF FramingError
<1>2. CASE PutReply
    BY <1>2, Counted, Numbers DEF PutReply
<1>. QED
    BY <1>1, <1>2

(* The two contexts that put lines.                                        *)
LEMMA CoreInvPut ==
    ASSUME CoreInv, FramingError \/ PutReply
    PROVE  CoreInv'
<1>. USE DEF CoreInv
<1>1. lines < MaxLines
    BY LineCounted
<1>2. /\ tx_ring_buf' \in Seq(Segments) /\ Len(tx_ring_buf') <= RingLen
      /\ lines' \in 0 .. MaxLines
    <2>1. CASE Fits /\ PutLine
        BY <1>1, <2>1, WholePut DEF PutLine
    <2>2. CASE UNCHANGED <<tx_ring_buf, lines>>
        BY <2>2 DEF TypeOK
    <2>. QED
        BY <2>1, <2>2 DEF FramingError, PutReply
<1>3. TypeOK'
    <2>1. CASE FramingError
        <3>1. asked + 1 \in 0 .. MaxLines
            BY <2>1, Counted, Numbers DEF FramingError
        <3>. QED
            BY <1>2, <2>1, <3>1 DEF TypeOK, FramingError, link, work, heard
    <2>2. CASE PutReply
        BY <1>2, <2>2 DEF TypeOK, PutReply, ProcStep, link, work, heard
    <2>. QED
        BY <2>1, <2>2
<1>4. CountInv'
    <2>1. CASE FramingError
        <3>1. lines' <= lines + 1 /\ lines' \in Nat
            BY <1>2, <2>1, Counted, Numbers DEF FramingError, PutLine
        <3>2. /\ msgq' = msgq /\ proc' = proc /\ asked' = asked + 1
            BY <2>1 DEF FramingError
        <3>. QED
            BY <3>1, <3>2, Counted DEF CountInv, Unanswered
    <2>2. CASE PutReply
        <3>1. /\ lines' <= lines + 1 /\ lines' \in Nat
              /\ proc = "put" /\ proc' \in {"submit", "idle"}
            BY <1>2, <2>2, Counted, Numbers DEF PutReply, PutLine
        <3>2. msgq' = msgq /\ asked' = asked
            BY <2>2 DEF PutReply, ProcStep
        <3>. QED
            BY <3>1, <3>2, Counted DEF CountInv, Unanswered
    <2>. QED
        BY <2>1, <2>2
<1>5. LinkInv'
    BY DEF LinkInv, FramingError, PutReply, ProcStep, link, work, heard
<1>. QED
    BY <1>3, <1>4, <1>5

(* The requests on their way to the processing thread and its replies.     *)
LEMMA CoreInvRequest ==
    ASSUME CoreInv, Request \/ TakeRequest \/ CheckConnected \/ SubmitWork
    PROVE  CoreInv'
<1>. USE DEF CoreInv
<1>1. CASE Request
    <2>1. ble_rpc_conn \in 1 .. MaxConns
        BY <1>1, Numbers DEF Request, TypeOK
    <2>2. /\ msgq' = Append(msgq, ble_rpc_conn) /\ asked' = asked + 1
          /\ lines' = lines /\ proc' = proc
          /\ Len(msgq) < QueueLen /\ asked < MaxLines
        BY <1>1 DEF Request
    <2>3. msgq' \in Seq(1 .. MaxConns) /\ Len(msgq') = Len(msgq) + 1
        BY <2>1, <2>2, Counted, AppendProperties
    <2>4. Len(msgq') <= QueueLen /\ asked' \in 0 .. MaxLines
        BY <2>2, <2>3, Counted, Numbers
    <2>5. TypeOK'
        BY <1>1, <2>3, <2>4 DEF TypeOK, Request, link, work, heard
    <2>6. CountInv'
        BY <2>2, <2>3, Counted DEF CountInv, Unanswered
    <2>7. LinkInv'
        BY <1>1 DEF LinkInv, Request, link, work
    <2>. QED
        BY <2>5, <2>6, <2>7
<1>2. CASE TakeRequest
    <2>1. /\ msgq' = Tail(msgq) /\ msgq # <<>> /\ asked' = asked
          /\ lines' = lines /\ proc = "idle" /\ proc' = "command"
        BY <1>2 DEF TakeRequest, ProcStep
    <2>2. msgq' \in Seq(1 .. MaxConns) /\ Len(msgq') = Len(msgq) - 1
        BY <2>1, Counted, HeadTailProperties
    <2>3. Len(msgq') <= QueueLen
        BY <2>2, Counted, Numbers DEF TypeOK
    <2>4. TypeOK'
        BY <1>2, <2>2, <2>3 DEF TypeOK, TakeRequest, ProcStep, link, work, heard
    <2>5. CountInv'
        BY <2>1, <2>2, Counted DEF CountInv, Unanswered
    <2>6. LinkInv'
        BY <1>2 DEF LinkInv, TakeRequest, ProcStep, link, work
    <2>. QED
        BY <2>4, <2>5, <2>6
<1>3. CASE CheckConnected
    <2>1. TypeOK'
        BY <1>3 DEF TypeOK, CheckConnected, ProcStep, link, work, heard
    <2>2. CountInv'
        BY <1>3, Counted DEF CountInv, Unanswered, CheckConnected, ProcStep
    <2>3. LinkInv'
        BY <1>3 DEF LinkInv, CheckConnected, ProcStep, link, work
    <2>. QED
        BY <2>1, <2>2, <2>3
<1>4. CASE SubmitWork
    <2>1. TypeOK'
        BY <1>4 DEF TypeOK, SubmitWork, ProcStep, link, work, heard
    <2>2. CountInv'
        BY <1>4, Counted DEF CountInv, Unanswered, SubmitWork, ProcStep
    <2>3. LinkInv'
        BY <1>4 DEF LinkInv, SubmitWork, ProcStep, link, work
    <2>. QED
        BY <2>1, <2>2, <2>3
<1>. QED
    BY <1>1, <1>2, <1>3, <1>4

(* The chunk is the front of the ring.                                     *)
LEMMA ChunkTaken ==
    ASSUME TypeOK, TakeChunk
    PROVE  /\ tx_chunk' \in Seq(Segments) /\ Len(tx_chunk') <= ChunkMax
           /\ tx_ring_buf' \in Seq(Segments) /\ Len(tx_ring_buf') <= RingLen
           /\ tx_chunk' \o tx_ring_buf' = tx_ring_buf
<1> DEFINE got == IF Len(tx_ring_buf) < chunk_size THEN Len(tx_ring_buf)
                                                   ELSE chunk_size
           n == Len(tx_ring_buf)
<1>1. /\ tx_chunk' = SubSeq(tx_ring_buf, 1, got)
      /\ tx_ring_buf' = SubSeq(tx_ring_buf, got + 1, n)
    BY DEF TakeChunk
<1>2. /\ tx_ring_buf \in Seq(Segments) /\ n \in Nat /\ n <= RingLen
      /\ chunk_size \in 1 .. ChunkMax
      /\ \A i \in 1 .. n : tx_ring_buf[i] \in Segments
    BY LenProperties, ElementOfSeq DEF TypeOK
<1>3. got \in 0 .. n /\ got <= ChunkMax
    BY <1>2, Numbers
<1>. HIDE DEF got, n
<1>4. tx_chunk' \in Seq(Segments) /\ Len(tx_chunk') <= ChunkMax
    <2>1. \A i \in 1 .. got : tx_ring_buf[i] \in Segments
        BY <1>2, <1>3
    <2>2. /\ tx_chunk' \in Seq(Segments)
          /\ Len(tx_chunk') = IF 1 <= got THEN got - 1 + 1 ELSE 0
        BY <1>1, <1>2, <1>3, <2>1, SubSeqProperties
    <2>. QED
        BY <1>3, <2>2, Numbers
<1>5. tx_ring_buf' \in Seq(Segments) /\ Len(tx_ring_buf') <= RingLen
    <2>1. \A i \in got + 1 .. n : tx_ring_buf[i] \in Segments
        BY <1>2, <1>3
    <2>2. /\ tx_ring_buf' \in Seq(Segments)
          /\ Len(tx_ring_buf') = IF got + 1 <= n THEN n - (got + 1) + 1 ELSE 0
        BY <1>1, <1>2, <1>3, <2>1, SubSeqProperties
    <2>. QED
        BY <1>2, <1>3, <2>2, Numbers
<1>6. tx_chunk' \o tx_ring_buf' = SubSeq(tx_ring_buf, 1, n)
    <2>1. /\ 1 \in 1 .. Len(tx_ring_buf) + 1 /\ got \in 1 - 1 .. Len(tx_ring_buf)
          /\ n \in got .. Len(tx_ring_buf)
        BY <1>2, <1>3 DEF n
    <2>. QED
        BY <1>1, <1>2, <2>1, ConcatAdjacentSubSeq
<1>. QED
    BY <1>2, <1>4, <1>5, <1>6, SubSeqFull DEF n

(* The empty ring and the empty list of requests have their types.         *)
LEMMA EmptyTypes == /\ <<>> \in Seq(Segments) /\ <<>> \in Seq(1 .. MaxConns)
                    /\ Len(<<>>) = 0
OBVIOUS

(* The handler touches neither the requests nor the count of lines.        *)
LEMMA CoreInvHandler ==
    ASSUME CoreInv, Handler
    PROVE  CoreInv'
<1>. USE DEF CoreInv
<1>1. CountInv'
    BY DEF CountInv, Unanswered, Handler, TxStep, StartHandler, ResetRing,
       TakeChunk, RingEmpty, NotifyOk, NotifyRetry, NotifyGiveUp,
       NotifyNotConnected
<1>2. CASE StartHandler
    BY <1>1, <1>2 DEF TypeOK, LinkInv, StartHandler, TxStep, link, heard
<1>3. CASE ResetRing
    BY <1>1, <1>3, EmptyTypes, Numbers DEF TypeOK, LinkInv, ResetRing, TxStep,
       link, heard
<1>4. CASE TakeChunk
    <2>1. TypeOK'
        <3>1. Retries \in 0 .. Retries
            BY Numbers
        <3>. QED
            BY <1>4, <3>1, ChunkTaken DEF TypeOK, TakeChunk, TxStep, link, heard
    <2>2. LinkInv'
        BY <1>4 DEF LinkInv, TakeChunk, TxStep, link
    <2>. QED
        BY <1>1, <2>1, <2>2
<1>5. CASE RingEmpty
    BY <1>1, <1>5 DEF TypeOK, LinkInv, RingEmpty, TxStep, link, heard
<1>6. CASE NotifyOk
    <2>1. received' \in Seq(Segments)
        BY <1>6, ConcatProperties DEF TypeOK, NotifyOk
    <2>. QED
        BY <1>1, <1>6, <2>1, EmptyTypes, Numbers DEF TypeOK, LinkInv, NotifyOk,
           AfterNotify, TxStep, link
<1>7. CASE NotifyRetry
    <2>1. attempts - 1 \in 0 .. Retries
        BY <1>7, Numbers DEF TypeOK, NotifyRetry
    <2>2. TypeOK'
        BY <1>7, <2>1, FaultCounted DEF TypeOK, NotifyRetry, TxStep, link, heard
    <2>. QED
        BY <1>1, <1>7, <2>2 DEF LinkInv, NotifyRetry, TxStep, link
<1>8. CASE NotifyGiveUp
    BY <1>1, <1>8, FaultCounted, EmptyTypes, Numbers DEF TypeOK, LinkInv,
       NotifyGiveUp, TxStep, link
<1>9. CASE NotifyNotConnected
    BY <1>1, <1>9, EmptyTypes, Numbers DEF TypeOK, LinkInv, NotifyNotConnected,
       TxStep, link, heard
<1>. QED
    BY <1>2, <1>3, <1>4, <1>5, <1>6, <1>7, <1>8, <1>9 DEF Handler

(* A connection comes and goes, and advertising starts or fails.           *)
LEMMA CoreInvConnection ==
    ASSUME CoreInv, Connected \/ Disconnected \/ Advertising
    PROVE  CoreInv'
<1>. USE DEF CoreInv
<1>1. CASE Connected
    <2>1. conns + 1 \in 0 .. MaxConns
        BY <1>1, Numbers DEF Connected, TypeOK
    <2>2. TypeOK'
        BY <1>1, <2>1, EmptyTypes DEF TypeOK, LinkInv, Connected, LinkStep, work
    <2>3. CountInv'
        BY <1>1 DEF CountInv, Unanswered, Connected, LinkStep
    <2>4. LinkInv'
        <3>1. conns + 1 # 0
            BY <2>1, Numbers DEF TypeOK
        <3>2. ble_rpc_conn = 0 /\ tx = "idle"
            BY <1>1 DEF Connected, LinkInv
        <3>. QED
            BY <1>1, <3>1, <3>2 DEF LinkInv, Connected, LinkStep, work
    <2>. QED
        BY <2>2, <2>3, <2>4
<1>2. CASE Disconnected
    <2>1. TypeOK'
        BY <1>2, EmptyTypes, Numbers DEF TypeOK, Disconnected, LinkStep,
           RingAfterDisconnect, work, heard
    <2>2. CountInv'
        BY <1>2, Counted, EmptyTypes DEF CountInv, Unanswered, Disconnected,
           LinkStep
    <2>3. LinkInv'
        BY <1>2 DEF LinkInv, Disconnected, RingAfterDisconnect, LinkStep, work
    <2>. QED
        BY <2>1, <2>2, <2>3
<1>3. CASE AdvStarted
    <2>1. TypeOK'
        BY <1>3 DEF TypeOK, AdvStarted, DelayAfterStart, LinkStep, work, heard,
           InitialDelay, MaxDelay
    <2>2. CountInv'
        BY <1>3 DEF CountInv, Unanswered, AdvStarted, LinkStep
    <2>3. LinkInv'
        BY <1>3 DEF LinkInv, AdvStarted, AdvDelayOver, DelayAfterStart, LinkStep,
           work
    <2>. QED
        BY <2>1, <2>2, <2>3
<1>4. CASE AdvFailed
    <2>1. NextDelay \in InitialDelay .. MaxDelay
        BY DEF TypeOK, NextDelay, InitialDelay, MaxDelay
    <2>5. ble_rpc_conn = 0
        BY <1>4 DEF LinkInv, AdvFailed, AdvDelayOver
    <2>2. TypeOK'
        BY <1>4, <2>1, <2>5, FaultCounted DEF TypeOK, AdvFailed,
           AdvAfterFailure, LinkStep, work, heard
    <2>3. CountInv'
        BY <1>4 DEF CountInv, Unanswered, AdvFailed, LinkStep
    <2>4. LinkInv'
        BY <1>4 DEF LinkInv, AdvFailed, AdvAfterFailure, AdvDelayOver, LinkStep,
           work
    <2>. QED
        BY <2>2, <2>3, <2>4
<1>. QED
    BY <1>1, <1>2, <1>3, <1>4 DEF Advertising

(* Every step keeps types, counts and what holds of a gone connection.     *)
LEMMA CoreInvStep == CoreInv /\ [Next]_vars => CoreInv'
<1>1. ASSUME CoreInv, UNCHANGED vars PROVE CoreInv'
    BY <1>1 DEF CoreInv, TypeOK, CountInv, Unanswered, LinkInv, vars, link,
       work, heard
<1>. QED
    BY <1>1, CoreInvPut, CoreInvRequest, CoreInvHandler, CoreInvConnection
       DEF Next, Processing

(* Every variable keeps its type, among them the ring its size and the     *)
(* retry delay its cap.                                                    *)
THEOREM TypeCorrect == Spec => []TypeOK
<1>1. CoreInv => TypeOK
    BY DEF CoreInv
<1>. QED
    BY <1>1, CoreInvInit, CoreInvStep, PTL DEF Spec

-----------------------------------------------------------------------------
(* What the client receives.                                               *)

(* The steps that touch neither the ring nor the chunk under way.          *)
LEMMA StreamUntouched ==
    ASSUME StreamInv,
           UNCHANGED <<tx_chunk, tx_ring_buf, ble_rpc_conn, lines, received, broken>>
    PROVE  StreamInv'
BY DEF StreamInv, Stream

(* A line that is put follows what the client has not received yet.        *)
LEMMA StreamInvPut ==
    ASSUME CoreInv, StreamInv, FramingError \/ PutReply
    PROVE  StreamInv'
<1>1. UNCHANGED <<received, broken, tx_chunk, ble_rpc_conn>>
    BY DEF FramingError, PutReply, ProcStep, link, work, heard
<1>2. CASE UNCHANGED <<tx_ring_buf, lines>>
    BY <1>1, <1>2, StreamUntouched
<1>3. CASE Fits /\ PutLine
    <2>1. lines < MaxLines /\ TypeOK
        BY LineCounted DEF CoreInv
    <2>2. /\ lines + 1 \in 1 .. MaxLines /\ lines \in Nat
          /\ tx_ring_buf' = tx_ring_buf \o Line(lines + 1)
          /\ lines' = lines + 1
        BY <1>3, <2>1, WholePut DEF PutLine
    <2>3. SUFFICES ASSUME ~broken, ble_rpc_conn # 0
                   PROVE  InOrder(Stream') /\ Ended(Stream', lines')
        BY <1>1 DEF StreamInv, Stream
    <2>4. /\ received \in Seq(Segments) /\ tx_chunk \in Seq(Segments)
          /\ tx_ring_buf \in Seq(Segments) /\ Line(lines + 1) \in Seq(Segments)
        BY <2>1, <2>2, LineType DEF TypeOK
    <2>5. received \o tx_chunk \in Seq(Segments) /\ Stream \in Seq(Segments)
        BY <2>4, ConcatProperties DEF Stream
    <2>6. Stream' = Stream \o Line(lines + 1)
        <3>1. Stream' = (received \o tx_chunk) \o (tx_ring_buf \o Line(lines + 1))
            BY <1>1, <2>2 DEF Stream
        <3>. QED
            BY <2>4, <2>5, <3>1, ConcatAssociative DEF Stream
    <2>7. InOrder(Stream) /\ Ended(Stream, lines)
        BY <2>3 DEF StreamInv
    <2>. QED
        BY <2>2, <2>5, <2>6, <2>7, LineFollows
<1>. QED
    BY <1>2, <1>3 DEF FramingError, PutReply

(* The handler moves what the client will receive, and loses none of it    *)
(* unless the notify is given up or the client is gone.                    *)
LEMMA StreamInvHandler ==
    ASSUME CoreInv, StreamInv, Handler
    PROVE  StreamInv'
<1>1. TypeOK /\ LinkInv /\ received \in Seq(Segments)
      /\ tx_chunk \in Seq(Segments) /\ tx_ring_buf \in Seq(Segments)
    BY DEF CoreInv, TypeOK
<1>2. CASE StartHandler \/ RingEmpty \/ NotifyRetry
    BY <1>2, StreamUntouched DEF StartHandler, RingEmpty, NotifyRetry, TxStep,
       link, heard
<1>3. CASE ResetRing \/ NotifyNotConnected
    <2>1. ble_rpc_conn = 0 /\ ble_rpc_conn' = 0
        BY <1>1, <1>3 DEF LinkInv, ResetRing, NotifyNotConnected, TxStep, link
    <2>. QED
        BY <1>3, <2>1 DEF StreamInv, ResetRing, NotifyNotConnected, heard
<1>4. CASE TakeChunk
    <2>1. /\ tx_chunk' \in Seq(Segments) /\ tx_ring_buf' \in Seq(Segments)
          /\ tx_chunk' \o tx_ring_buf' = tx_ring_buf
        BY <1>1, <1>4, ChunkTaken
    <2>2. tx_chunk = <<>>
        BY <1>1, <1>4 DEF LinkInv, TakeChunk
    <2>3. UNCHANGED <<received, broken, ble_rpc_conn, lines>>
        BY <1>4 DEF TakeChunk, TxStep, link, heard
    <2>4. Stream' = Stream
        <3>1. Stream = received \o tx_ring_buf
            BY <1>1, <2>2, ConcatEmptySeq DEF Stream
        <3>2. Stream' = (received \o tx_chunk') \o tx_ring_buf'
            BY <2>3 DEF Stream
        <3>3. \A s, t, u \in Seq(Segments) : (s \o t) \o u = s \o (t \o u)
            BY ConcatAssociative
        <3>4. Stream' = received \o (tx_chunk' \o tx_ring_buf')
            BY <1>1, <2>1, <3>2, <3>3
        <3>. QED
            BY <2>1, <3>1, <3>4
    <2>. QED
        BY <2>3, <2>4 DEF StreamInv
<1>5. CASE NotifyOk
    <2>1. /\ received' = received \o tx_chunk /\ tx_chunk' = <<>>
          /\ ble_rpc_conn # 0
          /\ UNCHANGED <<tx_ring_buf, broken, ble_rpc_conn, lines>>
        BY <1>5 DEF NotifyOk, TxStep, link
    <2>2. received' \in Seq(Segments)
        BY <1>1, <2>1, ConcatProperties
    <2>3. Stream' = Stream
        <3>1. received' \o tx_chunk' = received'
            BY <2>1, <2>2, ConcatEmptySeq
        <3>. QED
            BY <2>1, <3>1 DEF Stream
    <2>4. Stream = received' \o tx_ring_buf
        BY <2>1 DEF Stream
    <2>5. InOrder(Stream) => InOrder(received')
        BY <1>1, <2>2, <2>4, PrefixInOrder
    <2>. QED
        BY <2>1, <2>3, <2>5 DEF StreamInv
<1>6. CASE NotifyGiveUp
    BY <1>6 DEF StreamInv, NotifyGiveUp
<1>. QED
    BY <1>2, <1>3, <1>4, <1>5, <1>6 DEF Handler

(* A new client finds the ring and the handler empty.                      *)
LEMMA StreamInvConnection ==
    ASSUME CoreInv, StreamInv, Connected \/ Disconnected
    PROVE  StreamInv'
<1>1. CASE Connected
    <2>1. received' = <<>> /\ tx_chunk' = <<>> /\ tx_ring_buf' = <<>>
        BY <1>1 DEF CoreInv, LinkInv, Connected, LinkStep, work
    <2>2. <<>> \o <<>> = <<>> /\ Len(<<>>) = 0
        BY EmptyTypes, ConcatEmptySeq
    <2>3. Stream' = <<>>
        BY <2>1, <2>2 DEF Stream
    <2>4. InOrder(<<>>)
        BY <2>2 DEF InOrder
    <2>. QED
        BY <2>1, <2>3, <2>4 DEF StreamInv, Ended
<1>2. CASE Disconnected
    BY <1>2 DEF StreamInv, Disconnected, heard
<1>. QED
    BY <1>1, <1>2

(* Init establishes the inductive invariant.                               *)
LEMMA IInvInit == Init => IInv
<1>1. ASSUME Init PROVE StreamInv
    <2>1. received = <<>> /\ ble_rpc_conn = 0
        BY <1>1 DEF Init
    <2>2. InOrder(<<>>)
        BY EmptyTypes DEF InOrder
    <2>. QED
        BY <2>1, <2>2 DEF StreamInv
<1>. QED
    BY <1>1, CoreInvInit DEF IInv

(* Every step keeps the inductive invariant.                               *)
LEMMA IInvStep == IInv /\ [Next]_vars => IInv'
<1> SUFFICES ASSUME CoreInv, StreamInv, [Next]_vars PROVE StreamInv'
    BY CoreInvStep DEF IInv
<1>1. CASE Request \/ TakeRequest \/ CheckConnected \/ SubmitWork
    BY <1>1, StreamUntouched DEF Request, TakeRequest, CheckConnected,
       SubmitWork, ProcStep, link, work, heard
<1>2. CASE Advertising
    BY <1>2, StreamUntouched DEF Advertising, AdvStarted, AdvFailed, LinkStep,
       work, heard
<1>3. CASE UNCHANGED vars
    BY <1>3, StreamUntouched DEF vars, link, work, heard
<1>. QED
    BY <1>1, <1>2, <1>3, StreamInvPut, StreamInvHandler, StreamInvConnection
       DEF Next, Processing

(* The inductive invariant holds in every reachable state.                 *)
LEMMA Invariance == Spec => []IInv
BY IInvInit, IInvStep, PTL DEF Spec

(* As long as no notify on its connection was given up, a client receives  *)
(* whole lines in order from its first byte on: whatever the sizes of ring *)
(* and notifications, however often clients come and go between two steps  *)
(* of the processing thread and of the handler.                            *)
THEOREM LinesReceivedWhole == Spec => []WholeLines
<1>1. IInv => WholeLines
    BY DEF IInv, StreamInv, InOrder, WholeLines
<1>. QED
    BY <1>1, Invariance, PTL

\* The ring of the client before: reset before anyone can connect again.
NewClientFindsNothing ==
    ble_rpc_conn = 0 /\ adv = "on" => tx_ring_buf = <<>> /\ tx_chunk = <<>>

(* Nothing of one client's replies is left in the ring or in the handler   *)
(* when the keyboard can be connected to again: on_disconnected() resets   *)
(* the ring before a reply that is still to be put, and the work that this *)
(* reply submits resets it again before the advertising delay is over.     *)
THEOREM NothingLeftForTheNext == Spec => []NewClientFindsNothing
<1>1. IInv => NewClientFindsNothing
    BY DEF IInv, CoreInv, LinkInv, NewClientFindsNothing
<1>. QED
    BY <1>1, Invariance, PTL
=============================================================================
