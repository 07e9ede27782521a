---------------------------- MODULE ZW3021Session ----------------------------
(***************************************************************************)
(* A sensor session of src/zw3021.c down to the bytes on the UART: boot    *)
(* wait, handshake and one command, each answered by a packet that         *)
(* zw3021_recv_packet() assembles byte by byte until a deadline.  Nothing  *)
(* in an answer names the command it answers, and bytes that arrive after  *)
(* a deadline stay in the UART.  The sensor is external: it answers what   *)
(* it is sent, and the line between may lose an answer or a byte of it, or *)
(* garble a byte, or show a byte nobody sent.                              *)
(***************************************************************************)
EXTENDS Naturals, SequencesExt

CONSTANTS Ids,          \* template ids, uint16_t
          IndexLen,     \* ZW3021_INDEX_TABLE_LEN
          EnrollTicks,  \* enroll_timeout_ms; every other wait is one tick
          Kept,         \* how many unread bytes may outlive a power cut
          Noise,        \* what a garbled byte may become
          MaxFaults     \* bound on faults of the line

ASSUME SessionAssumption ==
    /\ Ids \subseteq 0 .. 65535
    /\ {IndexLen, EnrollTicks} \subseteq Nat \ {0}
    /\ Kept \subseteq Nat /\ MaxFaults \in Nat
    /\ Noise \subseteq 0 .. 255

ZW3021_HDR0 == 239
ZW3021_HDR1 == 1
ZW3021_PKT_ID_ACK == 7
ZW3021_BOOT_BYTE == 85
ZW3021_RX_BUF_LEN == 16
HdrLen == 9     \* marker 2, address 4, packet id 1, length 2

Job(type, id) == [type |-> type, id |-> id]
Jobs == {Job(type, id) : type \in {"ENROLL", "DELETE"}, id \in Ids}
        \cup {Job(type, 0) : type \in {"IDENTIFY", "CLEAR", "READ_ENROLLED"}}
NoJob == Job("none", 0)

\* The ids one page of the index table covers, one bit each.
IndexIds == {id \in Ids : id < IndexLen * 8}

VARIABLES
    pc, req,          \* the session: where, and what it was asked to do
    cmd,              \* the command it is exchanging
    hdr, have_hdr0, out_buf,   \* zw3021_recv_packet()
    left,             \* ticks to its deadline
    outcome, data,    \* what the command function returned
    uart,             \* bytes on their way to the driver
    sensor, work, held,        \* the sensor: power, progress, flash
    applied,          \* history: it has carried the session's job out
    faults,           \* history: faults of the line so far
    disturbed         \* history: one of them damaged an exchange

receiver == <<hdr, have_hdr0, out_buf>>
result   == <<outcome, data>>
peer     == <<sensor, work, held, applied>>
harm     == <<faults, disturbed>>
vars == <<pc, req, cmd, receiver, left, result, uart, peer, harm>>

-----------------------------------------------------------------------------
(* Packets.                                                                *)

Hi(n) == n \div 256
Lo(n) == n % 256
Word(hi, lo) == hi * 256 + lo

\* uint16_t sum of packet id, length and payload.
Sum16(packet_id, length, payload) ==
    (packet_id + Hi(length) + Lo(length) + SumFunction(payload)) % 65536

\* zw3021_uart_send_packet()'s layout, which the sensor's answers share.
Packet(packet_id, payload) ==
    LET length == Len(payload) + 2
        sum    == Sum16(packet_id, length, payload)
    IN  <<ZW3021_HDR0, ZW3021_HDR1, 255, 255, 255, 255,
          packet_id, Hi(length), Lo(length)>>
        \o payload \o <<Hi(sum), Lo(sum)>>

Ack(payload) == Packet(ZW3021_PKT_ID_ACK, payload)

-----------------------------------------------------------------------------
(* The sensor's flash, and the answers to a job.                           *)

Applied(j, flash) == CASE j.type = "ENROLL" -> flash \cup {j.id}
                       [] j.type = "DELETE" -> flash \ {j.id}
                       [] j.type = "CLEAR"  -> {}
                       [] OTHER             -> flash

\* The data a carried-out job returns: the matching id, the index table.
Answers(j, flash) == CASE j.type = "IDENTIFY"      -> {{id} : id \in flash}
                       [] j.type = "READ_ENROLLED" -> {flash \cap IndexIds}
                       [] OTHER                    -> {{}}

SetBits(n) == {b \in 0 .. 7 : (n \div 2 ^ b) % 2 = 1}

\* The index table: bit id % 8 of byte id / 8.
Table(flash) ==
    [i \in 1 .. IndexLen |->
        SumFunction([b \in 0 .. 7 |-> IF (i - 1) * 8 + b \in flash THEN 2 ^ b
                                                                   ELSE 0])]
TableIds(bytes) ==
    {(i - 1) * 8 + b : i \in DOMAIN bytes, b \in 0 .. 7}
        \cap {id \in IndexIds : id % 8 \in SetBits(bytes[id \div 8 + 1])}

\* Payloads of a carried-out command, of a refusal, and of a step on the way.
OkPayloads(c, flash) ==
    CASE c = "IDENTIFY"      -> {<<0, 5, Hi(id), Lo(id), 0, 90>> : id \in flash}
      [] c = "READ_ENROLLED" -> {<<0>> \o Table(flash)}
      [] c = "ENROLL"        -> {<<0, 6>>}
      [] OTHER               -> {<<0>>}

ErrorPayloads(c) ==
    CASE c = "IDENTIFY" -> {<<confirm, 5, 0, 0, 0, 0>> : confirm \in {1, 9, 38}}
      [] c = "ENROLL"   -> {<<confirm, 1>> : confirm \in {31, 38}}
      [] OTHER          -> {<<1>>}

StagePayloads(c) == IF c = "ENROLL" THEN {<<0, 1>>, <<7, 2>>} ELSE {}

-----------------------------------------------------------------------------
TypeOK ==
    /\ pc \in {"idle", "boot", "send", "recv", "done"}
    /\ req \in Jobs \cup {NoJob}
    /\ cmd \in {"none", "HANDSHAKE", req.type}
    /\ Len(hdr) <= HdrLen
    /\ have_hdr0 \in BOOLEAN
    /\ Len(out_buf) <= Max({ZW3021_RX_BUF_LEN, 1 + IndexLen + 2})
    /\ left \in 0 .. Max({1, EnrollTicks})
    /\ outcome \in {"none", "OK", "EIO", "ENOENT", "ETIMEDOUT", "EBADMSG"}
    /\ data \subseteq Ids
    /\ uart \in Seq(0 .. 255)
    /\ sensor \in {"off", "starting", "ready"}
    /\ work \in {"none", "waiting", "answered"}
    /\ held \subseteq Ids
    /\ applied \in BOOLEAN
    /\ faults \in 0 .. MaxFaults
    /\ disturbed \in BOOLEAN

Init ==
    /\ pc = "idle" /\ req = NoJob /\ cmd = "none"
    /\ hdr = <<>> /\ have_hdr0 = FALSE /\ out_buf = <<>> /\ left = 0
    /\ outcome = "none" /\ data = {}
    /\ uart = <<>>
    /\ sensor = "off" /\ work = "none" /\ held \in SUBSET Ids
    /\ applied = FALSE
    /\ faults = 0 /\ disturbed = FALSE

-----------------------------------------------------------------------------
(* The session: power on, boot wait, handshake, command, power off.        *)

Begin(j) ==
    /\ pc = "idle"
    /\ pc' = "boot" /\ req' = j
    /\ sensor' = "starting"
    /\ UNCHANGED <<cmd, receiver, left, result, uart, work, held, applied, harm>>

\* zw3021_wait_boot_byte() takes every byte off the line until the boot byte.
BootByte ==
    /\ pc = "boot" /\ uart # <<>>
    /\ uart' = Tail(uart)
    /\ IF Head(uart) = ZW3021_BOOT_BYTE
       THEN pc' = "send" /\ cmd' = "HANDSHAKE"
       ELSE UNCHANGED <<pc, cmd>>
    /\ UNCHANGED <<req, receiver, left, result, peer, harm>>

BugNoBootWait == pc = "boot"

\* The wait lasts hundreds of milliseconds and reading a byte microseconds: the
\* line is read empty before it times out.
BootWaitOver == pc = "boot" /\ uart = <<>>

\* "startup timeout, trying handshake".
BootTimeout ==
    /\ BootWaitOver
    /\ pc' = "send" /\ cmd' = "HANDSHAKE"
    /\ UNCHANGED <<req, receiver, left, result, uart, peer, harm>>

\* A command's deadline; every one but the enrolment's is a single tick.
Timeout(c) == IF c = "ENROLL" THEN EnrollTicks ELSE 1

\* zw3021_send_command().  A sensor that is not ready does not hear it.
Send ==
    /\ pc = "send"
    /\ pc' = "recv"
    /\ left' = Timeout(cmd)
    /\ work' = IF sensor = "ready" THEN "waiting" ELSE work
    /\ UNCHANGED <<req, cmd, receiver, result, uart, sensor, held, applied,
                   harm>>

CutPower ==
    /\ pc = "done"
    /\ pc' = "idle" /\ req' = NoJob /\ cmd' = "none" /\ left' = 0
    /\ outcome' = "none" /\ data' = {}
    /\ sensor' = "off" /\ work' = "none" /\ applied' = FALSE
    /\ \E n \in Kept : uart' = SubSeq(uart, 1, Min({n, Len(uart)}))
    /\ UNCHANGED <<receiver, held, harm>>

-----------------------------------------------------------------------------
(* zw3021_recv_packet(), one action per thing a byte can do, and what the  *)
(* command functions make of a packet.                                     *)

StartReceiver == hdr' = <<>> /\ have_hdr0' = FALSE /\ out_buf' = <<>>

Finish(ret, found) ==
    /\ pc' = "done"
    /\ outcome' = ret
    /\ data' = found
    /\ StartReceiver
    /\ UNCHANGED <<req, cmd, left>>

\* The least payload a command function accepts, after its checksum.
MinLen(c) == CASE c \in {"ENROLL", "IDENTIFY"} -> 2
               [] c = "READ_ENROLLED"          -> 1 + IndexLen
               [] OTHER                        -> 1

Returned(c, rx) ==
    CASE Len(rx) < MinLen(c) -> "EBADMSG"
      [] c = "IDENTIFY" /\ rx[1] = 0 /\ Len(rx) < 6 -> "EBADMSG"
      [] c = "ENROLL" /\ ((rx[1] = 7 /\ rx[2] = 2) \/ (rx[1] = 0 /\ rx[2] # 6))
            -> "more"
      [] rx[1] = 0 -> "OK"
      [] c \in {"ENROLL", "IDENTIFY"} /\ rx[1] = 38 -> "ETIMEDOUT"
      [] c = "IDENTIFY" /\ rx[1] \in {9, 35, 36} -> "ENOENT"
      [] OTHER -> "EIO"

\* *out_id, out_index.
DataIn(c, rx) == CASE c = "IDENTIFY"      -> {Word(rx[3], rx[4])}
                   [] c = "READ_ENROLLED" -> TableIds(Tail(rx))
                   [] OTHER               -> {}

BugFreshTimeout == Timeout(cmd)

\* What is left for the next packet of an enrolment: the deadline stands.
NextTimeout == left

\* A packet whose checksum is right is given to the command function.
Deliver(rx) ==
    LET ret == Returned(cmd, rx) IN
    \/ /\ cmd = "HANDSHAKE" /\ ret = "OK"
       /\ pc' = "send" /\ cmd' = req.type
       /\ StartReceiver
       /\ UNCHANGED <<req, left, result>>
    \/ /\ ret = "more"
       /\ left' = NextTimeout
       /\ StartReceiver
       /\ UNCHANGED <<pc, req, cmd, result>>
    \/ /\ ret # "more" /\ ~(cmd = "HANDSHAKE" /\ ret = "OK")
       /\ Finish(ret, IF ret = "OK" THEN DataIn(cmd, rx) ELSE {})

\* uart_poll_in() inside the loop that watches the deadline.
TakeByte ==
    /\ pc = "recv" /\ left > 0 /\ uart # <<>>
    /\ uart' = Tail(uart)
    /\ UNCHANGED <<peer, harm>>

SkipByte ==
    /\ TakeByte
    /\ ~have_hdr0
    /\ have_hdr0' = (Head(uart) = ZW3021_HDR0)
    /\ UNCHANGED <<pc, req, cmd, hdr, out_buf, left, result>>

BugForgetHdr0(byte) == byte \notin 0 .. 255

\* A byte that is not HDR1 may itself be the HDR0 of the packet.
StillHdr0(byte) == byte = ZW3021_HDR0

MatchHdr1 ==
    /\ TakeByte
    /\ have_hdr0 /\ hdr = <<>>
    /\ IF Head(uart) = ZW3021_HDR1
       THEN hdr' = <<ZW3021_HDR0, ZW3021_HDR1>> /\ UNCHANGED have_hdr0
       ELSE have_hdr0' = StillHdr0(Head(uart)) /\ UNCHANGED hdr
    /\ UNCHANGED <<pc, req, cmd, out_buf, left, result>>

PayloadLen(h) == Word(h[8], h[9])

OutBufLen == IF cmd = "READ_ENROLLED" THEN 1 + IndexLen + 2
                                      ELSE ZW3021_RX_BUF_LEN

BugLengthUnchecked(n) == n >= 2

LengthOk(n) == n >= 2 /\ n <= OutBufLen

\* "invalid packet length": back to looking for the marker.
HeaderByte ==
    /\ TakeByte
    /\ hdr # <<>> /\ Len(hdr) < HdrLen
    /\ LET h == Append(hdr, Head(uart)) IN
       IF Len(h) = HdrLen /\ ~LengthOk(PayloadLen(h))
       THEN StartReceiver
       ELSE hdr' = h /\ UNCHANGED <<have_hdr0, out_buf>>
    /\ UNCHANGED <<pc, req, cmd, left, result>>

ChecksumOk(h, payload) ==
    LET n == Len(payload) IN
    Sum16(h[7], PayloadLen(h), SubSeq(payload, 1, n - 2))
        = Word(payload[n - 1], payload[n])

PayloadByte ==
    /\ TakeByte
    /\ Len(hdr) = HdrLen
    /\ LET payload == Append(out_buf, Head(uart)) IN
       \/ /\ Len(payload) # PayloadLen(hdr)
          /\ out_buf' = payload
          /\ UNCHANGED <<pc, req, cmd, hdr, have_hdr0, left, result>>
       \/ /\ Len(payload) = PayloadLen(hdr)
          /\ ChecksumOk(hdr, payload)
          /\ Deliver(SubSeq(payload, 1, Len(payload) - 2))
       \/ /\ Len(payload) = PayloadLen(hdr)
          /\ ~ChecksumOk(hdr, payload)
          /\ Finish("EBADMSG", {})

Receive == SkipByte \/ MatchHdr1 \/ HeaderByte \/ PayloadByte

\* Time passes while the driver polls an empty UART, or in the payload of a
\* packet, whose bytes take milliseconds to arrive.
Tick ==
    /\ pc = "recv" /\ left > 0
    /\ uart = <<>> \/ out_buf # <<>>
    /\ left' = left - 1
    /\ UNCHANGED <<pc, req, cmd, receiver, result, uart, peer, harm>>

RecvTimeout ==
    /\ pc = "recv" /\ left = 0
    /\ Finish("ETIMEDOUT", {})
    /\ UNCHANGED <<uart, peer, harm>>

-----------------------------------------------------------------------------
(* The sensor and the line (external).                                     *)

SessionWaits == UNCHANGED <<pc, req, cmd, receiver, left, result>>

SensorBoots ==
    /\ sensor = "starting"
    /\ sensor' = "ready"
    /\ uart' = Append(uart, ZW3021_BOOT_BYTE)
    /\ UNCHANGED <<work, held, applied, harm>>
    /\ SessionWaits

LoseByte(bytes) == {RemoveAt(bytes, i) : i \in DOMAIN bytes}
GarbleByte(bytes) == {ReplaceAt(bytes, i, b) : i \in DOMAIN bytes, b \in Noise}

\* A packet gets on the line, whole or as a fault leaves it.
Transmit(packet) ==
    \/ /\ uart' = uart \o packet
       /\ UNCHANGED harm
    \/ /\ faults < MaxFaults
       /\ faults' = faults + 1 /\ disturbed' = TRUE
       /\ \E bytes \in {<<>>} \cup LoseByte(packet) \cup GarbleByte(packet) :
            uart' = uart \o bytes

SensorSucceeds ==
    /\ work = "waiting"
    /\ work' = "answered"
    /\ IF cmd = "HANDSHAKE"
       THEN UNCHANGED <<held, applied>>
       ELSE held' = Applied(req, held) /\ applied' = TRUE
    /\ \E payload \in OkPayloads(cmd, held) : Transmit(Ack(payload))
    /\ UNCHANGED sensor
    /\ SessionWaits

SensorRefuses ==
    /\ work = "waiting"
    /\ work' = "answered"
    /\ \E payload \in ErrorPayloads(cmd) : Transmit(Ack(payload))
    /\ UNCHANGED <<sensor, held, applied>>
    /\ SessionWaits

\* A stage of an enrolment takes the user seconds: the driver has read the
\* packet before by then.
SensorReports ==
    /\ work = "waiting" /\ uart = <<>>
    /\ \E payload \in StagePayloads(cmd) : Transmit(Ack(payload))
    /\ UNCHANGED <<sensor, work, held, applied>>
    /\ SessionWaits

\* The command does not reach the sensor intact.
CommandLost ==
    /\ work = "waiting" /\ pc = "recv"
    /\ faults < MaxFaults
    /\ work' = "none"
    /\ faults' = faults + 1 /\ disturbed' = TRUE
    /\ UNCHANGED <<uart, sensor, held, applied>>
    /\ SessionWaits

\* A byte nobody sent, before or after a packet.  It disturbs if it passes for
\* the boot byte: the boot wait then ends before the line is read empty.
StrayByte ==
    /\ sensor # "off"
    /\ faults < MaxFaults
    /\ faults' = faults + 1
    /\ \E b \in Noise : /\ uart' = Append(uart, b)
                       /\ disturbed' = (disturbed \/ b = ZW3021_BOOT_BYTE)
    /\ UNCHANGED peer
    /\ SessionWaits

-----------------------------------------------------------------------------
Driver == BootByte \/ BootTimeout \/ Send \/ Receive \/ RecvTimeout \/ CutPower

Next ==
    \/ \E j \in Jobs : Begin(j)
    \/ BootByte \/ BootTimeout \/ Send
    \/ SkipByte \/ MatchHdr1 \/ HeaderByte \/ PayloadByte
    \/ Tick \/ RecvTimeout \/ CutPower
    \/ SensorBoots \/ SensorSucceeds \/ SensorRefuses \/ SensorReports
    \/ CommandLost \/ StrayByte

\* The worker thread runs, and time passes whatever arrives meanwhile (SF: a
\* sensor that keeps the line busy does not stop the clock); the sensor owes
\* nothing.
Spec == Init /\ [][Next]_vars /\ WF_vars(Driver) /\ SF_vars(Tick)

-----------------------------------------------------------------------------
(* Properties.                                                             *)

\* What the session handlers rely on: a command function returns 0 only for a
\* command of this session that the sensor carried out, with its own data, and
\* an error of the sensor only for one it did not and will not carry out.  No
\* late answer of an earlier session, no stray, lost or garbled byte changes
\* that.
Exchange == INSTANCE SensorExchange
    WITH job <- IF pc = "idle" THEN NoJob ELSE req, Flashes <- SUBSET Ids
RefinesExchange == Exchange!Spec

\* An answer that reached the UART undamaged is recognised by its last byte
\* (zw3021_recv_packet() never still waits for it), whatever the driver read
\* before it, a stray 0xEF included.
IntactAckHeard ==
    work = "answered" /\ uart = <<>> /\ ~disturbed => pc # "recv"

\* Every session ends with the power cut, also an enrolment whose sensor keeps
\* reporting stages: its deadline is set once.
SessionEnds == pc # "idle" ~> pc = "idle"
=============================================================================
