---------------------------- MODULE RpcCommands ----------------------------
(***************************************************************************)
(* The RPC commands (src/rpc_commands.c) as the serial and the BLE thread  *)
(* run them at the same time: what is taken out of a request line, the     *)
(* calls into storage and into the driver's request slot, one nvs_*() or   *)
(* atomic call per step, and the single response line, with the sizes of   *)
(* the buffers it is built in.  ZW3021Storage has the keys and the crashes *)
(* of the flash, ZW3021Worker the slot.                                    *)
(***************************************************************************)
EXTENDS Integers, Sequences, FiniteSetsExt

CONSTANTS Threads,    \* the RPC threads: serial, BLE
          Ids,        \* the fingers the requests name
          Stored,     \* fingers with a string that no request names
          Requests    \* the request lines, as records

\* What a line says: a missing req_id or finger_id is -1; text is the wire
\* form of "value" or "name" up to the end of the line, <<>> if missing.
Request(cmd, req_id, id, text, on) ==
    [cmd |-> cmd, req_id |-> req_id, id |-> id, text |-> text, on |-> on]
NoRequest == Request("none", -1, -1, <<>>, FALSE)

\* A character is "p" (plain), "q" (a quotation mark), "b" (a backslash) or
\* "c" (a control character).
Chars == {"p", "q", "b", "c"}

ASSUME RpcAssumption ==
    /\ \A id \in Ids \cup Stored : id \in Nat /\ id >= 1 /\ id <= 65535
    /\ Requests \subseteq [cmd : STRING, req_id : Int, id : Int,
                           text : Seq(Chars), on : BOOLEAN]
    /\ \A r \in Requests : r.req_id >= -1 /\ (r.id > 0 => r.id \in Ids)

ZW3021_RPC_SCAN_MAX_ID == 100
ZW3021_RPC_RESPONSE_MAX == 224
ZW3021_STORAGE_MAX_LEN == 32
ZW3021_STORAGE_NAME_MAX_LEN == 48

WithId == {"get_finger", "update_finger", "delete_finger", "set_finger_enter",
           "set_finger_name", "delete_template", "enroll_start",
           "get_enrolled"}
Known == WithId \cup {"ping", "get_status", "get_fingers", "enroll_status",
                      "refresh_enroll_map"}

-----------------------------------------------------------------------------
(* Text.                                                                   *)

\* The text the first n pieces make, for every n.
Joined(pieces) ==
    LET joined[n \in 0 .. Len(pieces)] ==
            IF n = 0 THEN <<>> ELSE joined[n - 1] \o pieces[n]
    IN  joined

\* How a client writes a string, with the closing mark.  (JSON.stringify() also
\* rewrites control characters, and json_find_string() takes letters for them.)
Escaped(ch) == IF ch \in {"q", "b"} THEN <<"b", ch>> ELSE <<ch>>
Wire(text) ==
    Joined([i \in 1 .. Len(text) |-> Escaped(text[i])])[Len(text)] \o <<"q">>

\* Where a reader of wire stands after each character of the text: a
\* backslash gives way to the character after it, if there is one.
Positions(wire) ==
    LET position[n \in 0 .. Len(wire)] ==
            IF n = 0 THEN 1
            ELSE LET p == position[n - 1]
                 IN  IF p > Len(wire) THEN p
                     ELSE IF wire[p] = "b" /\ p < Len(wire) THEN p + 2
                     ELSE p + 1
    IN  position

\* The n characters a reader at these positions has read.
TextRead(wire, n) == [k \in 1 .. n |-> wire[Positions(wire)[k] - 1]]

\* How a client reads a string.
Parsed(wire) ==
    TextRead(wire, Min({n \in 0 .. Len(wire) : Positions(wire)[n] > Len(wire)}))

\* What a client has sent in a text: all of it, up to its closing mark.
TextSent(wire) == Parsed(SubSeq(wire, 1, Len(wire) - 1))

\* json_find_string() from the value on.  1: the closing mark was not reached
\* within out_size.
FindString(wire, out_size) ==
    LET at      == Positions(wire)
        Mark(n) == at[n] <= Len(wire) /\ wire[at[n]] = "q"
        end     == Min({n \in 0 .. Len(wire) :
                           Mark(n) \/ at[n] > Len(wire) \/ n = out_size - 1})
    IN  [ret |-> IF wire = <<>> THEN -1 ELSE IF Mark(end) THEN 0 ELSE 1,
         out |-> TextRead(wire, end)]

BugEscapeMarkOnly(ch) == CASE ch = "q" -> <<"b", ch>> [] ch = "c" -> <<>>
                           [] OTHER -> <<ch>>

\* json_escape() of one character.
Escape(ch) == CASE ch \in {"q", "b"} -> <<"b", ch>>
                [] ch = "c"          -> <<>>
                [] OTHER             -> <<ch>>

\* json_escape() stops before the first character that does not fit.
JsonEscape(src, out_size) ==
    LET prefix  == Joined([i \in 1 .. Len(src) |-> Escape(src[i])])
        fitting == {n \in 0 .. Len(src) : Len(prefix[n]) < out_size}
    IN  prefix[Max(fitting)]

-----------------------------------------------------------------------------
(* Responses, with their lengths.                                          *)

TensPowers == {10, 100, 1000, 10000, 100000, 1000000, 10000000, 100000000,
               1000000000}

\* The characters of "%d" for a number that is not below -1.
Digits(n) == IF n < 0 THEN 2
             ELSE 1 + Cardinality({power \in TensPowers : power <= n})

\* "missing or invalid finger_id", the longest of the error messages.
ErrorLen(req_id) == 36 + Digits(req_id) + 28
OkLen(req_id, data_len) == 30 + Digits(req_id) + data_len

DataMax == ZW3021_RPC_RESPONSE_MAX - 32

BugListWithoutMargin(pos) == pos < DataMax
BugTwoBytesPerId(pos) == pos < DataMax - 64

\* Whether the scan of get_fingers goes on, its data pos characters long.
RoomFor(pos) == pos < DataMax - 8

NoList == [ids |-> {}, pos |-> 8]

\* One finger more on a list.
Listed(list, id) ==
    [ids |-> list.ids \cup {id},
     pos |-> list.pos + Digits(id) + (IF list.ids = {} THEN 0 ELSE 1)]

\* The list after the ids of from .. to are read, those of present found.
Extend(list, from, to, present) ==
    LET after[id \in from - 1 .. to] ==
            IF id = from - 1 THEN list
            ELSE LET acc == after[id - 1]
                 IN  IF RoomFor(acc.pos) /\ id \in present
                     THEN Listed(acc, id) ELSE acc
    IN  after[to]

NoReply == [ok |-> FALSE, req_id |-> -2, list |-> {}, has |-> FALSE,
            name |-> <<>>]

VARIABLES
    strings,         \* fingers with an output string, of Ids
    enters,          \* fingers with the "send enter" flag
    names,           \* their display names, <<>> for none
    request_busy,    \* the driver's slot is taken
    pc, line,        \* each thread: where, and its request
    next_id, found,  \* get_fingers: the scan, its list
    got,             \* get_finger: its locals
    reply, sent,     \* the response, and how many were sent
    label,           \* history: the name a client set last
    ever, always     \* history: fingers that had a string at some time of
                     \* the thread's get_fingers, and all through it

store   == <<strings, enters, names, label>>
locals  == <<next_id, found, got>>
answer  == <<reply, sent>>
history == <<ever, always>>
vars == <<store, request_busy, pc, line, locals, answer, history>>

NoFinger == [has |-> FALSE, enter |-> FALSE, name |-> <<>>, label |-> <<>>]

TypeOK ==
    /\ strings \subseteq Ids
    /\ enters \subseteq Ids
    /\ \A id \in Ids : Len(names[id]) < ZW3021_STORAGE_NAME_MAX_LEN
    /\ request_busy \in {0, 1}
    /\ pc \in [Threads -> {"idle", "run", "scan", "enter", "name", "delete",
                           "replied"}]
    /\ line \in [Threads -> Requests \cup {NoRequest}]
    /\ next_id \in [Threads -> 0 .. ZW3021_RPC_SCAN_MAX_ID + 1]
    /\ \A t \in Threads : /\ found[t].ids \subseteq Ids \cup Stored
                         /\ found[t].pos < DataMax - 2
    /\ sent \in [Threads -> 0 .. 1]

Init ==
    /\ strings \in SUBSET Ids
    /\ enters = {}
    /\ names = [id \in Ids |-> <<>>] /\ label = names
    /\ request_busy = 0
    /\ pc = [t \in Threads |-> "idle"]
    /\ line = [t \in Threads |-> NoRequest]
    /\ next_id = [t \in Threads |-> 0]
    /\ found = [t \in Threads |-> NoList]
    /\ got = [t \in Threads |-> NoFinger]
    /\ reply = [t \in Threads |-> NoReply]
    /\ sent = [t \in Threads |-> 0]
    /\ ever = [t \in Threads |-> {}]
    /\ always = [t \in Threads |-> {}]

-----------------------------------------------------------------------------
Goto(t, label_) == pc' = [pc EXCEPT ![t] = label_]

\* rpc_send_ok(), rpc_send_error(): a response that does not fit is dropped.
Send(t, response, length) ==
    /\ Goto(t, "replied")
    /\ reply' = [reply EXCEPT ![t] = response]
    /\ sent' = [sent EXCEPT ![t] =
                   IF length < ZW3021_RPC_RESPONSE_MAX THEN @ + 1 ELSE @]

SendError(t, req_id) ==
    Send(t, [NoReply EXCEPT !.req_id = req_id], ErrorLen(req_id))

\* data: the fields of NoReply a response fills in.
SendOk(t, data, data_len) ==
    LET req_id == line[t].req_id
    IN  Send(t, [data EXCEPT !.ok = TRUE, !.req_id = req_id],
             OkLen(req_id, data_len))

Lists(t) == pc[t] = "scan" \/ (pc[t] = "replied" /\ line[t].cmd = "get_fingers")

\* The set of fingers with a string becomes ids.
SetStrings(ids) ==
    /\ strings' = ids
    /\ ever' = [t \in Threads |-> IF Lists(t) THEN ever[t] \cup ids ELSE {}]
    /\ always' = [t \in Threads |-> IF Lists(t) THEN always[t] \cap ids
                                                ELSE {}]

\* A line reaches zw3021_rpc_process_line().
Receive(t, r) ==
    /\ pc[t] = "idle"
    /\ Goto(t, "run")
    /\ line' = [line EXCEPT ![t] = r]
    /\ UNCHANGED <<store, request_busy, locals, answer, history>>

\* The handler of a known command runs, its finger_id valid if it takes one.
Runs(t, cmds) ==
    /\ pc[t] = "run"
    /\ line[t].cmd \in cmds
    /\ line[t].cmd \in WithId => line[t].id > 0

RunRejected(t) ==
    /\ pc[t] = "run"
    /\ ~Runs(t, Known)
    /\ SendError(t, IF line[t].cmd = "none" THEN -1 ELSE line[t].req_id)
    /\ UNCHANGED <<store, request_busy, line, locals, history>>

\* cmd_ping(), cmd_get_status(), cmd_enroll_status().
RunStatus(t) ==
    /\ Runs(t, {"ping", "get_status", "enroll_status"})
    /\ SendOk(t, [NoReply EXCEPT !.has = request_busy = 1], 14)
    /\ UNCHANGED <<store, request_busy, line, locals, history>>

\* cmd_get_enrolled(): the map is the worker's.
RunGetEnrolled(t) ==
    /\ Runs(t, {"get_enrolled"})
    /\ \E has \in BOOLEAN : SendOk(t, [NoReply EXCEPT !.has = has],
                                   49 + Digits(line[t].id))
    /\ UNCHANGED <<store, request_busy, line, locals, history>>

-----------------------------------------------------------------------------
(* cmd_get_fingers().                                                      *)

StartScan(t) ==
    /\ Runs(t, {"get_fingers"})
    /\ Goto(t, "scan")
    /\ next_id' = [next_id EXCEPT ![t] = 1]
    /\ ever' = [ever EXCEPT ![t] = strings]
    /\ always' = [always EXCEPT ![t] = strings]
    /\ UNCHANGED <<store, request_busy, line, found, got, answer>>

\* One zw3021_storage_get() of a finger somebody may write, with those of the
\* fingers before it that nobody does.
Scan(t) ==
    LET from == next_id[t]
        to   == Min({id \in Ids : id >= from} \cup {ZW3021_RPC_SCAN_MAX_ID})
    IN  /\ pc[t] = "scan"
        /\ from <= ZW3021_RPC_SCAN_MAX_ID
        /\ found' = [found EXCEPT ![t] =
                        Extend(@, from, to, Stored \cup strings)]
        /\ next_id' = [next_id EXCEPT ![t] = to + 1]
        /\ UNCHANGED <<store, request_busy, pc, line, got, answer, history>>

SendList(t) ==
    /\ pc[t] = "scan"
    /\ next_id[t] > ZW3021_RPC_SCAN_MAX_ID
    /\ SendOk(t, [NoReply EXCEPT !.list = found[t].ids], found[t].pos + 2)
    /\ UNCHANGED <<store, request_busy, line, locals, history>>

-----------------------------------------------------------------------------
(* cmd_get_finger(): three reads.                                          *)

ReadString(t) ==
    /\ Runs(t, {"get_finger"})
    /\ Goto(t, "enter")
    /\ got' = [got EXCEPT ![t].has = line[t].id \in strings]
    /\ UNCHANGED <<store, request_busy, line, next_id, found, answer, history>>

ReadEnter(t) ==
    /\ pc[t] = "enter"
    /\ Goto(t, "name")
    /\ got' = [got EXCEPT ![t].enter = line[t].id \in enters]
    /\ UNCHANGED <<store, request_busy, line, next_id, found, answer, history>>

\* The name, escaped for the response.
ReadName(t) ==
    LET name == JsonEscape(names[line[t].id],
                           ZW3021_STORAGE_NAME_MAX_LEN * 2 + 1)
    IN  /\ pc[t] = "name"
        /\ got' = [got EXCEPT ![t].label = label[line[t].id]]
        /\ SendOk(t, [NoReply EXCEPT !.has = got[t].has, !.name = name],
                  56 + Digits(line[t].id) + Len(name))
        /\ UNCHANGED <<store, request_busy, line, next_id, found, history>>

-----------------------------------------------------------------------------
(* The commands that write.  An nvs_*() call may fail.                     *)

BugKeepPrefix(found_, max) == found_.ret >= 0

\* "would be worse than rejecting it": only a whole value is stored.
Accepted(found_, max) == found_.ret = 0 /\ Len(found_.out) < max

\* A missing or over-long value or name.
TextRejected(t) ==
    LET max == IF line[t].cmd = "update_finger"
               THEN ZW3021_STORAGE_MAX_LEN ELSE ZW3021_STORAGE_NAME_MAX_LEN
    IN  /\ Runs(t, {"update_finger", "set_finger_name"})
        /\ ~Accepted(FindString(line[t].text, max + 1), max)
        /\ SendError(t, line[t].req_id)
        /\ UNCHANGED <<store, request_busy, line, locals, history>>

UpdateFinger(t) ==
    LET value == FindString(line[t].text, ZW3021_STORAGE_MAX_LEN + 1)
    IN  /\ Runs(t, {"update_finger"})
        /\ Accepted(value, ZW3021_STORAGE_MAX_LEN)
        /\ IF value.out = <<>> THEN SetStrings(strings \ {line[t].id})
                               ELSE SetStrings(strings \cup {line[t].id})
        /\ SendOk(t, NoReply, 2)
        /\ UNCHANGED <<enters, names, label, request_busy, line, locals>>

SetFingerName(t) ==
    LET name == FindString(line[t].text, ZW3021_STORAGE_NAME_MAX_LEN + 1)
    IN  /\ Runs(t, {"set_finger_name"})
        /\ Accepted(name, ZW3021_STORAGE_NAME_MAX_LEN)
        /\ names' = [names EXCEPT ![line[t].id] = name.out]
        /\ label' = [label EXCEPT ![line[t].id] = TextSent(line[t].text)]
        /\ SendOk(t, NoReply, 2)
        /\ UNCHANGED <<strings, enters, request_busy, line, locals, history>>

SetFingerEnter(t) ==
    /\ Runs(t, {"set_finger_enter"})
    /\ enters' = IF line[t].on THEN enters \cup {line[t].id}
                               ELSE enters \ {line[t].id}
    /\ SendOk(t, NoReply, 2)
    /\ UNCHANGED <<strings, names, label, request_busy, line, locals, history>>

\* "storage write failed"
WriteFails(t) ==
    /\ Runs(t, {"update_finger", "set_finger_name", "set_finger_enter"})
    /\ SendError(t, line[t].req_id)
    /\ UNCHANGED <<store, request_busy, line, locals, history>>

\* zw3021_storage_delete(): the flag, then the string, the results ignored.
DeleteEnter(t) ==
    /\ Runs(t, {"delete_finger"})
    /\ Goto(t, "delete")
    /\ enters' \in {enters, enters \ {line[t].id}}
    /\ UNCHANGED <<strings, names, label, request_busy, line, locals, answer,
                   history>>

DeleteString(t) ==
    /\ pc[t] = "delete"
    /\ \E ids \in {strings, strings \ {line[t].id}} : SetStrings(ids)
    /\ SendOk(t, NoReply, 2)
    /\ UNCHANGED <<enters, names, label, request_busy, line, locals>>

-----------------------------------------------------------------------------
(* The commands that go through the driver's request slot.                 *)

\* zw3021_queue_request(): one compare-and-set decides.
QueueRequest(t) ==
    /\ Runs(t, {"enroll_start", "delete_template", "refresh_enroll_map"})
    /\ request_busy' = 1
    /\ IF request_busy = 0 THEN SendOk(t, NoReply, 2)
                           ELSE SendError(t, line[t].req_id)
    /\ UNCHANGED <<store, line, locals, history>>

\* The worker is done with the request.
WorkerDone ==
    /\ request_busy = 1
    /\ request_busy' = 0
    /\ UNCHANGED <<store, pc, line, locals, answer, history>>

Return(t) ==
    /\ pc[t] = "replied"
    /\ Goto(t, "idle")
    /\ line' = [line EXCEPT ![t] = NoRequest]
    /\ next_id' = [next_id EXCEPT ![t] = 0]
    /\ found' = [found EXCEPT ![t] = NoList]
    /\ got' = [got EXCEPT ![t] = NoFinger]
    /\ reply' = [reply EXCEPT ![t] = NoReply]
    /\ sent' = [sent EXCEPT ![t] = 0]
    /\ ever' = [ever EXCEPT ![t] = {}]
    /\ always' = [always EXCEPT ![t] = {}]
    /\ UNCHANGED <<store, request_busy>>

Handler(t) ==
    \/ RunRejected(t) \/ RunStatus(t) \/ RunGetEnrolled(t)
    \/ StartScan(t) \/ Scan(t) \/ SendList(t)
    \/ ReadString(t) \/ ReadEnter(t) \/ ReadName(t)
    \/ TextRejected(t) \/ UpdateFinger(t) \/ SetFingerName(t)
    \/ SetFingerEnter(t) \/ WriteFails(t) \/ DeleteEnter(t) \/ DeleteString(t)
    \/ QueueRequest(t)

Next ==
    \/ \E t \in Threads : \/ \E r \in Requests : Receive(t, r)
                          \/ Handler(t)
                          \/ Return(t)
    \/ WorkerDone

Spec == Init /\ [][Next]_vars

-----------------------------------------------------------------------------
(* Properties.                                                             *)

Replied(t, cmd) == pc[t] = "replied" /\ line[t].cmd = cmd /\ reply[t].ok

\* zw3021_rpc_process_line() "sends exactly one response": whatever is
\* stored, it is never too long to be sent.
OneResponse == \A t \in Threads : pc[t] = "replied" => sent[t] = 1

\* A list of fingers, read while the other thread writes, has every finger
\* that had a string all through the command and none that never had one; if
\* it has to be cut, the smallest ids are the ones that are kept.
ListIsFaithful ==
    \A t \in Threads : Replied(t, "get_fingers") =>
        LET list == reply[t].list IN
        /\ list \subseteq Stored \cup ever[t]
        /\ \A id \in (Stored \cup always[t]) \ list :
              \/ id > ZW3021_RPC_SCAN_MAX_ID
              \/ /\ \A listed \in list : listed < id
                 /\ found[t].pos >= DataMax - 8

\* A text without its control characters.
Printable(text) ==
    Joined([i \in 1 .. Len(text) |-> IF text[i] = "c" THEN <<>>
                                    ELSE <<text[i]>>])[Len(text)]

\* A name comes back from get_finger as the client set it, without its
\* control characters: nothing is lost or added by un-escaping, storing,
\* escaping and the sizes of three buffers.
NameRoundTrip ==
    \A t \in Threads : Replied(t, "get_finger") =>
        Parsed(reply[t].name) = Printable(got[t].label)
=============================================================================
