# Verification of zmk-driver-zw3021

TLA+ models of the HLK-ZW3021 fingerprint driver for ZMK, checked with TLC on
small instances. Eight of the nine models of the code (worker, storage, both
receivers, BLE link, match output, command core, web client) also have their
safety properties proved with TLAPS for every value of the constants.
`PROJECT.json` lists the runs, the mutants that show each property can fail,
the source lines behind every definition, the findings and the hazards. Module,
action and variable names follow the C names without the `zw3021_` prefix.

## Inventory

| Component | State | Operations | Interacts with |
|---|---|---|---|
| Request slot and worker (`src/zw3021.c` 104-123, 489-520, 652-902) | busy flag, pending request, two binary semaphores, enrolled bitmap and its valid flag, VCC-D and INT pins | `request_*()`, `is_busy()`, `get_enrolled()`, worker loop, identify session, request session, INT handler | called by RPC commands and key behaviours on several threads; owns the sensor |
| Packets and command exchanges (`src/zw3021.c` 125-487) | receiver position within a packet, deadlines | send, receive, boot byte, handshake, identify, enroll, delete, clear, read index | the sensor's UART |
| Match output (`src/zw3021.c` 522-649) | keys held down | type a string, press Enter | reads storage, raises ZMK key events |
| Storage (`src/storage.c`) | NVS entries in three key ranges, ready flag, AES key | init, get/set/delete string, get/set flag, get/set name | called by RPC threads and by the worker |
| RPC command core (`src/rpc_commands.c`) | buffers on each thread's stack | 13 commands, one response each | storage, request slot, both transports |
| BLE transport, receive (`src/ble_rpc.c` 55-76, 173-281) | line buffer, brace depth, string and escape flags, discard flag, time of the last byte, message queue of two | `feed_byte()`, processing thread | Bluetooth RX context feeds, a thread processes |
| BLE transport, transmit and connection (`src/ble_rpc.c` 78-171, 285-477) | transmit ring, current connection, advertising retry delay | transmit, tx work, connected, disconnected, advertising retry | three contexts share the ring and the connection pointer |
| Serial transport (`src/serial_rpc.c`) | line buffer and scanner flags, time of the last byte | one polling loop | CDC-ACM console shared with logging |
| Key behaviours (`src/behavior_*.c`) | none | press: one `request_*()` call | request slot |
| Web client (`docs/index.html`) | pending requests, write queue, polling timer, enrolment dialogue | send, receive, timeout, pause polling, enrol | both transports |

What is hard: four kinds of threads and an interrupt share the request slot
with one compare-and-set between them; busy is cleared before the session ends;
the worker polls semaphores without taking them and drains one of them; the
sensor can carry out a command and its answer be lost; both byte scanners have
to find their way back after any broken-off or over-long request; flash
operations fail or are cut by a power failure between two of them; a
disconnect can come between a request and its reply.

What makes each component correct:

- *Slot and worker*: one outstanding request at a time, run with its own
  arguments and exactly once; it always ends; the sensor is powered only in a
  session; a bitmap read is complete when busy clears; touches start identifies,
  touches during a session do not.
- *Storage*: ok means stored; fingers do not affect each other; no flag
  outlives its string.
- *Receivers*: no overrun, intact requests arrive unchanged, nothing of an
  abandoned one leaks into the next, and the receiver recovers by itself.
- *Transmit*: whole lines or none, and none to another connection.
- *Output*: the host sees the string; no key stays down.
- *Packets and exchanges*: success is reported only for a command that was
  carried out, with its own data; a whole answer is recognised; every wait ends.
- *Command core*: exactly one response, which fits; lists and names are true.
- *Client*: whatever overlaps or fails, the polling comes back.

## Plan

| Order | Module | What | Status |
|---|---|---|---|
| 1 | `RequestSlot` | abstract slot of `include/zw3021.h` | done |
| 2 | `ZW3021Worker` | slot, worker, sessions, INT; implements `RequestSlot` | done |
| 3 | `ZW3021WorkerProofs` | type and safety invariants, action properties, refinement | done |
| 4 | `BraceFraming`, `BleFraming`, `SerialFraming` | the scanner and the two receivers | done |
| 5 | `ZW3021Storage` | keys, writes, deletes, power failure | done |
| 6 | `BleLink` | transmit ring, tx work queue, disconnect racing a reply, advertising retry | done |
| 7 | `ZW3021Output` | key events of a match, with the storage writers beside it | done |
| 8 | `SensorExchange` | abstract promise of the command functions | done |
| 9 | `ZW3021Session` | packet receiver, deadlines, enrolment stages, late answers; implements `SensorExchange` | done |
| 10 | `RpcCommands` | the commands on two threads, buffer sizes | done |
| 11 | `WebClient` | polling, what pauses it, enrolment | done |
| 12 | `ZW3021StorageProofs` | key ranges disjoint below 0x4000, ok means stored, isolation, flag before string | done |
| 13 | `SerialFramingProofs`, `BleFramingProofs` | buffer bound, clean when idle, intact dispatch of any well-formed request | done |
| 14 | `BleLinkProofs` | ring bound, whole lines, nothing left for the next client | done |
| 15 | `WebClientProofs` | one request of a polling at a time, polling restored | done |
| 16 | `ZW3021OutputProofs` | the host sees the matched string, no key stays down | done |
| 17 | `RpcCommandsProofs` | one response each, true lists, names that come back, for texts of any length and any number of threads | done |
| 18 | proofs | types and the buffer bound of `ZW3021Session` | open |

## Modules

### `RequestSlot`

What the header promises: `Accept` only when nothing is outstanding, `Refuse`
only when something is, then `Enqueue`, `Start`, `Finish`, the job never
changing on the way.

### `ZW3021Worker`

One action per statement that another context can see. `ClaimSlot`,
`RejectBusy`, `WriteType`, `WriteId` and `GiveRequestSem` are
`zw3021_queue_request()`. `ThreadPoll` to `DrainDone` are the loop of
`zw3021_thread_fn()`; `wpc` is its program counter. `PowerOn` to `RearmDone`
are the two session handlers, which share the preamble and the postamble;
`handler` says which of them runs. `FingerPlaced` is a rising edge with its
interrupt. `PolledEvents` is what `k_poll()` reports: both semaphores at once,
neither taken.

The sensor is the set `templates`. A command ends in `CommandOk` (carried out,
ACK received), `CommandRefused` (non-zero confirm code) or `CommandLost` (no
usable ACK: carried out or not). That the ACK received belongs to the command
is an assumption of this module, and what `ZW3021Session` shows.
`phase`, `arg` and `ret` follow a caller's request from the call to the moment
busy clears, so a caller may call again while its request is outstanding, and
is refused. `trigger` records whether the touch behind a pending semaphore came
during a session. Reading the bitmap is one step: a torn read is accepted by a
comment in the code, and `BitmapStableWhenIdle` says when it cannot happen.

### `BraceFraming`, `BleFraming`, `SerialFraming`

`BraceFraming` holds what the two receivers share: the scanner state and one
step of it. A byte is one of seven kinds, the ones the scanner tells apart.
`BleFraming` is `feed_byte()` with its two extra modes (discard to the newline,
drop what is stale) and the message queue; `SerialFraming` is the loop of
`rpc_thread()`. Both have a client that sends well-formed requests ended by a
newline, as `docs/index.html` does, and fails in the middle of some.

### `ZW3021Storage`

Each thread runs a command as its sequence of `nvs_*()` calls, each of which
succeeds or fails; `Reboot` may come between any two. An entry keeps its kind,
since nothing in flash tells a string from a flag once keys meet. `overtaken`
and `failed` are history, used only by the properties: the keys of a thread's
command that another thread has written since this one did, and those its own
calls failed on. Two threads may work on one finger; only a later write of the
same key excuses an ok whose value is not there any more. The ok of
`delete_finger` comes whatever its two deletes returned, so it promises no more
than those that succeeded.

### `BleLink`

The transmit side of `src/ble_rpc.c`. `FramingError` and `Request` run in the
Bluetooth RX context and, like `Connected` and `Disconnected`, are atomic:
those contexts are cooperative threads. The processing thread
(`TakeRequest` to `SubmitWork`) and the work handler (`StartHandler` to
`NotifyNotConnected`) are preemptible, so each statement is a step and the
connection pointer may change between any two. `adv` and `adv_retry_delay_ms`
are the advertising work. A line is `LineSegs` segments, so that a chunk can
end inside it. One timing fact is assumed, in `AdvDelayOver`: the at least
500 ms before advertising restarts outlast the few statements of a transmit and
the 20 ms sleeps of the handler. They need not outlast a command, so the reply
to a client that left may reach the next one; `WholeLines` says that it comes
whole. After a notify was given up the code itself joins lines, and `broken`
excludes that connection.

### `ZW3021Output`

One action per key event. The worker copies the string when the match comes
and reads the flag after typing, while the RPC thread's writes fall anywhere.
`HostSees` is the keymap that the comment above `zw3021_char_to_offset()`
requires. Keys the user presses meanwhile and a split link that drops are
outside the model.

### `SensorExchange`, `ZW3021Session`

`SensorExchange` is what the session handlers rely on: a job is applied at most
once, 0 comes with the data of a job that was applied, -EIO and -ENOENT only
when it never is; after -ETIMEDOUT and -EBADMSG nothing is known, and the
sensor may still apply it until its power is cut. `ZW3021Session` is the same
session on the bytes. `uart` is what the driver has not read yet. `BootByte`
and `BootTimeout` are `wait_boot_byte()`; `Send` and `CutPower` the two ends of
a command; `SkipByte`, `MatchHdr1`, `HeaderByte` and `PayloadByte` the four
branches of `recv_packet()`, with its `hdr`, `have_hdr0` and `out_buf`;
`Returned` and `Deliver` what the five command functions and the handshake make
of a packet. The sensor answers by its manual, as far as the driver's
comments quote it. `Transmit`, `CommandLost` and `StrayByte` are the line.
`session` checks `Exchange!Spec` under the mapping that hides the bytes.

Nothing in an answer names its command, so the refinement depends on two
things. The boot wait reads the line empty before it gives up
(`BootWaitOver`): it lasts hundreds of milliseconds, and a byte is read in
microseconds. And only time that the driver spends on an empty line, or in a
packet, counts (`Tick`). A stray 0x55 on the line ends the boot wait early, and
then an old answer does pass for the handshake's; such a byte counts as
`disturbed`, and at most one fault happens in a behaviour, so the combination
of a late answer with a stray boot byte is outside the run.

### `RpcCommands`

One thread per transport, each in `zw3021_rpc_process_line()`. A command is one
step per call that another thread can come between: three reads for
`get_finger`, one per finger for `get_fingers` (with the fingers nobody writes
taken along), two deletes for `delete_finger`, one compare-and-set for the
commands that queue a request. A request is a record of what its line says, in
any combination the MC module lists; lengths are the real ones.

A text is a sequence of characters of four kinds, those that escaping and
un-escaping tell apart: plain, quote, backslash, control. `Wire` is how a client
writes one, with its closing quote. `Positions` is the reader of
`json_find_string()`: where it stands after each character, a backslash giving
way to the character behind it; what it has read is the character before each
position (`TextRead`), and `FindString` says where it stops. `JsonEscape` keeps
the longest prefix that fits (`Joined` has all of them), and `Parsed` is the
client's reading of a response.

### `WebClient`

A step is what JavaScript runs between two awaits. `StatusTick` and
`EnrollTick` are the two interval timers, `StartAction` is
`withStatusPollingPaused()` up to its first request, `ActionGoesOn` and
`ActionEnds` its continuation, `ClickEnroll` to `EnrollOver` the enrolment.
`Resolve`, `Timeout` and `Reject` are the three ways a request is settled. The
pauses between the requests of an action are not steps of their own. A stopped
poll whose response is still to come changes only a label and is dropped.
`Answer` is the keyboard's side, the commands of `src/rpc_commands.c`: each
thing a client asks of the sensor (`enroll_start`, `refresh_enroll_map`,
`delete_template`) sets `busy` and is refused while it is set. A key of the
keyboard that enrolls, deletes or clears does so too (`KeyPressed`, one of the
bounded things the user does), and `RequestDone` is the worker clearing the
flag. `enroll_status` reports the one flag, so an enrolment's polling may go on
for a request that is not its own.
`nextReqId` never repeats within a connection; here a flow has `MaxPending`
numbers for its own requests, and a step that needs one more waits (`Send`, and
the renaming in `EnrollStarted`). An action is not called like one of the other
flows (`WebAssumption`).

## Runs

| Run | Shows | Bounds and why they suffice |
|---|---|---|
| `worker_safety` | eight safety properties, refinement of `RequestSlot` among them | two callers, since a conflict needs two; one id on the index page and one off it; every interleaving of touches; 1.2 million states, symmetric in the callers |
| `worker_liveness` | accepted requests end; touches are served | one caller, one id: progress does not depend on who calls, and safety of the slot is covered above |
| `ble_framing` | buffer bound, clean when idle, intact dispatch, recovery | line buffer of 8: requests of 2, 5, 7 (fits exactly) and 9 (too long); the queue of two is the real one; two faults, so that the second hits a receiver that is recovering |
| `serial_framing` | the same for the serial receiver | requests of 2, 5, 7 and 12, the tail of the last being read as a new message |
| `storage` | ok means stored until the same key is written again, isolation, flag not outliving its string | two threads, also at the same finger; the first finger and the last one whose keys are its own, one string, one name and the empty ones |
| `ble_link` | whole lines in order, nothing left in the ring, reconnection, no backoff carried over to the next disconnect | lines of two segments, a ring of five: a third line never fits; two connections; four lines from both contexts; four faults, which take the advertising delay to its cap |
| `output` | the host sees the matched string, no key stays down | three strings with each kind of character next to each other kind that matters |
| `session` | success means carried out, an answer is recognised, sessions end | one id on the index page and one off it; an index of one byte; a fault anywhere in one packet, before it or instead of it; 0, 2 or 12 unread bytes (nothing, a piece of a packet, a whole one) outlive the power cut; an enrolment of two ticks, so that a stage comes before and after one |
| `rpc` | one response each, a true list, names that come back | both threads; the real sizes 32, 48, 100 and 224; the list of 59 two-digit fingers and finger 100 that just fits, and the one that is cut; names of 0, 4, 47 and 48 characters, strings of 0, 31 and 32; req_ids of four digits |
| `client` | the polling comes back | two overlapping actions, three clicks or key presses, so that two enrolments can meet an action, one lost response, one reconnection |
| `ble_newline`, `key_collision` | findings, see below | the smallest instance that shows them |

## Fairness

A runnable thread is scheduled eventually: callers in the middle of a call, the
worker, the transports' threads (weak fairness). Every UART wait of the worker
ends at a deadline. A finger is lifted eventually; without that the re-arm wait
never ends and a queued request waits with it, which is what the code does. The
re-arm wait samples the line every 20 ms and the drain loop takes a few
instructions, both short against a finger's movement, so `RearmDone` and
`DrainDone` have strong fairness: an adversary that touches the sensor again
exactly at every sample is not a finger. For the receivers, the client goes on
sending and its bytes arrive. The BLE model has no fairness on silence or
disconnection: recovery happens without them. The serial receiver has nothing
but silence to recover by, and gets it: a client that lost its answer waits
twenty seconds, ten times the silence that drops a partial line. `BleLink`
asks only that threads and work queues run; nobody has to connect or ask. In
`ZW3021Session` the worker runs and time passes, also if the sensor keeps the
line busy, which is why `Tick` has strong fairness; the sensor owes nothing. In
`WebClient` timers fire, the keyboard answers what is not lost, and an action
reaches its end: the loops of refresh, save and delete are bounded, so its
`ActionEnds`, possible again and again, is taken (strong fairness).

## What is proved

Each proof module proves `Spec => []Inv` by an inductive invariant, with one
lemma per action or group of actions, and derives the properties of the runs
from it. The constants are arbitrary, within the named assumption of the
module, unless a hypothesis is named below. TLC has checked the strengthened
invariants on the instances of the runs, except for `FollowsInv`, which
quantifies over every reading of a request.

### `ZW3021WorkerProofs`

For any set `Callers` and any `Ids` of 16 bits: the type invariant, the four
safety properties of `worker_safety`, its three action properties, and that
`ZW3021Worker` implements `RequestSlot`.

The argument is the inductive invariant `IndInv`. `SlotHeldIffBusy` is
inductive only together with `ControlInv` (which handler runs at which label)
and `PollInv`: between `k_poll()` and the take nobody but the worker lowers a
semaphore, so the take finds what was reported, and "the worker took a request"
and "a caller's request is running" stay the same fact. `RequestIntegrity`
needs `PublishInv`, the arguments written so far, and that there is one
publisher at a time. `ReadReported` needs `ReadInv`, which follows the page
from the sensor to the shared bitmap. `NoStrayIdentify` needs `TriggerInv`: the
drain leaves no trigger of a session behind. A frame lemma says what a group of
actions leaves alone.

### `ZW3021StorageProofs`

Types, `OkMeansStored` and `EnterNeverOutlivesString` hold for any threads and
every id: they speak of the keys of one command, and a finger's string and flag
never share one (`StringIsNotEnter`), whatever other ids have. Where two fingers
share a key, a write to the one counts as overtaking the other.
`FingersAreIsolated` holds under `OwnKeys`: every id is below 0x4000, the first
key offset of `src/storage.c`. That is where the three key ranges are disjoint
(`KeysDisjoint`), every template slot of the sensor is there, and
`key_collision` shows that beyond it the property fails. `OkMeansStored` is not
inductive: an ok of `delete_finger` rests on the flag's entry being gone since
the first of its two deletes. `WrittenInv` says so of every key a command has
written so far: its entry is there until another thread overtakes it. With
`LabelInv`, which ties labels to commands, it is inductive, and `WrittenIsDone`
turns entries into what a client reads. What no theorem says is that a delete
answered with ok has deleted anything: see the disagreements below.

### `SerialFramingProofs`, `BleFramingProofs`

The buffer bound and `IdleMeansClean` need no hypothesis: a receiver with an
empty line is in its reset state. `IntactDispatch` is proved for
`ClientIsWellFormed`: every request is one JSON object. `Reading` says how a
reader of JSON follows a string of bytes (depth, inside a string, escaped), and
`WellFormed` that such a reading returns to depth zero at the last byte and not
before; `WellFormedExample` shows one with a brace in a string. The requests of
both MC modules are of this kind. `FollowingStep` is the argument both receivers
share: the scanner stands where the reader does (`Following`), so it skips
nothing, and its line is complete exactly at the end. Each receiver then only
has to show that nothing else touches the scanner while a request that fits is
on its way (`FollowsInv`); a stall, a break or a disconnect clears `clean`.
The lemmas about the scanner speak of no variable. They are in
`SerialFramingProofs`, and `BleFramingProofs` has them from an instance of it.

### `BleLinkProofs`

`WholeLines` follows from `StreamInv`: what the client has, then what the
handler holds, then the ring, is one sequence of whole lines as long as no
notify was given up. It is inductive with `LinkInv`: the ring of a connection
that is gone is empty, or a reset of it is on its way, and all of that is over
when advertising is on. That conjunct is where the assumption of
`AdvDelayOver` is used, and it gives `NothingLeftForTheNext`. It also has the
backoff end with a start that succeeds, so that a client always finds it, and
leaves it, at its initial delay. `CountInv` bounds
the lines by the requests. All sizes and numbers are arbitrary.

### `WebClientProofs`

`PollingRestored` says nothing of a state in which an action is under way, so
it is not inductive. `RestoreInv` is: where the polling is off, somebody will
restore it, namely the enrolment's timer, an `enroll_start` under way, or an
action that found it on. An action that began while the polling was off relies
on another one, and its end does not remove that one. `Awaitable` is
the "one request of a polling at a time" of the types as a fact about two
requests rather than a cardinality.

### `ZW3021OutputProofs`

`HostTypesTheMatch` is about the moments between two characters. `KeysInv` and
`TextInv` follow the steps of one: which keys are down, and whether the host has
seen the character before `p` already. `Typeable` is a recursive function;
`TypeableFollows` shows, by induction over the set of lengths for which it is
defined (`SetInduction`, from the least-element property of the numbers), that
it has a solution for strings of any length, and only one. The worker only uses
its copy, so `RpcInv` is short: that the code copies is the point.

### `RpcCommandsProofs`

About text, for any length and any buffer: what `json_find_string()` takes whole
out of a line is what the client meant (`FoundAsMeant`), and a name that fits
its buffer comes back from `json_escape()` and the client's parser as it was,
without its control characters (`NameComesBack`). `Joined` and `Positions` are
recursive functions; `PrimitiveRecursion` shows that each has a solution, by
induction over a set of lengths (`SetInduction`), and `JoinedFollows` and
`PositionsFollow` that they are it. The core is where the reader of a written
text stands after `n` of its characters: at the end of the first `n` pieces.

About lists: `ListIsFaithful` compares the end of a scan with what was stored
all through it and at some time during it. It is inductive as `ListInv`: the
history bounds what is stored now (`always` below `strings` below `ever`), and
the list so far is right for the ids read so far (`ListOk`: only fingers that
may be on it, and all that must be but those the list had no room for, which
are greater than every finger listed). `Scan` takes a run of ids that
nobody writes in one step, which `ExtendOk` unfolds one id at a time. `PhaseInv`
ties labels to commands: the list is empty where no scan is under way, and
nothing is sent before the answer. `DigitsBound` and `LengthsFit` are the
arithmetic of `%d`.

`TypeCorrect` and `ListFaithful` need no hypothesis. `RespondsOnce` needs
`ShortReqIds`: no `req_id` above 9999. The bound is tight: with five digits the
longest list does not fit (see below), and the client counts from one, so it is
thousands of requests away from there. `NamesRoundTrip` needs
`NamesAreWritten`: every name a client sends is some text with quotes and
backslashes escaped and a closing quote, or is missing. Nothing is asked of its
length or its characters.

### Model-checked only

- Liveness (`RequestCompletes`, `TouchServed`, `Recovers`, `RingDrains`,
  `Reconnectable`, `SessionEnds`, `PollingResumes`): the provers do neither
  `ENABLED` nor fairness.
- `ZW3021Session`. `RefinesExchange` and `IntactAckHeard` are not facts about
  every value of its constants: a checksum is a sum of bytes, and two damaged
  bytes can leave it as it was, so they hold for the one fault that the run
  allows. `TypeOK` with its buffer bound is a fact about all constants: a packet
  is taken only if its length fits (`HeaderByte`), and `PayloadByte` stops there.
  It has no proof yet.

## Findings

- A request one byte too long, with the newline as the byte that does not fit,
  makes the BLE receiver discard the next request as well (`ble_newline`). The
  discard then ends, so `Recovers` holds.
- The key ranges of strings, flags and names meet for ids from 0x4000 on, and
  the commands accept those (`key_collision`). Below that they are disjoint,
  which `storage` checks at both ends of the range.

Other disagreements, seen in the models and without a run of their own:

- `is_busy()` is false during an identify, although `include/zw3021.h:23` says
  it covers one. A request made then is accepted and waits. No property is
  about an identify and the flag.
- `delete_finger` answers ok when the delete failed or storage is not mounted
  (`RepliesOk`), although the string or the flag is still there.
  `OkMeansStored` leaves those cases out.
- `zw3021_rpc_process_line()` "sends exactly one response": with the longest
  list of fingers and a `req_id` of five digits or more the response is a byte
  byte too long for its buffer and is dropped. `OneResponse` is checked and
  proved for up to four digits.
- `JSON.stringify()` in `docs/index.html` writes a control character as a
  backslash and a letter; `json_find_string()` drops the backslash and keeps the
  letter, so a tab pasted into a name comes back as a `t`. `NameRoundTrip` is
  about a client that sends control characters as they are.
- The comment above `enroll_start` in `docs/index.html` wants no status polling
  beside an enrolment, and `README.md:375-377` says that it is paused for the
  duration of one. A refresh or save that ends meanwhile starts it again
  (`ActionEnds`), as does a second click on the button that is refused
  (`EnrollRejected`). An action that ends after a disconnect starts the polling
  of a connection that is gone; it goes on failing until the next connection.

Hazards without a property (`PROJECT.json`, `hazards`): a finger that rests on
the sensor for good, which the fairness excludes and for which the re-arm wait
has no time-out; the flag during an identify; the dropped result of a delete;
and a request number that a new connection of the web client uses again while an
answer to the connection before is still on its way (`nextReqId` starts from one
with each, the model's requests are told apart by more than their number).

## Not modelled

AES and key derivation (no state), devicetree, Kconfig and build files (no
behaviour; timeouts are choices of the environment), logging, rendering of the
web page, GATT and settings registration (static tables). Zephyr's semaphores,
`k_poll`, message queue and NVS appear as the calls made to them. The textual
search for a key in a request line is not modelled: the lines are those of a
client that writes JSON. Of the web client the slots' form, the fall-back to
small BLE writes and the countdown after connecting are left out.
