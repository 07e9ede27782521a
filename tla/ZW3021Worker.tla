---------------------------- MODULE ZW3021Worker ----------------------------
(***************************************************************************)
(* The driver's worker thread (src/zw3021.c): the single request slot that *)
(* the serial RPC thread, the BLE RPC thread and the key behaviours claim  *)
(* with an atomic compare-and-set, the two semaphores that wake the        *)
(* thread, the INT handler, and the power cycle every session goes         *)
(* through.  A statement of the C code that another thread or the INT      *)
(* handler can see, or be seen by, is a step of its own.  What the sensor  *)
(* answers on the UART is a choice among the results the command functions *)
(* can return.                                                             *)
(***************************************************************************)
EXTENDS Naturals

CONSTANTS Callers,   \* threads that call zw3021_request_*()
          Ids        \* template ids they use, all uint16_t

ASSUME IdsAssumption == Ids \subseteq 0 .. 65535

ZW3021_INDEX_TABLE_LEN == 32

\* The ids one page of the sensor's index table covers, one bit each.
IndexIds == {id \in Ids : id < ZW3021_INDEX_TABLE_LEN * 8}

Types == {"ENROLL", "DELETE", "CLEAR", "READ_ENROLLED"}
Request(type, id) == [type |-> type, id |-> id]
Requests == {Request(type, id) : type \in {"ENROLL", "DELETE"}, id \in Ids}
            \cup {Request(type, 0) : type \in {"CLEAR", "READ_ENROLLED"}}
NoRequest == Request("none", 0)

VARIABLES
    request_busy, pending_request, request_sem,   \* the request slot
    finger_sem,                                   \* given by the INT handler
    enrolled_bitmap, enrolled_bitmap_valid,       \* read by get_enrolled()
    dev,                                          \* zw3021_dev # NULL
    int_gpio, power_en_gpio,                      \* the pins
    wpc, events, handler,                         \* where the worker is
    req, result, index,                           \* and its locals
    templates,                                    \* the sensor's flash
    phase, arg, ret,      \* the callers: progress of the call and then of its
                          \* request, what it asked for, what it returned
    trigger               \* history: was the touch behind finger_sem made
                          \* during a session ("busy") or outside ("armed")

slot    == <<request_busy, pending_request, request_sem>>
bitmap  == <<enrolled_bitmap, enrolled_bitmap_valid>>
pins    == <<int_gpio, power_en_gpio>>
control == <<events, handler>>
locals  == <<req, result, index>>
callers == <<phase, arg, ret>>
touch   == <<finger_sem, trigger>>

vars == <<slot, bitmap, dev, pins, wpc, control, locals, templates, callers,
          touch>>

Publishing == {"type", "id", "give"}

SessionLabels == {"power_on", "handshake", "command", "copy_bitmap",
                  "set_valid", "emit", "clear_busy", "power_off", "rearm"}
LoopLabels == {"poll", "finger_branch", "request_branch", "copy_request",
               "drain"}

TypeOK ==
    /\ request_busy \in {0, 1}
    /\ pending_request \in [type : Types, id : Ids \cup {0}]
    /\ request_sem \in {0, 1}
    /\ finger_sem \in {0, 1}
    /\ enrolled_bitmap \subseteq IndexIds
    /\ enrolled_bitmap_valid \in BOOLEAN
    /\ dev \in BOOLEAN
    /\ int_gpio \in {0, 1}
    /\ power_en_gpio \in {0, 1}
    /\ wpc \in LoopLabels \cup SessionLabels
    /\ events \in [finger : BOOLEAN, request : BOOLEAN]
    /\ handler \in {"none", "finger", "request"}
    /\ req \in [type : Types, id : Ids \cup {0}]
    /\ result \in {"none", "OK", "EIO", "ETIMEDOUT", "EBADMSG"}
    /\ index \subseteq IndexIds
    /\ templates \subseteq Ids \cup {0}
    /\ phase \in [Callers -> {"idle", "queued", "running"} \cup Publishing]
    /\ arg \in [Callers -> Requests \cup {NoRequest}]
    /\ ret \in [Callers -> {"none", "ok", "EBUSY"}]
    /\ trigger \in {"none", "armed", "busy"}

\* Zeroed .bss, both semaphores empty, VCC-D configured inactive.  dev stays
\* NULL when zw3021_init() fails; a finger may rest on the sensor already.
Init ==
    /\ request_busy = 0
    /\ pending_request = Request("ENROLL", 0)
    /\ request_sem = 0
    /\ finger_sem = 0
    /\ enrolled_bitmap = {}
    /\ enrolled_bitmap_valid = FALSE
    /\ dev \in BOOLEAN
    /\ int_gpio \in {0, 1}
    /\ power_en_gpio = 0
    /\ wpc = "poll"
    /\ events = [finger |-> FALSE, request |-> FALSE]
    /\ handler = "none"
    /\ req = Request("ENROLL", 0)
    /\ result = "none"
    /\ index = {}
    /\ templates \in SUBSET Ids
    /\ phase = [c \in Callers |-> "idle"]
    /\ arg = [c \in Callers |-> NoRequest]
    /\ ret = [c \in Callers |-> "none"]
    /\ trigger = "none"

-----------------------------------------------------------------------------
(* zw3021_queue_request(), one step per statement.                         *)

CallerStep == UNCHANGED <<bitmap, dev, pins, wpc, control, locals, templates,
                          touch>>

BugCasAlwaysSucceeds == request_busy \in {0, 1}

\* What atomic_cas(&busy, 0, 1) compares with.
SlotIsFree == request_busy = 0

ClaimSlot(c, r) ==
    /\ phase[c] \notin Publishing
    /\ SlotIsFree
    /\ request_busy' = 1
    /\ phase' = [phase EXCEPT ![c] = "type"]
    /\ arg' = [arg EXCEPT ![c] = r]
    /\ ret' = [ret EXCEPT ![c] = "none"]
    /\ UNCHANGED <<pending_request, request_sem>>
    /\ CallerStep

\* The cas fails: "busy, dropping request".
RejectBusy(c) ==
    /\ phase[c] \notin Publishing
    /\ ~SlotIsFree
    /\ ret' = [ret EXCEPT ![c] = "EBUSY"]
    /\ UNCHANGED <<slot, phase, arg>>
    /\ CallerStep

WriteType(c) ==
    /\ phase[c] = "type"
    /\ pending_request' = [pending_request EXCEPT !.type = arg[c].type]
    /\ phase' = [phase EXCEPT ![c] = "id"]
    /\ UNCHANGED <<request_busy, request_sem, arg, ret>>
    /\ CallerStep

WriteId(c) ==
    /\ phase[c] = "id"
    /\ pending_request' = [pending_request EXCEPT !.id = arg[c].id]
    /\ phase' = [phase EXCEPT ![c] = "give"]
    /\ UNCHANGED <<request_busy, request_sem, arg, ret>>
    /\ CallerStep

BugUnboundedGive(sem) == sem + 1

\* k_sem_give() on a semaphore defined with limit 1.
SemGive(sem) == IF sem < 1 THEN sem + 1 ELSE sem

GiveRequestSem(c) ==
    /\ phase[c] = "give"
    /\ request_sem' = SemGive(request_sem)
    /\ phase' = [phase EXCEPT ![c] = "queued"]
    /\ ret' = [ret EXCEPT ![c] = "ok"]
    /\ UNCHANGED <<request_busy, pending_request, arg>>
    /\ CallerStep

Publish(c) == WriteType(c) \/ WriteId(c) \/ GiveRequestSem(c)

-----------------------------------------------------------------------------
(* zw3021_thread_fn().                                                     *)

WorkerStep == UNCHANGED <<bitmap, dev, pins, templates>>

BugLostWakeup == [finger |-> FALSE, request |-> request_sem = 1]

\* The state of both events when k_poll() returns (NOTIFY_ONLY: it takes
\* neither semaphore).
PolledEvents == [finger |-> finger_sem = 1, request |-> request_sem = 1]

ThreadPoll ==
    /\ wpc = "poll"
    /\ finger_sem = 1 \/ request_sem = 1
    /\ events' = PolledEvents
    /\ wpc' = "finger_branch"
    /\ UNCHANGED <<slot, handler, locals, callers, touch>>
    /\ WorkerStep

TakeFingerSem ==
    /\ wpc = "finger_branch"
    /\ events.finger
    /\ finger_sem' = 0
    /\ trigger' = "none"
    /\ IF dev THEN wpc' = "power_on" /\ handler' = "finger"
              ELSE wpc' = "request_branch" /\ UNCHANGED handler
    /\ UNCHANGED <<slot, events, locals, callers>>
    /\ WorkerStep

SkipFinger ==
    /\ wpc = "finger_branch"
    /\ ~events.finger
    /\ wpc' = "request_branch"
    /\ UNCHANGED <<slot, control, locals, callers, touch>>
    /\ WorkerStep

TakeRequestSem ==
    /\ wpc = "request_branch"
    /\ events.request
    /\ request_sem' = 0
    /\ wpc' = "copy_request"
    /\ phase' = [c \in Callers |-> IF phase[c] = "queued" THEN "running"
                                                          ELSE phase[c]]
    /\ UNCHANGED <<request_busy, pending_request, control, locals, arg, ret,
                   touch>>
    /\ WorkerStep

SkipRequest ==
    /\ wpc = "request_branch"
    /\ ~events.request
    /\ wpc' = "drain"
    /\ UNCHANGED <<slot, control, locals, callers, touch>>
    /\ WorkerStep

\* req = pending_request; without a device the request is only cleared.
CopyRequest ==
    /\ wpc = "copy_request"
    /\ req' = pending_request
    /\ result' = "none" /\ index' = {}
    /\ IF dev THEN wpc' = "power_on" /\ handler' = "request"
              ELSE wpc' = "clear_busy" /\ UNCHANGED handler
    /\ UNCHANGED <<slot, events, callers, touch>>
    /\ WorkerStep

DrainTake ==
    /\ wpc = "drain"
    /\ finger_sem = 1
    /\ finger_sem' = 0
    /\ trigger' = "none"
    /\ UNCHANGED <<slot, wpc, control, locals, callers>>
    /\ WorkerStep

BugNoDrain == finger_sem \in {0, 1}

\* k_sem_take(&finger_sem, K_NO_WAIT) found it empty.
Drained == finger_sem = 0

\* The next iteration; the block-scoped locals are gone.
DrainDone ==
    /\ wpc = "drain"
    /\ Drained
    /\ events' = [finger |-> FALSE, request |-> FALSE]
    /\ req' = Request("ENROLL", 0) /\ result' = "none" /\ index' = {}
    /\ wpc' = "poll"
    /\ UNCHANGED <<slot, handler, callers, touch>>
    /\ WorkerStep

Loop == \/ ThreadPoll \/ TakeFingerSem \/ SkipFinger \/ TakeRequestSem
        \/ SkipRequest \/ CopyRequest \/ DrainTake \/ DrainDone

-----------------------------------------------------------------------------
(* A session: zw3021_handle_finger_event(), zw3021_handle_request_event(). *)

SessionStep == UNCHANGED <<pending_request, request_sem, dev, int_gpio,
                           events, req, ret, touch>>
KeepSlot == UNCHANGED <<request_busy, phase, arg>>

\* VCC-D on, the power-on delay, the optional boot byte.
PowerOn ==
    /\ wpc = "power_on"
    /\ power_en_gpio' = 1
    /\ wpc' = "handshake"
    /\ UNCHANGED <<bitmap, handler, result, index, templates>>
    /\ SessionStep /\ KeepSlot

HandshakeOk ==
    /\ wpc = "handshake"
    /\ wpc' = "command"
    /\ UNCHANGED <<power_en_gpio, bitmap, handler, result, index, templates>>
    /\ SessionStep /\ KeepSlot

BugEarlyReturn == IF handler = "request" THEN "drain" ELSE "request_branch"

\* Where a failed handshake leads: the command is skipped, the postamble
\* "always runs regardless".
Postamble == IF handler = "request" THEN "clear_busy" ELSE "power_off"

\* No usable ACK within ZW3021_QUICK_CMD_TIMEOUT_MS.
HandshakeFail ==
    /\ wpc = "handshake"
    /\ wpc' = Postamble
    /\ UNCHANGED <<power_en_gpio, bitmap, result, index, templates>>
    /\ UNCHANGED handler
    /\ SessionStep /\ KeepSlot

\* zw3021_auto_identify(): 0 names a template the sensor holds; -ENOENT,
\* -ETIMEDOUT and -EBADMSG all end the session without output.
Identify ==
    /\ wpc = "command" /\ handler = "finger"
    /\ \/ templates # {} /\ wpc' = "emit"
       \/ wpc' = "power_off"
    /\ UNCHANGED <<power_en_gpio, bitmap, handler, result, index, templates>>
    /\ SessionStep /\ KeepSlot

\* zw3021_emit_match_output(): seconds of key presses, no worker state.
EmitMatchOutput ==
    /\ wpc = "emit"
    /\ wpc' = "power_off"
    /\ UNCHANGED <<power_en_gpio, bitmap, handler, result, index, templates>>
    /\ SessionStep /\ KeepSlot

\* What the sensor's flash holds once it has carried out the request.
Applied(r, held) ==
    CASE r.type = "ENROLL" -> held \cup {r.id}
      [] r.type = "DELETE" -> held \ {r.id}
      [] r.type = "CLEAR"  -> {}
      [] OTHER             -> held

BugClearBusyFirst == "clear_busy"

\* A successful read is copied to the shared bitmap before busy clears.
AfterCommandOk == IF req.type = "READ_ENROLLED" THEN "copy_bitmap"
                                                ELSE "clear_busy"

\* The sensor carried the command out and its ACK arrived.
CommandOk ==
    /\ wpc = "command" /\ handler = "request"
    /\ result' = "OK"
    /\ templates' = Applied(req, templates)
    /\ index' = IF req.type = "READ_ENROLLED" THEN templates \cap IndexIds
                                              ELSE index
    /\ wpc' = AfterCommandOk
    /\ UNCHANGED <<power_en_gpio, bitmap, handler>>
    /\ SessionStep /\ KeepSlot

\* The sensor refused it with a non-zero confirm code: nothing changed.
CommandRefused ==
    /\ wpc = "command" /\ handler = "request"
    /\ result' = "EIO"
    /\ wpc' = "clear_busy"
    /\ UNCHANGED <<power_en_gpio, bitmap, handler, index, templates>>
    /\ SessionStep /\ KeepSlot

\* The ACK was late, lost or malformed: the sensor may or may not have
\* carried the command out, and the driver cannot tell.
CommandLost ==
    /\ wpc = "command" /\ handler = "request"
    /\ result' \in {"ETIMEDOUT", "EBADMSG"}
    /\ templates' \in {templates, Applied(req, templates)}
    /\ wpc' = "clear_busy"
    /\ UNCHANGED <<power_en_gpio, bitmap, handler, index>>
    /\ SessionStep /\ KeepSlot

\* memcpy(zw3021_enrolled_bitmap, bitmap, ...), then the valid flag.
CopyBitmap ==
    /\ wpc = "copy_bitmap"
    /\ enrolled_bitmap' = index
    /\ wpc' = "set_valid"
    /\ UNCHANGED <<power_en_gpio, enrolled_bitmap_valid, handler, result,
                   index, templates>>
    /\ SessionStep /\ KeepSlot

SetValid ==
    /\ wpc = "set_valid"
    /\ enrolled_bitmap_valid' = TRUE
    /\ wpc' = "clear_busy"
    /\ UNCHANGED <<power_en_gpio, enrolled_bitmap, handler, result, index,
                   templates>>
    /\ SessionStep /\ KeepSlot

\* atomic_clear(&busy), before the power-off and the re-arm wait.
ClearBusy ==
    /\ wpc = "clear_busy"
    /\ request_busy' = 0
    /\ wpc' = IF handler = "request" THEN "power_off" ELSE "drain"
    /\ phase' = [c \in Callers |-> IF phase[c] = "running" THEN "idle"
                                                           ELSE phase[c]]
    /\ arg' = [c \in Callers |-> IF phase[c] = "running" THEN NoRequest
                                                         ELSE arg[c]]
    /\ UNCHANGED <<power_en_gpio, bitmap, handler, result, index, templates>>
    /\ SessionStep

PowerOff ==
    /\ wpc = "power_off"
    /\ power_en_gpio' = 0
    /\ wpc' = "rearm"
    /\ UNCHANGED <<bitmap, handler, result, index, templates>>
    /\ SessionStep /\ KeepSlot

BugClearBusyAgain ==
    /\ wpc = "rearm"
    /\ int_gpio = 0
    /\ wpc' = IF handler = "finger" THEN "request_branch" ELSE "drain"
    /\ handler' = "none"
    /\ request_busy' = 0
    /\ UNCHANGED <<power_en_gpio, bitmap, result, index, templates, phase,
                   arg>>
    /\ SessionStep

\* One of the samples taken every ZW3021_REARM_POLL_MS finds INT low; the
\* identify handler returns into the request branch of the same iteration.
RearmDone ==
    /\ wpc = "rearm"
    /\ int_gpio = 0
    /\ wpc' = IF handler = "finger" THEN "request_branch" ELSE "drain"
    /\ handler' = "none"
    /\ UNCHANGED <<power_en_gpio, bitmap, result, index, templates>>
    /\ SessionStep /\ KeepSlot

Session == \/ PowerOn \/ HandshakeOk \/ HandshakeFail
           \/ Identify \/ EmitMatchOutput
           \/ CommandOk \/ CommandRefused \/ CommandLost
           \/ CopyBitmap \/ SetValid \/ ClearBusy \/ PowerOff \/ RearmDone

-----------------------------------------------------------------------------
(* The finger and the INT line.                                            *)

FingerStep == UNCHANGED <<slot, bitmap, dev, power_en_gpio, wpc, control,
                          locals, templates, callers>>

\* The rising edge runs zw3021_int_handler().  The interrupt is enabled last
\* in zw3021_init(), so there is none without a device.
FingerPlaced ==
    /\ int_gpio = 0
    /\ int_gpio' = 1
    /\ finger_sem' = IF dev THEN SemGive(finger_sem) ELSE finger_sem
    /\ trigger' = IF ~dev \/ finger_sem > 0 THEN trigger
                  ELSE IF wpc \in SessionLabels THEN "busy" ELSE "armed"
    /\ FingerStep

FingerLifted ==
    /\ int_gpio = 1
    /\ int_gpio' = 0
    /\ UNCHANGED touch
    /\ FingerStep

-----------------------------------------------------------------------------
Next == \/ \E c \in Callers : \/ \E r \in Requests : ClaimSlot(c, r)
                              \/ RejectBusy(c)
                              \/ Publish(c)
        \/ Loop
        \/ Session
        \/ FingerPlaced
        \/ FingerLifted

Spec == Init /\ [][Next]_vars

(* A runnable thread is scheduled eventually: every caller in the middle   *)
(* of zw3021_queue_request(), and the worker, each of whose UART waits has *)
(* a timeout.  A finger is lifted eventually.  The re-arm wait samples INT *)
(* every 20 ms and the drain loop takes a few instructions, a finger takes *)
(* longer: when the line falls low, or the semaphore is empty, again and   *)
(* again, some sample finds it so (strong fairness).                       *)
Fairness == /\ \A c \in Callers : WF_vars(Publish(c))
            /\ WF_vars(Loop \/ Session)
            /\ SF_vars(RearmDone)
            /\ SF_vars(DrainDone)
            /\ WF_vars(FingerLifted)

FairSpec == Spec /\ Fairness

-----------------------------------------------------------------------------
(* Properties.                                                             *)

\* The worker has taken a request and not cleared busy for it yet.
HoldsRequest ==
    \/ wpc \in {"copy_request", "copy_bitmap", "set_valid", "clear_busy"}
    \/ handler = "request" /\ wpc \in {"power_on", "handshake", "command"}

\* Busy is set exactly while one single call is being published, queued or
\* run, and the semaphore and the worker agree on which.  It is what the
\* unlocked writes to pending_request ("the only in-flight request") and the
\* early clear before the re-arm wait rest on.
SlotHeldIffBusy ==
    /\ \A c, d \in Callers : phase[c] # "idle" /\ phase[d] # "idle" => c = d
    /\ request_busy = 1 <=> \E c \in Callers : phase[c] # "idle"
    /\ request_sem = 1 <=> \E c \in Callers : phase[c] = "queued"
    /\ HoldsRequest <=> \E c \in Callers : phase[c] = "running"

\* What the worker runs is what the caller asked for: pending_request is the
\* queued caller's request, and req the running caller's once it is copied,
\* whoever else is calling meanwhile.
RequestIntegrity ==
    \A c \in Callers :
        /\ phase[c] = "queued" => pending_request = arg[c]
        /\ phase[c] = "running" =>
               arg[c] = IF wpc = "copy_request" THEN pending_request ELSE req

\* The sensor is powered only while a session is in progress: every path out
\* of a session, a failed handshake included, passes the power-off.
VccdOnlyInSession ==
    power_en_gpio = 1 => /\ wpc \in SessionLabels \ {"power_on", "rearm"}
                         /\ handler # "none"

\* zw3021_get_enrolled()
GetEnrolled(id) == IF ~enrolled_bitmap_valid THEN "EAGAIN"
                   ELSE IF id >= ZW3021_INDEX_TABLE_LEN * 8 THEN "EINVAL"
                   ELSE IF id \in enrolled_bitmap THEN "yes" ELSE "no"

\* "Poll zw3021_is_busy() and then call zw3021_get_enrolled() once it
\* clears": when a read that succeeded stops being busy, the answer is
\* already what the sensor holds, for every id of the page.
ReadReported ==
    [][ request_busy = 1 /\ request_busy' = 0 /\ result = "OK"
        /\ req.type = "READ_ENROLLED"
            => \A id \in IndexIds :
                   GetEnrolled(id)' = IF id \in templates THEN "yes" ELSE "no"
      ]_vars

\* A caller that saw is_busy() false reads a bitmap nobody is writing: the
\* unlocked memcpy and the valid flag change only while busy is set.
BitmapStableWhenIdle == [][request_busy = 0 => UNCHANGED bitmap]_vars

\* "Discard any extra finger triggers queued while we were busy, so they
\* don't immediately kick off a stray identify": a touch made during a
\* session never starts one of its own.
NoStrayIdentify ==
    [][handler # "finger" /\ handler' = "finger" => trigger = "armed"]_vars

\* The slot is what include/zw3021.h promises: see RequestSlot.
AbsCall == [c \in Callers |-> IF phase[c] \in Publishing THEN "accepted"
                                                         ELSE phase[c]]
AbsJob == [c \in Callers |->
              CASE phase[c] = "idle"      -> NoRequest
                [] phase[c] \in Publishing -> arg[c]
                [] phase[c] = "queued"    -> pending_request
                [] OTHER -> IF wpc = "copy_request" THEN pending_request
                                                    ELSE req]

Slot == INSTANCE RequestSlot WITH call <- AbsCall, job <- AbsJob

\* Whatever the interleaving of callers, worker and fingers, each caller
\* sees the abstract slot: accepted only when it is free, refused only when
\* it is not, run once with its own arguments.
RefinesSlot == Slot!Spec

\* Every request that was accepted stops being busy, however the handshake
\* and the command end and however often the sensor is touched.
RequestCompletes ==
    \A c \in Callers : phase[c] # "idle" ~> phase[c] = "idle"

\* A touch pending while the worker waits in k_poll() starts an identify.
TouchServed == wpc = "poll" /\ finger_sem = 1 ~> handler = "finger"

-----------------------------------------------------------------------------
(* The inductive invariant behind SlotHeldIffBusy, RequestIntegrity,       *)
(* VccdOnlyInSession and the action properties.                            *)

\* A request outstanding has real arguments, and what has been written of
\* pending_request so far is them.
PublishInv ==
    \A c \in Callers :
        /\ phase[c] # "idle" => arg[c] \in Requests
        /\ phase[c] = "id" => pending_request.type = arg[c].type
        /\ phase[c] = "give" => pending_request = arg[c]

\* Which handler runs at which of the worker's labels.
ControlInv ==
    /\ wpc \in LoopLabels => handler = "none"
    /\ wpc \in {"power_on", "handshake", "command", "power_off", "rearm"}
           => handler \in {"finger", "request"}
    /\ wpc \in {"copy_bitmap", "set_valid"} => handler = "request"
    /\ wpc = "emit" => handler = "finger"
    /\ wpc = "clear_busy" => handler \in {"none", "request"}

\* Between k_poll() and the take, a semaphore reported available stays so:
\* the worker is the only one to take it.
PollInv ==
    /\ events.request /\ (wpc \in {"finger_branch", "request_branch"}
                          \/ handler = "finger") => request_sem = 1
    /\ events.finger /\ wpc = "finger_branch" => finger_sem = 1

\* The touch behind a pending trigger: none from a session outlives the
\* drain at the end of the iteration.
TriggerInv ==
    /\ finger_sem = 0 <=> trigger = "none"
    /\ wpc \in {"poll", "finger_branch"} => trigger # "busy"

\* The page travels from the sensor to the shared bitmap within a session.
ReadInv ==
    /\ handler = "request" /\ wpc \in {"power_on", "handshake", "command"}
           => result = "none"
    /\ handler = "none" /\ wpc = "clear_busy" => result = "none"
    /\ wpc \in {"copy_bitmap", "set_valid"} => index = templates \cap IndexIds
    /\ wpc = "set_valid" => enrolled_bitmap = index
    /\ wpc = "clear_busy" /\ result = "OK" /\ req.type = "READ_ENROLLED"
           => enrolled_bitmap_valid /\ enrolled_bitmap = templates \cap IndexIds

IndInv == /\ TypeOK
          /\ PublishInv
          /\ ControlInv
          /\ PollInv
          /\ TriggerInv
          /\ ReadInv
          /\ SlotHeldIffBusy
          /\ RequestIntegrity
          /\ VccdOnlyInSession
=============================================================================
