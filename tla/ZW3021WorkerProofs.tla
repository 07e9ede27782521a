-------------------------- MODULE ZW3021WorkerProofs --------------------------
(***************************************************************************)
(* Theorems about ZW3021Worker for any set of callers and any uint16_t     *)
(* template ids.  Every safety result comes from the inductive invariant   *)
(* IndInv; each of its conjuncts is shown to be preserved by a lemma of    *)
(* its own, one step per operation that can disturb it.                    *)
(***************************************************************************)
EXTENDS ZW3021Worker, TLAPS

USE DEF slot, bitmap, pins, control, locals, callers, touch,
        CallerStep, WorkerStep, SessionStep, KeepSlot, FingerStep

(* The two disjuncts of Next that hold a parameter, named.                 *)
CallerNext == \E c \in Callers : \/ \E r \in Requests : ClaimSlot(c, r)
                                 \/ RejectBusy(c)
                                 \/ Publish(c)

(* The requests callers can make fit the C struct.                         *)
LEMMA RequestTypes ==
    \A r \in Requests : r \in [type : Types, id : Ids \cup {0}]
BY DEF Requests, Request, Types

(* The states k_poll() reports, and their reset, fit the event array.      *)
LEMMA PolledEventsType == PolledEvents \in [finger : BOOLEAN, request : BOOLEAN]
BY DEF PolledEvents

(* The reset events have their type.                                       *)
LEMMA EventsReset ==
    [finger |-> FALSE, request |-> FALSE] \in [finger : BOOLEAN, request : BOOLEAN]
OBVIOUS

(* Init establishes every conjunct of the inductive invariant.             *)
LEMMA InitIndInv == Init => IndInv
<1> SUFFICES ASSUME Init PROVE IndInv
    OBVIOUS
<1>1. TypeOK
    BY DEF Init, TypeOK, Request, Types, LoopLabels
<1>2. PublishInv /\ PollInv /\ TriggerInv
    BY DEF Init, PublishInv, PollInv, TriggerInv
<1>3. ControlInv /\ ReadInv /\ VccdOnlyInSession
    BY DEF Init, ControlInv, ReadInv, VccdOnlyInSession
<1>4. SlotHeldIffBusy /\ RequestIntegrity
    BY DEF Init, SlotHeldIffBusy, RequestIntegrity, HoldsRequest
<1>. QED
    BY <1>1, <1>2, <1>3, <1>4 DEF IndInv

(* Every operation keeps every variable in its type: in particular both    *)
(* semaphores stay within their limit of 1.                                *)
LEMMA TypeOKStep == TypeOK /\ PublishInv /\ [Next]_vars => TypeOK'
<1> SUFFICES ASSUME TypeOK, PublishInv, [Next]_vars PROVE TypeOK'
    OBVIOUS
<1>1. ASSUME NEW c \in Callers, NEW r \in Requests, ClaimSlot(c, r)
      PROVE  TypeOK'
    BY <1>1 DEF TypeOK, ClaimSlot, Publishing
<1>2. ASSUME NEW c \in Callers, RejectBusy(c)
      PROVE  TypeOK'
    BY <1>2 DEF TypeOK, RejectBusy
<1>3. ASSUME NEW c \in Callers, Publish(c)
      PROVE  TypeOK'
    <2>1. CASE WriteType(c)
        BY <2>1, RequestTypes DEF TypeOK, WriteType, PublishInv, Publishing
    <2>2. CASE WriteId(c)
        BY <2>2, RequestTypes DEF TypeOK, WriteId, PublishInv, Publishing
    <2>3. CASE GiveRequestSem(c)
        BY <2>3 DEF TypeOK, GiveRequestSem, SemGive, Publishing
    <2>. QED
        BY <1>3, <2>1, <2>2, <2>3 DEF Publish
<1>4. CASE Loop
    <2>1. CASE ThreadPoll
        BY <2>1, PolledEventsType DEF TypeOK, ThreadPoll, LoopLabels
    <2>2. CASE TakeFingerSem
        BY <2>2 DEF TypeOK, TakeFingerSem, LoopLabels, SessionLabels
    <2>3. CASE SkipFinger
        BY <2>3 DEF TypeOK, SkipFinger, LoopLabels
    <2>4. CASE TakeRequestSem
        BY <2>4 DEF TypeOK, TakeRequestSem, LoopLabels
    <2>5. CASE SkipRequest
        BY <2>5 DEF TypeOK, SkipRequest, LoopLabels
    <2>6. CASE CopyRequest
        BY <2>6 DEF TypeOK, CopyRequest, LoopLabels, SessionLabels
    <2>7. CASE DrainTake
        BY <2>7 DEF TypeOK, DrainTake
    <2>8. CASE DrainDone
        BY <2>8, EventsReset DEF TypeOK, DrainDone, LoopLabels, Request, Types
    <2>. QED
        BY <1>4, <2>1, <2>2, <2>3, <2>4, <2>5, <2>6, <2>7, <2>8 DEF Loop
<1>5. CASE Session
    <2>1. CASE PowerOn
        BY <2>1 DEF TypeOK, PowerOn, SessionLabels
    <2>2. CASE HandshakeOk
        BY <2>2 DEF TypeOK, HandshakeOk, SessionLabels
    <2>3. CASE HandshakeFail
        BY <2>3 DEF TypeOK, HandshakeFail, Postamble, SessionLabels
    <2>4. CASE Identify
        BY <2>4 DEF TypeOK, Identify, SessionLabels
    <2>5. CASE EmitMatchOutput
        BY <2>5 DEF TypeOK, EmitMatchOutput, SessionLabels
    <2>6. CASE CommandOk
        BY <2>6 DEF TypeOK, CommandOk, Applied, AfterCommandOk,
           SessionLabels, IndexIds
    <2>7. CASE CommandRefused
        BY <2>7 DEF TypeOK, CommandRefused, SessionLabels
    <2>8. CASE CommandLost
        BY <2>8 DEF TypeOK, CommandLost, Applied, SessionLabels
    <2>9. CASE CopyBitmap
        BY <2>9 DEF TypeOK, CopyBitmap, SessionLabels
    <2>10. CASE SetValid
        BY <2>10 DEF TypeOK, SetValid, SessionLabels
    <2>11. CASE ClearBusy
        BY <2>11 DEF TypeOK, ClearBusy, LoopLabels, SessionLabels
    <2>12. CASE PowerOff
        BY <2>12 DEF TypeOK, PowerOff, SessionLabels
    <2>13. CASE RearmDone
        BY <2>13 DEF TypeOK, RearmDone, LoopLabels
    <2>. QED
        BY <1>5, <2>1, <2>2, <2>3, <2>4, <2>5, <2>6, <2>7, <2>8, <2>9, <2>10,
           <2>11, <2>12, <2>13 DEF Session
<1>6. CASE FingerPlaced \/ FingerLifted
    BY <1>6 DEF TypeOK, FingerPlaced, FingerLifted, SemGive
<1>7. CASE UNCHANGED vars
    BY <1>7 DEF TypeOK, vars
<1>. QED
    BY <1>1, <1>2, <1>3, <1>4, <1>5, <1>6, <1>7 DEF Next

-----------------------------------------------------------------------------
(* What each thread leaves alone.                                          *)

(* What the steps of a caller leave alone.                                 *)
LEMMA CallerFrame ==
    CallerNext => UNCHANGED <<bitmap, dev, pins, wpc, control, locals,
                              templates, touch>>
BY DEF CallerNext, ClaimSlot, RejectBusy, Publish, WriteType, WriteId,
   GiveRequestSem

(* What the steps of the worker loop leave alone.                          *)
LEMMA LoopFrame ==
    /\ Loop => UNCHANGED <<request_busy, pending_request, arg, power_en_gpio,
       bitmap, templates>>
    /\ Loop /\ ~TakeRequestSem => UNCHANGED <<request_sem, phase>>
    /\ Loop /\ ~CopyRequest /\ ~DrainDone => UNCHANGED locals
BY DEF Loop, ThreadPoll, TakeFingerSem, SkipFinger, TakeRequestSem,
   SkipRequest, CopyRequest, DrainTake, DrainDone

(* What the steps of a session leave alone.                                *)
LEMMA SessionFrame ==
    /\ Session => UNCHANGED <<pending_request, request_sem, finger_sem,
                              trigger, events, req>>
    /\ Session /\ ~ClearBusy => UNCHANGED <<request_busy, phase, arg>>
BY DEF Session, PowerOn, HandshakeOk, HandshakeFail, Identify,
   EmitMatchOutput, CommandOk, CommandRefused, CommandLost, CopyBitmap,
   SetValid, ClearBusy, PowerOff, RearmDone

(* What a finger leaves alone.                                             *)
LEMMA FingerFrame ==
    FingerPlaced \/ FingerLifted =>
        UNCHANGED <<slot, bitmap, dev, power_en_gpio, wpc, control, locals,
                    templates, callers>>
BY DEF FingerPlaced, FingerLifted

(* Only TakeRequestSem and ClearBusy change whether the worker holds a     *)
(* request.                                                                *)
LEMMA HoldsFrame ==
    ASSUME ControlInv, TypeOK,
           \/ Loop /\ ~TakeRequestSem
           \/ Session /\ ~ClearBusy
    PROVE  HoldsRequest' <=> HoldsRequest
<1>1. CASE Loop /\ ~TakeRequestSem
    BY <1>1 DEF ControlInv, LoopLabels, HoldsRequest, Loop, ThreadPoll,
       TakeFingerSem, SkipFinger, TakeRequestSem, SkipRequest, CopyRequest,
       DrainTake, DrainDone
<1>2. CASE Session /\ ~ClearBusy
    <2>1. CASE PowerOn
        BY <2>1 DEF ControlInv, LoopLabels, HoldsRequest, PowerOn
    <2>2. CASE HandshakeOk
        BY <2>2 DEF ControlInv, LoopLabels, HoldsRequest, HandshakeOk
    <2>3. CASE HandshakeFail
        BY <2>3 DEF ControlInv, LoopLabels, HoldsRequest, HandshakeFail, Postamble
    <2>4. CASE Identify
        BY <2>4 DEF ControlInv, LoopLabels, HoldsRequest, Identify
    <2>5. CASE EmitMatchOutput
        BY <2>5 DEF ControlInv, LoopLabels, HoldsRequest, EmitMatchOutput
    <2>6. CASE CommandOk
        BY <2>6 DEF ControlInv, LoopLabels, HoldsRequest, CommandOk, AfterCommandOk
    <2>7. CASE CommandRefused
        BY <2>7 DEF ControlInv, LoopLabels, HoldsRequest, CommandRefused
    <2>8. CASE CommandLost
        BY <2>8 DEF ControlInv, LoopLabels, HoldsRequest, CommandLost
    <2>9. CASE CopyBitmap
        BY <2>9 DEF ControlInv, LoopLabels, HoldsRequest, CopyBitmap
    <2>10. CASE SetValid
        BY <2>10 DEF ControlInv, LoopLabels, HoldsRequest, SetValid
    <2>11. CASE PowerOff
        BY <2>11 DEF ControlInv, LoopLabels, HoldsRequest, PowerOff
    <2>12. CASE RearmDone
        BY <2>12 DEF ControlInv, LoopLabels, HoldsRequest, RearmDone
    <2>. QED
        BY <1>2, <2>1, <2>2, <2>3, <2>4, <2>5, <2>6, <2>7, <2>8, <2>9, <2>10,
           <2>11, <2>12 DEF Session
<1>. QED
    BY <1>1, <1>2

-----------------------------------------------------------------------------
(* Every operation preserves each conjunct of IndInv.                      *)

(* The fields of pending_request are the claiming caller's, one by one.    *)
LEMMA PublishInvStep == IndInv /\ [Next]_vars => PublishInv'
<1> SUFFICES ASSUME IndInv, [Next]_vars PROVE PublishInv'
    OBVIOUS
<1>. USE DEF IndInv
<1>1. ASSUME NEW c \in Callers, NEW r \in Requests, ClaimSlot(c, r)
      PROVE  PublishInv'
    BY <1>1 DEF PublishInv, SlotHeldIffBusy, SlotIsFree, ClaimSlot, TypeOK
<1>2. ASSUME NEW c \in Callers, RejectBusy(c)
      PROVE  PublishInv'
    BY <1>2 DEF PublishInv, RejectBusy
<1>3. ASSUME NEW c \in Callers, Publish(c)
      PROVE  PublishInv'
    <2>1. CASE WriteType(c)
        BY <2>1 DEF PublishInv, SlotHeldIffBusy, WriteType, TypeOK
    <2>2. CASE WriteId(c)
        <3>1. arg[c] \in [type : Types, id : Ids \cup {0}]
            BY <2>2, RequestTypes DEF PublishInv, WriteId
        <3>2. pending_request' = arg[c]
            BY <2>2, <3>1 DEF PublishInv, WriteId, TypeOK
        <3>. QED
            BY <2>2, <3>2 DEF PublishInv, SlotHeldIffBusy, WriteId, TypeOK
    <2>3. CASE GiveRequestSem(c)
        BY <2>3 DEF PublishInv, SlotHeldIffBusy, GiveRequestSem, TypeOK
    <2>. QED
        BY <1>3, <2>1, <2>2, <2>3 DEF Publish
<1>4. CASE TakeRequestSem
    BY <1>4 DEF PublishInv, TakeRequestSem, TypeOK
<1>5. CASE ClearBusy
    BY <1>5 DEF PublishInv, ClearBusy, TypeOK
<1>6. CASE UNCHANGED <<pending_request, phase, arg>>
    BY <1>6 DEF PublishInv
<1>. QED
    BY <1>1, <1>2, <1>3, <1>4, <1>5, <1>6, LoopFrame, SessionFrame,
       FingerFrame DEF Next, vars

(* Each label belongs to one handler.                                      *)
LEMMA ControlInvStep == IndInv /\ [Next]_vars => ControlInv'
<1> SUFFICES ASSUME IndInv, [Next]_vars PROVE ControlInv'
    OBVIOUS
<1>. USE DEF IndInv
<1>1. CASE Loop
    <2>1. CASE ThreadPoll
        BY <2>1 DEF ControlInv, LoopLabels, ThreadPoll, PolledEvents
    <2>2. CASE TakeFingerSem
        BY <2>2 DEF ControlInv, LoopLabels, TakeFingerSem
    <2>3. CASE SkipFinger
        BY <2>3 DEF ControlInv, LoopLabels, SkipFinger
    <2>4. CASE TakeRequestSem
        BY <2>4 DEF ControlInv, LoopLabels, TakeRequestSem
    <2>5. CASE SkipRequest
        BY <2>5 DEF ControlInv, LoopLabels, SkipRequest
    <2>6. CASE CopyRequest
        BY <2>6 DEF ControlInv, LoopLabels, CopyRequest
    <2>7. CASE DrainTake
        BY <2>7 DEF ControlInv, LoopLabels, DrainTake
    <2>8. CASE DrainDone
        BY <2>8 DEF ControlInv, LoopLabels, DrainDone
    <2>. QED
        BY <1>1, <2>1, <2>2, <2>3, <2>4, <2>5, <2>6, <2>7, <2>8 DEF Loop
<1>2. CASE Session
    <2>1. CASE PowerOn
        BY <2>1 DEF ControlInv, LoopLabels, PowerOn
    <2>2. CASE HandshakeOk
        BY <2>2 DEF ControlInv, LoopLabels, HandshakeOk
    <2>3. CASE HandshakeFail
        BY <2>3 DEF ControlInv, LoopLabels, HandshakeFail, Postamble
    <2>4. CASE Identify
        BY <2>4 DEF ControlInv, LoopLabels, Identify
    <2>5. CASE EmitMatchOutput
        BY <2>5 DEF ControlInv, LoopLabels, EmitMatchOutput
    <2>6. CASE CommandOk
        BY <2>6 DEF ControlInv, LoopLabels, CommandOk, AfterCommandOk, Applied
    <2>7. CASE CommandRefused
        BY <2>7 DEF ControlInv, LoopLabels, CommandRefused
    <2>8. CASE CommandLost
        BY <2>8 DEF ControlInv, LoopLabels, CommandLost, Applied
    <2>9. CASE CopyBitmap
        BY <2>9 DEF ControlInv, LoopLabels, CopyBitmap
    <2>10. CASE SetValid
        BY <2>10 DEF ControlInv, LoopLabels, SetValid
    <2>11. CASE ClearBusy
        BY <2>11 DEF ControlInv, LoopLabels, ClearBusy
    <2>12. CASE PowerOff
        BY <2>12 DEF ControlInv, LoopLabels, PowerOff
    <2>13. CASE RearmDone
        BY <2>13 DEF ControlInv, LoopLabels, RearmDone
    <2>. QED
        BY <1>2, <2>1, <2>2, <2>3, <2>4, <2>5, <2>6, <2>7, <2>8, <2>9, <2>10,
           <2>11, <2>12, <2>13 DEF Session
<1>3. CASE UNCHANGED <<wpc, handler>>
    BY <1>3 DEF ControlInv
<1>. QED
    BY <1>1, <1>2, <1>3, CallerFrame, FingerFrame DEF Next, CallerNext, vars

(* Nobody but the worker takes a semaphore it was told about.              *)
LEMMA PollInvStep == IndInv /\ [Next]_vars => PollInv'
<1> SUFFICES ASSUME IndInv, [Next]_vars PROVE PollInv'
    OBVIOUS
<1>. USE DEF IndInv
<1>1. CASE Loop
    <2>1. CASE ThreadPoll
        BY <2>1 DEF PollInv, ControlInv, LoopLabels, TypeOK, ThreadPoll,
           PolledEvents
    <2>2. CASE TakeFingerSem
        BY <2>2 DEF PollInv, ControlInv, LoopLabels, TypeOK, TakeFingerSem
    <2>3. CASE SkipFinger
        BY <2>3 DEF PollInv, ControlInv, LoopLabels, TypeOK, SkipFinger
    <2>4. CASE TakeRequestSem
        BY <2>4 DEF PollInv, ControlInv, LoopLabels, TypeOK, TakeRequestSem
    <2>5. CASE SkipRequest
        BY <2>5 DEF PollInv, ControlInv, LoopLabels, TypeOK, SkipRequest
    <2>6. CASE CopyRequest
        BY <2>6 DEF PollInv, ControlInv, LoopLabels, TypeOK, CopyRequest
    <2>7. CASE DrainTake
        BY <2>7 DEF PollInv, ControlInv, LoopLabels, TypeOK, DrainTake
    <2>8. CASE DrainDone
        BY <2>8 DEF PollInv, ControlInv, LoopLabels, TypeOK, DrainDone
    <2>. QED
        BY <1>1, <2>1, <2>2, <2>3, <2>4, <2>5, <2>6, <2>7, <2>8 DEF Loop
<1>2. CASE Session
    <2>1. CASE RearmDone
        BY <2>1 DEF PollInv, RearmDone
    <2>2. CASE ~RearmDone
        <3>1. handler' = handler /\ wpc' \notin {"finger_branch",
           "request_branch"}
            BY <1>2, <2>2 DEF Session, PowerOn, HandshakeOk, HandshakeFail,
               Identify, EmitMatchOutput, CommandOk, CommandRefused,
               CommandLost, CopyBitmap, SetValid, ClearBusy, PowerOff,
               RearmDone, Postamble, AfterCommandOk
        <3>. QED
            BY <1>2, <3>1, SessionFrame DEF PollInv
    <2>. QED
        BY <2>1, <2>2
<1>3. ASSUME NEW c \in Callers, GiveRequestSem(c)
      PROVE  PollInv'
    BY <1>3 DEF PollInv, GiveRequestSem, SemGive, TypeOK
<1>4. CASE FingerPlaced \/ FingerLifted
    BY <1>4 DEF PollInv, FingerPlaced, FingerLifted, SemGive, TypeOK
<1>5. CASE UNCHANGED <<request_sem, finger_sem, wpc, handler, events>>
    BY <1>5 DEF PollInv
<1>6. ASSUME NEW c \in Callers, ~GiveRequestSem(c),
             (\E r \in Requests : ClaimSlot(c,
                r)) \/ RejectBusy(c) \/ Publish(c)
      PROVE  UNCHANGED <<request_sem, finger_sem, wpc, handler, events>>
    BY <1>6 DEF ClaimSlot, RejectBusy, Publish, WriteType, WriteId
<1>. QED
    BY <1>1, <1>2, <1>3, <1>4, <1>5, <1>6 DEF Next, vars

(* No trigger from a session survives the drain.                           *)
LEMMA TriggerInvStep == IndInv /\ [Next]_vars => TriggerInv'
<1> SUFFICES ASSUME IndInv, [Next]_vars PROVE TriggerInv'
    OBVIOUS
<1>. USE DEF IndInv
<1>1. CASE Loop
    <2>1. CASE ThreadPoll
        BY <2>1 DEF TriggerInv, TypeOK, ThreadPoll, PolledEvents
    <2>2. CASE TakeFingerSem
        BY <2>2 DEF TriggerInv, TypeOK, TakeFingerSem
    <2>3. CASE SkipFinger
        BY <2>3 DEF TriggerInv, TypeOK, SkipFinger
    <2>4. CASE TakeRequestSem
        BY <2>4 DEF TriggerInv, TypeOK, TakeRequestSem
    <2>5. CASE SkipRequest
        BY <2>5 DEF TriggerInv, TypeOK, SkipRequest
    <2>6. CASE CopyRequest
        BY <2>6 DEF TriggerInv, TypeOK, CopyRequest
    <2>7. CASE DrainTake
        BY <2>7 DEF TriggerInv, TypeOK, DrainTake
    <2>8. CASE DrainDone
        BY <2>8 DEF TriggerInv, TypeOK, DrainDone, Drained
    <2>. QED
        BY <1>1, <2>1, <2>2, <2>3, <2>4, <2>5, <2>6, <2>7, <2>8 DEF Loop
<1>2. CASE Session
    <2>1. wpc' \notin {"poll", "finger_branch"}
        BY <1>2 DEF Session, PowerOn, HandshakeOk, HandshakeFail, Identify,
           EmitMatchOutput, CommandOk, CommandRefused, CommandLost,
           CopyBitmap, SetValid, ClearBusy, PowerOff, RearmDone, Postamble,
           AfterCommandOk
    <2>. QED
        BY <1>2, <2>1, SessionFrame DEF TriggerInv
<1>3. CASE FingerPlaced \/ FingerLifted
    BY <1>3 DEF TriggerInv, FingerPlaced, FingerLifted, SemGive, TypeOK,
       SessionLabels
<1>4. CASE UNCHANGED <<finger_sem, trigger, wpc>>
    BY <1>4 DEF TriggerInv
<1>. QED
    BY <1>1, <1>2, <1>3, <1>4, CallerFrame DEF Next, CallerNext, vars

(* The page read is the page published.                                    *)
LEMMA ReadInvStep == IndInv /\ [Next]_vars => ReadInv'
<1> SUFFICES ASSUME IndInv, [Next]_vars PROVE ReadInv'
    OBVIOUS
<1>. USE DEF IndInv
<1>1. CASE Loop
    <2>1. CASE ThreadPoll
        BY <2>1 DEF ReadInv, ControlInv, LoopLabels, ThreadPoll, PolledEvents
    <2>2. CASE TakeFingerSem
        BY <2>2 DEF ReadInv, ControlInv, LoopLabels, TakeFingerSem
    <2>3. CASE SkipFinger
        BY <2>3 DEF ReadInv, ControlInv, LoopLabels, SkipFinger
    <2>4. CASE TakeRequestSem
        BY <2>4 DEF ReadInv, ControlInv, LoopLabels, TakeRequestSem
    <2>5. CASE SkipRequest
        BY <2>5 DEF ReadInv, ControlInv, LoopLabels, SkipRequest
    <2>6. CASE CopyRequest
        BY <2>6 DEF ReadInv, ControlInv, LoopLabels, CopyRequest
    <2>7. CASE DrainTake
        BY <2>7 DEF ReadInv, ControlInv, LoopLabels, DrainTake
    <2>8. CASE DrainDone
        BY <2>8 DEF ReadInv, ControlInv, LoopLabels, DrainDone
    <2>. QED
        BY <1>1, <2>1, <2>2, <2>3, <2>4, <2>5, <2>6, <2>7, <2>8 DEF Loop
<1>2. CASE Session
    <2>1. CASE PowerOn
        BY <2>1 DEF ReadInv, ControlInv, LoopLabels, PowerOn
    <2>2. CASE HandshakeOk
        BY <2>2 DEF ReadInv, ControlInv, LoopLabels, HandshakeOk
    <2>3. CASE HandshakeFail
        BY <2>3 DEF ReadInv, ControlInv, LoopLabels, HandshakeFail, Postamble
    <2>4. CASE Identify
        BY <2>4 DEF ReadInv, ControlInv, LoopLabels, Identify
    <2>5. CASE EmitMatchOutput
        BY <2>5 DEF ReadInv, ControlInv, LoopLabels, EmitMatchOutput
    <2>6. CASE CommandOk
        BY <2>6 DEF ReadInv, ControlInv, LoopLabels, CommandOk,
           AfterCommandOk, Applied
    <2>7. CASE CommandRefused
        BY <2>7 DEF ReadInv, ControlInv, LoopLabels, CommandRefused
    <2>8. CASE CommandLost
        BY <2>8 DEF ReadInv, ControlInv, LoopLabels, CommandLost, Applied
    <2>9. CASE CopyBitmap
        BY <2>9 DEF ReadInv, ControlInv, LoopLabels, CopyBitmap
    <2>10. CASE SetValid
        BY <2>10 DEF ReadInv, ControlInv, LoopLabels, SetValid
    <2>11. CASE ClearBusy
        BY <2>11 DEF ReadInv, ControlInv, LoopLabels, ClearBusy
    <2>12. CASE PowerOff
        BY <2>12 DEF ReadInv, ControlInv, LoopLabels, PowerOff
    <2>13. CASE RearmDone
        BY <2>13 DEF ReadInv, ControlInv, LoopLabels, RearmDone
    <2>. QED
        BY <1>2, <2>1, <2>2, <2>3, <2>4, <2>5, <2>6, <2>7, <2>8, <2>9, <2>10,
           <2>11, <2>12, <2>13 DEF Session
<1>3. CASE UNCHANGED <<wpc, handler, locals, bitmap, templates>>
    BY <1>3 DEF ReadInv
<1>. QED
    BY <1>1, <1>2, <1>3, CallerFrame, FingerFrame DEF Next, CallerNext, vars

(* One call holds the slot from its compare-and-set to the worker's clear. *)
LEMMA SlotHeldStep == IndInv /\ [Next]_vars => SlotHeldIffBusy'
<1> SUFFICES ASSUME IndInv, [Next]_vars PROVE SlotHeldIffBusy'
    OBVIOUS
<1>. USE DEF IndInv
<1>1. ASSUME NEW c \in Callers, NEW r \in Requests, ClaimSlot(c, r)
      PROVE  SlotHeldIffBusy'
    BY <1>1 DEF SlotHeldIffBusy, SlotIsFree, ClaimSlot, HoldsRequest, TypeOK
<1>2. ASSUME NEW c \in Callers, RejectBusy(c)
      PROVE  SlotHeldIffBusy'
    BY <1>2 DEF SlotHeldIffBusy, RejectBusy, HoldsRequest
<1>3. ASSUME NEW c \in Callers, Publish(c)
      PROVE  SlotHeldIffBusy'
    BY <1>3 DEF SlotHeldIffBusy, Publish, WriteType, WriteId, GiveRequestSem,
       SemGive, HoldsRequest, TypeOK
<1>4. CASE TakeRequestSem
    BY <1>4 DEF SlotHeldIffBusy, TakeRequestSem, HoldsRequest, PollInv,
       ControlInv, LoopLabels, TypeOK
<1>5. CASE ClearBusy
    BY <1>5 DEF SlotHeldIffBusy, ClearBusy, HoldsRequest, ControlInv, TypeOK
<1>6. CASE (Loop /\ ~TakeRequestSem) \/ (Session /\ ~ClearBusy)
    BY <1>6, HoldsFrame, LoopFrame, SessionFrame DEF SlotHeldIffBusy
<1>7. CASE UNCHANGED <<slot, phase, wpc, handler>>
    BY <1>7 DEF SlotHeldIffBusy, HoldsRequest
<1>. QED
    BY <1>1, <1>2, <1>3, <1>4, <1>5, <1>6, <1>7, FingerFrame DEF Next, vars

(* Nobody overwrites pending_request between the give and the copy.        *)
LEMMA IntegrityStep == IndInv /\ [Next]_vars => RequestIntegrity'
<1> SUFFICES ASSUME IndInv, [Next]_vars PROVE RequestIntegrity'
    OBVIOUS
<1>. USE DEF IndInv
<1>1. ASSUME NEW c \in Callers, NEW r \in Requests, ClaimSlot(c, r)
      PROVE  RequestIntegrity'
    BY <1>1 DEF RequestIntegrity, SlotHeldIffBusy, SlotIsFree, ClaimSlot,
       TypeOK
<1>2. ASSUME NEW c \in Callers, RejectBusy(c)
      PROVE  RequestIntegrity'
    BY <1>2 DEF RequestIntegrity, RejectBusy
<1>3. ASSUME NEW c \in Callers, Publish(c)
      PROVE  RequestIntegrity'
    BY <1>3 DEF RequestIntegrity, SlotHeldIffBusy, PublishInv, Publish,
       WriteType, WriteId, GiveRequestSem, TypeOK
<1>4. CASE TakeRequestSem
    BY <1>4 DEF RequestIntegrity, SlotHeldIffBusy, HoldsRequest, ControlInv,
       LoopLabels, TakeRequestSem, TypeOK
<1>5. CASE CopyRequest
    BY <1>5 DEF RequestIntegrity, CopyRequest
<1>6. CASE DrainDone
    BY <1>6 DEF RequestIntegrity, SlotHeldIffBusy, HoldsRequest, ControlInv,
       LoopLabels, DrainDone
<1>7. CASE ThreadPoll \/ TakeFingerSem \/ SkipFinger \/ SkipRequest \/
   DrainTake
    BY <1>7 DEF RequestIntegrity, ThreadPoll, TakeFingerSem, SkipFinger,
       SkipRequest, DrainTake
<1>8. CASE ClearBusy
    BY <1>8 DEF RequestIntegrity, SlotHeldIffBusy, ClearBusy, TypeOK
<1>9. CASE Session /\ ~ClearBusy
    <2>1. wpc # "copy_request" /\ wpc' # "copy_request"
        BY <1>9 DEF Session, PowerOn, HandshakeOk, HandshakeFail, Identify,
           EmitMatchOutput, CommandOk, CommandRefused, CommandLost,
           CopyBitmap, SetValid, ClearBusy, PowerOff, RearmDone, Postamble,
           AfterCommandOk
    <2>. QED
        BY <1>9, <2>1, SessionFrame DEF RequestIntegrity
<1>10. CASE UNCHANGED <<slot, phase, arg, wpc, locals>>
    BY <1>10 DEF RequestIntegrity
<1>. QED
    BY <1>1, <1>2, <1>3, <1>4, <1>5, <1>6, <1>7, <1>8, <1>9, <1>10,
       FingerFrame DEF Next, Loop, vars

(* VCC-D is switched by the session's first and last steps only.           *)
LEMMA VccdStep == IndInv /\ [Next]_vars => VccdOnlyInSession'
<1> SUFFICES ASSUME IndInv, [Next]_vars PROVE VccdOnlyInSession'
    OBVIOUS
<1>. USE DEF IndInv
<1>1. CASE Loop
    <2>1. wpc \in LoopLabels
        BY <1>1 DEF Loop, ThreadPoll, TakeFingerSem, SkipFinger,
           TakeRequestSem, SkipRequest, CopyRequest, DrainTake, DrainDone,
           LoopLabels
    <2>. QED
        BY <1>1, <2>1, LoopFrame DEF VccdOnlyInSession, LoopLabels,
           SessionLabels, ControlInv, TypeOK
<1>2. CASE Session
    <2>1. CASE PowerOn
        BY <2>1 DEF VccdOnlyInSession, ControlInv, SessionLabels, TypeOK,
           PowerOn
    <2>2. CASE HandshakeOk
        BY <2>2 DEF VccdOnlyInSession, ControlInv, SessionLabels, TypeOK,
           HandshakeOk
    <2>3. CASE HandshakeFail
        BY <2>3 DEF VccdOnlyInSession, ControlInv, SessionLabels, TypeOK,
           HandshakeFail, Postamble
    <2>4. CASE Identify
        BY <2>4 DEF VccdOnlyInSession, ControlInv, SessionLabels, TypeOK,
           Identify
    <2>5. CASE EmitMatchOutput
        BY <2>5 DEF VccdOnlyInSession, ControlInv, SessionLabels, TypeOK,
           EmitMatchOutput
    <2>6. CASE CommandOk
        BY <2>6 DEF VccdOnlyInSession, ControlInv, SessionLabels, TypeOK,
           CommandOk, AfterCommandOk, Applied
    <2>7. CASE CommandRefused
        BY <2>7 DEF VccdOnlyInSession, ControlInv, SessionLabels, TypeOK,
           CommandRefused
    <2>8. CASE CommandLost
        BY <2>8 DEF VccdOnlyInSession, ControlInv, SessionLabels, TypeOK,
           CommandLost, Applied
    <2>9. CASE CopyBitmap
        BY <2>9 DEF VccdOnlyInSession, ControlInv, SessionLabels, TypeOK,
           CopyBitmap
    <2>10. CASE SetValid
        BY <2>10 DEF VccdOnlyInSession, ControlInv, SessionLabels, TypeOK,
           SetValid
    <2>11. CASE ClearBusy
        BY <2>11 DEF VccdOnlyInSession, ControlInv, SessionLabels, TypeOK,
           ClearBusy
    <2>12. CASE PowerOff
        BY <2>12 DEF VccdOnlyInSession, ControlInv, SessionLabels, TypeOK,
           PowerOff
    <2>13. CASE RearmDone
        BY <2>13 DEF VccdOnlyInSession, ControlInv, SessionLabels, TypeOK,
           RearmDone
    <2>. QED
        BY <1>2, <2>1, <2>2, <2>3, <2>4, <2>5, <2>6, <2>7, <2>8, <2>9, <2>10,
           <2>11, <2>12, <2>13 DEF Session
<1>3. CASE UNCHANGED <<power_en_gpio, wpc, handler>>
    BY <1>3 DEF VccdOnlyInSession
<1>. QED
    BY <1>1, <1>2, <1>3, CallerFrame, FingerFrame DEF Next, CallerNext, vars

(* Every step keeps the inductive invariant.                               *)
LEMMA IndInvStep == IndInv /\ [Next]_vars => IndInv'
BY TypeOKStep, PublishInvStep, ControlInvStep, PollInvStep, TriggerInvStep,
   ReadInvStep, SlotHeldStep, IntegrityStep, VccdStep DEF IndInv

(* The inductive invariant holds of every reachable state.                 *)
THEOREM Invariance == Spec => []IndInv
<1>1. Init => IndInv
    BY InitIndInv
<1>2. IndInv /\ [Next]_vars => IndInv'
    BY IndInvStep
<1>. QED
    BY <1>1, <1>2, PTL DEF Spec

(* Every variable keeps its type; the semaphores never exceed their limit. *)
THEOREM TypeCorrect == Spec => []TypeOK
BY Invariance, PTL DEF IndInv

(* Busy is set exactly while one call holds the slot: two callers can      *)
(* never both claim it, and the early clear never releases another's.      *)
THEOREM SlotHeld == Spec => []SlotHeldIffBusy
BY Invariance, PTL DEF IndInv

(* The worker runs each request with the arguments its caller passed.      *)
THEOREM Integrity == Spec => []RequestIntegrity
BY Invariance, PTL DEF IndInv

(* The sensor is never left powered outside a session.                     *)
THEOREM VccdSafe == Spec => []VccdOnlyInSession
BY Invariance, PTL DEF IndInv

(* The unlocked bitmap is written only while busy is set.                  *)
THEOREM BitmapStable == Spec => BitmapStableWhenIdle
<1>1. IndInv /\ [Next]_vars => (request_busy = 0 => UNCHANGED bitmap)
    <2> SUFFICES ASSUME IndInv, [Next]_vars, request_busy = 0
                 PROVE  UNCHANGED bitmap
        OBVIOUS
    <2>1. ~HoldsRequest
        BY DEF IndInv, SlotHeldIffBusy
    <2>2. ~CopyBitmap /\ ~SetValid
        BY <2>1 DEF HoldsRequest, CopyBitmap, SetValid
    <2>3. CASE Session
        BY <2>2, <2>3 DEF Session, PowerOn, HandshakeOk, HandshakeFail,
           Identify, EmitMatchOutput, CommandOk, CommandRefused, CommandLost,
           CopyBitmap, SetValid, ClearBusy, PowerOff, RearmDone
    <2>. QED
        BY <2>3, CallerFrame, LoopFrame, FingerFrame DEF Next, CallerNext, vars
<1>. QED
    BY <1>1, Invariance, PTL DEF Spec, BitmapStableWhenIdle

(* When a successful read stops being busy, get_enrolled() answers with    *)
(* what the sensor holds.                                                  *)
THEOREM ReadIsReported == Spec => ReadReported
<1> DEFINE Reported == \A id \in IndexIds :
                          GetEnrolled(id)' =
                              IF id \in templates THEN "yes" ELSE "no"
           Cleared == /\ request_busy = 1 /\ request_busy' = 0
                      /\ result = "OK" /\ req.type = "READ_ENROLLED"
<1>1. IndInv /\ [Next]_vars => (Cleared => Reported)
    <2> SUFFICES ASSUME IndInv, [Next]_vars, Cleared PROVE Reported
        OBVIOUS
    <2>1. ClearBusy
        BY LoopFrame, SessionFrame, FingerFrame DEF Next, ClaimSlot,
           RejectBusy, Publish, WriteType, WriteId, GiveRequestSem, vars
    <2>2. enrolled_bitmap_valid /\ enrolled_bitmap = templates \cap IndexIds
        BY <2>1 DEF IndInv, ReadInv, ClearBusy
    <2>3. enrolled_bitmap_valid' /\ enrolled_bitmap' = templates \cap IndexIds
        BY <2>1, <2>2 DEF ClearBusy
    <2>4. \A id \in IndexIds : ~(id >= ZW3021_INDEX_TABLE_LEN * 8)
        BY IdsAssumption DEF IndexIds, ZW3021_INDEX_TABLE_LEN
    <2>. QED
        BY <2>3, <2>4 DEF GetEnrolled
<1>. QED
    BY <1>1, Invariance, PTL DEF Spec, ReadReported

(* No identify is started by a touch made during a session.                *)
THEOREM NoStray == Spec => NoStrayIdentify
<1>1. IndInv /\ [Next]_vars =>
          (handler # "finger" /\ handler' = "finger" => trigger = "armed")
    <2> SUFFICES ASSUME IndInv, [Next]_vars,
                        handler # "finger", handler' = "finger"
                 PROVE  trigger = "armed"
        OBVIOUS
    <2>1. ~Session
        BY DEF Session, PowerOn, HandshakeOk, HandshakeFail, Identify,
           EmitMatchOutput, CommandOk, CommandRefused, CommandLost,
           CopyBitmap, SetValid, ClearBusy, PowerOff, RearmDone
    <2>2. Loop
        BY <2>1, CallerFrame, FingerFrame DEF Next, CallerNext, vars
    <2>3. TakeFingerSem
        BY <2>2 DEF Loop, ThreadPoll, TakeFingerSem, SkipFinger,
           TakeRequestSem, SkipRequest, CopyRequest, DrainTake, DrainDone
    <2>4. finger_sem = 1 /\ wpc = "finger_branch"
        BY <2>3 DEF IndInv, PollInv, TakeFingerSem
    <2>. QED
        BY <2>4 DEF IndInv, TriggerInv, TypeOK
<1>. QED
    BY <1>1, Invariance, PTL DEF Spec, NoStrayIdentify

-----------------------------------------------------------------------------
(* The driver implements the abstract slot.                                *)

(* The initial states are those of the abstract slot.                      *)
LEMMA SlotInit == Init => Slot!Init
BY DEF Init, Slot!Init, AbsCall, AbsJob, Publishing

(* The outstanding callers of the abstract slot are those whose phase is   *)
(* not idle.                                                               *)
LEMMA OutstandingPhase ==
    ASSUME TypeOK
    PROVE  \A c \in Callers : c \in Slot!Outstanding <=> phase[c] # "idle"
BY DEF TypeOK, Slot!Outstanding, AbsCall, Publishing

(* Every step is a step of the abstract slot or leaves it alone.           *)
LEMMA SlotStep == IndInv /\ [Next]_vars => [Slot!Next]_(Slot!slotVars)
<1> SUFFICES ASSUME IndInv, [Next]_vars
             PROVE  Slot!Next \/ UNCHANGED <<AbsCall, AbsJob, ret>>
    BY DEF Slot!slotVars
<1>. USE DEF IndInv
<1>1. ASSUME NEW c \in Callers, NEW r \in Requests, ClaimSlot(c, r)
      PROVE  Slot!Accept(c, r)
    <2>1. Slot!Outstanding = {}
        BY <1>1, OutstandingPhase DEF Slot!Outstanding, SlotHeldIffBusy,
           SlotIsFree, ClaimSlot
    <2>2. \A d \in Callers : phase[d] = "idle"
        BY <1>1 DEF SlotHeldIffBusy, SlotIsFree, ClaimSlot
    <2>3. AbsCall' = [AbsCall EXCEPT ![c] = "accepted"]
        BY <1>1, <2>2 DEF AbsCall, ClaimSlot, Publishing, TypeOK
    <2>4. AbsJob' = [AbsJob EXCEPT ![c] = r]
        BY <1>1, <2>2 DEF AbsJob, ClaimSlot, Publishing, TypeOK
    <2>. QED
        BY <1>1, <2>1, <2>3, <2>4 DEF Slot!Accept, ClaimSlot
<1>2. ASSUME NEW c \in Callers, RejectBusy(c)
      PROVE  Slot!Refuse(c)
    <2>1. Slot!Outstanding # {}
        BY <1>2, OutstandingPhase DEF SlotHeldIffBusy, SlotIsFree,
           RejectBusy, TypeOK
    <2>2. AbsCall[c] # "accepted"
        BY <1>2 DEF RejectBusy, AbsCall, Publishing, TypeOK
    <2>3. UNCHANGED <<AbsCall, AbsJob>>
        BY <1>2 DEF RejectBusy, AbsCall, AbsJob
    <2>. QED
        BY <1>2, <2>1, <2>2, <2>3 DEF Slot!Refuse, RejectBusy
<1>3. ASSUME NEW c \in Callers, WriteType(c) \/ WriteId(c)
      PROVE  UNCHANGED <<AbsCall, AbsJob, ret>>
    <2>1. \A d \in Callers : d # c => phase[d] = "idle" /\ phase'[d] = "idle"
        BY <1>3 DEF SlotHeldIffBusy, WriteType, WriteId, TypeOK
    <2>2. phase[c] \in Publishing /\ phase'[c] \in Publishing
        BY <1>3 DEF WriteType, WriteId, Publishing, TypeOK
    <2>3. arg' = arg /\ ret' = ret
        BY <1>3 DEF WriteType, WriteId
    <2>. QED
        BY <2>1, <2>2, <2>3 DEF AbsCall, AbsJob, Publishing
<1>4. ASSUME NEW c \in Callers, GiveRequestSem(c)
      PROVE  Slot!Enqueue(c)
    <2>1. \A d \in Callers : d # c => phase[d] = "idle" /\ phase'[d] = "idle"
        BY <1>4 DEF SlotHeldIffBusy, GiveRequestSem, TypeOK
    <2>2. phase[c] = "give" /\ phase'[c] = "queued"
        BY <1>4 DEF GiveRequestSem, TypeOK
    <2>3. pending_request' = arg[c]
        BY <1>4 DEF PublishInv, GiveRequestSem
    <2>4. AbsCall[c] = "accepted" /\ AbsCall' = [AbsCall EXCEPT ![c] =
       "queued"]
        BY <1>4, <2>1, <2>2 DEF AbsCall, Publishing
    <2>5. AbsJob' = AbsJob
        BY <2>1, <2>2, <2>3 DEF AbsJob, Publishing
    <2>. QED
        BY <1>4, <2>4, <2>5 DEF Slot!Enqueue, GiveRequestSem
<1>5. ASSUME TakeRequestSem
      PROVE  \E c \in Callers : Slot!Start(c)
    <2>1. PICK c \in Callers : phase[c] = "queued"
        BY <1>5 DEF SlotHeldIffBusy, PollInv, TakeRequestSem
    <2>2. \A d \in Callers : d # c => phase[d] = "idle" /\ phase'[d] = "idle"
        BY <1>5, <2>1 DEF SlotHeldIffBusy, TakeRequestSem, TypeOK
    <2>3. phase'[c] = "running" /\ wpc' = "copy_request"
        BY <1>5, <2>1 DEF TakeRequestSem, TypeOK
    <2>4. AbsCall[c] = "queued" /\ AbsCall' = [AbsCall EXCEPT ![c] = "running"]
        BY <2>1, <2>2, <2>3 DEF AbsCall, Publishing
    <2>5. AbsJob' = AbsJob
        BY <1>5, <2>1, <2>2, <2>3 DEF AbsJob, Publishing, TakeRequestSem
    <2>. QED
        BY <1>5, <2>4, <2>5 DEF Slot!Start, TakeRequestSem
<1>6. ASSUME ClearBusy
      PROVE  \E c \in Callers : Slot!Finish(c)
    <2>1. PICK c \in Callers : phase[c] = "running"
        BY <1>6 DEF SlotHeldIffBusy, HoldsRequest, ClearBusy
    <2>2. \A d \in Callers : d # c => phase[d] = "idle" /\ phase'[d] = "idle"
        BY <1>6, <2>1 DEF SlotHeldIffBusy, ClearBusy, TypeOK
    <2>3. phase'[c] = "idle"
        BY <1>6, <2>1 DEF ClearBusy, TypeOK
    <2>4. AbsCall[c] = "running" /\ AbsCall' = [AbsCall EXCEPT ![c] = "idle"]
        BY <2>1, <2>2, <2>3 DEF AbsCall, Publishing
    <2>5. AbsJob' = [AbsJob EXCEPT ![c] = NoRequest]
        BY <2>2, <2>3 DEF AbsJob, Publishing
    <2>. QED
        BY <1>6, <2>4, <2>5, SessionFrame DEF Slot!Finish, ClearBusy
<1>7. ASSUME CopyRequest
      PROVE  UNCHANGED <<AbsCall, AbsJob, ret>>
    <2>1. wpc = "copy_request" /\ wpc' # "copy_request" /\ req' =
       pending_request
        BY <1>7 DEF CopyRequest
    <2>2. UNCHANGED <<pending_request, phase, arg, ret>>
        BY <1>7 DEF CopyRequest
    <2>. QED
        BY <2>1, <2>2 DEF AbsCall, AbsJob
<1>8. ASSUME DrainDone
      PROVE  UNCHANGED <<AbsCall, AbsJob, ret>>
    <2>1. \A d \in Callers : phase[d] # "running"
        BY <1>8 DEF SlotHeldIffBusy, HoldsRequest, ControlInv, LoopLabels,
           DrainDone
    <2>2. UNCHANGED <<pending_request, phase, arg, ret>>
        BY <1>8 DEF DrainDone
    <2>. QED
        BY <2>1, <2>2 DEF AbsCall, AbsJob, TypeOK
<1>9. ASSUME \/ ThreadPoll \/ TakeFingerSem \/ SkipFinger \/ SkipRequest
             \/ DrainTake \/ (Session /\ ~ClearBusy)
             \/ FingerPlaced \/ FingerLifted \/ UNCHANGED vars
      PROVE  UNCHANGED <<AbsCall, AbsJob, ret>>
    <2>1. UNCHANGED <<pending_request, phase, arg, ret, req>>
        BY <1>9, SessionFrame DEF ThreadPoll, TakeFingerSem, SkipFinger,
           SkipRequest, DrainTake, Session, PowerOn, HandshakeOk,
           HandshakeFail, Identify, EmitMatchOutput, CommandOk,
           CommandRefused, CommandLost, CopyBitmap, SetValid, ClearBusy,
           PowerOff, RearmDone, FingerPlaced, FingerLifted, vars
    <2>2. wpc' = "copy_request" <=> wpc = "copy_request"
        BY <1>9 DEF ThreadPoll, TakeFingerSem, SkipFinger, SkipRequest,
           DrainTake, Session, PowerOn, HandshakeOk, HandshakeFail, Identify,
           EmitMatchOutput, CommandOk, CommandRefused, CommandLost,
           CopyBitmap, SetValid, ClearBusy, PowerOff, RearmDone, Postamble,
           AfterCommandOk, FingerPlaced, FingerLifted, vars
    <2>. QED
        BY <2>1, <2>2 DEF AbsCall, AbsJob
<1>. QED
    BY <1>1, <1>2, <1>3, <1>4, <1>5, <1>6, <1>7, <1>8, <1>9 DEF Next, Loop,
       Publish, Slot!Next

(* What include/zw3021.h promises the callers of zw3021_request_*() is     *)
(* what every interleaving of the driver does.                             *)
THEOREM Refinement == Spec => RefinesSlot
<1>1. Spec => Slot!Init
    BY SlotInit DEF Spec
<1>. QED
    BY <1>1, SlotStep, Invariance, PTL DEF Spec, RefinesSlot, Slot!Spec
===============================================================================
