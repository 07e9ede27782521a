----------------------------- MODULE WebClient -----------------------------
(***************************************************************************)
(* The web client's asynchronous functions (docs/index.html): requests and *)
(* their time-outs, the background polling of get_status, the actions that *)
(* pause it (refresh, save, delete) and the enrolment that replaces it by  *)
(* its own polling.  JavaScript runs one callback at a time: a step is a   *)
(* click, a timer, or a promise that settles with what runs up to the next *)
(* await.  The keyboard (src/rpc_commands.c) answers requests in any       *)
(* order; of its sensor only the busy flag (src/zw3021.c) is kept.  A      *)
(* response and its request are one record, matched by the number nobody   *)
(* else has; the text of responses and the pages drawn from them are left  *)
(* out.                                                                    *)
(***************************************************************************)
EXTENDS Naturals, FiniteSets

CONSTANTS Actions,      \* refresh, save and delete that may overlap
          MaxClicks,    \* bound on what the user does
          MaxConns,     \* bound on connections
          MaxLost,      \* bound on requests that are given up
          MaxPending    \* bound on requests of a flow under way at once

ASSUME WebAssumption ==
    /\ {MaxClicks, MaxConns, MaxLost, MaxPending} \subseteq Nat
    /\ Actions \cap {"poll", "start", "status", "old_status"} = {}

\* Who awaits a request.  old_status: the polling of an enrolment before.
Flows == {"poll", "start", "status", "old_status"} \cup Actions

VARIABLES
    connected,     \* setConnected(true)
    statusTimer,   \* # null
    enrollTimer,   \* # null
    modal,         \* the enrolment's dialog is open
    was,           \* each action: idle, or what wasPolling holds
    pending,       \* the requests that are awaited
    busy,          \* the sensor has a request: an enrolment, a deletion or
                   \* a reading of its index
    clicks, conns, lost

timers == <<statusTimer, enrollTimer>>
counts == <<clicks, conns, lost>>
vars == <<connected, timers, modal, was, pending, busy, counts>>

Answers == {"none", "ok", "error", "busy", "idle"}

Entries == [id : 1 .. MaxPending, flow : Flows, live : BOOLEAN,
            answer : Answers]

Init ==
    /\ connected = FALSE
    /\ statusTimer = FALSE /\ enrollTimer = FALSE /\ modal = FALSE
    /\ was = [a \in Actions |-> "idle"]
    /\ pending = {}
    /\ busy = FALSE
    /\ clicks = 0 /\ conns = 0 /\ lost = 0

-----------------------------------------------------------------------------
(* Requests.                                                               *)

FreeIds(flow, entries) ==
    (1 .. MaxPending) \ {p.id : p \in {q \in entries : q.flow = flow}}

\* nextReqId++.  A number tells a flow's own requests apart.
FreshId(flow, entries) ==
    CHOOSE n \in FreeIds(flow, entries) :
        \A k \in FreeIds(flow, entries) : n <= k

\* send(): without a connection it is only there to be rejected.
Send(flow, others) ==
    /\ FreeIds(flow, others) # {}
    /\ pending' = others \cup {[id |-> FreshId(flow, others), flow |-> flow,
                                live |-> connected', answer |-> "none"]}

Of(flow) == {p \in pending : p.flow = flow}
Awaits(flow) == Of(flow) # {}

\* What the response to a poll that has been stopped changes is only a label.
DropPoll(entries) == {p \in entries : p.flow # "poll"}

\* startStatusPolling(): the first poll is sent at once.
StartStatusPolling(entries) ==
    /\ statusTimer' = TRUE
    /\ Send("poll", DropPoll(entries))

StopStatusPolling == statusTimer' = FALSE

-----------------------------------------------------------------------------
(* The connection.                                                         *)

Connect ==
    /\ ~connected
    /\ conns < MaxConns
    /\ conns' = conns + 1
    /\ connected' = TRUE
    /\ StartStatusPolling(pending)
    /\ UNCHANGED <<enrollTimer, modal, was, busy, clicks, lost>>

\* By the user or by the keyboard.  What is pending will be rejected: at
\* once, or when it times out.
Disconnect ==
    /\ connected
    /\ connected' = FALSE
    /\ StopStatusPolling
    /\ enrollTimer' = FALSE
    /\ pending' = {[p EXCEPT !.live = FALSE] : p \in pending}
    /\ UNCHANGED <<modal, was, busy, counts>>

-----------------------------------------------------------------------------
(* Timers.                                                                 *)

BugPollsPileUp(flow) == FALSE

\* A poll is skipped while the one before is in flight.
InFlight(flow) == Awaits(flow)

StatusTick ==
    /\ statusTimer
    /\ ~InFlight("poll")
    /\ UNCHANGED <<connected, timers, modal, was, busy, counts>>
    /\ Send("poll", pending)

EnrollTick ==
    /\ enrollTimer
    /\ ~InFlight("status")
    /\ UNCHANGED <<connected, timers, modal, was, busy, counts>>
    /\ Send("status", pending)

-----------------------------------------------------------------------------
(* Clicks.                                                                 *)

Click == clicks < MaxClicks /\ clicks' = clicks + 1

WasPolling == IF statusTimer THEN "on" ELSE "off"

\* withStatusPollingPaused(), up to its first request.  A refresh also starts
\* by itself, a while after the connection, behind the dialog too.
StartAction(a) ==
    /\ connected /\ Click
    /\ was[a] = "idle"
    /\ was' = [was EXCEPT ![a] = WasPolling]
    /\ StopStatusPolling
    /\ UNCHANGED <<connected, enrollTimer, modal, busy, conns, lost>>
    /\ Send(a, pending)

ClickEnroll ==
    /\ connected /\ Click
    /\ ~modal
    /\ StopStatusPolling
    /\ UNCHANGED <<connected, enrollTimer, modal, was, busy, conns, lost>>
    /\ Send("start", pending)

BugCloseEndsPolling == FALSE

\* "Deliberately leaves enrollTimer running".
TimerAfterClose == enrollTimer

CloseModal ==
    /\ modal
    /\ modal' = FALSE
    /\ enrollTimer' = TimerAfterClose
    /\ UNCHANGED <<connected, statusTimer, was, pending, busy, counts>>

-----------------------------------------------------------------------------
(* What a flow does next.  rest: the other requests.                       *)

PollSettles(p, rest) ==
    /\ p.flow = "poll"
    /\ pending' = rest
    /\ UNCHANGED <<timers, modal, was>>

\* An action goes on with its next request, whatever became of this one, or
\* gives up when one is refused (delete).
ActionGoesOn(p, rest) ==
    /\ p.flow \in Actions
    /\ Send(p.flow, rest)
    /\ UNCHANGED <<timers, modal, was>>

\* finally: if (wasPolling) startStatusPolling().
ActionEnds(p, rest) ==
    /\ p.flow \in Actions
    /\ was' = [was EXCEPT ![p.flow] = "idle"]
    /\ IF was[p.flow] = "on" THEN StartStatusPolling(rest)
                             ELSE pending' = rest /\ UNCHANGED statusTimer
    /\ UNCHANGED <<enrollTimer, modal>>

\* openEnrollModal(): another polling of enroll_status replaces the one there.
EnrollStarted(p, rest) ==
    /\ p.flow = "start"
    /\ modal' = TRUE
    /\ StopStatusPolling
    /\ enrollTimer' = TRUE
    /\ Awaits("status") => FreeIds("old_status", rest) # {}
    /\ pending' = (rest \ Of("status")) \cup
                  {[q EXCEPT !.flow = "old_status",
                             !.id = FreshId("old_status", rest)]
                       : q \in Of("status")}
    /\ UNCHANGED was

EnrollRejected(p, rest) ==
    /\ p.flow = "start"
    /\ StartStatusPolling(rest)
    /\ UNCHANGED <<enrollTimer, modal, was>>

EnrollGoesOn(p, rest) ==
    /\ p.flow \in {"status", "old_status"}
    /\ pending' = rest
    /\ UNCHANGED <<timers, modal, was>>

\* Back to status polling, and with a finger selected a refresh, which pauses
\* it again at once.
EnrollOver(p, rest) ==
    /\ p.flow \in {"status", "old_status"}
    /\ enrollTimer' = FALSE
    /\ \/ StartStatusPolling(rest) /\ UNCHANGED was
       \/ \E a \in Actions :
            /\ was[a] = "idle"
            /\ was' = [was EXCEPT ![a] = "on"]
            /\ StopStatusPolling
            /\ Send(a, DropPoll(rest))
    /\ UNCHANGED modal

-----------------------------------------------------------------------------
(* Promises settle.                                                        *)

BugNoFinally(p) ==
    IF p.flow = "status" THEN (pending \ {p}) \cup {[p EXCEPT !.live = FALSE]}
                         ELSE pending \ {p}

\* Once an error is caught: finally { inFlight = false }.
AfterError(p) == pending \ {p}

Catches(p, rest) == \/ PollSettles(p, rest)
                    \/ ActionGoesOn(p, rest)
                    \/ ActionEnds(p, rest)
                    \/ EnrollRejected(p, rest)
                    \/ EnrollGoesOn(p, rest)

\* The response is there.
Resolve(p) ==
    LET rest == pending \ {p}
    IN  /\ p.live /\ p.answer # "none"
        /\ UNCHANGED <<connected, busy, counts>>
        /\ \/ PollSettles(p, rest) \/ ActionGoesOn(p, rest)
           \/ ActionEnds(p, rest)
           \/ p.answer = "error" /\ EnrollRejected(p, rest)
           \/ p.answer = "ok" /\ EnrollStarted(p, rest)
           \/ p.answer = "busy" /\ EnrollGoesOn(p, rest)
           \/ p.answer = "idle" /\ EnrollOver(p, rest)

\* The request, or its response, is lost or late: it is given up.
Timeout(p) ==
    /\ p.live
    /\ lost < MaxLost
    /\ lost' = lost + 1
    /\ UNCHANGED <<connected, busy, clicks, conns>>
    /\ Catches(p, AfterError(p))

\* The connection it was sent on is gone.
Reject(p) ==
    /\ ~p.live
    /\ UNCHANGED <<connected, busy, counts>>
    /\ Catches(p, AfterError(p))

-----------------------------------------------------------------------------
(* The keyboard.                                                           *)

Answered(p, answer) == pending' = (pending \ {p})
                                  \cup {[p EXCEPT !.answer = answer]}

\* enroll_start, refresh_enroll_map and delete_template queue a request for
\* the sensor and are refused while it has one.  An action's other commands
\* leave the flag alone; what their answer is makes no difference to it.
Answer(p) ==
    /\ p.live /\ p.answer = "none"
    /\ \/ p.flow \in {"status", "old_status"} /\ UNCHANGED busy
          /\ Answered(p, IF busy THEN "busy" ELSE "idle")
       \/ p.flow \in {"poll"} \cup Actions /\ UNCHANGED busy
          /\ Answered(p, "ok")
       \/ p.flow \in {"start"} \cup Actions /\ ~busy /\ busy' = TRUE
          /\ Answered(p, "ok")
       \/ p.flow = "start" /\ UNCHANGED busy
          /\ Answered(p, "error")
    /\ UNCHANGED <<connected, timers, modal, was, counts>>

\* The user presses a key of the keyboard's own that enrolls, deletes or clears.
KeyPressed ==
    /\ Click
    /\ ~busy
    /\ busy' = TRUE
    /\ UNCHANGED <<connected, timers, modal, was, pending, conns, lost>>

\* The worker has carried out the request.
RequestDone ==
    /\ busy
    /\ busy' = FALSE
    /\ UNCHANGED <<connected, timers, modal, was, pending, counts>>

-----------------------------------------------------------------------------
Next == \/ Connect \/ Disconnect
        \/ StatusTick \/ EnrollTick
        \/ \E a \in Actions : StartAction(a)
        \/ ClickEnroll \/ CloseModal
        \/ \E p \in pending : Resolve(p) \/ Timeout(p) \/ Reject(p) \/ Answer(p)
        \/ KeyPressed \/ RequestDone

Spec == Init /\ [][Next]_vars

\* Timers fire, the keyboard answers and finishes what it does, a response
\* that is there is handled, and an action comes to the end of its loops.
FairSpec ==
    /\ Spec
    /\ WF_vars(EnrollTick)
    /\ WF_vars(RequestDone)
    /\ WF_vars(\E p \in Of("status") : Resolve(p))
    /\ \A flow \in Actions \cup {"status"} :
           WF_vars(\E p \in Of(flow) : Answer(p))
    /\ \A a \in Actions :
           SF_vars(\E p \in Of(a) : Resolve(p) /\ was'[a] = "idle")

-----------------------------------------------------------------------------
(* Properties.                                                             *)

\* Types; a polling has one request under way at a time, so that requests do
\* not pile up on a slow connection (index.html:1444).
TypeOK ==
    /\ connected \in BOOLEAN /\ statusTimer \in BOOLEAN
    /\ enrollTimer \in BOOLEAN /\ modal \in BOOLEAN /\ busy \in BOOLEAN
    /\ was \in [Actions -> {"idle", "on", "off"}]
    /\ pending \subseteq Entries
    /\ clicks \in 0 .. MaxClicks /\ conns \in 0 .. MaxConns
    /\ lost \in 0 .. MaxLost
    /\ Cardinality(Of("poll")) <= 1 /\ Cardinality(Of("status")) <= 1

\* However refresh, save, delete and enrolments overlap, and whichever of their
\* requests fail, when the last of them is over the status polling is on: none
\* leaves it stopped for the rest of the session (withStatusPollingPaused(),
\* index.html:1523, and the comment on closing the dialog, 1820).
PollingRestored ==
    connected /\ ~enrollTimer /\ ~Awaits("start")
              /\ (\A a \in Actions : was[a] = "idle")
        => statusTimer

\* The polling of an enrolment ends: status polling takes its place, unless
\* the connection goes, also if the dialog is closed or a request is lost
\* (openEnrollModal(), index.html:1789-1815).
PollingResumes == enrollTimer ~> (statusTimer \/ ~connected)
=============================================================================
