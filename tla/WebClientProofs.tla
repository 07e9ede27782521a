--------------------------- MODULE WebClientProofs ---------------------------
(***************************************************************************)
(* Theorems about WebClient for any actions and bounds: its types, with a  *)
(* polling's one request at a time, and that status polling is never left  *)
(* stopped once everything that paused it is over.                         *)
(***************************************************************************)
EXTENDS WebClient, WellFoundedInduction, FiniteSetTheorems, TLAPS

-----------------------------------------------------------------------------
(* The inductive invariant.                                                *)

\* The flows that have one request under way at a time.
Single == {"poll", "status"}

\* What is awaited, each polling's request the only one of its flow.
Awaitable(entries) ==
    /\ entries \subseteq Entries
    /\ \A x, y \in entries : x.flow = y.flow /\ x.flow \in Single => x = y

TypeInv ==
    /\ connected \in BOOLEAN /\ statusTimer \in BOOLEAN
    /\ enrollTimer \in BOOLEAN /\ modal \in BOOLEAN /\ busy \in BOOLEAN
    /\ was \in [Actions -> {"idle", "on", "off"}]
    /\ Awaitable(pending)
    /\ clicks \in 0 .. MaxClicks /\ conns \in 0 .. MaxConns
    /\ lost \in 0 .. MaxLost

\* Where status polling is off somebody is there who will restore it: the
\* polling of an enrolment, an enrolment that starts, or one of the actions
\* that found it on.  Not all that paused it will: an action that began while
\* it was off leaves it off.
RestoreInv ==
    connected /\ ~statusTimer =>
        \/ enrollTimer
        \/ Awaits("start")
        \/ \E a \in Actions : was[a] = "on"

IInv == TypeInv /\ RestoreInv

-----------------------------------------------------------------------------
(* Requests.                                                               *)

(* A set of at most one element.                                           *)
LEMMA AtMostOne ==
    ASSUME NEW S, \A x, y \in S : x = y
    PROVE  Cardinality(S) <= 1
<1>1. CASE S = {}
    BY <1>1, FS_EmptySet
<1>2. CASE S # {}
    <2>1. PICK x : S = {x}
        BY <1>2
    <2>. QED
        BY <2>1, FS_Singleton
<1>. QED
    BY <1>1, <1>2

(* A set of numbers that is not empty has a least element.                 *)
LEMMA LeastNumber ==
    ASSUME NEW S, S \subseteq Nat, S # {}
    PROVE  \E n \in S : \A k \in S : n <= k
<1>. DEFINE R == OpToRel(<, Nat)
<1>1. IsWellFoundedOn(R, Nat)
    BY NatLessThanWellFounded
<1>. HIDE DEF R
<1>2. PICK n \in S : \A k \in S : ~ (<<k, n>> \in R)
    BY <1>1, WFMin
<1>3. ASSUME NEW k \in S
      PROVE  ~ (k < n)
    BY <1>2 DEF R, OpToRel
<1>4. \A i, j \in Nat : ~ (j < i) => i <= j
    OBVIOUS
<1>. QED
    BY <1>3, <1>4

(* FreshId() takes a number of its own as long as there is one.            *)
LEMMA FreshIdIsFree ==
    ASSUME NEW flow, NEW entries, FreeIds(flow, entries) # {}
    PROVE  FreshId(flow, entries) \in 1 .. MaxPending
<1>1. FreeIds(flow, entries) \subseteq 1 .. MaxPending
    BY DEF FreeIds
<1>2. MaxPending \in Nat
    BY WebAssumption
<1>3. FreeIds(flow, entries) \subseteq Nat
    BY <1>1, <1>2
<1>4. \E n \in FreeIds(flow, entries) :
          \A k \in FreeIds(flow, entries) : n <= k
    BY <1>3, LeastNumber
<1>5. FreshId(flow, entries) \in FreeIds(flow, entries)
    BY <1>4 DEF FreshId
<1>. QED
    BY <1>1, <1>5

(* The flows are different from each other.                                *)
LEMMA FlowsDiffer ==
    /\ {"poll", "start", "status", "old_status"} \subseteq Flows
    /\ Actions \subseteq Flows
    /\ \A a \in Actions : a \notin Single /\ a # "start" /\ a # "old_status"
BY WebAssumption DEF Flows, Single

(* Fewer requests are awaitable as well.                                   *)
LEMMA FewerAwaitable ==
    ASSUME NEW entries, Awaitable(entries), NEW some \in SUBSET entries
    PROVE  Awaitable(some)
BY DEF Awaitable

(* send() adds one request to the others.                                  *)
LEMMA SendAdds ==
    ASSUME NEW flow \in Flows, NEW others, Awaitable(others),
           connected' \in BOOLEAN,
           flow \in Single => \A x \in others : x.flow # flow,
           Send(flow, others)
    PROVE  /\ Awaitable(pending')
           /\ others \subseteq pending'
           /\ \E x \in pending' : x.flow = flow
<1>. DEFINE new == [id |-> FreshId(flow, others), flow |-> flow,
                    live |-> connected', answer |-> "none"]
<1>1. pending' = others \cup {new}
    BY DEF Send
<1>2. FreshId(flow, others) \in 1 .. MaxPending
    BY FreshIdIsFree DEF Send
<1>3. new \in Entries /\ new.flow = flow
    BY <1>2 DEF Entries, Answers
<1>. HIDE DEF new
<1>4. pending' \subseteq Entries
    BY <1>1, <1>3 DEF Awaitable
<1>5. ASSUME NEW x \in pending', NEW y \in pending',
             x.flow = y.flow, x.flow \in Single
      PROVE  x = y
    BY <1>1, <1>3, <1>5 DEF Awaitable
<1>. QED
    BY <1>1, <1>3, <1>4, <1>5 DEF Awaitable

(* startStatusPolling() keeps what the other flows await.                  *)
LEMMA PollingStarts ==
    ASSUME NEW entries, Awaitable(entries), connected' \in BOOLEAN,
           StartStatusPolling(entries)
    PROVE  /\ statusTimer' = TRUE
           /\ Awaitable(pending')
<1>1. Awaitable(DropPoll(entries))
    BY FewerAwaitable DEF DropPoll
<1>2. \A x \in DropPoll(entries) : x.flow # "poll"
    BY DEF DropPoll
<1>. QED
    BY <1>1, <1>2, SendAdds, FlowsDiffer DEF StartStatusPolling

(* A request that changes but for its flow leaves the flows as they are.   *)
LEMMA SameFlows ==
    ASSUME NEW entries, Awaitable(entries), NEW p \in entries,
           NEW q \in Entries, q.flow = p.flow
    PROVE  /\ Awaitable((entries \ {p}) \cup {q})
           /\ \A f : (\E x \in entries : x.flow = f) =>
                         \E x \in (entries \ {p}) \cup {q} : x.flow = f
BY DEF Awaitable

-----------------------------------------------------------------------------
(* The connection, the timers and the clicks.                              *)

(* Init establishes the inductive invariant.                               *)
LEMMA InitInv == Init => IInv
<1>. SUFFICES ASSUME Init
              PROVE  IInv
    OBVIOUS
<1>1. MaxClicks \in Nat /\ MaxConns \in Nat /\ MaxLost \in Nat
    BY WebAssumption
<1>2. clicks \in 0 .. MaxClicks /\ conns \in 0 .. MaxConns
                             /\ lost \in 0 .. MaxLost
    BY <1>1 DEF Init
<1>3. TypeInv
    BY <1>2 DEF Init, TypeInv, Awaitable
<1>4. RestoreInv
    BY DEF Init, RestoreInv
<1>. QED
    BY <1>3, <1>4 DEF IInv

(* A connection starts the polling.                                        *)
LEMMA ConnectInv ==
    ASSUME IInv, Connect
    PROVE  IInv'
<1>1. statusTimer' = TRUE /\ Awaitable(pending')
    BY PollingStarts DEF Connect, IInv, TypeInv
<1>2. conns' \in 0 .. MaxConns
    BY WebAssumption DEF Connect, IInv, TypeInv
<1>3. TypeInv'
    BY <1>1, <1>2 DEF Connect, IInv, TypeInv, Awaitable
<1>4. RestoreInv'
    BY <1>1 DEF RestoreInv
<1>. QED
    BY <1>3, <1>4 DEF IInv

(* A disconnect leaves every request to be rejected.                       *)
LEMMA DisconnectInv ==
    ASSUME IInv, Disconnect
    PROVE  IInv'
<1>1. \A x \in Entries : /\ [x EXCEPT !.live = FALSE] \in Entries
                         /\ [x EXCEPT !.live = FALSE].flow = x.flow
    BY DEF Entries
<1>2. Awaitable(pending) /\ pending \subseteq Entries
    BY DEF IInv, TypeInv, Awaitable
<1>3. pending' = {[x EXCEPT !.live = FALSE] : x \in pending}
    BY DEF Disconnect
<1>4. pending' \subseteq Entries
    BY <1>1, <1>2, <1>3
<1>5. ASSUME NEW x \in pending', NEW y \in pending',
             x.flow = y.flow, x.flow \in Single
      PROVE  x = y
    <2>1. PICK u \in pending : x = [u EXCEPT !.live = FALSE]
        BY <1>3
    <2>2. PICK v \in pending : y = [v EXCEPT !.live = FALSE]
        BY <1>3
    <2>3. u.flow = x.flow /\ v.flow = y.flow
        BY <1>1, <1>2, <2>1, <2>2
    <2>4. u = v
        BY <1>2, <1>5, <2>3 DEF Awaitable
    <2>. QED
        BY <2>1, <2>2, <2>4
<1>6. Awaitable(pending)'
    BY <1>4, <1>5 DEF Awaitable
<1>7. TypeInv'
    BY <1>6 DEF Disconnect, StopStatusPolling, counts, IInv, TypeInv
<1>8. RestoreInv'
    BY DEF Disconnect, RestoreInv
<1>. QED
    BY <1>7, <1>8 DEF IInv

(* Both timers: one more request of a polling that has none.               *)
LEMMA TickInv ==
    ASSUME IInv, StatusTick \/ EnrollTick
    PROVE  IInv'
<1>1. PICK flow \in Single : ~InFlight(flow) /\ Send(flow, pending)
    BY DEF StatusTick, EnrollTick, Single
<1>2. \A x \in pending : x.flow # flow
    BY <1>1 DEF InFlight, Awaits, Of
<1>3. UNCHANGED <<connected, timers, modal, was, busy, counts>>
    BY DEF StatusTick, EnrollTick
<1>4. flow \in Flows
    BY <1>1, FlowsDiffer DEF Single
<1>5. Awaitable(pending) /\ connected' \in BOOLEAN
    BY <1>3 DEF IInv, TypeInv
<1>6. Awaitable(pending') /\ pending \subseteq pending'
    BY <1>1, <1>2, <1>4, <1>5, SendAdds
<1>7. TypeInv'
    BY <1>3, <1>6 DEF IInv, TypeInv, timers, counts, Awaitable
<1>8. RestoreInv'
    BY <1>3, <1>6 DEF IInv, RestoreInv, timers, Awaits, Of
<1>. QED
    BY <1>7, <1>8 DEF IInv

(* withStatusPollingPaused() pauses what it will restore, or what another  *)
(* has paused already.                                                     *)
LEMMA StartActionInv ==
    ASSUME IInv, NEW a \in Actions, StartAction(a)
    PROVE  IInv'
<1>1. Awaitable(pending) /\ connected' \in BOOLEAN
    BY DEF StartAction, IInv, TypeInv
<1>2. Awaitable(pending') /\ pending \subseteq pending'
    BY <1>1, SendAdds, FlowsDiffer DEF StartAction
<1>3. was' \in [Actions -> {"idle", "on", "off"}]
    BY DEF StartAction, WasPolling, IInv, TypeInv
<1>4. clicks' \in 0 .. MaxClicks
    BY WebAssumption DEF StartAction, Click, IInv, TypeInv
<1>5. TypeInv'
    BY <1>2, <1>3, <1>4
       DEF StartAction, StopStatusPolling, IInv, TypeInv, Awaitable
<1>6. RestoreInv'
    <2>1. CASE statusTimer
        <3>1. was'[a] = "on"
            BY <2>1 DEF StartAction, WasPolling, IInv, TypeInv
        <3>. QED
            BY <3>1 DEF RestoreInv
    <2>2. CASE ~statusTimer
        <3>1. connected /\ enrollTimer' = enrollTimer /\ was[a] = "idle"
            BY DEF StartAction
        <3>2. \A b \in Actions : was[b] = "on" => was'[b] = "on"
            BY <3>1 DEF StartAction, IInv, TypeInv
        <3>3. Awaits("start") => Awaits("start")'
            BY <1>2 DEF Awaits, Of
        <3>. QED
            BY <2>2, <3>1, <3>2, <3>3 DEF IInv, RestoreInv
    <2>. QED
        BY <2>1, <2>2
<1>. QED
    BY <1>5, <1>6 DEF IInv

(* An enrolment that is asked for will answer for the polling.             *)
LEMMA ClickEnrollInv ==
    ASSUME IInv, ClickEnroll
    PROVE  IInv'
<1>1. Awaitable(pending) /\ connected' \in BOOLEAN
    BY DEF ClickEnroll, IInv, TypeInv
<1>2. "start" \notin Single
    BY DEF Single
<1>3. Awaitable(pending') /\ \E x \in pending' : x.flow = "start"
    BY <1>1, <1>2, SendAdds, FlowsDiffer DEF ClickEnroll
<1>4. clicks' \in 0 .. MaxClicks
    BY WebAssumption DEF ClickEnroll, Click, IInv, TypeInv
<1>5. TypeInv'
    BY <1>3, <1>4
       DEF ClickEnroll, StopStatusPolling, IInv, TypeInv, Awaitable
<1>6. RestoreInv'
    BY <1>3 DEF RestoreInv, Awaits, Of
<1>. QED
    BY <1>5, <1>6 DEF IInv

(* closeEnrollModal() leaves the enrolment's polling to itself.            *)
LEMMA CloseModalInv ==
    ASSUME IInv, CloseModal
    PROVE  IInv'
<1>1. TypeInv'
    BY DEF CloseModal, TimerAfterClose, counts, IInv, TypeInv, Awaitable
<1>2. RestoreInv'
    BY DEF CloseModal, TimerAfterClose, IInv, RestoreInv, Awaits, Of
<1>. QED
    BY <1>1, <1>2 DEF IInv

-----------------------------------------------------------------------------
(* A promise settles.  Its request is gone; the flow it belongs to sends   *)
(* another, hands over, or ends.                                           *)

\* What the settling of p changes apart from the flow's own step.
Settling(p) ==
    /\ p \in pending
    /\ UNCHANGED <<connected, busy, clicks, conns>>
    /\ lost' \in 0 .. MaxLost

(* What every settling has in common.                                      *)
LEMMA RestFacts ==
    ASSUME IInv, NEW p, Settling(p)
    PROVE  /\ Awaitable(pending \ {p})
           /\ p \in Entries
           /\ connected' = connected
           /\ connected' \in BOOLEAN
           /\ p.flow # "start" /\ Awaits("start")
                 => \E x \in pending \ {p} : x.flow = "start"
BY FewerAwaitable DEF Settling, IInv, TypeInv, Awaitable, Awaits, Of

(* The invariant after a settling, from what its steps have to show.       *)
LEMMA SettledInv ==
    ASSUME IInv, NEW p, Settling(p),
           statusTimer' \in BOOLEAN, enrollTimer' \in BOOLEAN,
           modal' \in BOOLEAN, was' \in [Actions -> {"idle", "on", "off"}],
           Awaitable(pending'), RestoreInv'
    PROVE  IInv'
BY DEF Settling, IInv, TypeInv, Awaitable

(* A polling takes note of an answer; the next tick asks again.            *)
LEMMA NotedInv ==
    ASSUME IInv, NEW p, Settling(p),
           PollSettles(p, pending \ {p}) \/ EnrollGoesOn(p, pending \ {p})
    PROVE  IInv'
<1>1. /\ pending' = pending \ {p} /\ p.flow # "start"
      /\ UNCHANGED <<timers, modal, was>>
    BY DEF PollSettles, EnrollGoesOn
<1>2. Awaitable(pending') /\ connected' = connected
    BY <1>1, RestFacts
<1>3. Awaits("start") => Awaits("start")'
    BY <1>1, RestFacts DEF Awaits, Of
<1>4. RestoreInv'
    BY <1>1, <1>2, <1>3 DEF IInv, RestoreInv, timers
<1>. QED
    BY <1>1, <1>2, <1>4, SettledInv DEF IInv, TypeInv, timers

(* An action that goes on has paused what it has paused.                   *)
LEMMA ActionGoesOnInv ==
    ASSUME IInv, NEW p, Settling(p), ActionGoesOn(p, pending \ {p})
    PROVE  IInv'
<1>1. /\ p.flow \in Actions /\ Send(p.flow, pending \ {p})
      /\ UNCHANGED <<timers, modal, was>>
    BY DEF ActionGoesOn
<1>2. p.flow \in Flows /\ p.flow \notin Single /\ p.flow # "start"
    BY <1>1, FlowsDiffer
<1>3. Awaitable(pending \ {p}) /\ connected' \in BOOLEAN
    BY RestFacts
<1>4. Awaitable(pending') /\ pending \ {p} \subseteq pending'
    BY <1>1, <1>2, <1>3, SendAdds
<1>5. Awaits("start") => Awaits("start")'
    BY <1>2, <1>4, RestFacts DEF Awaits, Of
<1>6. RestoreInv'
    BY <1>1, <1>5, RestFacts DEF IInv, RestoreInv, timers
<1>. QED
    BY <1>1, <1>4, <1>6, SettledInv DEF IInv, TypeInv, timers

(* finally: an action that found status polling on puts it on; one that    *)
(* found it off is not the one the others rely on.                         *)
LEMMA ActionEndsInv ==
    ASSUME IInv, NEW p, Settling(p), ActionEnds(p, pending \ {p})
    PROVE  IInv'
<1>1. /\ p.flow \in Actions
      /\ was' = [was EXCEPT ![p.flow] = "idle"]
      /\ UNCHANGED <<enrollTimer, modal>>
    BY DEF ActionEnds
<1>2. was \in [Actions -> {"idle", "on", "off"}]
    BY DEF IInv, TypeInv
<1>3. was' \in [Actions -> {"idle", "on", "off"}]
    BY <1>1, <1>2
<1>4. Awaitable(pending \ {p}) /\ connected' \in BOOLEAN
    BY RestFacts
<1>5. CASE was[p.flow] = "on"
    <2>1. statusTimer' = TRUE /\ Awaitable(pending')
        BY <1>4, <1>5, PollingStarts DEF ActionEnds
    <2>2. RestoreInv'
        BY <2>1 DEF RestoreInv
    <2>. QED
        BY <1>1, <1>3, <2>1, <2>2, SettledInv DEF IInv, TypeInv
<1>6. CASE was[p.flow] # "on"
    <2>1. pending' = pending \ {p} /\ statusTimer' = statusTimer
        BY <1>6 DEF ActionEnds
    <2>2. \A b \in Actions : was[b] = "on" => was'[b] = "on"
        BY <1>1, <1>2, <1>6
    <2>3. p.flow # "start"
        BY <1>1, FlowsDiffer
    <2>4. Awaits("start") => Awaits("start")'
        BY <2>1, <2>3, RestFacts DEF Awaits, Of
    <2>5. RestoreInv'
        BY <1>1, <2>1, <2>2, <2>4, RestFacts DEF IInv, RestoreInv
    <2>. QED
        BY <1>1, <1>3, <1>4, <2>1, <2>5, SettledInv DEF IInv, TypeInv
<1>. QED
    BY <1>5, <1>6

(* openEnrollModal() once the keyboard enrols.  The requests of a polling  *)
(* that was there go on as those of the one before.                        *)
LEMMA EnrollStartedInv ==
    ASSUME IInv, NEW p, Settling(p), EnrollStarted(p, pending \ {p})
    PROVE  IInv'
<1>. DEFINE fresh == FreshId("old_status", pending \ {p})
            Renamed(q) == [q EXCEPT !.flow = "old_status", !.id = fresh]
            kept == (pending \ {p}) \ Of("status")
<1>1. pending' = kept \cup {Renamed(q) : q \in Of("status")}
    BY DEF EnrollStarted
<1>2. /\ modal' = TRUE /\ enrollTimer' = TRUE /\ statusTimer' = FALSE
      /\ was' = was
    BY DEF EnrollStarted, StopStatusPolling
<1>3. Of("status") # {} => fresh \in 1 .. MaxPending
    BY FreshIdIsFree DEF EnrollStarted, Awaits
<1>. HIDE DEF fresh
<1>4. pending \subseteq Entries /\ Of("status") \subseteq Entries
    BY DEF IInv, TypeInv, Awaitable, Of
<1>5. ASSUME NEW q \in Of("status")
      PROVE  Renamed(q) \in Entries /\ Renamed(q).flow = "old_status"
    BY <1>3, <1>4, FlowsDiffer DEF Entries
<1>. HIDE DEF Renamed
<1>6. pending' \subseteq Entries
    BY <1>1, <1>4, <1>5
<1>7. \A x \in pending' : x.flow \in Single => x \in kept
    BY <1>1, <1>5 DEF Single
<1>8. Awaitable(kept)
    BY FewerAwaitable DEF IInv, TypeInv
<1>9. Awaitable(pending')
    BY <1>6, <1>7, <1>8 DEF Awaitable
<1>10. RestoreInv'
    BY <1>2 DEF RestoreInv
<1>. QED
    BY <1>2, <1>9, <1>10, SettledInv DEF IInv, TypeInv

(* An enrolment that is refused puts the polling on.                       *)
LEMMA EnrollRejectedInv ==
    ASSUME IInv, NEW p, Settling(p), EnrollRejected(p, pending \ {p})
    PROVE  IInv'
<1>1. statusTimer' = TRUE /\ Awaitable(pending')
    BY RestFacts, PollingStarts DEF EnrollRejected
<1>2. RestoreInv'
    BY <1>1 DEF RestoreInv
<1>. QED
    BY <1>1, <1>2, SettledInv DEF EnrollRejected, IInv, TypeInv

(* The enrolment is over: status polling is on, or the refresh that pauses *)
(* it again found it on.                                                   *)
LEMMA EnrollOverInv ==
    ASSUME IInv, NEW p, Settling(p), EnrollOver(p, pending \ {p})
    PROVE  IInv'
<1>1. enrollTimer' = FALSE /\ modal' = modal
    BY DEF EnrollOver
<1>2. Awaitable(pending \ {p}) /\ connected' \in BOOLEAN
    BY RestFacts
<1>3. CASE StartStatusPolling(pending \ {p}) /\ UNCHANGED was
    <2>1. statusTimer' = TRUE /\ Awaitable(pending')
        BY <1>2, <1>3, PollingStarts
    <2>2. RestoreInv'
        BY <2>1 DEF RestoreInv
    <2>. QED
        BY <1>1, <1>3, <2>1, <2>2, SettledInv DEF IInv, TypeInv
<1>4. ASSUME NEW a \in Actions,
             was' = [was EXCEPT ![a] = "on"], StopStatusPolling,
             Send(a, DropPoll(pending \ {p}))
      PROVE  IInv'
    <2>1. Awaitable(DropPoll(pending \ {p}))
        BY <1>2, FewerAwaitable DEF DropPoll
    <2>2. Awaitable(pending')
        BY <1>2, <1>4, <2>1, SendAdds, FlowsDiffer
    <2>3. was' \in [Actions -> {"idle", "on", "off"}] /\ was'[a] = "on"
        BY <1>4 DEF IInv, TypeInv
    <2>4. RestoreInv'
        BY <2>3 DEF RestoreInv
    <2>. QED
        BY <1>1, <1>4, <2>2, <2>3, <2>4, SettledInv
           DEF StopStatusPolling, IInv, TypeInv
<1>. QED
    BY <1>3, <1>4 DEF EnrollOver

-----------------------------------------------------------------------------
(* Answers, lost and late ones, and the whole of Next.                     *)

(* Whatever catches an error keeps the invariant.                          *)
LEMMA CatchesInv ==
    ASSUME IInv, NEW p, Settling(p), Catches(p, AfterError(p))
    PROVE  IInv'
BY NotedInv, ActionGoesOnInv, ActionEndsInv, EnrollRejectedInv
   DEF Catches, AfterError

(* However a request is settled, the invariant is kept.                    *)
LEMMA SettleInv ==
    ASSUME IInv, NEW p \in pending, Resolve(p) \/ Timeout(p) \/ Reject(p)
    PROVE  IInv'
<1>1. CASE Resolve(p)
    <2>1. Settling(p)
        BY <1>1 DEF Resolve, Settling, counts, IInv, TypeInv
    <2>. QED
        BY <1>1, <2>1, NotedInv, ActionGoesOnInv, ActionEndsInv,
           EnrollRejectedInv, EnrollStartedInv, EnrollOverInv DEF Resolve
<1>2. CASE Timeout(p)
    <2>1. MaxLost \in Nat
        BY WebAssumption
    <2>2. lost' \in 0 .. MaxLost
        BY <1>2, <2>1 DEF Timeout, IInv, TypeInv
    <2>3. Settling(p)
        BY <1>2, <2>2 DEF Timeout, Settling
    <2>. QED
        BY <1>2, <2>3, CatchesInv DEF Timeout
<1>3. CASE Reject(p)
    <2>1. Settling(p)
        BY <1>3 DEF Reject, Settling, counts, IInv, TypeInv
    <2>. QED
        BY <1>3, <2>1, CatchesInv DEF Reject
<1>. QED
    BY <1>1, <1>2, <1>3

(* An answer changes neither flows nor timers.                             *)
LEMMA AnswerInv ==
    ASSUME IInv, NEW p \in pending, Answer(p)
    PROVE  IInv'
<1>1. PICK answer \in Answers : Answered(p, answer)
    BY DEF Answer, Answers
<1>. DEFINE q == [p EXCEPT !.answer = answer]
<1>2. Awaitable(pending) /\ p \in Entries
    BY DEF IInv, TypeInv, Awaitable
<1>3. q \in Entries /\ q.flow = p.flow
    BY <1>2 DEF Entries
<1>4. pending' = (pending \ {p}) \cup {q}
    BY <1>1 DEF Answered
<1>. HIDE DEF q
<1>5. Awaitable(pending') /\ (Awaits("start") => Awaits("start")')
    BY <1>2, <1>3, <1>4, SameFlows DEF Awaits, Of
<1>6. UNCHANGED <<connected, timers, modal, was, counts>>
    BY DEF Answer
<1>7. busy' \in BOOLEAN
    BY DEF Answer, IInv, TypeInv
<1>8. TypeInv'
    BY <1>5, <1>6, <1>7 DEF IInv, TypeInv, timers, counts, Awaitable
<1>9. RestoreInv'
    BY <1>5, <1>6 DEF IInv, RestoreInv, timers
<1>. QED
    BY <1>8, <1>9 DEF IInv

(* What the keyboard does by itself changes nothing of the client.         *)
LEMMA KeyboardInv ==
    ASSUME IInv, KeyPressed \/ RequestDone \/ UNCHANGED vars
    PROVE  IInv'
<1>1. UNCHANGED <<connected, timers, modal, was, pending, conns, lost>>
    BY DEF KeyPressed, RequestDone, counts, vars
<1>2. busy' \in BOOLEAN
    BY DEF KeyPressed, RequestDone, vars, IInv, TypeInv
<1>3. clicks' \in 0 .. MaxClicks
    BY WebAssumption
       DEF KeyPressed, Click, RequestDone, counts, vars, IInv, TypeInv
<1>4. TypeInv'
    BY <1>1, <1>2, <1>3 DEF IInv, TypeInv, timers, Awaitable
<1>5. RestoreInv'
    BY <1>1 DEF IInv, RestoreInv, timers, Awaits, Of
<1>. QED
    BY <1>4, <1>5 DEF IInv

(* Every step keeps the inductive invariant.                               *)
LEMMA NextInv ==
    ASSUME IInv, [Next]_vars
    PROVE  IInv'
BY ConnectInv, DisconnectInv, TickInv, StartActionInv, ClickEnrollInv,
   CloseModalInv, SettleInv, AnswerInv, KeyboardInv DEF Next

-----------------------------------------------------------------------------
(* The theorems.                                                           *)

(* The strengthened invariant holds: whenever status polling is off on a   *)
(* live connection, an enrolment or a paused action is there to restore it.*)
THEOREM Invariance == Spec => []IInv
<1>1. Init => IInv
    BY InitInv
<1>2. IInv /\ [Next]_vars => IInv'
    BY NextInv
<1>. QED
    BY <1>1, <1>2, PTL DEF Spec

(* Types, and one request of a polling at a time, however many enrolments  *)
(* replace each other's polling and however connections come and go.       *)
THEOREM TypeCorrect == Spec => []TypeOK
<1>1. ASSUME IInv
      PROVE  TypeOK
    <2>1. Awaitable(pending)
        BY <1>1 DEF IInv, TypeInv
    <2>2. \A f \in Single : \A x, y \in Of(f) : x = y
        BY <2>1 DEF Awaitable, Of
    <2>3. Cardinality(Of("poll")) <= 1
        BY <2>2, AtMostOne DEF Single
    <2>4. Cardinality(Of("status")) <= 1
        BY <2>2, AtMostOne DEF Single
    <2>. QED
        BY <1>1, <2>1, <2>3, <2>4 DEF TypeOK, IInv, TypeInv, Awaitable
<1>. QED
    BY <1>1, Invariance, PTL

(* Status polling is on when nothing that pauses it is under way.          *)
THEOREM Restored == Spec => []PollingRestored
<1>1. ASSUME IInv
      PROVE  PollingRestored
    <2>1. \A a \in Actions : was[a] = "idle" => was[a] # "on"
        OBVIOUS
    <2>. QED
        BY <1>1, <2>1 DEF IInv, TypeInv, RestoreInv, PollingRestored
<1>. QED
    BY <1>1, Invariance, PTL
=============================================================================
