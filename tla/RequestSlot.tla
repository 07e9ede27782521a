----------------------------- MODULE RequestSlot -----------------------------
(***************************************************************************)
(* What include/zw3021.h promises the callers of zw3021_request_*(): one   *)
(* request slot for the whole keyboard.  A call is accepted only when no   *)
(* other call is outstanding, is refused with -EBUSY otherwise, and an     *)
(* accepted request is run once, with the arguments it was made with.      *)
(* ZW3021Worker implements this specification.                             *)
(***************************************************************************)

CONSTANTS Callers,    \* the threads that call zw3021_request_*()
          Requests,   \* the requests they can make
          NoRequest   \* the job of a caller that has none outstanding

VARIABLES call,   \* how far the caller's outstanding request has come
          job,    \* the request it was accepted with
          ret     \* what the caller's last call returned

slotVars == <<call, job, ret>>

Init == /\ call = [c \in Callers |-> "idle"]
        /\ job = [c \in Callers |-> NoRequest]
        /\ ret = [c \in Callers |-> "none"]

Outstanding == {c \in Callers : call[c] # "idle"}

(* The call claims the slot; it has not returned yet. *)
Accept(c, r) ==
    /\ Outstanding = {}
    /\ call' = [call EXCEPT ![c] = "accepted"]
    /\ job' = [job EXCEPT ![c] = r]
    /\ ret' = [ret EXCEPT ![c] = "none"]

(* "-EBUSY if a request is already pending/running"; also a caller whose   *)
(* own earlier request is still outstanding is refused.                    *)
Refuse(c) ==
    /\ Outstanding # {}
    /\ call[c] # "accepted"
    /\ ret' = [ret EXCEPT ![c] = "EBUSY"]
    /\ UNCHANGED <<call, job>>

(* "Returns 0 if queued". *)
Enqueue(c) ==
    /\ call[c] = "accepted"
    /\ call' = [call EXCEPT ![c] = "queued"]
    /\ ret' = [ret EXCEPT ![c] = "ok"]
    /\ UNCHANGED job

Start(c) ==
    /\ call[c] = "queued"
    /\ call' = [call EXCEPT ![c] = "running"]
    /\ UNCHANGED <<job, ret>>

Finish(c) ==
    /\ call[c] = "running"
    /\ call' = [call EXCEPT ![c] = "idle"]
    /\ job' = [job EXCEPT ![c] = NoRequest]
    /\ UNCHANGED ret

Next == \E c \in Callers : \/ \E r \in Requests : Accept(c, r)
                           \/ Refuse(c)
                           \/ Enqueue(c)
                           \/ Start(c)
                           \/ Finish(c)

Spec == Init /\ [][Next]_slotVars
==============================================================================
