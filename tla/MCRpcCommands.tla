---------------------------- MODULE MCRpcCommands ----------------------------
(* Requests for checking RpcCommands with TLC: every command, names of each *)
(* kind of character, at the longest length that fits and one beyond it,    *)
(* and lines that cannot be run.                                            *)
EXTENDS RpcCommands, TLC

CONSTANT ReqId   \* the req_id of the requests

Times(ch, n) == [i \in 1 .. n |-> ch]
First == Min(Ids)

\* With finger 5 and without 61 the list is the longest there is.
MCStored == (41 .. 100) \ Ids

MCNames == {<<>>, <<"q", "c", "b", "p">>, Times("q", 47), Times("b", 48)}

Plain(cmd, id) == Request(cmd, ReqId, id, <<>>, FALSE)

MCRequests ==
    {Plain(cmd, -1) : cmd \in {"get_status", "get_fingers", "enroll_start",
                               "refresh_enroll_map"}}
    \cup {Plain(cmd, First) : cmd \in {"get_finger", "get_enrolled"}}
    \cup {Plain("delete_finger", id) : id \in Ids}
    \cup {Request("update_finger", ReqId, id, Wire(Times("p", 31)), FALSE) :
             id \in Ids}
    \cup {Request("update_finger", ReqId, First, Wire(Times("p", n)), FALSE) :
             n \in {0, 32}}
    \cup {Request("set_finger_enter", ReqId, First, <<>>, on) : on \in BOOLEAN}
    \cup {Request("set_finger_name", ReqId, First, Wire(n), FALSE) :
             n \in MCNames}
    \cup {NoRequest}

ThreadSymmetry == Permutations(Threads)
=============================================================================
