--------------------------- MODULE SensorExchange ---------------------------
(***************************************************************************)
(* What the command functions of src/zw3021.c promise the session handlers *)
(* that call them, whatever the UART does to the bytes.  A command is      *)
(* carried out by the sensor at most once.  0 is returned only for a       *)
(* command that was carried out, with the sensor's own data; -EIO and      *)
(* -ENOENT only for one that never will be.  After -ETIMEDOUT or -EBADMSG  *)
(* nothing is known, and until the power is cut the sensor may still carry *)
(* it out.  ZW3021Session implements this specification.                   *)
(***************************************************************************)

CONSTANTS Jobs,             \* what a session can be asked to do
          NoJob,
          Flashes,          \* the sets of templates the sensor can hold
          Applied(_, _),    \* its flash after a job
          Answers(_, _)     \* the data it may answer a job with

VARIABLES job,       \* of the session under way
          held,      \* the templates in the sensor's flash
          applied,   \* the sensor has carried the job out
          outcome,   \* what the command function returned
          data       \* and with which data

exchangeVars == <<job, held, applied, outcome, data>>

Init == /\ job = NoJob
        /\ held \in Flashes
        /\ applied = FALSE
        /\ outcome = "none"
        /\ data = {}

Begin(j) ==
    /\ job = NoJob
    /\ job' = j
    /\ applied' = FALSE
    /\ outcome' = "none"
    /\ data' = {}
    /\ UNCHANGED held

\* Not after the command function has said how it ended.
Apply ==
    /\ job # NoJob
    /\ ~applied
    /\ outcome \notin {"OK", "EIO", "ENOENT"}
    /\ held' = Applied(job, held)
    /\ applied' = TRUE
    /\ UNCHANGED <<job, outcome, data>>

Succeed ==
    /\ job # NoJob /\ outcome = "none"
    /\ applied
    /\ outcome' = "OK"
    /\ data' \in Answers(job, held)
    /\ UNCHANGED <<job, held, applied>>

Refuse ==
    /\ job # NoJob /\ outcome = "none"
    /\ ~applied
    /\ outcome' \in {"EIO", "ENOENT"}
    /\ UNCHANGED <<job, held, applied, data>>

Lose ==
    /\ job # NoJob /\ outcome = "none"
    /\ outcome' \in {"ETIMEDOUT", "EBADMSG"}
    /\ UNCHANGED <<job, held, applied, data>>

End ==
    /\ outcome # "none"
    /\ job' = NoJob
    /\ applied' = FALSE
    /\ outcome' = "none"
    /\ data' = {}
    /\ UNCHANGED held

Next == (\E j \in Jobs : Begin(j)) \/ Apply \/ Succeed \/ Refuse \/ Lose \/ End

Spec == Init /\ [][Next]_exchangeVars
=============================================================================
