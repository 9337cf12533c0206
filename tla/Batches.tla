-------------------------------- MODULE Batches --------------------------------
(***************************************************************************)
(* What a pool of workers promises its caller: the tasks handed in are all *)
(* done, and then the caller has the results of those, each once, and of   *)
(* no others.                                                              *)
(***************************************************************************)
EXTENDS FiniteSets

CONSTANTS
    Tasks       \* the tasks that may be handed in

VARIABLES
    given,      \* the tasks handed in and not collected
    result,     \* of a task: "none" until it is done, "some" or "raised"
    collected   \* the results that the caller got last, and of which tasks they should be

batchVars == <<given, result, collected>>

BatchInit ==
    /\ given = {}
    /\ result = [t \in Tasks |-> "none"]
    /\ collected = {}

HandIn(t) ==
    /\ t \notin given /\ result[t] = "none"
    /\ given' = given \cup {t}
    /\ UNCHANGED <<result, collected>>

\* A task may raise.
Finish(t) ==
    /\ t \in given /\ result[t] = "none"
    /\ \E r \in {"some", "raised"} : result' = [result EXCEPT ![t] = r]
    /\ UNCHANGED <<given, collected>>

Collect ==
    /\ given # {} /\ \A t \in given : result[t] # "none"
    /\ collected' = {t \in given : result[t] = "some"}
    /\ given' = {}
    /\ UNCHANGED result

BatchNext == Collect \/ \E t \in Tasks : HandIn(t) \/ Finish(t)

\* Tasks that are handed in are done and collected.
BatchSpec ==
    /\ BatchInit /\ [][BatchNext]_batchVars
    /\ WF_batchVars(Collect) /\ \A t \in Tasks : WF_batchVars(Finish(t))
================================================================================
