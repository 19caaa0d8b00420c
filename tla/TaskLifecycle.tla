--------------------------- MODULE TaskLifecycle ---------------------------
(***************************************************************************)
(* What a client that polls GET /tasks/{id} may see of its task: the state *)
(* machine of src/models/enums.py and src/models/task.py as the calls of   *)
(* task.transition() drive it.  A task is absent until it is accepted,     *)
(* success and failed are final, and an interrupted task comes back at     *)
(* most MaxRetries times counted.                                          *)
(***************************************************************************)
EXTENDS Naturals

CONSTANTS TaskId, MaxRetries

VARIABLES
    status,    \* what the task record says of each task
    tries      \* its retry_count

lifecycleVars == <<status, tries>>

LifecycleInit ==
    /\ status = [t \in TaskId |-> "absent"]
    /\ tries = [t \in TaskId |-> 0]

Moves(t, from, to) ==
    /\ status[t] \in from
    /\ status' = [status EXCEPT ![t] = to]

Accept(t) == Moves(t, {"absent"}, "pending") /\ UNCHANGED tries
Begin(t) == Moves(t, {"pending", "interrupted"}, "running") /\ UNCHANGED tries
Refuse(t) == Moves(t, {"pending", "interrupted"}, "failed") /\ UNCHANGED tries
Finish(t) ==
    \E outcome \in {"success", "failed"} :
        Moves(t, {"running"}, outcome) /\ UNCHANGED tries
Suspend(t) == Moves(t, {"running"}, "interrupted") /\ UNCHANGED tries
Retry(t) ==
    /\ Moves(t, {"running"}, "interrupted")
    /\ tries[t] < MaxRetries
    /\ tries' = [tries EXCEPT ![t] = @ + 1]

LifecycleNext ==
    \E t \in TaskId :
        Accept(t) \/ Begin(t) \/ Refuse(t) \/ Finish(t) \/ Suspend(t) \/ Retry(t)

LifecycleSpec == LifecycleInit /\ [][LifecycleNext]_lifecycleVars
=============================================================================
