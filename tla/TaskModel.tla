----------------------------- MODULE TaskModel -----------------------------
(***************************************************************************)
(* The task record that travels through the whole system: the Task class   *)
(* of src/models/task.py and the enumerations of src/models/enums.py.      *)
(*                                                                         *)
(* A Task object is serialised whole every time it is stored or queued, so *)
(* a record of this module is at once a Redis value, a queue entry and the *)
(* private copy a worker holds.  Left out, because no decision in this     *)
(* part of the program depends on them: timestamps, status_detail, mode,   *)
(* work_dir and config_json.                                               *)
(***************************************************************************)
EXTENDS Naturals, Sequences, FiniteSets

CONSTANTS
    TaskId,        \* task identifiers (uuid4 values in the code)
    Project,       \* project names
    Requirement,   \* non-empty requirement texts
    Blank,         \* the empty requirement ""
    None,          \* absent Redis key, Python None
    MaxRetries     \* settings.max_retries

TaskStatus == {"pending", "running", "success", "failed", "interrupted"}

Task == [id : TaskId, project : Project, requirement : Requirement \cup {Blank},
         status : TaskStatus, retry : Nat]

ASSUME TaskModelAssumption ==
    /\ Blank \notin Requirement
    /\ None \notin TaskId
    /\ None \notin Task
    /\ MaxRetries \in Nat

NewTask(t, p, r) ==
    [id |-> t, project |-> p, requirement |-> r, status |-> "pending", retry |-> 0]

Transition(task, status) == [task EXCEPT !.status = status]

\* retry_count is counted by the worker before the task goes back.
CountRetry(task) == [task EXCEPT !.retry = task.retry + 1]

IsTerminal(task) == task.status \in {"success", "failed"}
=============================================================================
