------------------------------ MODULE Recovery ------------------------------
(***************************************************************************)
(* recover_stranded_tasks of src/recovery.py: one pass over the task       *)
(* records before the workers and the API of a new process start.          *)
(***************************************************************************)
EXTENDS TaskStore, TaskQueue

VARIABLES
    todo,    \* keys that SCAN returned and the loop has not finished with
    cur      \* the task the loop is about to re-queue

recoveryVars == <<todo, cur>>

RecoveryInit == todo = {} /\ cur = None
RecoveryTypeOK == todo \in SUBSET TaskId /\ cur \in Task \cup {None}

\* Mutant of ScanKeys: the cursor loop ends early.
ScanSomeKeys ==
    /\ \E T \in SUBSET {t \in TaskId : Exists(t)} : todo' = T
    /\ cur' = None

\* SCAN over cio:task:*, digest keys left out.
ScanKeys == todo' = {t \in TaskId : Exists(t)} /\ cur' = None

\* Mutant of SkipTerminal: interrupted tasks are skipped as well.
SkipInterrupted(t) ==
    /\ cur = None /\ t \in todo /\ Exists(t) /\ record[t].status \notin {"pending", "running"}
    /\ todo' = todo \ {t}
    /\ UNCHANGED <<cur, queue, storeVars>>

\* GET of the next key (keys come in no particular order): a terminal task
\* is skipped, ...
SkipTerminal(t) ==
    /\ cur = None /\ t \in todo /\ ~Active(t)
    /\ todo' = todo \ {t}
    /\ UNCHANGED <<cur, queue, storeVars>>

\* Mutant of MarkInterrupted: the record is not written back.
MarkCopyOnly(t) ==
    /\ cur = None /\ t \in todo /\ Exists(t) /\ record[t].status = "running"
    /\ cur' = Transition(record[t], "interrupted")
    /\ todo' = todo \ {t}
    /\ UNCHANGED <<queue, storeVars>>

\* ... a running one is marked interrupted in the store first, ...
MarkInterrupted(t) ==
    /\ cur = None /\ t \in todo /\ Exists(t) /\ record[t].status = "running"
    /\ cur' = Transition(record[t], "interrupted")
    /\ SetRecord(cur')
    /\ todo' = todo \ {t}
    /\ UNCHANGED <<queue, members, digest>>

\* ... a pending or interrupted one is taken as it is.
PickUp(t) ==
    /\ cur = None /\ t \in todo /\ Exists(t)
    /\ record[t].status \in {"pending", "interrupted"}
    /\ cur' = record[t]
    /\ todo' = todo \ {t}
    /\ UNCHANGED <<queue, storeVars>>

\* queue.enqueue, whatever the queue already contains.
EnqueueRecovered ==
    /\ cur # None
    /\ Enqueue(cur)
    /\ cur' = None
    /\ UNCHANGED <<todo, storeVars>>

RecoveryStep ==
    \/ \E t \in TaskId : SkipTerminal(t) \/ MarkInterrupted(t) \/ PickUp(t)
    \/ EnqueueRecovered
=============================================================================
