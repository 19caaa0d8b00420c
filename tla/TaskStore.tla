----------------------------- MODULE TaskStore -----------------------------
(***************************************************************************)
(* The Redis-backed task store, src/task_queue/store.py.                   *)
(*                                                                         *)
(* Three families of keys; each operator below is one Redis command, so    *)
(* that the callers of save() and async_update() can be interleaved        *)
(* between any two of the commands those methods await.                    *)
(***************************************************************************)
EXTENDS TaskModel

VARIABLES
    record,    \* cio:task:{id}             -> serialised Task, or None
    members,   \* cio:project:{name}:tasks  -> set of task ids
    digest     \* cio:task:digest:{sha256}  -> task id, or None

storeVars == <<record, members, digest>>

\* sha256 over project name and requirement, taken as injective.
DigestKey == Project \X Requirement
KeyOf(task) == <<task.project, task.requirement>>

StoreInit ==
    /\ record = [t \in TaskId |-> None]
    /\ members = [p \in Project |-> {}]
    /\ digest = [k \in DigestKey |-> None]

StoreTypeOK ==
    /\ record \in [TaskId -> Task \cup {None}]
    /\ members \in [Project -> SUBSET TaskId]
    /\ digest \in [DigestKey -> TaskId \cup {None}]

Exists(t) == record[t] # None
Active(t) == Exists(t) /\ ~IsTerminal(record[t])

\* SET key payload
SetRecord(task) == record' = [record EXCEPT ![task.id] = task]

\* SET key payload NX; a taken id raises ValueError, which uuid4 ids rule out.
SetRecordNX(task) == ~Exists(task.id) /\ SetRecord(task)

\* SADD cio:project:{name}:tasks
AddMember(task) ==
    members' = [members EXCEPT ![task.project] = @ \cup {task.id}]

\* SET and DEL of the digest key.  DEL is unconditional: it does not look
\* at which task the key names.
SetDigest(task) == digest' = [digest EXCEPT ![KeyOf(task)] = task.id]
DeleteDigest(task) == digest' = [digest EXCEPT ![KeyOf(task)] = None]

\* Mutants of ClearsDigest: a failed task keeps its digest; an interrupted
\* task loses it.
ClearsDigestOnSuccess(task) == task.status = "success" /\ task.requirement # Blank
ClearsDigestWhenIdle(task) ==
    (IsTerminal(task) \/ task.status = "interrupted") /\ task.requirement # Blank

\* async_update() deletes the digest of a terminal task, unless its
\* requirement is empty.
ClearsDigest(task) == IsTerminal(task) /\ task.requirement # Blank

\* find_incomplete() over the ids that SMEMBERS returned.
Incomplete(ids) ==
    {t \in ids : Exists(t) /\ record[t].status \in {"pending", "running"}}

\* GET of the digest key; no key is ever written for an empty requirement.
DigestOwner(p, r) == IF r = Blank THEN None ELSE digest[<<p, r>>]
=============================================================================
