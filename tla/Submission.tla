----------------------------- MODULE Submission -----------------------------
(***************************************************************************)
(* POST /tasks: create_task of src/api.py with the store and queue methods *)
(* it awaits.  Every action is one Redis round trip, so handlers of        *)
(* concurrent requests interleave between them on the event loop.          *)
(***************************************************************************)
EXTENDS TaskStore, TaskQueue

CONSTANT Clients    \* request handlers that can be in progress at once

VARIABLES
    at,       \* the await at which each handler is suspended
    body,     \* <<project, requirement>> of the request
    seen,     \* ids returned by SMEMBERS
    draft     \* the Task object being created

submissionVars == <<at, body, seen, draft>>

AwaitPoint == {"idle", "scan", "digest", "save", "member", "index", "push"}
Body == Project \X (Requirement \cup {Blank})

SubmissionInit ==
    /\ at = [c \in Clients |-> "idle"]
    /\ body = [c \in Clients |-> None]
    /\ seen = [c \in Clients |-> {}]
    /\ draft = [c \in Clients |-> None]

SubmissionTypeOK ==
    /\ at \in [Clients -> AwaitPoint]
    /\ body \in [Clients -> Body \cup {None}]
    /\ seen \in [Clients -> SUBSET TaskId]
    /\ draft \in [Clients -> Task \cup {None}]

\* uuid4: an id no stored task and no other request has.
FreshId(t) ==
    ~Exists(t) /\ \A c \in Clients : draft[c] # None => draft[c].id # t

GoTo(c, point) == at' = [at EXCEPT ![c] = point]

\* The handler returns its response and forgets its locals.
Respond(c) ==
    /\ GoTo(c, "idle")
    /\ body' = [body EXCEPT ![c] = None]
    /\ seen' = [seen EXCEPT ![c] = {}]
    /\ draft' = [draft EXCEPT ![c] = None]

\* find_incomplete: SMEMBERS of the project.
ReadMembers(c) ==
    /\ at[c] = "idle"
    /\ \E b \in Body :
        /\ body' = [body EXCEPT ![c] = b]
        /\ seen' = [seen EXCEPT ![c] = members[b[1]]]
    /\ GoTo(c, "scan")
    /\ UNCHANGED <<draft, queue, storeVars>>

\* find_incomplete: the pipelined GETs find a pending or running task.
AnswerIncomplete(c) ==
    /\ at[c] = "scan" /\ Incomplete(seen[c]) # {}
    /\ Respond(c)
    /\ UNCHANGED <<queue, storeVars>>

NoIncomplete(c) ==
    /\ at[c] = "scan" /\ Incomplete(seen[c]) = {}
    /\ GoTo(c, "digest")
    /\ seen' = [seen EXCEPT ![c] = {}]
    /\ UNCHANGED <<body, draft, queue, storeVars>>

\* find_by_digest finds a task (records are never deleted, so its GET of
\* the task succeeds).
AnswerDigest(c) ==
    /\ at[c] = "digest" /\ DigestOwner(body[c][1], body[c][2]) # None
    /\ Respond(c)
    /\ UNCHANGED <<queue, storeVars>>

\* No duplicate: a new Task object with a fresh id.
CreateTask(c) ==
    /\ at[c] = "digest" /\ DigestOwner(body[c][1], body[c][2]) = None
    /\ \E t \in TaskId :
        /\ FreshId(t)
        /\ draft' = [draft EXCEPT ![c] = NewTask(t, body[c][1], body[c][2])]
    /\ body' = [body EXCEPT ![c] = None]
    /\ GoTo(c, "save")
    /\ UNCHANGED <<seen, queue, storeVars>>

\* Bound: TaskId has no id left, and the request is turned away.
TurnAway(c) ==
    /\ at[c] = "digest" /\ DigestOwner(body[c][1], body[c][2]) = None
    /\ ~\E t \in TaskId : FreshId(t)
    /\ Respond(c)
    /\ UNCHANGED <<queue, storeVars>>

\* save: SET NX, then SADD, then SET of the digest (skipped when the
\* requirement is empty).
SaveRecord(c) ==
    /\ at[c] = "save"
    /\ SetRecordNX(draft[c])
    /\ GoTo(c, "member")
    /\ UNCHANGED <<body, seen, draft, queue, members, digest>>

SaveMember(c) ==
    /\ at[c] = "member"
    /\ AddMember(draft[c])
    /\ GoTo(c, IF draft[c].requirement = Blank THEN "push" ELSE "index")
    /\ UNCHANGED <<body, seen, draft, queue, record, digest>>

SaveDigest(c) ==
    /\ at[c] = "index"
    /\ SetDigest(draft[c])
    /\ GoTo(c, "push")
    /\ UNCHANGED <<body, seen, draft, queue, record, members>>

\* queue.enqueue: LPUSH, then the 202 response.
PushTask(c) ==
    /\ at[c] = "push"
    /\ Enqueue(draft[c])
    /\ Respond(c)
    /\ UNCHANGED storeVars

\* A command on Redis raises: the client gets a 500, and what the commands
\* before it have done stays.
RequestFails(c) ==
    /\ at[c] # "idle"
    /\ Respond(c)
    /\ UNCHANGED <<queue, storeVars>>

\* A request whose handler is already past its first await.
ContinueRequest(c) ==
    \/ AnswerIncomplete(c) \/ NoIncomplete(c)
    \/ AnswerDigest(c) \/ CreateTask(c) \/ TurnAway(c)
    \/ SaveRecord(c) \/ SaveMember(c) \/ SaveDigest(c) \/ PushTask(c)

\* Every handler is gone with the process.
DropRequests ==
    /\ at' = [c \in Clients |-> "idle"]
    /\ body' = [c \in Clients |-> None]
    /\ seen' = [c \in Clients |-> {}]
    /\ draft' = [c \in Clients |-> None]
=============================================================================
