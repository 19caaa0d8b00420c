----------------------------- MODULE TaskQueue -----------------------------
(***************************************************************************)
(* The Redis list cio:queue:tasks of src/task_queue/queue.py: LPUSH on the *)
(* left, BRPOP on the right.  An entry is the whole task as it was when it *)
(* was pushed; nothing refreshes it from the store when it is popped.      *)
(***************************************************************************)
EXTENDS TaskModel

VARIABLE queue

QueueInit == queue = <<>>
QueueTypeOK == queue \in Seq(Task)

Enqueue(task) == queue' = Append(queue, task)
Dequeue == queue # <<>> /\ queue' = Tail(queue)      \* of Head(queue)

Queued(t) == \E i \in 1 .. Len(queue) : queue[i].id = t
Entries(t) == {i \in 1 .. Len(queue) : queue[i].id = t}
=============================================================================
