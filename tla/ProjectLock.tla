---------------------------- MODULE ProjectLock ----------------------------
(***************************************************************************)
(* The per-project lock of src/worker_locks.py: key cio:lock:{project},    *)
(* value the token of one acquisition.  A worker has at most one           *)
(* acquisition in flight, so its name stands for the token; the token of a *)
(* worker that no longer exists is "stale".                                *)
(*                                                                         *)
(* Time is abstract.  A held key keeps its TTL because the heartbeat of    *)
(* the holder re-arms it; LockMayLapse says whether the heartbeat may be   *)
(* so late that the key expires under a live holder.                       *)
(***************************************************************************)
EXTENDS TaskModel

CONSTANTS Workers, LockMayLapse

ASSUME LockAssumption ==
    /\ "free" \notin Workers
    /\ "stale" \notin Workers
    /\ LockMayLapse \in BOOLEAN

VARIABLE lock

LockInit == lock = [p \in Project |-> "free"]
LockTypeOK == lock \in [Project -> Workers \cup {"free", "stale"}]

\* Mutant of AcquireLock: SET without NX.
AcquireAnyLock(p, w) == lock' = [lock EXCEPT ![p] = w]

\* SET key token NX EX ttl
AcquireLock(p, w) == lock[p] = "free" /\ lock' = [lock EXCEPT ![p] = w]
LockIsHeld(p) == lock[p] # "free"

\* Mutants of ReleaseLock: DEL without the comparison of tokens, and SET of
\* an empty value in its place.
ReleaseAnyLock(p, w) == lock' = [lock EXCEPT ![p] = "free"]
BlankLock(p, w) == lock' = [lock EXCEPT ![p] = IF @ = w THEN None ELSE @]

\* Lua compare-and-delete: only the token that is stored is deleted.
ReleaseLock(p, w) ==
    lock' = [lock EXCEPT ![p] = IF @ = w THEN "free" ELSE @]

\* The workers in W are gone; nothing refreshes or deletes their keys.
AbandonLocks(W) ==
    lock' = [p \in Project |-> IF lock[p] \in W THEN "stale" ELSE lock[p]]

\* Redis expires the key: of a vanished holder, or of a live one.
ExpireStale(p) == lock[p] = "stale" /\ lock' = [lock EXCEPT ![p] = "free"]
Lapse(p) ==
    LockMayLapse /\ lock[p] \in Workers /\ lock' = [lock EXCEPT ![p] = "free"]

\* What the lock promises to the workers; module LockLease shows that the
\* key with its TTL and its heartbeat keeps it.
LockNext ==
    \/ \E p \in Project :
        \/ ExpireStale(p) \/ Lapse(p)
        \/ \E w \in Workers : AcquireLock(p, w) \/ ReleaseLock(p, w)
    \/ \E W \in SUBSET Workers : AbandonLocks(W)

LockSpec == LockInit /\ [][LockNext]_lock
=============================================================================
