----------------------------- MODULE LockLease -----------------------------
(***************************************************************************)
(* The project lock with its clock: the TTL of the key cio:lock:{project}, *)
(* the heartbeat that re-arms it as an asyncio task of its own             *)
(* (_heartbeat of src/worker.py, _refresh_lock of src/worker_locks.py),    *)
(* and what _execute does when either of them fails.  Module ProjectLock   *)
(* leaves all of this to one constant; this module implements it.          *)
(*                                                                         *)
(* A command of a worker takes effect on the Redis server at most MaxLag   *)
(* after it was due: timer, event loop and network together.  The workers  *)
(* in Unreliable belong to processes without that guarantee, whose event   *)
(* loop may stall and whose commands may fail; the lock is taken by all.   *)
(***************************************************************************)
EXTENDS Naturals

CONSTANTS
    Workers, Project,
    Unreliable,      \* workers whose commands may be late or fail
    TTL,             \* settings.lock_ttl
    Interval,        \* settings.lock_heartbeat_interval
    MaxLag,          \* delay of a command of the other workers
    None

ASSUME LeaseAssumption ==
    /\ "free" \notin Workers /\ "stale" \notin Workers
    /\ Unreliable \subseteq Workers
    /\ None \notin Project
    /\ TTL \in Nat /\ Interval \in Nat /\ MaxLag \in Nat
    /\ Interval + 2 * MaxLag < TTL

VARIABLES
    lock,      \* the token stored, as in ProjectLock
    left,      \* the remaining TTL of the key
    phase,     \* where each worker is in _execute
    at,        \* the project it works on
    heart,     \* its heartbeat task
    due        \* time until its next command, at the latest

leaseVars == <<lock, left, phase, at, heart, due>>

Lock == INSTANCE ProjectLock WITH
    LockMayLapse <- Unreliable # {},
    TaskId <- {}, Requirement <- {}, Blank <- None, MaxRetries <- 0

LeaseInit ==
    /\ Lock!LockInit
    /\ left = [p \in Project |-> 0]
    /\ phase = [w \in Workers |-> "idle"]
    /\ at = [w \in Workers |-> None]
    /\ heart = [w \in Workers |-> "off"]
    /\ due = [w \in Workers |-> 0]

LeaseTypeOK ==
    /\ Lock!LockTypeOK
    /\ left \in [Project -> 0 .. TTL]
    /\ phase \in [Workers -> {"idle", "locked", "finally"}]
    /\ at \in [Workers -> Project \cup {None}]
    /\ heart \in [Workers -> {"off", "beating", "stolen", "failed"}]
    /\ due \in [Workers -> 0 .. Interval + MaxLag]
    /\ \A w \in Workers : phase[w] = "idle" <=> at[w] = None

-----------------------------------------------------------------------------
\* Mutant of Acquire: SET without NX.
AcquireBlindly(w, p) ==
    /\ phase[w] = "idle"
    /\ lock' = [lock EXCEPT ![p] = w]
    /\ left' = [left EXCEPT ![p] = TTL]
    /\ phase' = [phase EXCEPT ![w] = "locked"]
    /\ at' = [at EXCEPT ![w] = p]
    /\ heart' = [heart EXCEPT ![w] = "beating"]
    /\ due' = [due EXCEPT ![w] = Interval + MaxLag]

\* _acquire_lock succeeds and the heartbeat is started, which sleeps first.
\* (A lock that is held sends the task back to the queue.)
Acquire(w, p) ==
    /\ phase[w] = "idle"
    /\ Lock!AcquireLock(p, w)
    /\ left' = [left EXCEPT ![p] = TTL]
    /\ phase' = [phase EXCEPT ![w] = "locked"]
    /\ at' = [at EXCEPT ![w] = p]
    /\ heart' = [heart EXCEPT ![w] = "beating"]
    /\ due' = [due EXCEPT ![w] = Interval + MaxLag]

\* The sleep of the heartbeat is over.
BeatDue(w) == phase[w] = "locked" /\ heart[w] = "beating" /\ due[w] <= MaxLag

\* Mutants of Refresh: EXPIRE is forgotten; the token is not compared; the
\* TTL is added to what is left.
RefreshNothing(w) ==
    /\ BeatDue(w) /\ lock[at[w]] = w
    /\ due' = [due EXCEPT ![w] = Interval + MaxLag]
    /\ UNCHANGED <<lock, left, phase, at, heart>>
RefreshAnyKey(w) ==
    /\ BeatDue(w) /\ lock[at[w]] # "free"
    /\ left' = [left EXCEPT ![at[w]] = TTL]
    /\ due' = [due EXCEPT ![w] = Interval + MaxLag]
    /\ UNCHANGED <<lock, phase, at, heart>>

RefreshByAdding(w) ==
    /\ BeatDue(w) /\ lock[at[w]] = w
    /\ left' = [left EXCEPT ![at[w]] = @ + TTL]
    /\ due' = [due EXCEPT ![w] = Interval + MaxLag]
    /\ UNCHANGED <<lock, phase, at, heart>>

\* _refresh_lock finds its token and re-arms the key, ...
Refresh(w) ==
    /\ BeatDue(w) /\ lock[at[w]] = w
    /\ left' = [left EXCEPT ![at[w]] = TTL]
    /\ due' = [due EXCEPT ![w] = Interval + MaxLag]
    /\ UNCHANGED <<lock, phase, at, heart>>

\* ... or another one, or none: LockStolenError, which ends the heartbeat
\* task and stays in it, because nothing awaits the task until the end, ...
FindStolen(w) ==
    /\ BeatDue(w) /\ lock[at[w]] # w
    /\ heart' = [heart EXCEPT ![w] = "stolen"]
    /\ UNCHANGED <<lock, left, phase, at, due>>

\* ... or the command fails, with the same effect.
RefreshFails(w) ==
    /\ BeatDue(w) /\ w \in Unreliable
    /\ heart' = [heart EXCEPT ![w] = "failed"]
    /\ UNCHANGED <<lock, left, phase, at, due>>

\* _run_locked is over, whatever became of the heartbeat: it is cancelled,
\* awaited, and its exception dropped.
Finish(w) ==
    /\ phase[w] = "locked"
    /\ phase' = [phase EXCEPT ![w] = "finally"]
    /\ heart' = [heart EXCEPT ![w] = "off"]
    /\ due' = [due EXCEPT ![w] = MaxLag]
    /\ UNCHANGED <<lock, left, at>>

\* The worker has nothing in hand any more.
Idles(w) ==
    /\ phase' = [phase EXCEPT ![w] = "idle"]
    /\ at' = [at EXCEPT ![w] = None]
    /\ heart' = [heart EXCEPT ![w] = "off"]
    /\ due' = [due EXCEPT ![w] = 0]

\* _release_lock.
Release(w) ==
    /\ phase[w] = "finally"
    /\ Lock!ReleaseLock(at[w], w)
    /\ left' = [left EXCEPT ![at[w]] = IF lock[at[w]] = w THEN 0 ELSE @]
    /\ Idles(w)

\* The process of the worker is killed, or _release_lock fails; another
\* worker takes its place.
Vanish(w) ==
    /\ phase[w] # "idle"
    /\ Lock!AbandonLocks({w})
    /\ Idles(w)
    /\ UNCHANGED left

-----------------------------------------------------------------------------
\* Redis deletes a key at the moment its time is up; until then, and until
\* the commands that are due have been executed, time may pass.
Expire(p) ==
    /\ lock[p] # "free" /\ left[p] = 0
    /\ lock' = [lock EXCEPT ![p] = "free"]
    /\ UNCHANGED <<left, phase, at, heart, due>>

Awaited(w) ==
    /\ w \notin Unreliable
    /\ (phase[w] = "locked" /\ heart[w] = "beating") \/ phase[w] = "finally"

Tick ==
    /\ \A p \in Project : lock[p] # "free" => left[p] > 0
    /\ \A w \in Workers : Awaited(w) => due[w] > 0
    /\ left' = [p \in Project |-> IF left[p] > 0 THEN left[p] - 1 ELSE 0]
    /\ due' = [w \in Workers |-> IF due[w] > 0 THEN due[w] - 1 ELSE 0]
    /\ UNCHANGED <<lock, phase, at, heart>>

LeaseNext ==
    \/ Tick
    \/ \E p \in Project : Expire(p)
    \/ \E w \in Workers :
        \/ \E p \in Project : Acquire(w, p)
        \/ Refresh(w) \/ FindStolen(w) \/ RefreshFails(w)
        \/ Finish(w) \/ Release(w) \/ Vanish(w)

LeaseSpec == LeaseInit /\ [][LeaseNext]_leaseVars

(***************************************************************************)
(* Fairness: time passes, Redis deletes keys, a heartbeat that is due and  *)
(* a release that was sent come to pass.  No run of the engine need end.   *)
(***************************************************************************)
Due(w) == Refresh(w) \/ FindStolen(w) \/ Release(w)
LeaseFairSpec ==
    /\ LeaseSpec /\ WF_leaseVars(Tick)
    /\ \A p \in Project : WF_leaseVars(Expire(p))
    /\ \A w \in Workers : WF_leaseVars(Due(w))

-----------------------------------------------------------------------------
\* A worker of a punctual process holds its lock for as long as it executes
\* its task, whatever workers of other processes do: stall, lose their
\* connection, die, or release what they no longer hold.
\* (worker.py 125-141; worker_locks.py 24-57; config.py 39-49)
LeaseHeld ==
    \A w \in Workers \ Unreliable : phase[w] = "locked" => lock[at[w]] = w

\* The key with its clock is a ProjectLock, which never lapses under its
\* holder if every process is punctual. (worker_locks.py 24-57)
ImplementsProjectLock == Lock!LockSpec

\* A key whose owner has vanished, or executes on with a dead heartbeat,
\* does not block the project for ever. (worker_locks.py 24-32)
DeadLocksLapse ==
    \A p \in Project :
        lock[p] = "stale" \/ (\E w \in Workers : lock[p] = w /\ heart[w] = "failed")
            ~> lock[p] = "free"
=============================================================================
