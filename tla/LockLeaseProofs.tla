--------------------------- MODULE LockLeaseProofs ---------------------------
(***************************************************************************)
(* The lease keeps its promise for any TTL, any interval and any delay     *)
(* with Interval + 2 * MaxLag < TTL, and any number of workers.            *)
(***************************************************************************)
EXTENDS LockLease, TLAPS

\* A token belongs to a worker that is executing a task of that project.
Owned ==
    \A p \in Project : lock[p] \in Workers =>
        phase[lock[p]] # "idle" /\ at[lock[p]] = p

\* The key of a punctual worker outlasts the time until its next command.
Fresh ==
    \A w \in Workers \ Unreliable :
        /\ phase[w] = "locked" =>
            /\ heart[w] = "beating" /\ lock[at[w]] = w
            /\ left[at[w]] >= due[w] + TTL - (Interval + MaxLag)
        /\ phase[w] = "finally" =>
            /\ lock[at[w]] = w
            /\ left[at[w]] >= due[w] + TTL - (Interval + 2 * MaxLag)

LeaseInvariant == LeaseTypeOK /\ Owned /\ Fresh

LEMMA LeaseStep ==
    ASSUME LeaseInvariant, LeaseNext
    PROVE  LeaseInvariant'
<1> USE LeaseAssumption
    DEF LeaseInvariant, LeaseTypeOK, Lock!LockTypeOK, Owned, Fresh
<1>1. CASE Tick
  BY <1>1 DEF Tick, Awaited
<1>2. ASSUME NEW p \in Project, Expire(p) PROVE LeaseInvariant'
  BY <1>2 DEF Expire
<1>3. ASSUME NEW w \in Workers, NEW p \in Project, Acquire(w, p) PROVE LeaseInvariant'
  BY <1>3 DEF Acquire, Lock!AcquireLock
<1>4. ASSUME NEW w \in Workers, Refresh(w) PROVE LeaseInvariant'
  BY <1>4 DEF Refresh, BeatDue
<1>5. ASSUME NEW w \in Workers, FindStolen(w) PROVE LeaseInvariant'
  BY <1>5 DEF FindStolen, BeatDue
<1>6. ASSUME NEW w \in Workers, RefreshFails(w) PROVE LeaseInvariant'
  BY <1>6 DEF RefreshFails, BeatDue
<1>7. ASSUME NEW w \in Workers, Finish(w) PROVE LeaseInvariant'
  BY <1>7 DEF Finish
<1>8. ASSUME NEW w \in Workers, Release(w) PROVE LeaseInvariant'
  BY <1>8 DEF Release, Idles, Lock!ReleaseLock
<1>9. ASSUME NEW w \in Workers, Vanish(w) PROVE LeaseInvariant'
  BY <1>9 DEF Vanish, Idles, Lock!AbandonLocks
<1>10. QED
  BY <1>1, <1>2, <1>3, <1>4, <1>5, <1>6, <1>7, <1>8, <1>9 DEF LeaseNext

LEMMA LeaseAlways == LeaseSpec => []LeaseInvariant
<1>1. LeaseInit => LeaseInvariant
  BY LeaseAssumption DEF LeaseInit, LeaseInvariant, LeaseTypeOK, Lock!LockTypeOK,
     Lock!LockInit, Owned, Fresh
<1>2. LeaseInvariant /\ [LeaseNext]_leaseVars => LeaseInvariant'
  <2>1. ASSUME LeaseInvariant, UNCHANGED leaseVars PROVE LeaseInvariant'
    BY <2>1 DEF LeaseInvariant, LeaseTypeOK, Lock!LockTypeOK, Owned, Fresh, leaseVars
  <2>2. QED
    BY <2>1, LeaseStep
<1>3. QED
  BY <1>1, <1>2, PTL DEF LeaseSpec

\* Type correctness of the lock with its clock. (worker.py 85-141)
THEOREM LeaseTyped == LeaseSpec => []LeaseTypeOK
<1>1. LeaseInvariant => LeaseTypeOK
  BY DEF LeaseInvariant
<1>2. QED
  BY <1>1, LeaseAlways, PTL

\* A heartbeat that is punctual keeps the lock under its worker for the whole
\* run, whatever the workers of other processes do.
\* (worker.py 125-141; worker_locks.py 24-57)
THEOREM PunctualHeartsHold == LeaseSpec => []LeaseHeld
<1>1. LeaseInvariant => LeaseHeld
  BY DEF LeaseInvariant, Fresh, LeaseHeld
<1>2. QED
  BY <1>1, LeaseAlways, PTL

\* The key with its TTL and its heartbeat implements ProjectLock; with no
\* unreliable process it implements the one that never lapses, which is what
\* module Worker builds on. (worker_locks.py 24-57; worker.py 85-141)
THEOREM LeaseRefinesLock == LeaseSpec => ImplementsProjectLock
<1>1. LeaseInit => Lock!LockInit
  BY DEF LeaseInit
<1>2. ASSUME LeaseInvariant, LeaseNext
      PROVE  Lock!LockNext \/ UNCHANGED lock
  <2> USE LeaseAssumption, <1>2
      DEF LeaseInvariant, LeaseTypeOK, Lock!LockTypeOK, Owned, Fresh
  <2>1. ASSUME NEW p \in Project, Expire(p) PROVE Lock!LockNext
    <3>1. CASE lock[p] = "stale"
      BY <2>1, <3>1 DEF Expire, Lock!LockNext, Lock!ExpireStale
    <3>2. CASE lock[p] \in Workers
      <4>1. lock[p] \in Unreliable
        BY <2>1, <3>2 DEF Expire
      <4>2. QED
        BY <2>1, <3>2, <4>1 DEF Expire, Lock!LockNext, Lock!Lapse
    <3>3. QED
      BY <2>1, <3>1, <3>2 DEF Expire
  <2>2. ASSUME NEW w \in Workers, NEW p \in Project, Acquire(w, p) PROVE Lock!LockNext
    BY <2>2 DEF Acquire, Lock!LockNext
  <2>3. ASSUME NEW w \in Workers, Release(w) PROVE Lock!LockNext
    BY <2>3 DEF Release, Lock!LockNext
  <2>4. ASSUME NEW w \in Workers, Vanish(w) PROVE Lock!LockNext
    BY <2>4 DEF Vanish, Lock!LockNext
  <2>5. ASSUME NEW w \in Workers, Refresh(w) \/ FindStolen(w) \/ RefreshFails(w) \/ Finish(w)
        PROVE  UNCHANGED lock
    BY <2>5 DEF Refresh, FindStolen, RefreshFails, Finish
  <2>6. CASE Tick
    BY <2>6 DEF Tick
  <2>7. QED
    BY <2>1, <2>2, <2>3, <2>4, <2>5, <2>6 DEF LeaseNext
<1>3. LeaseInvariant /\ [LeaseNext]_leaseVars => [Lock!LockNext]_lock
  BY <1>2 DEF leaseVars
<1>4. QED
  BY <1>1, <1>3, LeaseAlways, PTL DEF LeaseSpec, ImplementsProjectLock, Lock!LockSpec
=============================================================================
