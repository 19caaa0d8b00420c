----------------------------- MODULE LoopBridge -----------------------------
(***************************************************************************)
(* How the program crosses between synchronous code and the event loop:    *)
(* TaskStore.update() of src/task_queue/store.py and _consume_sync of      *)
(* src/worker.py.  Both take asyncio.get_running_loop(), hand a coroutine  *)
(* to that loop with run_coroutine_threadsafe, and block their own thread  *)
(* on the result for at most five seconds.                                 *)
(*                                                                         *)
(* The event loop is external: one thread, which runs one callback at a    *)
(* time, and a coroutine only between the callbacks that block.  A call is *)
(* made either from a coroutine, on the loop's thread (every update() of a *)
(* worker), or from a thread of the executor (_consume_sync).              *)
(***************************************************************************)
EXTENDS Naturals, FiniteSets

CONSTANTS
    LoopCallers,     \* calls made by coroutines of the loop
    ThreadCallers,   \* calls made in executor threads
    Nobody           \* the loop thread is between two callbacks

Callers == LoopCallers \cup ThreadCallers

ASSUME BridgeAssumption ==
    LoopCallers \cap ThreadCallers = {} /\ Nobody \notin Callers

VARIABLES
    caller,    \* progress of each call
    coro,      \* progress of the coroutine it submitted
    loop       \* the call whose coroutine occupies the loop thread

bridgeVars == <<caller, coro, loop>>

CallerState == {"before", "blocked", "timed out", "no loop", "returned"}
CoroState == {"none", "submitted", "awaiting", "done"}

BridgeInit ==
    /\ caller = [k \in Callers |-> "before"]
    /\ coro = [k \in Callers |-> "none"]
    /\ loop = Nobody

BridgeTypeOK ==
    /\ caller \in [Callers -> CallerState]
    /\ coro \in [Callers -> CoroState]
    /\ loop \in LoopCallers \cup {Nobody}

Now(k, state) == caller' = [caller EXCEPT ![k] = state]

\* Mutant of CallFromLoop: a call from any thread occupies the loop.
CallFromAnyThread(k) ==
    /\ caller[k] = "before" /\ loop = Nobody
    /\ Now(k, "blocked")
    /\ coro' = [coro EXCEPT ![k] = "submitted"]
    /\ loop' = k

\* get_running_loop() answers with the loop only in the loop's own thread;
\* the coroutine is submitted and the thread blocks in future.result().
CallFromLoop(k) ==
    /\ k \in LoopCallers /\ caller[k] = "before" /\ loop = Nobody
    /\ Now(k, "blocked")
    /\ coro' = [coro EXCEPT ![k] = "submitted"]
    /\ loop' = k

\* Mutant of CallFromThread: the loop is known to the thread.
CallWithLoop(k) ==
    /\ k \in ThreadCallers /\ caller[k] = "before"
    /\ Now(k, "blocked")
    /\ coro' = [coro EXCEPT ![k] = "submitted"]
    /\ UNCHANGED loop

\* In an executor thread get_running_loop() raises RuntimeError.
CallFromThread(k) ==
    /\ k \in ThreadCallers /\ caller[k] = "before"
    /\ Now(k, "no loop")
    /\ UNCHANGED <<coro, loop>>

\* The loop starts the coroutine, which awaits its Redis command ...
BeginCoroutine(k) ==
    /\ loop = Nobody /\ coro[k] = "submitted"
    /\ coro' = [coro EXCEPT ![k] = "awaiting"]
    /\ UNCHANGED <<caller, loop>>

\* ... and resumes it with the reply; this sets the result of the future.
EndCoroutine(k) ==
    /\ loop = Nobody /\ coro[k] = "awaiting"
    /\ coro' = [coro EXCEPT ![k] = "done"]
    /\ UNCHANGED <<caller, loop>>

LeaveLoopThread(k) == loop' = IF loop = k THEN Nobody ELSE loop

\* What future.result(timeout=5) does: return, or raise TimeoutError.
Outcome(k) == IF coro[k] = "done" THEN "returned" ELSE "timed out"

\* Mutant of WaitEnds: the coroutine is cancelled with the future.
WaitEndsForBoth(k) ==
    /\ caller[k] = "blocked"
    /\ Now(k, Outcome(k))
    /\ LeaveLoopThread(k)
    /\ coro' = [coro EXCEPT ![k] = IF @ = "done" THEN @ ELSE "none"]

\* The wait is over, because there is a result or after five seconds.  A
\* coroutine that has not finished is not cancelled by that.
WaitEnds(k) ==
    /\ caller[k] = "blocked"
    /\ Now(k, Outcome(k))
    /\ LeaveLoopThread(k)
    /\ UNCHANGED coro

BridgeStep(k) ==
    \/ CallFromLoop(k) \/ CallFromThread(k)
    \/ BeginCoroutine(k) \/ EndCoroutine(k) \/ WaitEnds(k)

BridgeDone == \A k \in Callers : caller[k] \notin {"before", "blocked"} /\ coro[k] \in {"none", "done"}

BridgeNext ==
    \/ \E k \in Callers : BridgeStep(k)
    \/ BridgeDone /\ UNCHANGED bridgeVars

BridgeSpec == BridgeInit /\ [][BridgeNext]_bridgeVars

\* The loop runs what is ready and the clock runs: every call makes progress.
BridgeFairSpec == BridgeSpec /\ \A k \in Callers : WF_bridgeVars(BridgeStep(k))

-----------------------------------------------------------------------------
\* No call over the bridge ever gets its result: on the loop's thread it
\* waits for a coroutine that needs this thread, elsewhere it finds no loop.
\* This is what BridgeWorks = FALSE of module Worker stands for.
\* (store.py 110-112; worker.py 257-261)
NoCallReturns == \A k \in Callers : caller[k] # "returned"

\* A record is never written before update() has already failed in its
\* caller. (store.py 111-122)
WriteAfterFailure ==
    \A k \in Callers : coro[k] \in {"awaiting", "done"} => caller[k] = "timed out"

\* The write of an update() that timed out is nevertheless applied, unless
\* the process ends first. (store.py 114-122)
LateWriteHappens ==
    \A k \in Callers : caller[k] = "timed out" ~> coro[k] = "done"
=============================================================================
