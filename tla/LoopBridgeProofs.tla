-------------------------- MODULE LoopBridgeProofs --------------------------
(***************************************************************************)
(* What any number of calls over the bridge can and cannot achieve.        *)
(***************************************************************************)
EXTENDS LoopBridge, TLAPS

\* A call that is blocked sits on the loop's thread, so its coroutine has
\* not been started; one that has been started belongs to a call that failed.
Deadlocked ==
    \A k \in Callers :
        /\ caller[k] = "blocked" => loop = k /\ coro[k] = "submitted"
        /\ coro[k] # "none" => caller[k] \in {"blocked", "timed out"}

BridgeInvariant ==
    BridgeTypeOK /\ Deadlocked /\ NoCallReturns /\ WriteAfterFailure

LEMMA BridgeStepInvariant ==
    ASSUME BridgeInvariant, NEW k \in Callers, BridgeStep(k)
    PROVE  BridgeInvariant'
<1> USE BridgeAssumption DEF BridgeInvariant, BridgeTypeOK, Deadlocked,
        NoCallReturns, WriteAfterFailure, Callers, CallerState, CoroState, Now
<1>1. CASE CallFromLoop(k)
  BY <1>1 DEF CallFromLoop
<1>2. CASE CallFromThread(k)
  BY <1>2 DEF CallFromThread
<1>3. CASE BeginCoroutine(k)
  BY <1>3 DEF BeginCoroutine
<1>4. CASE EndCoroutine(k)
  BY <1>4 DEF EndCoroutine
<1>5. CASE WaitEnds(k)
  BY <1>5 DEF WaitEnds, Outcome, LeaveLoopThread
<1>6. QED
  BY <1>1, <1>2, <1>3, <1>4, <1>5 DEF BridgeStep

LEMMA BridgeAlways == BridgeSpec => []BridgeInvariant
<1>1. BridgeInit => BridgeInvariant
  BY DEF BridgeInit, BridgeInvariant, BridgeTypeOK, Deadlocked, NoCallReturns,
     WriteAfterFailure, CallerState, CoroState
<1>2. BridgeInvariant /\ [BridgeNext]_bridgeVars => BridgeInvariant'
  <2>1. ASSUME BridgeInvariant, UNCHANGED bridgeVars PROVE BridgeInvariant'
    BY <2>1 DEF BridgeInvariant, BridgeTypeOK, Deadlocked, NoCallReturns,
       WriteAfterFailure, bridgeVars
  <2>2. QED
    BY <2>1, BridgeStepInvariant DEF BridgeNext
<1>3. QED
  BY <1>1, <1>2, PTL DEF BridgeSpec

\* Type correctness; in particular no call from an executor thread ever
\* occupies the loop. (store.py 103-112; worker.py 256-261)
THEOREM BridgeTyped == BridgeSpec => []BridgeTypeOK
<1>1. BridgeInvariant => BridgeTypeOK
  BY DEF BridgeInvariant
<1>2. QED
  BY <1>1, BridgeAlways, PTL

\* However many workers and executor threads there are, no update() of a
\* worker and no publication of _consume_sync ever gets its result.
\* (store.py 103-112; worker.py 256-261)
THEOREM BridgeNeverAnswers == BridgeSpec => []NoCallReturns
<1>1. BridgeInvariant => NoCallReturns
  BY DEF BridgeInvariant
<1>2. QED
  BY <1>1, BridgeAlways, PTL

\* The record changes only after its writer has been told that the write
\* failed. (store.py 111-122)
THEOREM WritesComeLate == BridgeSpec => []WriteAfterFailure
<1>1. BridgeInvariant => WriteAfterFailure
  BY DEF BridgeInvariant
<1>2. QED
  BY <1>1, BridgeAlways, PTL
=============================================================================
