-------------------------- MODULE EventStreamProofs --------------------------
(***************************************************************************)
(* What any number of streams on one task can rely on.                     *)
(***************************************************************************)
EXTENDS EventStream, TLAPS

\* Once the worker is through with the task, its DONE ends the log as far as
\* those who subscribed before are concerned: they have it ahead, or have
\* stopped at it or earlier.
CutOff ==
    stage = "over" =>
        /\ letGo \in 1 .. Len(log) /\ log[letGo] = "done"
        /\ \A s \in Streams : early[s] =>
               /\ pos[s] <= letGo + 1
               /\ sse[s] = "listening" => pos[s] <= letGo

EventInvariant == EventTypeOK /\ CutOff

\* A published message is the last of the log and moves none of the others.
LEMMA PublishAppends ==
    ASSUME EventTypeOK, NEW message \in Message, Publish(message)
    PROVE  /\ log' \in Seq(Message)
           /\ Len(log') = Len(log) + 1
           /\ log'[Len(log) + 1] = message
           /\ \A i \in 1 .. Len(log) : log'[i] = log[i]
BY DEF EventTypeOK, Publish

\* So it comes after that DONE.
LEMMA PublishKeepsCut ==
    ASSUME EventTypeOK, CutOff, NEW message \in Message, Publish(message), stage' = stage,
           UNCHANGED <<pos, early, letGo>>,
           \A s \in Streams : sse'[s] = "listening" => sse[s] = "listening"
    PROVE  CutOff'
<1>1. /\ Len(log) \in Nat /\ Len(log') = Len(log) + 1
      /\ \A k \in 1 .. Len(log) : log'[k] = log[k]
  BY PublishAppends DEF EventTypeOK
<1>2. QED
  BY <1>1 DEF CutOff

LEMMA WorkerKeeps ==
    ASSUME EventInvariant,
           WorkerMoves \/ Emit \/ EmitFinal \/ OrphanEnds \/ PublishTimesOut \/ LatePublish
    PROVE  EventInvariant'
<1> USE EventAssumption DEF EventInvariant, EventTypeOK, Stage, streamSide
<1>1. CASE Begin
  BY <1>1 DEF CutOff, Begin
<1>2. CASE Refuse
  BY <1>2 DEF CutOff, Refuse
<1>3. CASE EndRun
  BY <1>3 DEF CutOff, EndRun
<1>4. CASE FailRun
  BY <1>4 DEF CutOff, FailRun
<1>5. CASE TimeOut
  BY <1>5 DEF CutOff, TimeOut
<1>6. CASE CloseForRetry
  <2>1. Publish("done") /\ "done" \in Message
    BY <1>6 DEF CloseForRetry, Message
  <2>2. QED
    BY <1>6, <2>1, PublishAppends DEF CutOff, CloseForRetry
<1>7. CASE Requeue
  BY <1>7 DEF CutOff, Requeue
<1>8. CASE Exhaust
  BY <1>8 DEF CutOff, Exhaust
<1>9. CASE Close
  <2>1. Publish("done") /\ "done" \in Message
    BY <1>9 DEF Close, Message
  <2>2. EventTypeOK'
    BY <1>9, <2>1, PublishAppends DEF Close
  <2>3. /\ letGo' = Len(log) + 1 /\ Len(log') = Len(log) + 1 /\ Len(log) \in Nat
        /\ log'[letGo'] = "done"
    BY <1>9, <2>1, PublishAppends DEF Close
  <2>4. \A s \in Streams : pos'[s] <= letGo'
    BY <1>9, <2>3 DEF Close
  <2>5. QED
    BY <2>2, <2>3, <2>4 DEF CutOff
<1>10. CASE Emit
  <2>1. Publish("event") /\ "event" \in Message
    BY <1>10 DEF Emit, Message
  <2>2. EventTypeOK'
    BY <1>10, <2>1, PublishAppends DEF Emit
  <2>3. stage' = stage /\ UNCHANGED <<sse, pos, early, letGo>>
    BY <1>10 DEF Emit
  <2>4. QED
    BY <2>1, <2>2, <2>3, PublishKeepsCut
<1>11. CASE EmitFinal
  <2>1. Publish("final") /\ "final" \in Message
    BY <1>11 DEF EmitFinal, Message
  <2>2. EventTypeOK'
    BY <1>11, <2>1, PublishAppends DEF EmitFinal
  <2>3. stage' = stage /\ UNCHANGED <<sse, pos, early, letGo>>
    BY <1>11 DEF EmitFinal
  <2>4. QED
    BY <2>1, <2>2, <2>3, PublishKeepsCut
<1>12. CASE OrphanEnds
  BY <1>12 DEF CutOff, OrphanEnds
<1>13. CASE PublishTimesOut
  <2>1. ended' \in BOOLEAN /\ said' \in BOOLEAN /\ orphan' \in BOOLEAN
    BY <1>13, Zenon DEF PublishTimesOut
  <2>2. /\ late' \in {"none", "event", "final"} /\ emitted' \in 0 .. MaxEvents
        /\ stage' \in Stage /\ (stage' = stage \/ stage' = "close")
        /\ UNCHANGED <<log, tries, letGo, sse, pos, early>>
    BY <1>13 DEF PublishTimesOut
  <2>3. QED
    BY <2>1, <2>2 DEF CutOff
<1>14. CASE LatePublish
  <2>1. Publish(late) /\ late \in Message
    BY <1>14 DEF LatePublish, Message
  <2>2. EventTypeOK'
    BY <1>14, <2>1, PublishAppends DEF LatePublish
  <2>3. stage' = stage /\ UNCHANGED <<sse, pos, early, letGo>>
    BY <1>14 DEF LatePublish
  <2>4. QED
    BY <2>1, <2>2, <2>3, PublishKeepsCut
<1>15. QED
  BY <1>1, <1>2, <1>3, <1>4, <1>5, <1>6, <1>7, <1>8, <1>9, <1>10, <1>11, <1>12, <1>13, <1>14
  DEF WorkerMoves, FinishRun

LEMMA StreamKeeps ==
    ASSUME EventInvariant, NEW s \in Streams,
           StreamMoves(s) \/ Check(s) \/ Keepalive(s) \/ Disconnect(s)
    PROVE  EventInvariant'
<1> USE EventAssumption DEF EventInvariant, EventTypeOK, CutOff, SseState,
        workerSide, Goes
<1>1. CASE Check(s)
  BY <1>1 DEF Check
<1>2. CASE Subscribe(s)
  <2>1. EventTypeOK'
    BY <1>2 DEF Subscribe
  <2>2. stage = "over" => ~early'[s]
    BY <1>2 DEF Subscribe
  <2>3. \A u \in Streams \ {s} : sse'[u] = sse[u] /\ pos'[u] = pos[u] /\ early'[u] = early[u]
    BY <1>2 DEF Subscribe
  <2>4. UNCHANGED <<log, stage, letGo>>
    BY <1>2 DEF Subscribe
  <2>5. QED
    BY <2>1, <2>2, <2>3, <2>4
<1>3. CASE RelayEvent(s)
  BY <1>3 DEF RelayEvent, Receives
<1>4. CASE RelayFinal(s)
  BY <1>4 DEF RelayFinal, Receives
<1>5. CASE StopAtDone(s)
  BY <1>5 DEF StopAtDone, Receives
<1>6. CASE Part(s)
  <2>1. Publish("done") /\ "done" \in Message
    BY <1>6 DEF Part, Message
  <2>2. EventTypeOK'
    BY <1>6, <2>1, PublishAppends DEF Part
  <2>3. /\ stage' = stage /\ UNCHANGED <<pos, early, letGo>>
        /\ \A u \in Streams : sse'[u] = "listening" => sse[u] = "listening"
    BY <1>6 DEF Part
  <2>4. CutOff'
    BY <2>1, <2>3, PublishKeepsCut
  <2>5. QED
    BY <2>2, <2>4
<1>7. CASE Keepalive(s)
  BY <1>7 DEF Keepalive, eventVars, streamSide
<1>8. CASE Disconnect(s)
  BY <1>8 DEF Disconnect
<1>9. QED
  BY <1>1, <1>2, <1>3, <1>4, <1>5, <1>6, <1>7, <1>8 DEF StreamMoves

LEMMA EventAlways == EventSpec => []EventInvariant
<1>1. EventInit => EventInvariant
  <2>1. EventInit => EventTypeOK
    <3>1. EventInit => log \in Seq(Message) /\ Len(log) = 0
      BY DEF EventInit
    <3>2. EventInit => early \in [Streams -> BOOLEAN]
      BY Zenon DEF EventInit
    <3>3. EventInit => /\ sse \in [Streams -> SseState]
                       /\ pos \in [Streams -> Nat \ {0}]
                       /\ \A s \in Streams : pos[s] = 1
      BY SMT DEF EventInit, SseState
    <3>4. EventInit => /\ ended \in BOOLEAN /\ stage \in Stage /\ tries = 0
                       /\ emitted = 0 /\ said \in BOOLEAN /\ orphan \in BOOLEAN
                       /\ late = "none" /\ letGo = 0
      BY DEF EventInit, Stage
    <3>5. QED
      BY <3>1, <3>2, <3>3, <3>4, EventAssumption DEF EventTypeOK
  <2>2. EventInit => CutOff
    BY DEF EventInit, CutOff
  <2>3. QED
    BY <2>1, <2>2 DEF EventInvariant
<1>2. EventInvariant /\ [EventNext]_eventVars => EventInvariant'
  <2>1. ASSUME EventInvariant, UNCHANGED eventVars PROVE EventInvariant'
    BY <2>1 DEF EventInvariant, EventTypeOK, CutOff, eventVars, workerSide,
       streamSide
  <2>2. QED
    BY <2>1, WorkerKeeps, StreamKeeps DEF EventNext
<1>3. QED
  BY <1>1, <1>2, PTL DEF EventSpec

\* Type correctness; in particular no stream reads past what was published.
\* (event_bus.py 58-121)
THEOREM EventsTyped == EventSpec => []EventTypeOK
<1>1. EventInvariant => EventTypeOK
  BY DEF EventInvariant
<1>2. QED
  BY <1>1, EventAlways, PTL

\* For any number of streams, retries and events: only a stream that
\* subscribed after the worker's last close() is left without an end.
\* (api.py 245-273; worker.py 143-210, 283-294)
THEOREM OnlyLateStreamsStick == EventSpec => []StuckStreamsCameLate
<1>1. EventInvariant => StuckStreamsCameLate
  <2> SUFFICES ASSUME EventInvariant, NEW s \in Streams, stage = "over",
                      sse[s] = "listening", pos[s] > Len(log), early[s]
               PROVE  FALSE
    BY DEF StuckStreamsCameLate, EventInvariant, EventTypeOK
  <2>1. pos[s] <= letGo /\ letGo \in 1 .. Len(log)
    BY DEF EventInvariant, CutOff
  <2>2. QED
    BY <2>1 DEF EventInvariant, EventTypeOK
<1>2. QED
  BY <1>1, EventAlways, PTL

\* For any number of streams, retries and events, and however late a
\* publish() comes: what a run leaves behind reaches nobody who subscribed
\* before the worker was through with the task.
\* (worker.py 196-210, 239-261; event_bus.py 99-101)
THEOREM CloseCutsOff == EventSpec => []LeftoversMissOpenStreams
<1>1. EventInvariant => LeftoversMissOpenStreams
  BY DEF EventInvariant, CutOff, LeftoversMissOpenStreams
<1>2. QED
  BY <1>1, EventAlways, PTL
=============================================================================
