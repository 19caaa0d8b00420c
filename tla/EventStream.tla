----------------------------- MODULE EventStream -----------------------------
(***************************************************************************)
(* The events of one task on their way to the clients: EventBus of         *)
(* src/event_bus.py, stream_task of src/api.py, and the calls of           *)
(* src/worker.py that publish on the task's channel.                       *)
(*                                                                         *)
(* Redis pub/sub keeps nothing: a message reaches the connections that are *)
(* subscribed when it is published, each in the order of publication.  So  *)
(* the channel is a log, and a subscriber a position in it that starts at  *)
(* its end.  The module covers one life of the process, for a worker whose *)
(* update() and publish calls do what they promise (BridgeWorks = TRUE of  *)
(* module Worker); the engine is external.                                 *)
(***************************************************************************)
EXTENDS Naturals, Sequences

CONSTANTS
    Streams,          \* SSE requests for this task, each used once
    MaxRetries,       \* settings.max_retries
    MaxEvents,        \* bound: progress events of the engine
    StreamTimeouts    \* settings.stream_timeout > 0

ASSUME EventAssumption ==
    MaxRetries \in Nat /\ MaxEvents \in Nat /\ StreamTimeouts \in BOOLEAN

\* A progress event, a terminal one (workflow_complete, workflow_failed),
\* and the message that close() publishes.
Message == {"event", "final", "done"}

VARIABLES
    log,        \* everything published on cio:events:{task_id}
    ended,      \* the stored record is terminal
    stage,      \* what the worker is doing with the task
    tries,      \* retry_count
    emitted,    \* progress events so far
    said,       \* this run of the engine has announced its end
    orphan,     \* the engine thread goes on without its worker
    late,       \* what a publish() that its thread gave up on has still to say
    letGo,      \* length of the log when the worker was through with the task
    sse,        \* progress of each request
    pos,        \* what it reads next from the log
    early       \* it subscribed before the worker let go of the task

workerSide == <<ended, stage, tries, emitted, said, orphan, late, letGo>>
streamSide == <<sse, pos, early>>
eventVars == <<log, workerSide, streamSide>>

Stage == {"queued", "engine", "retry", "settle", "close", "over"}
SseState == {"idle", "subscribing", "listening", "parting", "closed"}

EventInit ==
    /\ log = <<>>
    /\ ended = FALSE /\ stage = "queued" /\ tries = 0
    /\ emitted = 0 /\ said = FALSE /\ orphan = FALSE
    /\ late = "none" /\ letGo = 0
    /\ sse = [s \in Streams |-> "idle"]
    /\ pos = [s \in Streams |-> 1]
    /\ early = [s \in Streams |-> FALSE]

EventTypeOK ==
    /\ log \in Seq(Message)
    /\ ended \in BOOLEAN /\ stage \in Stage /\ tries \in 0 .. MaxRetries
    /\ emitted \in 0 .. MaxEvents /\ said \in BOOLEAN /\ orphan \in BOOLEAN
    /\ late \in {"none", "event", "final"} /\ letGo \in Nat
    /\ sse \in [Streams -> SseState]
    /\ pos \in [Streams -> Nat \ {0}]
    /\ \A s \in Streams : pos[s] <= Len(log) + 1
    /\ early \in [Streams -> BOOLEAN]

Publish(message) == log' = Append(log, message)

-----------------------------------------------------------------------------
\* The worker: _run_locked and _handle_retriable.

\* The task is taken from the queue and its engine started, ...
Begin ==
    /\ stage = "queued"
    /\ stage' = "engine" /\ said' = FALSE
    /\ UNCHANGED <<log, ended, tries, emitted, orphan, late, letGo, streamSide>>

\* ... or refused: no engine, or ValueError from decide().
Refuse ==
    /\ stage = "queued"
    /\ ended' = TRUE /\ stage' = "close"
    /\ UNCHANGED <<log, tries, emitted, said, orphan, late, letGo, streamSide>>

\* _consume_sync forwards what the engine yields; its last event, if any,
\* announces the end.
Emit ==
    /\ stage = "engine" \/ orphan
    /\ ~said /\ emitted < MaxEvents
    /\ Publish("event") /\ emitted' = emitted + 1
    /\ UNCHANGED <<ended, stage, tries, said, orphan, late, letGo, streamSide>>

EmitFinal ==
    /\ stage = "engine" \/ orphan
    /\ ~said
    /\ Publish("final") /\ said' = TRUE
    /\ UNCHANGED <<ended, stage, tries, emitted, orphan, late, letGo, streamSide>>

\* result(timeout=5) gives up on a publish() that stays scheduled on the
\* loop: the thread ends with TimeoutError, and with it the run.  That is an
\* unexpected error (FAILED) to Python 3.10 and, from 3.11 on, where both
\* TimeoutErrors are one class, a stream timeout (INTERRUPTED).
PublishTimesOut ==
    /\ stage = "engine" \/ orphan
    /\ ~said /\ late = "none"
    /\ \/ emitted < MaxEvents /\ late' = "event" /\ emitted' = emitted + 1 /\ UNCHANGED said
       \/ late' = "final" /\ said' = TRUE /\ UNCHANGED emitted
    /\ IF orphan
       THEN orphan' = FALSE /\ UNCHANGED <<ended, stage>>
       ELSE stage' = "close" /\ ended' \in BOOLEAN /\ UNCHANGED orphan
    /\ UNCHANGED <<log, tries, letGo, streamSide>>

\* The loop gets to that coroutine after all.
LatePublish ==
    /\ late # "none"
    /\ Publish(late) /\ late' = "none"
    /\ UNCHANGED <<ended, stage, tries, emitted, said, orphan, letGo, streamSide>>

\* The stream ends, with success or with a fatal or unexpected error.
EndRun ==
    /\ stage = "engine"
    /\ ended' = TRUE /\ stage' = "close"
    /\ UNCHANGED <<log, tries, emitted, said, orphan, late, letGo, streamSide>>

\* RetriableError: close() first, ...
FailRun ==
    /\ stage = "engine"
    /\ stage' = "retry"
    /\ UNCHANGED <<log, ended, tries, emitted, said, orphan, late, letGo, streamSide>>

CloseForRetry ==
    /\ stage = "retry"
    /\ Publish("done") /\ stage' = "settle"
    /\ UNCHANGED <<ended, tries, emitted, said, orphan, late, letGo, streamSide>>

\* Mutant of Requeue: <= for < in the comparison with the maximum.
RequeueOnceMore ==
    /\ stage = "settle" /\ tries <= MaxRetries
    /\ tries' = tries + 1 /\ stage' = "queued"
    /\ UNCHANGED <<log, ended, emitted, said, orphan, late, letGo, streamSide>>

\* ... then back into the queue, ...
Requeue ==
    /\ stage = "settle" /\ tries < MaxRetries
    /\ tries' = tries + 1 /\ stage' = "queued"
    /\ UNCHANGED <<log, ended, emitted, said, orphan, late, letGo, streamSide>>

\* Mutant of Exhaust: no second close().
ExhaustSilently ==
    /\ stage = "settle" /\ tries >= MaxRetries
    /\ ended' = TRUE /\ stage' = "over" /\ letGo' = Len(log)
    /\ UNCHANGED <<log, tries, emitted, said, orphan, late, streamSide>>

\* ... or failed for good, and closed once more.
Exhaust ==
    /\ stage = "settle" /\ tries >= MaxRetries
    /\ ended' = TRUE /\ stage' = "close"
    /\ UNCHANGED <<log, tries, emitted, said, orphan, late, letGo, streamSide>>

\* Mutant of TimeOut: no close() on the way out.
TimeOutSilently ==
    /\ StreamTimeouts /\ stage = "engine"
    /\ orphan' = TRUE /\ stage' = "over" /\ letGo' = Len(log)
    /\ UNCHANGED <<log, ended, tries, emitted, said, late, streamSide>>

\* The await on the engine times out: INTERRUPTED, which is not terminal,
\* while the engine thread goes on.
TimeOut ==
    /\ StreamTimeouts /\ stage = "engine"
    /\ orphan' = TRUE /\ stage' = "close"
    /\ UNCHANGED <<log, ended, tries, emitted, said, late, letGo, streamSide>>

OrphanEnds ==
    /\ orphan
    /\ orphan' = FALSE
    /\ UNCHANGED <<log, ended, stage, tries, emitted, said, late, letGo, streamSide>>

\* close() after the last update(): the worker is through with the task.
Close ==
    /\ stage = "close"
    /\ Publish("done") /\ stage' = "over" /\ letGo' = Len(log')
    /\ UNCHANGED <<ended, tries, emitted, said, orphan, late, streamSide>>

-----------------------------------------------------------------------------
\* GET /tasks/{id}/stream.
Goes(s, state) == sse' = [sse EXCEPT ![s] = state]

\* The record is read: an empty stream if it is terminal.
Check(s) ==
    /\ sse[s] = "idle"
    /\ Goes(s, IF ended THEN "closed" ELSE "subscribing")
    /\ UNCHANGED <<log, workerSide, pos, early>>

\* SUBSCRIBE: from now on, and from nothing before.
Subscribe(s) ==
    /\ sse[s] = "subscribing"
    /\ Goes(s, "listening")
    /\ pos' = [pos EXCEPT ![s] = Len(log) + 1]
    /\ early' = [early EXCEPT ![s] = stage # "over"]
    /\ UNCHANGED <<log, workerSide>>

Receives(s, message) ==
    /\ sse[s] = "listening" /\ pos[s] <= Len(log)
    /\ log[pos[s]] = message
    /\ pos' = [pos EXCEPT ![s] = @ + 1]
    /\ UNCHANGED <<log, workerSide, early>>

\* An event becomes a frame; after a terminal one the handler publishes
\* close() itself, once the frame is sent, and leaves.
RelayEvent(s) == Receives(s, "event") /\ UNCHANGED sse
RelayFinal(s) == Receives(s, "final") /\ Goes(s, "parting")

Part(s) ==
    /\ sse[s] = "parting"
    /\ Publish("done") /\ Goes(s, "closed")
    /\ UNCHANGED <<workerSide, pos, early>>

\* Mutant of StopAtDone: the message is taken for an event.
IgnoreDone(s) == Receives(s, "done") /\ UNCHANGED sse

\* The worker, or another handler, has closed the channel.
StopAtDone(s) == Receives(s, "done") /\ Goes(s, "closed")

\* Nothing to read: a keepalive from time to time.
Keepalive(s) ==
    /\ sse[s] = "listening" /\ pos[s] > Len(log)
    /\ UNCHANGED eventVars

\* The client goes away.
Disconnect(s) ==
    /\ sse[s] \in {"subscribing", "listening", "parting"}
    /\ Goes(s, "closed")
    /\ UNCHANGED <<log, workerSide, pos, early>>

-----------------------------------------------------------------------------
FinishRun == EndRun \/ FailRun \/ TimeOut
WorkerMoves ==
    \/ Begin \/ Refuse \/ FinishRun \/ CloseForRetry \/ Requeue \/ Exhaust \/ Close
StreamMoves(s) ==
    \/ Subscribe(s) \/ RelayEvent(s) \/ RelayFinal(s) \/ Part(s) \/ StopAtDone(s)

Finished == stage = "over" /\ \A s \in Streams : sse[s] \in {"closed", "listening"}

EventNext ==
    \/ WorkerMoves \/ Emit \/ EmitFinal \/ OrphanEnds \/ PublishTimesOut \/ LatePublish
    \/ \E s \in Streams : StreamMoves(s) \/ Check(s) \/ Keepalive(s) \/ Disconnect(s)
    \/ Finished /\ UNCHANGED eventVars

EventSpec == EventInit /\ [][EventNext]_eventVars

(***************************************************************************)
(* Fairness: the workers empty the queue, the engine ends its runs, and    *)
(* the event loop resumes workers and handlers whose await is over.        *)
(* Nobody is obliged to open a stream, to leave one, or to emit an event.  *)
(***************************************************************************)
EventFairSpec ==
    EventSpec /\ WF_eventVars(WorkerMoves)
              /\ \A s \in Streams : WF_eventVars(StreamMoves(s))

-----------------------------------------------------------------------------
\* A stream that has nothing left to read when the worker is through with the
\* task, and so is left with keepalives for ever, subscribed after that: its
\* status check was overtaken.  Whoever subscribed earlier has a DONE ahead,
\* whatever attempts, errors and closes of other streams came in between.
\* (api.py 245-273; worker.py 143-210, 283-294)
StuckStreamsCameLate ==
    \A s \in Streams :
        stage = "over" /\ sse[s] = "listening" /\ pos[s] > Len(log) => ~early[s]

\* The worker's last DONE cuts off what is left of the run: events that an
\* abandoned engine thread goes on to publish, and a publish() that its thread
\* gave up on, reach nobody who subscribed before the worker was through with
\* the task; such a client never sees the task speak after its stream's end.
\* (worker.py 196-210, 239-261; event_bus.py 99-101)
LeftoversMissOpenStreams ==
    \A s \in Streams : stage = "over" /\ early[s] => pos[s] <= letGo + 1

\* A stream that subscribes while the task is in the queue or in work ends,
\* through every retry, error and timeout. (worker.py 143-210, 267-294;
\* event_bus.py 58-121)
EarlyStreamsEnd ==
    \A s \in Streams : sse[s] = "listening" /\ early[s] ~> sse[s] = "closed"
=============================================================================
