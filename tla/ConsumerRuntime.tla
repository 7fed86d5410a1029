--------------------------- MODULE ConsumerRuntime ---------------------------
(***************************************************************************)
(* The consumer from start() to stop(): the consumer loop C, the           *)
(* completion monitor M and the caller S of the facade, over the async     *)
(* engine and the dead-letter cache (BrokerPoller, its lifecycle, shutdown *)
(* and completion supports, PyrallelConsumer).                             *)
(*                                                                         *)
(* plan[p] holds the steps task p has before it.  The three are tasks of   *)
(* one event loop: a critical section of the control lock is a "lock" step *)
(* and the steps of Locked that follow it, and a task can be cancelled     *)
(* only where its next step is an await.  Other tasks may also run between *)
(* two steps that have no await between them, which adds behaviours and    *)
(* takes none away.                                                        *)
(*                                                                         *)
(* One partition without rebalances before close(), one unordered queue,   *)
(* no commit coordinator; the broker's side of a commit is one step.       *)
(***************************************************************************)
EXTENDS AsyncEngine, DlqCache

CONSTANTS
  SizeOf,            \* SizeOf[o + 1] is the payload size of record o
  BatchSize,
  DlqEnabled,
  StrictMonitor,     \* strict_completion_monitor_enabled
  Policies,          \* shutdown policies, "graceful" and "abort"
  FaultKinds,        \* subset of {"start", "fatal", "publish", "commit", "close", "blocking"}
  MaxFaults,
  MaxStops           \* bound: calls of stop()

ASSUME ConsumerRuntimeAssumption ==
  /\ SizeOf \in Seq(Nat)
  /\ {MaxInFlight, MaxRetries, BatchSize, MaxStops} \subseteq Nat \ {0}
  /\ {DlqEnabled, StrictMonitor, FullPayloadMode} \subseteq BOOLEAN
  /\ FullPayloadMode => DlqEnabled
  /\ Policies \subseteq {"graceful", "abort"} /\ Policies # {}
  /\ MaxFaults \in Nat /\ CacheMaxBytes \in Int

VARIABLES
  plan, lock,
  batch,             \* records consumed and not yet dispatched
  fetched,           \* next offset to consume
  queue, registered, \* the virtual queue; whether its key is among the runnable ones
  known, dispatched, \* _in_flight_work_items; those that hold a slot
  events,            \* completions the holder of the lock has polled
  resolved,          \* resolved_pending_keys
  tries,             \* retry_attempt of the publish
  completed, committed,
  pending_dlq,       \* _pending_dlq_events, in insertion order
  message_cache,
  published,         \* offsets on the dead-letter topic
  running, defer_cleanup, fatal_error, shutdown_event,
  loop_task, monitor_task,
  policy,
  closed,            \* the Kafka client
  exporter,          \* the facade holds a metrics exporter
  expired, drained,  \* deadline of the drain, and its result
  dropped,           \* completions lost to a cancellation
  succeeded,         \* offsets whose execution succeeded
  stops, faults

work_vars == <<batch, fetched, queue, registered, known, dispatched>>
ledger_vars == <<completed, pending_dlq, message_cache, published>>
drain_vars == <<events, resolved, tries>>
flags == <<running, defer_cleanup, fatal_error, shutdown_event, policy>>
tasks == <<loop_task, monitor_task>>
stop_vars == <<closed, exporter, expired, drained, stops>>
vars == <<plan, lock, work_vars, ledger_vars, drain_vars, committed, flags, tasks, stop_vars,
          dropped, succeeded, faults, engine_vars>>

Tasks == {"C", "M", "S"}

Offsets == 0 .. (Len(SizeOf) - 1)

tp == "tp"

DrainOnce == <<"poll", "timeout", "process", "schedule">>

\* A pass of _run_consumer, without and with failed dead-letter publishes to retry.
Pass == <<"consume", "lock", "dispatch", "schedule">> \o DrainOnce \o <<"commit">>

RetryPass ==
  <<"lock">> \o DrainOnce \o <<"commit_drained", "consume", "lock", "dispatch", "schedule">>

MonitorPass == <<"lock">> \o DrainOnce \o <<"commit_drained">>

ShutdownPass == <<"lock", "schedule">> \o DrainOnce \o <<"commit_drained", "check">>

\* What is left of stop() once the poller is stopped.
FacadeSteps == <<"shutdown_engine", "await_engine", "release">>

CleanupSteps == IF policy = "graceful" THEN <<"cleanup">> ELSE << >>

Locked == {"dispatch", "schedule", "submit", "poll", "timeout", "process", "event", "publish"}

Awaits == {"consume", "lock", "submit", "publish", "commit", "commit_drained"}

At(p, step) == plan[p] # << >> /\ Head(plan[p]) = step

Continue(p, steps) == plan' = [plan EXCEPT ![p] = steps \o Tail(@)]

Advance(p) == Continue(p, << >>)

Goto(p, steps) == plan' = [plan EXCEPT ![p] = steps]

Fault(kind) ==
  /\ kind \in FaultKinds
  /\ faults < MaxFaults
  /\ faults' = faults + 1

TypeOK ==
  /\ plan \in [Tasks -> Seq(STRING)] /\ lock \in Tasks \cup {"free"}
  /\ batch \in 0 .. BatchSize /\ fetched \in 0 .. Len(SizeOf)
  /\ ToSet(queue) \cup known \cup dispatched \cup completed \cup published \subseteq Offsets
  /\ registered \in BOOLEAN /\ Len(queue) <= Len(SizeOf)
  /\ resolved \cup dropped \cup succeeded \subseteq Offsets
  /\ tries \in 0 .. (MaxRetries - 1)
  /\ committed \in 0 .. Len(SizeOf)
  /\ Len(pending_dlq) <= Len(SizeOf)
  /\ {running, defer_cleanup, fatal_error, shutdown_event, closed, exporter, expired} \subseteq BOOLEAN
  /\ loop_task \in {"none", "alive", "done", "raised", "cancelled"}
  /\ monitor_task \in {"none", "alive", "done"}
  /\ policy \in Policies /\ drained \in {"no", "timed_out", "drained"}
  /\ stops \in 0 .. MaxStops /\ faults \in 0 .. MaxFaults
  /\ \A e \in ToSet(engine_events) \cup ToSet(events) : e.offset \in Offsets /\ e.attempt \in 1 .. MaxRetries

Init ==
  /\ InitEngine
  /\ plan = [p \in Tasks |-> IF p = "S" THEN <<"start">> ELSE << >>]
  /\ lock = "free"
  /\ batch = 0 /\ fetched = 0
  /\ queue = << >> /\ registered = FALSE /\ known = {} /\ dispatched = {}
  /\ events = << >> /\ resolved = {} /\ tries = 0
  /\ completed = {} /\ committed = 0
  /\ pending_dlq = << >> /\ message_cache = EmptyCache /\ published = {}
  /\ running = FALSE /\ defer_cleanup = FALSE /\ fatal_error = FALSE /\ shutdown_event = FALSE
  /\ loop_task = "none" /\ monitor_task = "none"
  /\ policy \in Policies
  /\ closed = FALSE /\ exporter = FALSE /\ expired = FALSE /\ drained = "no"
  /\ dropped = {} /\ succeeded = {}
  /\ stops = 0 /\ faults = 0

-----------------------------------------------------------------------------
(* The control lock *)

TakeLock(p) ==
  /\ At(p, "lock")
  /\ lock = "free"
  /\ lock' = p
  /\ Advance(p)
  /\ UNCHANGED <<work_vars, ledger_vars, drain_vars, committed, flags, tasks, stop_vars,
                 dropped, succeeded, faults, engine_vars>>

\* The next of the steps after the current one; the lock is given back with the
\* last step of a critical section.
EndStep(p, steps) ==
  /\ Goto(p, steps)
  /\ lock' = IF steps = << >> \/ Head(steps) \notin Locked THEN "free" ELSE lock

\* Mutant: the polled completions are left for the next holder of the lock.
AbandonKeepsEvents(p) ==
  /\ lock' = IF lock = p THEN "free" ELSE lock
  /\ UNCHANGED <<dropped, drain_vars>>

\* An exception or a cancellation leaves the critical section, and with it the
\* completions the task had polled.
Abandon(p) ==
  /\ lock' = IF lock = p THEN "free" ELSE lock
  /\ IF lock = p
     THEN /\ dropped' = dropped \cup {e.offset : e \in {x \in ToSet(events) : ~x.pending}}
          /\ events' = << >> /\ resolved' = {} /\ tries' = 0
     ELSE UNCHANGED <<dropped, drain_vars>>

-----------------------------------------------------------------------------
(* WorkManager.schedule *)

\* The engine refuses an item after shutdown; the queue stays registered.
Startable == registered /\ queue # << >> /\ Cardinality(dispatched) < MaxInFlight /\ ~engine_shutdown

RecordSubmitted ==
  /\ Submit(Head(queue))
  /\ queue' = Tail(queue)
  /\ registered' = (Len(queue) > 1)
  /\ dispatched' = dispatched \cup {Head(queue)}
  /\ UNCHANGED <<batch, fetched, known>>

ScheduleOne(p) ==
  /\ At(p, "schedule")
  /\ Startable /\ semaphore > 0
  /\ RecordSubmitted
  /\ UNCHANGED <<plan, lock, ledger_vars, drain_vars, committed, flags, tasks, stop_vars,
                 dropped, succeeded, faults>>

\* No permit: the queue's key has been taken and submit waits, under the lock.
ScheduleWaits(p) ==
  /\ At(p, "schedule")
  /\ Startable /\ semaphore = 0
  /\ registered' = FALSE
  /\ Goto(p, <<"submit">> \o plan[p])
  /\ UNCHANGED <<lock, batch, fetched, queue, known, dispatched, ledger_vars, drain_vars,
                 committed, flags, tasks, stop_vars, dropped, succeeded, faults, engine_vars>>

SubmitResumes(p) ==
  /\ At(p, "submit")
  /\ RecordSubmitted
  /\ Advance(p)
  /\ UNCHANGED <<lock, ledger_vars, drain_vars, committed, flags, tasks, stop_vars,
                 dropped, succeeded, faults>>

EndSchedule(p) ==
  /\ At(p, "schedule")
  /\ ~Startable
  /\ EndStep(p, Tail(plan[p]))
  /\ UNCHANGED <<work_vars, ledger_vars, drain_vars, committed, flags, tasks, stop_vars,
                 dropped, succeeded, faults, engine_vars>>

-----------------------------------------------------------------------------
(* _drain_completion_events_once *)

Fresh(e) == [offset |-> e.offset, status |-> e.status, attempt |-> e.attempt, pending |-> FALSE]

\* WorkManager.poll_completed_events: released slots are scheduled again before
\* the events reach the tracker.
Release(p, polled) ==
  LET offsets == {e.offset : e \in ToSet(polled)}
  IN  /\ events' = events \o [i \in DOMAIN polled |-> Fresh(polled[i])]
      /\ known' = known \ offsets
      /\ dispatched' = dispatched \ offsets
      /\ PollCompletedEvents
      /\ Continue(p, IF offsets \cap known = {} THEN << >> ELSE <<"schedule">>)
      /\ UNCHANGED <<lock, batch, fetched, queue, registered, ledger_vars, resolved, tries,
                     committed, flags, tasks, stop_vars, dropped, succeeded,
                     semaphore, in_flight_tasks, engine_shutdown>>

Poll(p) == At(p, "poll") /\ Release(p, engine_events) /\ UNCHANGED faults

Gaps == (0 .. (fetched - 1)) \ completed

\* Gap heads that may have blocked for max_blocking_duration_ms.
Overdue == {o \in known : o \in Gaps /\ o - 1 \notin Gaps}

MayForce == Overdue # {} /\ "blocking" \in FaultKinds /\ faults < MaxFaults

NothingOverdue(p) ==
  /\ At(p, "timeout")
  /\ Advance(p)
  /\ UNCHANGED <<lock, work_vars, ledger_vars, drain_vars, committed, flags, tasks, stop_vars,
                 dropped, succeeded, faults, engine_vars>>

\* force_fail gives the slot back while the execution goes on; then the manager
\* is polled again.
HandleBlockingTimeouts(p) ==
  /\ At(p, "timeout")
  /\ Fault("blocking")
  /\ \E forced \in (SUBSET Overdue) \ {{}} :
       Release(p, [i \in 1 .. Cardinality(forced) |->
                     CompletionEvent(SetToSortSeq(forced, <)[i], "FAILURE", MaxRetries)]
                  \o engine_events)

\* Nothing to process: the drain reports FALSE.
NothingDrained(p) ==
  /\ At(p, "process")
  /\ events = << >> /\ pending_dlq = << >>
  /\ EndStep(p, SelectSeq(Tail(Tail(plan[p])), LAMBDA s : s # "commit_drained"))
  /\ UNCHANGED <<work_vars, ledger_vars, drain_vars, committed, flags, tasks, stop_vars,
                 dropped, succeeded, faults, engine_vars>>

\* process_completed_events looks at the pending ledger first.
BeginProcess(p) ==
  /\ At(p, "process")
  /\ events # << >> \/ pending_dlq # << >>
  /\ events' = pending_dlq \o events
  /\ Continue(p, <<"event">>)
  /\ UNCHANGED <<lock, work_vars, ledger_vars, resolved, tries, committed, flags, tasks,
                 stop_vars, dropped, succeeded, faults, engine_vars>>

PendingOffsets == {e.offset : e \in ToSet(pending_dlq)}

IsDuplicate(e) == ~e.pending /\ e.offset \in PendingOffsets \cup resolved

\* Mutant: a failure that used up its attempts is not published.
NeedsPublishNever(e) == e.status = "FAILURE" /\ DlqEnabled /\ e.attempt > MaxRetries

NeedsPublish(e) == e.status = "FAILURE" /\ DlqEnabled /\ e.attempt >= MaxRetries

\* The tracker marks the offset complete; ledger and cache forget it.
MarkComplete(e) ==
  /\ completed' = completed \cup {e.offset}
  /\ pending_dlq' = SelectSeq(pending_dlq, LAMBDA x : x.offset # e.offset)
  /\ message_cache' = PopCachedMessage(message_cache, tp, e.offset)
  /\ resolved' = IF e.pending THEN resolved \cup {e.offset} ELSE resolved
  /\ events' = Tail(events)

ProcessEvent(p) ==
  /\ At(p, "event") /\ events # << >>
  /\ LET e == Head(events)
     IN  \/ /\ IsDuplicate(e)
            /\ events' = Tail(events)
            /\ UNCHANGED <<plan, ledger_vars, resolved, tries>>
         \/ /\ ~IsDuplicate(e) /\ ~NeedsPublish(e)
            /\ MarkComplete(e)
            /\ UNCHANGED <<plan, published, tries>>
         \/ /\ ~IsDuplicate(e) /\ NeedsPublish(e)
            /\ Goto(p, <<"publish">> \o plan[p])
            /\ tries' = 0
            /\ UNCHANGED <<ledger_vars, events, resolved>>
  /\ UNCHANGED <<lock, work_vars, committed, flags, tasks, stop_vars, dropped, succeeded,
                 faults, engine_vars>>

EndProcess(p) ==
  /\ At(p, "event") /\ events = << >>
  /\ resolved' = {}
  /\ Advance(p)
  /\ UNCHANGED <<lock, work_vars, ledger_vars, events, tries, committed, flags, tasks, stop_vars,
                 dropped, succeeded, faults, engine_vars>>

Published(p) ==
  /\ At(p, "publish")
  /\ published' = published \cup {Head(events).offset}
  /\ MarkComplete(Head(events))
  /\ tries' = 0
  /\ Advance(p)
  /\ UNCHANGED <<lock, work_vars, committed, flags, tasks, stop_vars, dropped, succeeded,
                 faults, engine_vars>>

\* produce or flush raised: try again, and after MaxRetries keep the event for
\* the next drain.  A broker that is down stays down for all the attempts.
PublishFails(p) ==
  /\ At(p, "publish")
  /\ IF tries = 0 THEN Fault("publish") ELSE UNCHANGED faults
  /\ LET e == Head(events)
     IN  IF tries < MaxRetries - 1
         THEN tries' = tries + 1 /\ UNCHANGED <<plan, pending_dlq, events>>
         ELSE /\ pending_dlq' = IF e.offset \in PendingOffsets THEN pending_dlq
                                ELSE Append(pending_dlq, [e EXCEPT !.pending = TRUE])
              /\ events' = Tail(events)
              /\ tries' = 0
              /\ Advance(p)
  /\ UNCHANGED <<lock, work_vars, completed, message_cache, published, resolved, committed,
                 flags, tasks, stop_vars, dropped, succeeded, engine_vars>>

-----------------------------------------------------------------------------
(* Commits *)

\* The first offset that is not complete.
Committable == Min({o \in 0 .. Len(SizeOf) : o \notin completed})

\* A task commits what is ready, if the cadence lets it (the drain always does)
\* and the broker answers.  The candidates are built under the control lock.
Commit(p) ==
  /\ At(p, "commit") \/ At(p, "commit_drained")
  /\ lock = "free"
  /\ \/ committed' = Committable /\ UNCHANGED faults
     \/ p # "S" /\ UNCHANGED <<committed, faults>>
     \/ p = "S" /\ Fault("commit") /\ UNCHANGED committed
  /\ Advance(p)
  /\ UNCHANGED <<lock, work_vars, ledger_vars, drain_vars, flags, tasks, stop_vars, dropped,
                 succeeded, engine_vars>>

-----------------------------------------------------------------------------
(* The consumer loop *)

\* The finally of _run_consumer starts with the monitor's cancellation.
LeaveLoop ==
  /\ running' = FALSE
  /\ Goto("C", <<"gather">>)

BeginPass ==
  /\ loop_task = "alive" /\ plan["C"] = << >>
  /\ IF running
     THEN Goto("C", IF pending_dlq = << >> THEN Pass ELSE RetryPass) /\ UNCHANGED running
     ELSE LeaveLoop
  /\ UNCHANGED <<lock, work_vars, ledger_vars, drain_vars, committed, defer_cleanup, fatal_error,
                 shutdown_event, policy, tasks, stop_vars, dropped, succeeded, faults, engine_vars>>

\* A retry pass asks for one record and goes on only if there is one.
Consume ==
  /\ At("C", "consume")
  /\ LET retry == Tail(plan["C"]) = <<"lock", "dispatch", "schedule">>
     IN  \E n \in 0 .. Min({IF retry THEN 1 ELSE BatchSize, Len(SizeOf) - fetched}) :
           /\ batch' = n
           /\ Goto("C", IF retry /\ n = 0 THEN << >> ELSE Tail(plan["C"]))
  /\ UNCHANGED <<lock, fetched, queue, registered, known, dispatched, ledger_vars, drain_vars,
                 committed, flags, tasks, stop_vars, dropped, succeeded, faults, engine_vars>>

CacheAll(cache, offsets) ==
  FoldLeft(LAMBDA c, o : CacheMessageForDlq(c, tp, o, SizeOf[o + 1]), cache, offsets)

\* dispatch_messages; an empty batch skips the schedule that follows.
Dispatch ==
  /\ At("C", "dispatch")
  /\ LET offsets == [i \in 1 .. batch |-> fetched + i - 1]
     IN  /\ queue' = queue \o offsets
         /\ known' = known \cup ToSet(offsets)
         /\ message_cache' = CacheAll(message_cache, offsets)
         /\ registered' = IF queue = << >> THEN batch > 0 ELSE registered
  /\ fetched' = fetched + batch
  /\ batch' = 0
  /\ Goto("C", IF batch = 0 THEN Tail(Tail(plan["C"])) ELSE Tail(plan["C"]))
  /\ UNCHANGED <<lock, dispatched, completed, pending_dlq, published, drain_vars, committed,
                 flags, tasks, stop_vars, dropped, succeeded, faults, engine_vars>>

\* consume() or a commit raises something the loop does not handle.
LoopFails ==
  /\ At("C", "consume") \/ At("C", "commit")
  /\ Fault("fatal")
  /\ fatal_error' = TRUE
  /\ LeaveLoop
  /\ UNCHANGED <<lock, work_vars, ledger_vars, drain_vars, committed, defer_cleanup,
                 shutdown_event, policy, tasks, stop_vars, dropped, succeeded, engine_vars>>

\* The monitor is gone: clean up, unless a graceful stop() will.
Gathered ==
  /\ At("C", "gather")
  /\ monitor_task # "alive"
  /\ Continue("C", IF defer_cleanup THEN <<"signal">> ELSE <<"cleanup", "signal">>)
  /\ UNCHANGED <<lock, work_vars, ledger_vars, drain_vars, committed, flags, tasks, stop_vars,
                 dropped, succeeded, faults, engine_vars>>

\* The revoke that close() brings commits what is complete, or fails to.
CommittedOnClose ==
  \/ ~closed /\ committed' = Committable
  \/ UNCHANGED committed

\* cleanup_runtime: close() revokes the partition, whose cached payloads go, and
\* then the caches are cleared.
Cleanup(p) ==
  /\ At(p, "cleanup")
  /\ CommittedOnClose
  /\ closed' = TRUE
  /\ message_cache' = EmptyCache
  /\ pending_dlq' = << >>
  /\ Advance(p)
  /\ UNCHANGED <<lock, work_vars, completed, published, drain_vars, flags, tasks,
                 exporter, expired, drained, stops, dropped, succeeded, faults, engine_vars>>

\* close() raises what the revoke callback raised, after it dropped the
\* partition's payloads.
CleanupRaises(p) ==
  /\ At(p, "cleanup")
  /\ ~closed
  /\ Fault("close")
  /\ CommittedOnClose
  /\ closed' = TRUE
  /\ message_cache' = DropPartitionMessages(message_cache, tp)
  /\ IF p = "C"
     THEN Goto("C", << >>) /\ loop_task' = "raised" /\ UNCHANGED monitor_task
     ELSE Advance(p) /\ UNCHANGED tasks
  /\ UNCHANGED <<lock, work_vars, completed, pending_dlq, published, drain_vars,
                 flags, exporter, expired, drained, stops, dropped, succeeded, engine_vars>>

LoopEnds ==
  /\ At("C", "signal")
  /\ shutdown_event' = TRUE
  /\ loop_task' = "done"
  /\ Advance("C")
  /\ UNCHANGED <<lock, work_vars, ledger_vars, drain_vars, committed, running, defer_cleanup,
                 fatal_error, policy, monitor_task, stop_vars, dropped, succeeded, faults, engine_vars>>

-----------------------------------------------------------------------------
(* The completion monitor *)

\* Woken by a completion, by a publish to retry, or by the blocking timeout; a
\* wake-up that finds nothing is left out.
MonitorWakes ==
  /\ monitor_task = "alive" /\ plan["M"] = << >>
  /\ running
  /\ pending_dlq # << >> \/ (dispatched # {} /\ (CompletionReady \/ MayForce))
  /\ Goto("M", MonitorPass)
  /\ UNCHANGED <<lock, work_vars, ledger_vars, drain_vars, committed, flags, tasks, stop_vars,
                 dropped, succeeded, faults, engine_vars>>

MonitorEnds ==
  /\ monitor_task = "alive" /\ plan["M"] = << >>
  /\ ~running
  /\ monitor_task' = "done"
  /\ UNCHANGED <<plan, lock, work_vars, ledger_vars, drain_vars, committed, flags, loop_task,
                 stop_vars, dropped, succeeded, faults, engine_vars>>

MonitorFails ==
  /\ At("M", "commit_drained")
  /\ Fault("fatal")
  /\ fatal_error' = TRUE /\ running' = FALSE
  /\ monitor_task' = "done"
  /\ Goto("M", << >>)
  /\ UNCHANGED <<lock, work_vars, ledger_vars, drain_vars, committed, defer_cleanup, shutdown_event,
                 policy, loop_task, stop_vars, dropped, succeeded, engine_vars>>

\* The cancellation reaches the monitor at the await it is in.
CancelMonitor ==
  /\ At("C", "gather") \/ loop_task = "cancelled"
  /\ monitor_task = "alive"
  /\ plan["M"] # << >> => Head(plan["M"]) \in Awaits
  /\ monitor_task' = "done"
  /\ Goto("M", << >>)
  /\ Abandon("M")
  /\ UNCHANGED <<work_vars, ledger_vars, committed, flags, loop_task, stop_vars, succeeded,
                 faults, engine_vars>>

-----------------------------------------------------------------------------
(* start() and stop() *)

Start ==
  /\ At("S", "start")
  /\ exporter' = TRUE
  /\ running' = TRUE
  /\ loop_task' = "alive"
  /\ monitor_task' = IF StrictMonitor THEN "alive" ELSE "none"
  /\ Advance("S")
  /\ UNCHANGED <<lock, work_vars, ledger_vars, drain_vars, committed, defer_cleanup, fatal_error,
                 shutdown_event, policy, closed, expired, drained, stops, dropped, succeeded,
                 faults, engine_vars>>

\* A client that cannot be built: _cleanup_failed_start finds nothing to stop.
StartFails ==
  /\ At("S", "start")
  /\ Fault("start")
  /\ exporter' = TRUE
  /\ Goto("S", FacadeSteps)
  /\ UNCHANGED <<lock, work_vars, ledger_vars, drain_vars, committed, flags, tasks, closed,
                 expired, drained, stops, dropped, succeeded, engine_vars>>

\* PyrallelConsumer.stop and BrokerPoller.stop, up to the wait for the loop.  A
\* poller that is over only raises its error.
Stop ==
  /\ plan["S"] = << >>
  /\ stops < MaxStops
  /\ IF ~running /\ loop_task \in {"none", "done"}
     THEN /\ fatal_error' = (fatal_error /\ ~shutdown_event)
          /\ Goto("S", FacadeSteps)
          /\ UNCHANGED <<running, defer_cleanup>>
     ELSE /\ running' = FALSE
          /\ defer_cleanup' = (policy = "graceful")
          /\ Goto("S", <<"join">>)
          /\ UNCHANGED fatal_error
  /\ UNCHANGED <<lock, work_vars, ledger_vars, drain_vars, committed, shutdown_event, policy,
                 tasks, stop_vars, dropped, succeeded, faults, engine_vars>>

\* The wait for the loop is over: raise its error, or drain.
Joined ==
  /\ At("S", "join")
  /\ loop_task = "done" /\ shutdown_event
  /\ Goto("S", IF ~fatal_error /\ policy = "graceful" THEN ShutdownPass
               ELSE CleanupSteps \o FacadeSteps)
  /\ fatal_error' = FALSE
  /\ expired' = FALSE
  /\ UNCHANGED <<lock, work_vars, ledger_vars, drain_vars, committed, running, defer_cleanup,
                 shutdown_event, policy, tasks, closed, exporter, drained, stops, dropped,
                 succeeded, faults, engine_vars>>

\* wait_for raises what the loop's cleanup raised.
JoinRaises ==
  /\ At("S", "join")
  /\ loop_task = "raised"
  /\ Goto("S", CleanupSteps \o FacadeSteps)
  /\ UNCHANGED <<lock, work_vars, ledger_vars, drain_vars, committed, flags, tasks, stop_vars,
                 dropped, succeeded, faults, engine_vars>>

\* consumer_task_stop_timeout_ms: the loop is cancelled where it waits, and its
\* finally runs ...
StopTimeout ==
  /\ At("S", "join")
  /\ loop_task = "alive"
  /\ plan["C"] # << >> /\ Head(plan["C"]) \in Awaits
  /\ LeaveLoop
  /\ Abandon("C")
  /\ batch' = 0
  /\ UNCHANGED <<fetched, queue, registered, known, dispatched, ledger_vars, committed,
                 defer_cleanup, fatal_error, shutdown_event, policy, tasks, stop_vars, succeeded,
                 faults, engine_vars>>

\* ... but a cancellation that arrives in the finally ends it there, before
\* _shutdown_event.set().
StopTimeoutInFinally ==
  /\ At("S", "join")
  /\ loop_task = "alive"
  /\ At("C", "gather") \/ At("C", "cleanup")
  /\ loop_task' = "cancelled"
  /\ Goto("C", << >>)
  /\ UNCHANGED <<lock, work_vars, ledger_vars, drain_vars, committed, flags, monitor_task,
                 stop_vars, dropped, succeeded, faults, engine_vars>>

-----------------------------------------------------------------------------
(* BrokerShutdownSupport.drain and the end of stop() *)

\* Mutant: failed publishes do not keep the drain going.
IdleIgnoringDlq == dispatched = {} /\ queue = << >>

Idle == dispatched = {} /\ queue = << >> /\ pending_dlq = << >>

DrainFinishes ==
  /\ At("S", "check")
  /\ Idle
  /\ \/ committed' = Committable /\ UNCHANGED faults
     \/ Fault("commit") /\ UNCHANGED committed
  /\ drained' = "drained"
  /\ Goto("S", CleanupSteps \o FacadeSteps)
  /\ UNCHANGED <<lock, work_vars, ledger_vars, drain_vars, flags, tasks, closed, exporter,
                 expired, stops, dropped, succeeded, engine_vars>>

\* Mutant: the deadline is looked at only while something is in flight.
DrainTimesOutInFlight ==
  /\ At("S", "check")
  /\ dispatched # {} /\ expired
  /\ drained' = "timed_out"
  /\ Goto("S", CleanupSteps \o FacadeSteps)
  /\ UNCHANGED <<lock, work_vars, ledger_vars, drain_vars, committed, flags, tasks, closed,
                 exporter, expired, stops, dropped, succeeded, faults, engine_vars>>

DrainTimesOut ==
  /\ At("S", "check")
  /\ ~Idle /\ expired
  /\ drained' = "timed_out"
  /\ Goto("S", CleanupSteps \o FacadeSteps)
  /\ UNCHANGED <<lock, work_vars, ledger_vars, drain_vars, committed, flags, tasks, closed,
                 exporter, expired, stops, dropped, succeeded, faults, engine_vars>>

DrainAgain ==
  /\ At("S", "check")
  /\ ~Idle /\ ~expired
  /\ Goto("S", ShutdownPass)
  /\ UNCHANGED <<lock, work_vars, ledger_vars, drain_vars, committed, flags, tasks, stop_vars,
                 dropped, succeeded, faults, engine_vars>>

\* The deadline passes, at any point of a drain.
DrainDeadline ==
  /\ plan["S"] # << >> /\ Last(plan["S"]) = "check"
  /\ ~expired
  /\ expired' = TRUE
  /\ UNCHANGED <<plan, lock, work_vars, ledger_vars, drain_vars, committed, flags, tasks, closed,
                 exporter, drained, stops, dropped, succeeded, faults, engine_vars>>

\* Mutant: the engine is not waited for.
ShutdownEngineOnly ==
  /\ At("S", "shutdown_engine")
  /\ BeginShutdown
  /\ Goto("S", <<"release">>)
  /\ UNCHANGED <<lock, work_vars, ledger_vars, drain_vars, committed, flags, tasks, stop_vars,
                 dropped, succeeded, faults>>

ShutdownEngine ==
  /\ At("S", "shutdown_engine")
  /\ BeginShutdown
  /\ Advance("S")
  /\ UNCHANGED <<lock, work_vars, ledger_vars, drain_vars, committed, flags, tasks, stop_vars,
                 dropped, succeeded, faults>>

EngineStopped ==
  /\ At("S", "await_engine")
  /\ ShutdownComplete
  /\ Advance("S")
  /\ UNCHANGED <<lock, work_vars, ledger_vars, drain_vars, committed, flags, tasks, stop_vars,
                 dropped, succeeded, faults, engine_vars>>

\* _release_metrics_exporter, and stop() returns or raises.
StopReturns ==
  /\ At("S", "release")
  /\ exporter' = FALSE
  /\ stops' = stops + 1
  /\ Advance("S")
  /\ UNCHANGED <<lock, work_vars, ledger_vars, drain_vars, committed, flags, tasks, closed,
                 expired, drained, dropped, succeeded, faults, engine_vars>>

-----------------------------------------------------------------------------
(* The engine's tasks *)

runtime_vars == <<plan, lock, work_vars, ledger_vars, drain_vars, committed, flags, tasks,
                  stop_vars, dropped, faults>>

Execution ==
  \E o \in DOMAIN in_flight_tasks :
    \/ AttemptSucceeds(o) /\ succeeded' = succeeded \cup {o} /\ UNCHANGED runtime_vars
    \/ AttemptFails(o) /\ UNCHANGED <<runtime_vars, succeeded>>

Callback ==
  /\ \E o \in DOMAIN in_flight_tasks : TaskDoneCallback(o)
  /\ UNCHANGED <<runtime_vars, succeeded>>

Cancellation == CancelPending /\ UNCHANGED <<runtime_vars, succeeded>>

LockedStep(p) ==
  \/ ScheduleOne(p) \/ ScheduleWaits(p) \/ SubmitResumes(p) \/ EndSchedule(p)
  \/ Poll(p) \/ NothingOverdue(p) \/ HandleBlockingTimeouts(p) \/ NothingDrained(p)
  \/ BeginProcess(p) \/ ProcessEvent(p) \/ EndProcess(p) \/ Published(p) \/ PublishFails(p)

TaskStep(p) == LockedStep(p) \/ Commit(p) \/ Cleanup(p)

LoopStep == BeginPass \/ Consume \/ Dispatch \/ LoopFails \/ Gathered \/ LoopEnds

MonitorStep == MonitorWakes \/ MonitorEnds \/ MonitorFails \/ CancelMonitor

StopStep ==
  \/ Start \/ StartFails \/ Joined \/ JoinRaises \/ DrainFinishes \/ DrainTimesOut
  \/ DrainAgain \/ ShutdownEngine \/ EngineStopped \/ StopReturns

Next ==
  \/ \E p \in Tasks : TakeLock(p) \/ TaskStep(p) \/ CleanupRaises(p)
  \/ LoopStep \/ MonitorStep \/ StopStep \/ Stop
  \/ StopTimeout \/ StopTimeoutInFinally \/ DrainDeadline
  \/ Execution \/ Callback \/ Cancellation

Spec == Init /\ [][Next]_vars

\* The event loop runs what is ready, its locks are first come first served,
\* executions end by themselves or at their timeout, and the drain's deadline
\* passes.  Nothing forces a call of stop() or its timeout.
Fairness ==
  /\ \A p \in {"C", "M"} : SF_vars(TakeLock(p) \/ Commit(p))
  /\ WF_vars(TakeLock("S"))
  /\ \A p \in Tasks : WF_vars(TaskStep(p))
  /\ WF_vars(LoopStep) /\ WF_vars(MonitorStep) /\ WF_vars(StopStep)
  /\ WF_vars(DrainDeadline) /\ WF_vars(Execution) /\ WF_vars(Callback)

FairSpec == Spec /\ Fairness

-----------------------------------------------------------------------------
(* Properties *)

\* The running total of the cache is the size of what it holds and within the
\* budget, through evictions, replaced entries, completions and close
\* (broker_support.py:84).
CacheAccounted ==
  /\ message_cache.size_bytes = SumOfSizes(message_cache.entries)
  /\ CacheMaxBytes > 0 => message_cache.size_bytes <= CacheMaxBytes

\* A committed record has been executed with success or, with the dead-letter
\* queue on, is on the dead-letter topic, whatever was cancelled, retried or
\* forced to fail (broker_completion_support.py:195).
CommittedHandled ==
  DlqEnabled => \A o \in Offsets : o < committed => o \in succeeded \cup published

\* A drain that reports success leaves no record behind, except completions that
\* were in the hands of a task when it was cancelled
\* (broker_shutdown_support.py:63).
DrainedHandled ==
  drained = "drained" => (0 .. (fetched - 1)) \subseteq completed \cup dropped

\* When stop() has returned or raised nothing of the consumer is left: no task,
\* no execution, no lock, an open client only if none was started, no exporter
\* (consumer.py:247).
StopReleasesAll ==
  stops > 0 /\ plan["S"] = << >>
    => /\ loop_task # "alive" /\ monitor_task # "alive" /\ ~running
       /\ DOMAIN in_flight_tasks = {}
       /\ lock = "free"
       /\ loop_task # "none" => closed
       /\ ~exporter

\* A completion is polled into the tracker or the retry ledger by one task at a
\* time: events are in hand only under the control lock, and every executed
\* record that was polled is somewhere (broker_poller.py:742).
EventsUnderLock ==
  /\ events # << >> => lock # "free"
  /\ \A o \in 0 .. (fetched - 1) :
       \/ o \in known \cup completed \cup PendingOffsets \cup dropped
       \/ \E e \in ToSet(events) : e.offset = o
       \/ closed

\* Whoever has the control lock gives it back, also when submit waits for a
\* permit under it (async_engine.py:75).
LockReleased == lock # "free" ~> lock = "free"

\* start() and stop() come to an end, unless the stop timeout cancelled the loop
\* in its finally (broker_task_lifecycle_support.py:109).
StopEnds == plan["S"] # << >> ~> plan["S"] = << >> \/ loop_task = "cancelled"

\* stop() waits for the loop for a bounded time: "how long BrokerPoller.stop()
\* waits for the consumer loop to exit after fetches are halted" (README.md:403).
StopBounded == At("S", "join") ~> ~At("S", "join")
=============================================================================
