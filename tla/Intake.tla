-------------------------------- MODULE Intake --------------------------------
(***************************************************************************)
(* How records get into the consumer: the consumer loop with its           *)
(* backpressure check, the rebalance callbacks that run on the thread of   *)
(* consume(), and the completion monitor next to them (BrokerPoller).      *)
(*                                                                         *)
(* One partition at a time.  Two locks are shared: the control lock of the *)
(* event loop, and the guard of the Kafka client, a re-entrant thread lock *)
(* that consume() holds while it serves callbacks.                         *)
(***************************************************************************)
EXTENDS Backpressure, RebalanceBridge, Sequences

CONSTANTS
  BatchSize,       \* records of one consume() call
  MaxLoad,         \* bound: the loop fetches while the load is below it
  MaxRebalances    \* bound: assignments and revocations

ASSUME IntakeAssumption ==
  /\ {BatchSize, MaxLoad} \subseteq Nat \ {0}
  /\ MaxRebalances \in Nat

VARIABLES
  pc,               \* where _run_consumer is
  batch,            \* records consume() returned that are not dispatched
  in_flight, queued,\* of the work manager
  client_assigned,  \* the client's own assignment
  tracked,          \* the partition has a tracker and the work manager serves it
  callback,         \* the steps left of the running rebalance callback
  failed,           \* a callback raised
  guard,            \* who holds BrokerOperationGuard: "free", "consume" or "commit"
  monitor,          \* where the completion monitor is
  rebalances

vars == <<backpressure_vars, bridge_vars, pc, batch, in_flight, queued, client_assigned,
          tracked, callback, failed, guard, monitor, rebalances>>

load == in_flight + queued

\* What commits, callbacks and the client change, for UNCHANGED.
work == <<batch, in_flight, queued>>
ownership == <<client_assigned, tracked, failed, rebalances>>

RevokeSteps == <<"prepare", "commit", "cleanup">>

AssignSteps == <<"assign">>

Callbacks == {AssignSteps, RevokeSteps, Tail(RevokeSteps), <<"cleanup">>, << >>}

TypeOK ==
  /\ adaptive \in AdaptiveModes /\ limits \in Limits
  /\ {is_paused, client_paused, client_assigned, tracked, failed} \subseteq BOOLEAN
  /\ BridgeTypeOK
  /\ pc \in {"check", "consume", "polling", "dispatch", "closing", "close", "closed", "raised"}
  /\ batch \in 0 .. BatchSize /\ in_flight \in Nat /\ queued \in Nat
  /\ callback \in Callbacks
  /\ guard \in {"free", "consume", "commit"}
  /\ monitor \in {"idle", "ready", "draining", "commit", "prepared", "committing", "settle", "off"}
  /\ rebalances \in 0 .. MaxRebalances

Init ==
  /\ InitBackpressure
  /\ InitBridge
  /\ pc = "check" /\ batch = 0 /\ in_flight = 0 /\ queued = 0
  /\ client_assigned = FALSE /\ tracked = FALSE
  /\ callback = << >> /\ failed = FALSE
  /\ guard = "free" /\ monitor = "idle" /\ rebalances = 0

-----------------------------------------------------------------------------
(* The consumer loop *)

Check ==
  /\ pc = "check"
  /\ CheckBackpressure(in_flight, queued, client_assigned)
  /\ pc' = "consume"
  /\ UNCHANGED <<bridge_vars, work, ownership, callback, guard, monitor>>

\* run_off_event_loop: a thread takes the guard and calls consume().
EnterConsume ==
  /\ pc = "consume"
  /\ guard = "free"
  /\ guard' = "consume"
  /\ pc' = "polling"
  /\ UNCHANGED <<backpressure_vars, bridge_vars, work, ownership, callback, monitor>>

\* Records come from an assigned partition that the client has not paused.
ConsumeReturns ==
  /\ pc = "polling" /\ callback = << >> /\ ~failed
  /\ batch' \in IF client_assigned /\ ~client_paused /\ load < MaxLoad THEN 0 .. BatchSize ELSE {0}
  /\ guard' = "free"
  /\ pc' = "dispatch"
  /\ UNCHANGED <<backpressure_vars, bridge_vars, in_flight, queued, ownership, callback, monitor>>

\* WorkManager.schedule: queued items start while the limit allows.
Scheduled(running, waiting) ==
  LET started == Min({waiting, Max({0, limits.scheduler - running})})
  IN  [in_flight |-> running + started, queued |-> waiting - started]

\* Mutant: completions are drained without a schedule.
DrainedOnly(w, done) ==
  /\ in_flight' = w.in_flight - done
  /\ queued' = w.queued

\* _drain_completion_events_once: completions give their slots back and the
\* queue moves up; without any there is nothing to do.
Drained(w, done) ==
  LET after == IF done = 0 THEN w ELSE Scheduled(w.in_flight - done, w.queued)
  IN  in_flight' = after.in_flight /\ queued' = after.queued

\* The rest of a loop pass, under the control lock: dispatch_messages and
\* schedule for what was consumed, then the drain.  Records of a partition
\* without a tracker are dropped.
Dispatch ==
  /\ pc = "dispatch"
  /\ control_lock = "free"
  /\ LET w == IF batch = 0 THEN [in_flight |-> in_flight, queued |-> queued]
              ELSE Scheduled(in_flight, queued + (IF tracked THEN batch ELSE 0))
     IN  \E done \in 0 .. w.in_flight : Drained(w, done)
  /\ batch' = 0
  /\ pc' = "check"
  /\ UNCHANGED <<backpressure_vars, bridge_vars, ownership, callback, guard, monitor>>

-----------------------------------------------------------------------------
(* The completion monitor *)

\* A completion wakes it up.
MonitorWakes ==
  /\ monitor = "idle" /\ in_flight > 0
  /\ monitor' = "ready"
  /\ UNCHANGED <<backpressure_vars, bridge_vars, work, ownership, pc, callback, guard>>

\* It holds the control lock while it resolves completions.
MonitorTakesLock ==
  /\ monitor = "ready"
  /\ LoopTakesLock
  /\ monitor' = "draining"
  /\ UNCHANGED <<backpressure_vars, work, ownership, pc, callback, guard>>

\* It drains the completions that have come: at least one, as the engine ends what
\* it executes, unless a revoke or the loop has taken them since it woke up.
MonitorDrains ==
  /\ monitor = "draining"
  /\ LoopFreesLock
  /\ \E done \in Min({1, in_flight}) .. in_flight :
       Drained([in_flight |-> in_flight, queued |-> queued], done)
  /\ monitor' = "commit"
  /\ UNCHANGED <<backpressure_vars, ownership, pc, batch, callback, guard>>

\* _commit_offsets: the candidates are taken under the control lock, the broker
\* commit waits for the guard without it, and the offsets are settled under it.
MonitorPrepares ==
  /\ monitor = "commit"
  /\ control_lock = "free"
  /\ monitor' = "prepared"
  /\ UNCHANGED <<backpressure_vars, bridge_vars, work, ownership, pc, callback, guard>>

MonitorCommits ==
  /\ monitor = "prepared"
  /\ guard = "free"
  /\ guard' = "commit"
  /\ monitor' = "committing"
  /\ UNCHANGED <<backpressure_vars, bridge_vars, work, ownership, pc, callback>>

\* The thread of the commit ends, also after its monitor was cancelled.
CommitEnds ==
  /\ guard = "commit"
  /\ guard' = "free"
  /\ monitor' = IF monitor = "committing" THEN "settle" ELSE monitor
  /\ UNCHANGED <<backpressure_vars, bridge_vars, work, ownership, pc, callback>>

MonitorSettles ==
  /\ monitor = "settle"
  /\ control_lock = "free"
  /\ monitor' = "idle"
  /\ UNCHANGED <<backpressure_vars, bridge_vars, work, ownership, pc, callback, guard>>

-----------------------------------------------------------------------------
(* Rebalance callbacks *)

\* The client finds a rebalance while it polls and calls back.
Rebalance ==
  /\ pc = "polling" /\ callback = << >> /\ ~failed
  /\ rebalances < MaxRebalances
  /\ rebalances' = rebalances + 1
  /\ callback' = IF client_assigned THEN RevokeSteps ELSE AssignSteps
  /\ UNCHANGED <<backpressure_vars, bridge_vars, work, pc, client_assigned, tracked, failed,
                 guard, monitor>>

BridgeStep ==
  /\ callback # << >>
  /\ Head(callback) \in Operations
  /\ CallBridge(Head(callback))
  /\ UNCHANGED <<backpressure_vars, work, ownership, pc, callback, guard, monitor>>

BridgeStarts ==
  /\ MarkStarted
  /\ UNCHANGED <<backpressure_vars, work, ownership, pc, callback, guard, monitor>>

\* assign_sync, prepare_revoke_sync and cleanup_revoke_sync on this state.  An
\* assignment is of a partition that the client did not own before, which it
\* fetches whatever was paused; the revoke drops the work of the partition.
Mutate(op) ==
  IF op = "prepare" THEN in_flight' = 0 /\ queued' = 0 /\ UNCHANGED tracked
  ELSE tracked' = (op = "assign") /\ UNCHANGED <<in_flight, queued>>

BridgeApplies ==
  /\ Applied
  /\ Mutate(call.op)
  /\ UNCHANGED <<backpressure_vars, batch, client_assigned, failed, rebalances, pc, callback,
                 guard, monitor>>

BridgeTimesOut ==
  /\ TimeOut
  /\ UNCHANGED <<backpressure_vars, work, ownership, pc, callback, guard, monitor>>

\* The client assigns or unassigns when its callback is over, with whatever result.
CallbackOver ==
  /\ client_assigned' = ~client_assigned
  /\ client_paused' = FALSE
  /\ UNCHANGED <<adaptive, limits, is_paused>>

\* Mutant: a timeout passes for an answer.
BridgeAnswersAnyway ==
  /\ BridgeReturns
  /\ callback' = Tail(callback)
  /\ IF callback' = << >> THEN CallbackOver ELSE UNCHANGED <<backpressure_vars, client_assigned>>
  /\ UNCHANGED <<work, tracked, failed, rebalances, pc, guard, monitor>>

\* The bridge answers.  A call that was given up makes the callback raise.
BridgeAnswers ==
  /\ BridgeReturns
  /\ callback' = IF call.phase = "applied" THEN Tail(callback) ELSE << >>
  /\ failed' = (failed \/ call.phase = "given_up")
  /\ IF callback' = << >> THEN CallbackOver ELSE UNCHANGED <<backpressure_vars, client_assigned>>
  /\ UNCHANGED <<work, tracked, rebalances, pc, guard, monitor>>

\* Mutant: the guard is not re-entrant.
CommitRevokeNotReentrant ==
  /\ callback # << >> /\ Head(callback) = "commit"
  /\ guard = "free"
  /\ callback' = Tail(callback)
  /\ UNCHANGED <<backpressure_vars, bridge_vars, work, ownership, pc, guard, monitor>>

\* commit_prepared_revoke_offsets on the callback's thread, which holds the guard
\* already.  A failed commit is recorded and the cleanup goes on.
CommitRevoke ==
  /\ callback # << >> /\ Head(callback) = "commit"
  /\ guard = "consume"
  /\ callback' = Tail(callback)
  /\ UNCHANGED <<backpressure_vars, bridge_vars, work, ownership, pc, guard, monitor>>

\* Mutant: an abandoned call is not marked as cancelled and mutates after all.
AbandonedMutates(op) ==
  /\ control_lock = "free"
  /\ DropAbandoned(op)
  /\ Mutate(op)
  /\ UNCHANGED <<backpressure_vars, batch, client_assigned, failed, rebalances, pc, callback,
                 guard, monitor>>

AbandonedEnds(op) ==
  /\ DropAbandoned(op)
  /\ UNCHANGED <<backpressure_vars, work, ownership, pc, callback, guard, monitor>>

-----------------------------------------------------------------------------
(* The end of the loop *)

\* consume() raises what a callback raised: _fatal_error is set, the monitor is
\* cancelled and awaited.
ConsumeRaises ==
  /\ pc = "polling" /\ callback = << >> /\ failed
  /\ guard' = "free"
  /\ pc' = "closing"
  /\ monitor' = "off"
  /\ IF monitor = "draining" THEN LoopFreesLock ELSE UNCHANGED bridge_vars
  /\ UNCHANGED <<backpressure_vars, work, ownership, callback>>

\* cleanup_runtime: consumer.close takes the guard and revokes what is left.
Close ==
  /\ pc = "closing"
  /\ guard = "free"
  /\ guard' = "consume"
  /\ pc' = "close"
  /\ failed' = FALSE
  /\ callback' = IF client_assigned THEN RevokeSteps ELSE << >>
  /\ UNCHANGED <<backpressure_vars, bridge_vars, work, client_assigned, tracked, rebalances,
                 monitor>>

\* close raises what its callback raised, and _run_consumer with it.
Closed ==
  /\ pc = "close" /\ callback = << >>
  /\ guard' = "free"
  /\ pc' = IF failed THEN "raised" ELSE "closed"
  /\ UNCHANGED <<backpressure_vars, bridge_vars, work, ownership, callback, monitor>>

Loop == Check \/ EnterConsume \/ ConsumeReturns \/ Dispatch \/ ConsumeRaises \/ Close \/ Closed

Monitor ==
  MonitorWakes \/ MonitorTakesLock \/ MonitorDrains \/ MonitorPrepares \/ MonitorCommits \/ CommitEnds
    \/ MonitorSettles

Callback == BridgeStep \/ BridgeStarts \/ BridgeApplies \/ BridgeAnswers \/ CommitRevoke

Next ==
  \/ Loop \/ Monitor \/ Callback
  \/ Rebalance \/ BridgeTimesOut
  \/ \E op \in Operations : AbandonedEnds(op)

Spec == Init /\ [][Next]_vars

\* The loop and the threads it starts run; the control lock and the guard are
\* granted in the order they were asked for, so a waiter is not passed for
\* ever.  Nothing makes a rebalance or a timeout happen.
Fairness ==
  /\ WF_vars(Check) /\ SF_vars(EnterConsume) /\ WF_vars(ConsumeReturns) /\ SF_vars(Dispatch)
  /\ WF_vars(ConsumeRaises) /\ SF_vars(Close) /\ WF_vars(Closed)
  /\ WF_vars(MonitorWakes) /\ SF_vars(MonitorTakesLock) /\ WF_vars(MonitorDrains) /\ SF_vars(MonitorPrepares)
  /\ SF_vars(MonitorCommits) /\ WF_vars(CommitEnds) /\ SF_vars(MonitorSettles)
  /\ WF_vars(BridgeStep) /\ SF_vars(BridgeStarts) /\ WF_vars(BridgeApplies)
  /\ WF_vars(BridgeAnswers) /\ WF_vars(CommitRevoke)

FairSpec == Spec /\ Fairness

-----------------------------------------------------------------------------
(* Properties *)

\* The limit the scheduler starts work under is the one the loop pauses at, and
\* the point to resume at is reachable and not above it, whichever controller
\* moved them (set_runtime_max_in_flight).
LimitsCoherent ==
  /\ limits.scheduler = limits.current
  /\ 1 <= limits.resume /\ limits.resume <= limits.current

\* With one controller the limit is never raised while the loop is paused or
\* above it.  (With both, the backpressure controller reinstates its own limit.)
NoRaiseUnderLoad ==
  [][limits'.current > limits.current /\ adaptive # {"backpressure", "concurrency"}
       => ~is_paused]_vars

\* While the client obeys the flag, the loop overshoots the configured limit by
\* one batch at most: between the check and the dispatch of what was fetched
\* nothing else adds load (_run_consumer).
LoadBounded ==
  tracked /\ (is_paused => client_paused) => load <= ConfiguredMaxInFlight + BatchSize

\* The same whatever the client does.  It does not hold: the flag survives a
\* rebalance that the pause does not, and a set flag is not set again
\* (BrokerRuntimeSupport.check_backpressure).
FetchesBounded == load <= ConfiguredMaxInFlight + BatchSize

\* A bridge call that was given up never changes the state of the event loop
\* afterwards: ownership changes only while a callback waits for it
\* (mark_started, cancel_if_not_started).
GaveUpStaysOut == [][tracked' # tracked => call.phase = "started"]_vars

\* Between callbacks, unless one raised, the consumer serves the partition
\* exactly when the client owns it (assign_sync, cleanup_revoke_sync).
OwnershipAgrees ==
  callback = << >> /\ ~failed /\ pc \notin {"closing", "close", "closed"} =>
    tracked = client_assigned

\* A pause ends: the fetches of an owned partition do not stay paused for ever,
\* however the controllers lower the limit that the load must fall below.
EventuallyResumed == []<>(~client_paused \/ ~client_assigned)

\* A rebalance callback ends although it holds the guard and waits for the
\* control lock, while commits take the two in turn; no timeout is needed.
CallbackEnds == [](callback # << >> => <>(callback = << >>))
=============================================================================
