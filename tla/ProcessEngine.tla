--------------------------- MODULE ProcessEngine ---------------------------
(***************************************************************************)
(* The process execution engine (process_engine.py and its helpers): the   *)
(* parent submits records and route batches down one pipe per worker       *)
(* process, the workers report through two multiprocessing queues, and the *)
(* parent finds dead workers, restarts them and dispatches their records   *)
(* again.                                                                  *)
(*                                                                         *)
(* Two threads of control run in the parent.  "C" is whoever holds the     *)
(* poller's control lock: it submits and polls.  "M" is the completion     *)
(* monitor in wait_for_completion, outside that lock, and exists only when *)
(* strict_completion_monitor_enabled is set (Monitor).  Each thread has a  *)
(* list of tasks still to do (todo), one task per section of code that     *)
(* runs without giving another thread the chance to interfere: a lock held,*)
(* or one operation on a queue or a pipe.                                  *)
(*                                                                         *)
(* A worker's puts go to its own feeder buffers (reg, comp); Flush moves   *)
(* them to the shared queues.  A worker that dies loses what was not       *)
(* flushed, in each queue separately.                                      *)
(***************************************************************************)
EXTENDS WorkerPipes, FiniteSets, TLC

CONSTANTS
    Workers,        \* worker indexes
    WorkerOf,       \* offset -> worker index: stable_worker_index_for_route
    Plan,           \* the submissions, in order: [batch, items]
    MaxRetries,     \* deaths a record survives: max_retries
    BatchLimit,     \* events one poll may return
    Monitor,        \* strict_completion_monitor_enabled
    Outcomes,       \* results of the worker function: a subset of BOOLEAN
    TaskTimeouts,   \* whether task_timeout_ms is set
    Stops,          \* whether the poller may be stopped
    MaxFaults,      \* bound on deaths and failed restarts
    Overlap,        \* whether deaths and shutdown may overlap the monitor's work
    MaxProcs        \* bound on processes ever started

ASSUME ProcessEngineAssumption ==
    /\ MaxRetries \in Nat /\ BatchLimit \in Nat \ {0} /\ MaxFaults \in Nat
    /\ Monitor \in BOOLEAN /\ TaskTimeouts \in BOOLEAN /\ Stops \in BOOLEAN
    /\ Overlap \in BOOLEAN
    /\ Outcomes \subseteq BOOLEAN

VARIABLES
    procs,          \* every process ever started, by pid
    workers,        \* _workers: index -> pid
    senders,        \* _worker_pipe_senders: index -> pid reading it, 0 for none
    registry_q, completion_q,
    registry, pending, slots,
    prefetched, seen, in_flight,
    todo,           \* thread -> tasks
    reg_lock,       \* _registry_state_lock, reentrant: [owner, depth]
    wait_lock,      \* _worker_slot_wait_liveness_lock, reentrant
    submitted,      \* submissions made so far
    accepted, rejected,
    surfaced,       \* events returned by poll_completed_events
    lost,           \* items whose completion was lost on its way to the parent
    prefix_lost,    \* completions a fatal timeout exit left unflushed
    stopping,       \* the monitor task was cancelled
    phase,          \* "up", "closing" (_is_shutdown), "signalled", "closed"
    faults

vars == <<procs, workers, senders, registry_q, completion_q, registry, pending,
          slots, prefetched, seen, in_flight, todo, reg_lock, wait_lock, submitted,
          accepted, rejected, surfaced, lost, prefix_lost, stopping, phase,
          faults>>

queues == <<registry_q, completion_q>>
books == <<registry, pending, slots>>
buffer == <<prefetched, seen>>
locks == <<reg_lock, wait_lock>>
pool == <<procs, workers, senders>>
caller == <<submitted, accepted, rejected, surfaced, in_flight>>
history == <<lost, prefix_lost>>
control == <<stopping, phase>>

Threads == IF Monitor THEN {"C", "M"} ELSE {"C"}
Free == [owner |-> "", depth |-> 0]
Sentinel == [batch |-> -1, items |-> <<>>]
Fresh(items) == [k \in DOMAIN items |-> [item |-> items[k], att |-> 0]]
PlanItems == UNION {Range(Plan[k].items) : k \in DOMAIN Plan}

NewProc(idx) ==
    [idx |-> idx, alive |-> TRUE, pipe |-> <<>>, batch |-> 0, cur |-> <<>>,
     res |-> <<>>, reg |-> <<>>, comp |-> <<>>]

Init ==
    /\ workers = [w \in Workers |-> w] /\ senders = workers
    /\ procs = [p \in Workers |-> NewProc(p)]
    /\ registry_q = <<>> /\ completion_q = <<>>
    /\ registry = <<>> /\ pending = <<>> /\ slots = QueueSize
    /\ prefetched = <<>> /\ seen = <<>> /\ in_flight = 0
    /\ todo = [t \in Threads |-> <<>>]
    /\ reg_lock = Free /\ wait_lock = Free
    /\ submitted = 0 /\ accepted = {} /\ rejected = {} /\ surfaced = <<>>
    /\ lost = {} /\ prefix_lost = {}
    /\ stopping = FALSE /\ phase = "up" /\ faults = 0

-----------------------------------------------------------------------------
(***************************************************************************)
(* Worker processes: _worker_loop.                                         *)
(***************************************************************************)
StartEvent(idx, x) == [kind |-> "start", worker |-> idx, item |-> x.item, att |-> x.att]
DoneEvents(idx, res) ==
    [k \in DOMAIN res |-> [kind |-> "done", worker |-> idx, item |-> res[k].item]]

MonitorAtWork == Monitor /\ (~stopping \/ todo["M"] # <<>>)
MayFail == faults < MaxFaults /\ (MonitorAtWork => Overlap)

Alive(p) == p \in DOMAIN procs /\ procs[p].alive

InEvents(raws) == UNION {ItemsOf(raw) : raw \in Range(raws)}

\* Records whose completion is lost although their done event is not.
Torn(lostReg, lostComp) ==
    {i \in InEvents(lostComp) :
        ~\E k \in DOMAIN lostReg : lostReg[k].kind = "done" /\ lostReg[k].item = i}

\* The process ends after r registry events and c completions left its buffers.
Dies(p, pr, r, c) ==
    LET lostReg == SubSeq(pr.reg, r + 1, Len(pr.reg))
        lostComp == SubSeq(pr.comp, c + 1, Len(pr.comp))
    IN  /\ procs' = [procs EXCEPT ![p] = [NewProc(pr.idx) EXCEPT !.alive = FALSE]]
        /\ registry_q' = registry_q \o SubSeq(pr.reg, 1, r)
        /\ completion_q' = completion_q \o SubSeq(pr.comp, 1, c)
        /\ lost' = lost \cup Torn(lostReg, lostComp)

\* A normal exit waits for the feeder threads.
Exits(p) == Dies(p, procs[p], Len(procs[p].reg), Len(procs[p].comp))

Receive(p) ==
    /\ Alive(p) /\ procs[p].cur = <<>> /\ procs[p].pipe # <<>>
    /\ LET msg == Head(procs[p].pipe)
       IN  IF msg = Sentinel
           THEN Exits(p)
           ELSE /\ procs' = [procs EXCEPT
                      ![p].pipe = Tail(@), ![p].batch = msg.batch, ![p].cur = msg.items,
                      ![p].reg = Append(@, StartEvent(procs[p].idx, msg.items[1]))]
                /\ UNCHANGED <<queues, lost>>
    /\ UNCHANGED <<workers, senders, books, buffer, todo, locks, caller, control,
                   prefix_lost, faults>>

\* _flush_route_batch_completion, and the done events that follow it.
FlushResults(pr, res) ==
    [pr EXCEPT !.comp = IF res = <<>> THEN @ ELSE Append(@, res),
               !.reg = @ \o DoneEvents(pr.idx, res)]

\* A single record is reported at once, a route batch at its end or at its
\* first failure, whose tail is handed back.
Finish(p, ok) ==
    /\ Alive(p) /\ procs[p].cur # <<>>
    /\ LET pr == procs[p]
           ev == [item |-> pr.cur[1].item, ok |-> ok]
           res == Append(pr.res, ev)
           tail == Tail(pr.cur)
           skipped == IF ok \/ tail = <<>> THEN <<>>
                      ELSE <<[kind |-> "not_started", batch |-> pr.batch, items |-> tail]>>
       IN  IF pr.batch # 0 /\ ok /\ tail # <<>>
           THEN procs' = [procs EXCEPT ![p].cur = tail, ![p].res = res,
                             ![p].reg = Append(@, StartEvent(pr.idx, tail[1]))]
           ELSE procs' = [procs EXCEPT ![p] = FlushResults(
                             [pr EXCEPT !.cur = <<>>, !.res = <<>>, !.batch = 0,
                                        !.reg = @ \o skipped], res)]
    /\ UNCHANGED <<workers, senders, queues, books, buffer, todo, locks, caller, control,
                   history, faults>>

\* task_timeout_ms expires: the prefix of a batch is put on the queues and
\* os._exit follows at once.
FatalTimeout(p) ==
    /\ TaskTimeouts /\ MayFail
    /\ Alive(p) /\ procs[p].cur # <<>>
    /\ LET pr == procs[p]
           late == [kind |-> "timeout", worker |-> pr.idx, item |-> pr.cur[1].item]
           put == FlushResults([pr EXCEPT !.reg = Append(@, late)], pr.res)
       IN  \E r \in 0 .. Len(put.reg), c \in 0 .. Len(put.comp) :
              /\ Dies(p, put, r, c)
              /\ prefix_lost' = IF c < Len(put.comp)
                                THEN prefix_lost \cup ItemsOf(pr.res) ELSE prefix_lost
    /\ faults' = faults + 1
    /\ UNCHANGED <<workers, senders, books, buffer, todo, locks, caller, control>>

Crash(p) ==
    /\ MayFail /\ Alive(p)
    /\ \E r \in 0 .. Len(procs[p].reg), c \in 0 .. Len(procs[p].comp) :
          Dies(p, procs[p], r, c)
    /\ faults' = faults + 1
    /\ UNCHANGED <<workers, senders, books, buffer, todo, locks, caller, control,
                   prefix_lost>>

FlushRegistry(p) ==
    /\ Alive(p) /\ procs[p].reg # <<>>
    /\ registry_q' = registry_q \o procs[p].reg
    /\ procs' = [procs EXCEPT ![p].reg = <<>>]
    /\ UNCHANGED <<workers, senders, completion_q, books, buffer, todo, locks, caller,
                   control, history, faults>>

FlushCompletions(p) ==
    /\ Alive(p) /\ procs[p].comp # <<>>
    /\ completion_q' = completion_q \o procs[p].comp
    /\ procs' = [procs EXCEPT ![p].comp = <<>>]
    /\ UNCHANGED <<workers, senders, registry_q, books, buffer, todo, locks, caller,
                   control, history, faults>>

-----------------------------------------------------------------------------
(***************************************************************************)
(* The parent's threads.  Then(t, tasks) replaces the task just done.      *)
(***************************************************************************)
Task(t, op) == todo[t] # <<>> /\ Head(todo[t]).op = op
Then(t, tasks) == todo' = [todo EXCEPT ![t] = tasks \o Tail(@)]

Available(t, lock) == lock.depth = 0 \/ lock.owner = t
Acquired(t, lock) == [owner |-> t, depth |-> lock.depth + 1]
Released(lock) == IF lock.depth = 1 THEN Free ELSE [lock EXCEPT !.depth = @ - 1]

DrainTask == [op |-> "drain", held |-> FALSE]
EnsureWorkersAlive(force) ==
    <<DrainTask, [op |-> "prefetch"], [op |-> "scan", force |-> force]>>
DispatchTask(batch, items, count, fail) ==
    [op |-> "dispatch", batch |-> batch, items |-> items, count |-> count, fail |-> fail]

\* Dispatch payloads one by one; fail says what a failed dispatch does.
RequeueTasks(items, fail) ==
    [k \in DOMAIN items |-> DispatchTask(0, <<items[k]>>, FALSE, fail)]

Failures(payloads) == [k \in DOMAIN payloads |-> <<[item |-> payloads[k].item, ok |-> FALSE]>>]

Book == [registry |-> registry, pending |-> pending, slots |-> slots]
SetBook(book) ==
    registry' = book.registry /\ pending' = book.pending /\ slots' = book.slots

\* Mutant: a skipped tail is only logged.
DrainIgnoresTail(t) ==
    /\ Task(t, "drain") /\ Available(t, reg_lock)
    /\ LET d == DrainEvents(Book, registry_q)
       IN  /\ SetBook(d.book)
           /\ registry_q' = d.left
    /\ Then(t, <<>>)
    /\ UNCHANGED <<pool, completion_q, buffer, locks, caller, history, control, faults>>

\* drain_registry_event_queue, under the registry lock; the tail a worker
\* skipped is dispatched with the lock still held.
Drain(t) ==
    /\ Task(t, "drain") /\ Available(t, reg_lock)
    /\ LET task == Head(todo[t])
           d == DrainEvents(Book, registry_q)
       IN  /\ SetBook(d.book)
           /\ registry_q' = d.left
           /\ IF d.requeue = <<>>
              THEN /\ Then(t, <<>>)
                   /\ reg_lock' = IF task.held THEN Released(reg_lock) ELSE reg_lock
              ELSE /\ Then(t, RequeueTasks(d.requeue, "rest") \o <<[task EXCEPT !.held = TRUE]>>)
                   /\ reg_lock' = IF task.held THEN reg_lock ELSE Acquired(t, reg_lock)
    /\ UNCHANGED <<pool, completion_q, buffer, wait_lock, caller, history, control, faults>>

Buffer == [out |-> <<>>, prefetched |-> prefetched, seen |-> seen, left |-> <<>>]
SetBuffer(buf) ==
    /\ prefetched' = buf.prefetched /\ seen' = buf.seen
    /\ registry' = DiscardCompletion(registry, Range(buf.seen) \ Range(seen))

Prefetch(t) ==
    /\ Task(t, "prefetch") /\ Available(t, reg_lock)
    /\ SetBuffer(DrainCompletions(Buffer, completion_q))
    /\ completion_q' = <<>>
    /\ Then(t, <<>>)
    /\ UNCHANGED <<pool, registry_q, pending, slots, locks, caller, history, control, faults>>

Dead == {w \in Workers : ~procs[workers[w]].alive}

Scan(t) ==
    /\ Task(t, "scan")
    /\ LET dead == SetToSortSeq(Dead, <)
       IN  Then(t, [k \in DOMAIN dead |-> [op |-> "recover", idx |-> dead[k]]])
    /\ UNCHANGED <<pool, queues, books, buffer, locks, caller, history, control, faults>>

\* An unforced scan is skipped until the liveness interval has passed.
SkipScan(t) ==
    /\ Task(t, "scan") /\ ~Head(todo[t]).force
    /\ Then(t, <<>>)
    /\ UNCHANGED <<pool, queues, books, buffer, locks, caller, history, control, faults>>

RecoverItems(t) ==
    /\ Task(t, "recover") /\ Available(t, reg_lock)
    /\ LET idx == Head(todo[t]).idx
           rec == RecoverDeadWorkerItems(registry, idx, MaxRetries)
       IN  /\ registry' = rec.registry
           /\ completion_q' = completion_q \o Failures(rec.failed)
           /\ Then(t, <<[op |-> "pending", idx |-> idx, items |-> rec.requeue]>>)
    /\ UNCHANGED <<pool, registry_q, pending, slots, buffer, locks, caller, history,
                   control, faults>>

\* Mutant: waiting records go before the ones that had started.
RecoverPendingFirst(t) ==
    /\ Task(t, "pending")
    /\ LET task == Head(todo[t])
           rec == RecoverPendingDispatches(Book, task.idx, MaxRetries)
       IN  /\ SetBook(rec.book)
           /\ completion_q' = completion_q \o Failures(rec.failed)
           /\ Then(t, <<[task EXCEPT !.op = "restart", !.items = rec.requeue \o @]>>)
    /\ UNCHANGED <<pool, registry_q, buffer, locks, caller, history, control, faults>>

RecoverPending(t) ==
    /\ Task(t, "pending")
    /\ LET task == Head(todo[t])
           rec == RecoverPendingDispatches(Book, task.idx, MaxRetries)
       IN  /\ SetBook(rec.book)
           /\ completion_q' = completion_q \o Failures(rec.failed)
           /\ Then(t, <<[task EXCEPT !.op = "restart", !.items = @ \o rec.requeue]>>)
    /\ UNCHANGED <<pool, registry_q, buffer, locks, caller, history, control, faults>>

\* A new pipe replaces the worker's sender, which is closed: its reader is dead,
\* or an orphan that goes on waiting while a forked sibling holds the write end.
StartWorkerTaskSource(idx, p) == [senders EXCEPT ![idx] = p]

Restart(t) ==
    /\ Task(t, "restart") /\ Len(procs) < MaxProcs
    /\ LET task == Head(todo[t])
       IN  /\ procs' = Append(procs, NewProc(task.idx))
           /\ senders' = StartWorkerTaskSource(task.idx, Len(procs) + 1)
           /\ workers' = [workers EXCEPT ![task.idx] = Len(procs) + 1]
           /\ Then(t, RequeueTasks(task.items, "emit"))
    /\ UNCHANGED <<queues, books, buffer, locks, caller, history, control, faults>>

RestartFails(t) ==
    /\ Task(t, "restart") /\ MayFail
    /\ LET task == Head(todo[t])
       IN  /\ senders' = [senders EXCEPT ![task.idx] = 0]
           /\ completion_q' = completion_q \o Failures(task.items)
           /\ Then(t, <<>>)
    /\ faults' = faults + 1
    /\ UNCHANGED <<procs, workers, registry_q, books, buffer, locks, caller, history, control>>

-----------------------------------------------------------------------------
(***************************************************************************)
(* dispatch_payload and dispatch_route_batch: take a slot, note the        *)
(* dispatch as pending, write it to the pipe.                              *)
(***************************************************************************)
TargetOf(task) == WorkerOf[task.items[1].item.off]
PendingOf(task) ==
    [worker |-> TargetOf(task), batch |-> task.batch, items |-> task.items, released |-> FALSE]

\* What the caller of a failed dispatch does: WorkManager sees the exception,
\* a recovered record becomes a failure, a skipped tail fails as a whole.
DispatchFailed(t, task) ==
    CASE task.fail = "raise" ->
            /\ todo' = [todo EXCEPT ![t] = <<>>]
            /\ rejected' = rejected \cup ItemsOf(task.items)
            /\ UNCHANGED completion_q
      [] task.fail = "emit" ->
            /\ Then(t, <<>>)
            /\ completion_q' = completion_q \o Failures(task.items)
            /\ UNCHANGED rejected
      [] task.fail = "rest" ->
            /\ LET n == SelectInSeq(todo[t], LAMBDA x : x.op = "drain")
               IN  /\ todo' = [todo EXCEPT ![t] = SubSeq(@, n, Len(@))]
                   /\ completion_q' = completion_q \o Failures([k \in 1 .. n - 1 |-> todo[t][k].items[1]])
            /\ UNCHANGED rejected

AcquireSlot(t) ==
    /\ Task(t, "dispatch") /\ phase \in {"up", "closing"} /\ slots > 0
    /\ slots' = slots - 1
    /\ pending' = SetPending(pending, PendingOf(Head(todo[t])))
    /\ Then(t, <<[Head(todo[t]) EXCEPT !.op = "send"]>>)
    /\ UNCHANGED <<pool, queues, registry, buffer, locks, caller, history, control, faults>>

\* _signal_worker_pipe_slot_wait: one waiting thread looks after the workers.
WaitForSlot(t) ==
    /\ Task(t, "dispatch") /\ phase = "up" /\ slots = 0 /\ Available(t, wait_lock)
    /\ wait_lock' = Acquired(t, wait_lock)
    /\ Then(t, EnsureWorkersAlive(TRUE) \o <<[op |-> "unwait"], Head(todo[t])>>)
    /\ UNCHANGED <<pool, queues, books, buffer, reg_lock, caller, history, control, faults>>

EndSlotWait(t) ==
    /\ Task(t, "unwait")
    /\ wait_lock' = Released(wait_lock)
    /\ Then(t, <<>>)
    /\ UNCHANGED <<pool, queues, books, buffer, reg_lock, caller, history, control, faults>>

DispatchRefused(t) ==
    /\ Task(t, "dispatch") /\ phase \in {"signalled", "closed"}
    /\ DispatchFailed(t, Head(todo[t]))
    /\ UNCHANGED <<pool, registry_q, books, buffer, locks, submitted, accepted, surfaced,
                   in_flight, history, control, faults>>

Send(t) ==
    /\ Task(t, "send")
    /\ LET task == Head(todo[t])
           p == senders[TargetOf(task)]
       IN  IF Alive(p)
           THEN /\ procs' = [procs EXCEPT ![p].pipe =
                      Append(@, [batch |-> task.batch, items |-> task.items])]
                /\ IF task.count
                   THEN /\ accepted' = accepted \cup ItemsOf(task.items)
                        /\ in_flight' = in_flight + Len(task.items)
                   ELSE UNCHANGED <<accepted, in_flight>>
                /\ Then(t, <<>>)
                /\ UNCHANGED <<completion_q, pending, slots, rejected>>
           ELSE /\ pending' = PopPending(pending, PendingOf(task))
                /\ slots' = ReleaseSlot(slots)
                /\ DispatchFailed(t, task)
                /\ UNCHANGED <<procs, accepted, in_flight>>
    /\ UNCHANGED <<workers, senders, registry_q, registry, buffer, locks, submitted,
                   surfaced, history, control, faults>>

-----------------------------------------------------------------------------
(***************************************************************************)
(* The engine's interface: submit, submit_batch, poll_completed_events,    *)
(* wait_for_completion and shutdown.                                       *)
(***************************************************************************)
Submit ==
    /\ todo["C"] = <<>> /\ phase = "up" /\ submitted < Len(Plan)
    /\ LET s == Plan[submitted + 1]
       IN  todo' = [todo EXCEPT !["C"] =
               <<DrainTask>> \o EnsureWorkersAlive(TRUE)
               \o <<DispatchTask(IF s.batch THEN submitted + 1 ELSE 0, Fresh(s.items),
                                 TRUE, "raise")>>]
    /\ submitted' = submitted + 1
    /\ UNCHANGED <<pool, queues, books, buffer, locks, accepted, rejected, surfaced,
                   in_flight, history, control, faults>>

StartPoll ==
    /\ todo["C"] = <<>> /\ phase \in {"up", "closed"}
    /\ todo' = [todo EXCEPT !["C"] =
           (IF phase = "up" THEN EnsureWorkersAlive(FALSE) \o <<DrainTask>> ELSE <<>>)
           \o <<[op |-> "poll"]>>]
    /\ UNCHANGED <<pool, queues, books, buffer, locks, caller, history, control, faults>>

Poll(t) ==
    /\ Task(t, "poll") /\ Available(t, reg_lock)
    /\ LET n == Min({BatchLimit, Len(prefetched)})
           kept == [Buffer EXCEPT !.prefetched = SubSeq(prefetched, n + 1, Len(prefetched))]
           buf == IF phase = "closed" THEN [kept EXCEPT !.left = completion_q]
                  ELSE PollAvailable(kept, completion_q, BatchLimit - n)
           out == SubSeq(prefetched, 1, n) \o buf.out
       IN  /\ SetBuffer(buf)
           /\ completion_q' = buf.left
           /\ surfaced' = surfaced \o out
           /\ in_flight' = in_flight - Len(out)
    /\ Then(t, <<>>)
    /\ UNCHANGED <<pool, registry_q, pending, slots, locks, submitted, accepted, rejected,
                   history, control, faults>>

\* "loop" marks what the monitor does on the event loop after its first await.
StartWait ==
    /\ Monitor /\ todo["M"] = <<>> /\ ~stopping /\ phase = "up"
    /\ todo' = [todo EXCEPT !["M"] = EnsureWorkersAlive(FALSE) \o <<[op |-> "loop"]>>]
    /\ UNCHANGED <<pool, queues, books, buffer, locks, caller, history, control, faults>>

LoopDrain(t) ==
    /\ Task(t, "loop")
    /\ Then(t, <<DrainTask, [op |-> "wait"]>>)
    /\ UNCHANGED <<pool, queues, books, buffer, locks, caller, history, control, faults>>

\* Prefetch one item of the completion queue; a duplicate does not end the wait.
Accept(t, raw) ==
    LET buf == PrefetchItem(Buffer, raw)
    IN  /\ SetBuffer(buf)
        /\ Then(t, IF buf.seen = seen THEN <<[op |-> "wait"]>> ELSE <<>>)

Wait(t) ==
    /\ Task(t, "wait")
    /\ CASE prefetched # <<>> -> Then(t, <<>>) /\ UNCHANGED <<completion_q, registry, buffer>>
         [] prefetched = <<>> /\ completion_q # <<>> ->
              /\ Available(t, reg_lock)
              /\ Accept(t, Head(completion_q)) /\ completion_q' = Tail(completion_q)
         [] prefetched = <<>> /\ completion_q = <<>> ->
              Then(t, <<[op |-> "get"]>>) /\ UNCHANGED <<completion_q, registry, buffer>>
    /\ UNCHANGED <<pool, registry_q, pending, slots, locks, caller, history, control, faults>>

\* The blocking get of a pool thread.
Get(t) ==
    /\ Task(t, "get") /\ completion_q # <<>>
    /\ Then(t, <<[op |-> "hand", raw |-> Head(completion_q)]>>)
    /\ completion_q' = Tail(completion_q)
    /\ UNCHANGED <<pool, registry_q, books, buffer, locks, caller, history, control, faults>>

GetTimesOut(t) ==
    /\ Task(t, "get") \/ Task(t, "abandoned_get")
    /\ Then(t, <<>>)
    /\ UNCHANGED <<pool, queues, books, buffer, locks, caller, history, control, faults>>

HandOver(t) ==
    /\ Task(t, "hand") /\ Available(t, reg_lock)
    /\ Accept(t, Head(todo[t]).raw)
    /\ UNCHANGED <<pool, queues, pending, slots, locks, caller, history, control, faults>>

\* The monitor was cancelled while its thread waited: nobody takes the result.
AbandonedGet(t) ==
    /\ Task(t, "abandoned_get") /\ completion_q # <<>>
    /\ Then(t, <<>>)
    /\ completion_q' = Tail(completion_q)
    /\ lost' = lost \cup InEvents(<<Head(completion_q)>>)
    /\ UNCHANGED <<pool, registry_q, books, buffer, locks, caller, prefix_lost, control, faults>>

\* Cancelling the monitor ends what it does on the event loop, not its thread.
Cancelled(tasks) ==
    IF tasks = <<>> THEN <<>>
    ELSE IF Last(tasks).op = "get" THEN <<[op |-> "abandoned_get"]>> ELSE Front(tasks)

CancelMonitor ==
    /\ Stops /\ Monitor /\ ~stopping
    /\ todo["M"] # <<>> => Last(todo["M"]).op \in {"loop", "get", "hand"}
    /\ todo' = [todo EXCEPT !["M"] = Cancelled(@)]
    /\ lost' = IF Task("M", "hand") THEN lost \cup InEvents(<<Head(todo["M"]).raw>>) ELSE lost
    /\ stopping' = TRUE
    /\ UNCHANGED <<pool, queues, books, buffer, locks, caller, prefix_lost, phase, faults>>

DrainShutdownIpcOnce == <<DrainTask, [op |-> "prefetch"]>>

\* PyrallelConsumer.stop reaches the engine when the poller has stopped.
Shutdown ==
    /\ Stops /\ (Monitor => stopping) /\ (MonitorAtWork => Overlap) /\ todo["C"] = <<>> /\ phase = "up"
    /\ phase' = "closing"
    /\ LET joins == SetToSortSeq(Workers, <)
       IN  todo' = [todo EXCEPT !["C"] =
              <<DrainTask, [op |-> "signal"], [op |-> "drain_before_join"]>>
              \o [k \in DOMAIN joins |-> [op |-> "join", idx |-> joins[k]]]
              \o DrainShutdownIpcOnce \o <<[op |-> "close"]>>]
    /\ UNCHANGED <<pool, queues, books, buffer, locks, caller, history, stopping, faults>>

\* signal_shutdown: every slot is given back and every pipe gets the sentinel.
SignalShutdown(t) ==
    /\ Task(t, "signal")
    /\ phase' = "signalled"
    /\ slots' = QueueSize
    /\ procs' = [p \in DOMAIN procs |->
          IF procs[p].alive /\ p \in Range(senders)
          THEN [procs[p] EXCEPT !.pipe = Append(@, Sentinel)] ELSE procs[p]]
    /\ Then(t, <<>>)
    /\ UNCHANGED <<workers, senders, queues, registry, pending, buffer, locks, caller,
                   history, stopping, faults>>

\* Passes over both queues until they and the registry are empty, or a second.
DrainBeforeJoin(t) ==
    /\ Task(t, "drain_before_join")
    /\ \/ Then(t, DrainShutdownIpcOnce \o <<Head(todo[t])>>)
       \/ Then(t, <<>>)
    /\ UNCHANGED <<pool, queues, books, buffer, locks, caller, history, control, faults>>

\* Mutant: no escalation after the join timed out.
JoinWorkerOnly(t) ==
    /\ Task(t, "join")
    /\ Then(t, <<>>)
    /\ UNCHANGED <<pool, queues, books, buffer, locks, caller, history, control, faults>>

\* join, then terminate and kill a worker that does not leave.
JoinWorker(t) ==
    /\ Task(t, "join")
    /\ LET p == workers[Head(todo[t]).idx]
       IN  IF Alive(p)
           THEN \E r \in 0 .. Len(procs[p].reg), c \in 0 .. Len(procs[p].comp) :
                   Dies(p, procs[p], r, c)
           ELSE UNCHANGED <<procs, queues, lost>>
    /\ Then(t, <<>>)
    /\ UNCHANGED <<workers, senders, books, buffer, locks, caller, prefix_lost,
                   control, faults>>

CloseEngine(t) ==
    /\ Task(t, "close")
    /\ phase' = "closed"
    /\ registry' = <<>> /\ pending' = <<>>
    /\ in_flight' = Len(prefetched)
    /\ Then(t, <<>>)
    /\ UNCHANGED <<pool, queues, slots, buffer, locks, submitted, accepted,
                   rejected, surfaced, history, stopping, faults>>

ThreadStep(t) ==
    \/ Drain(t) \/ Prefetch(t) \/ Scan(t)
    \/ RecoverItems(t) \/ RecoverPending(t) \/ Restart(t)
    \/ AcquireSlot(t) \/ WaitForSlot(t) \/ EndSlotWait(t) \/ DispatchRefused(t) \/ Send(t)
    \/ Poll(t) \/ LoopDrain(t) \/ Wait(t) \/ Get(t) \/ GetTimesOut(t) \/ HandOver(t)
    \/ SignalShutdown(t) \/ DrainBeforeJoin(t) \/ JoinWorker(t) \/ CloseEngine(t)

WorkerStep(p) ==
    \/ Receive(p) \/ \E ok \in Outcomes : Finish(p, ok)
    \/ FlushRegistry(p) \/ FlushCompletions(p)

Next ==
    \/ \E t \in Threads : ThreadStep(t) \/ SkipScan(t) \/ RestartFails(t) \/ AbandonedGet(t)
    \/ \E p \in 1 .. MaxProcs :
          WorkerStep(p) \/ FatalTimeout(p) \/ Crash(p)
    \/ Submit \/ StartPoll \/ StartWait \/ CancelMonitor \/ Shutdown

Spec == Init /\ [][Next]_vars

(***************************************************************************)
(* Threads run, worker functions return and feeder threads flush.  A       *)
(* liveness scan that is due again and again is made.  Nothing is assumed  *)
(* of deaths, failed restarts or a stop.                                   *)
(***************************************************************************)
Fairness ==
    /\ \A t \in Threads : WF_vars(ThreadStep(t)) /\ SF_vars(Scan(t))
    /\ \A p \in 1 .. MaxProcs : WF_vars(WorkerStep(p))
    /\ WF_vars(StartPoll)

FairSpec == Spec /\ Fairness

-----------------------------------------------------------------------------
Payloads == [item : PlanItems, att : 0 .. MaxRetries]

\* Every registry entry, pending dispatch, slot count and table refers to
\* known records, attempts within the budget and existing processes.
TypeOK ==
    /\ \A k \in DOMAIN registry :
          /\ registry[k].worker \in Workers /\ registry[k].late \in BOOLEAN
          /\ [item |-> registry[k].item, att |-> registry[k].att] \in Payloads
    /\ \A k \in DOMAIN pending :
          /\ pending[k].worker \in Workers /\ pending[k].released \in BOOLEAN
          /\ pending[k].items \in Seq(Payloads) \ {<<>>}
    /\ slots \in 0 .. QueueSize
    /\ workers \in [Workers -> DOMAIN procs]
    /\ senders \in [Workers -> {0} \cup DOMAIN procs]
    /\ Range(seen) \subseteq PlanItems /\ Len(seen) <= MaxSeen /\ lost \subseteq PlanItems
    /\ in_flight \in Nat
    /\ phase \in {"up", "closing", "signalled", "closed"}

NotStartedIn(events) ==
    UNION {ItemsOf(e.items) : e \in {x \in Range(events) : x.kind = "not_started"}}
Work(p) == procs[p].cur \o FlattenSeq([k \in DOMAIN procs[p].pipe |-> procs[p].pipe[k].items])

\* Records with a worker that will finish them or report them.
AtWorker == UNION {ItemsOf(Work(p)) \cup ItemsOf(procs[p].res) \cup InEvents(procs[p].comp)
                   \cup NotStartedIn(procs[p].reg) : p \in {q \in DOMAIN procs : procs[q].alive}}

\* Records a parent thread is about to dispatch, fail or hand over.
AtThread == UNION {UNION {
                CASE "items" \in DOMAIN x -> ItemsOf(x.items)
                  [] "raw" \in DOMAIN x -> InEvents(<<x.raw>>)
                  [] OTHER -> {} : x \in Range(todo[t])} : t \in Threads}

\* Records the next look at a dead worker finds.
Recoverable ==
    {registry[k].item : k \in {j \in DOMAIN registry : registry[j].worker \in Dead}}
    \cup UNION {ItemsOf(pending[k].items) : k \in {j \in DOMAIN pending : pending[j].worker \in Dead}}

Reported == {surfaced[k].item : k \in DOMAIN surfaced} \cup ItemsOf(prefetched)
            \cup InEvents(completion_q)

\* A record the engine accepted is never stranded, whatever dies and however
\* the threads interleave: until its completion is in the parent, a live
\* worker holds it, a thread is working on it, or the bookkeeping of a dead
\* worker still lists it (ensure_workers_alive, recover_dead_worker_items,
\* recover_pending_dispatches, not_started).  lost records are the exception:
\* a death let their done event through and not their completion, or a
\* cancelled monitor took the completion and dropped it.
NoRecordStranded ==
    phase = "up" =>
        accepted \subseteq Reported \cup AtWorker \cup AtThread \cup Recoverable
                           \cup NotStartedIn(registry_q) \cup lost

\* Re-execution after a death never shows: poll_completed_events returns one
\* event per record (CompletionBuffer.is_duplicate_event).
SurfacedOnce ==
    \A j, k \in DOMAIN surfaced : surfaced[j].item = surfaced[k].item => j = k

\* The counters of the engine are what its books say, so that neither
\* dispatching nor WorkManager's capacity check drifts after deaths, requeues and
\* late events: a slot is taken exactly while a dispatch is pending and not yet
\* started, and get_in_flight_count is what was accepted and not yet polled.
CountersExact ==
    /\ phase \in {"up", "closing"} =>
          slots + Len(SelectSeq(pending, LAMBDA d : ~d.released)) = QueueSize
    /\ phase = "up" => in_flight = Cardinality(accepted) - Len(surfaced)

Precedes(i, j) ==
    \E k \in DOMAIN Plan : \E m, n \in DOMAIN Plan[k].items :
        m < n /\ Plan[k].items[m] = i /\ Plan[k].items[n] = j

\* A record of a route batch never waits behind a later record of its batch,
\* requeued tails and recovered batches included.
RouteOrder ==
    \A p \in DOMAIN procs : \A m, n \in DOMAIN Work(p) :
        m < n => ~Precedes(Work(p)[n].item, Work(p)[m].item)

\* No worker process outlives shutdown (join_worker_with_escalation).
ShutdownStopsWorkers ==
    phase = "closed" => \A p \in DOMAIN procs : ~procs[p].alive

\* Every accepted record's completion is polled in the end, unless its report
\* was lost by a death or the engine is shut down.
EventuallySurfaced ==
    \A i \in PlanItems :
        i \in accepted ~> \/ \E k \in DOMAIN surfaced : surfaced[k].item = i
                          \/ i \in lost \/ phase # "up"

\* "Fatal timeout/exit must flush any completed prefix before process exit"
\* (03-design.md): the completions of records that ran before the one that
\* timed out reach the parent.
PrefixFlushedOnExit == prefix_lost = {}
=============================================================================
