----------------------------- MODULE WorkManager -----------------------------
(***************************************************************************)
(* The scheduler (control_plane/work_manager.py) with its queue topology,  *)
(* its poison-message circuit, and the poller's critical sections that     *)
(* drive it.                                                               *)
(*                                                                         *)
(* Everything the scheduler does runs under the poller's control lock.     *)
(* todo holds what is left of the critical section that has the lock, and  *)
(* is empty while the lock is free; only the engine and the adaptive       *)
(* in-flight limit move at the same time.                                  *)
(*                                                                         *)
(* Trackers are shared with the poller and always carry epoch 1, so the    *)
(* epoch test of _process_completion_event never fails for an assigned     *)
(* partition; an item's id is the assignment that submitted it.  Every     *)
(* item of a route batch has the same circuit key, so a batch is never     *)
(* truncated before a poisoned item, only refused at its head.             *)
(***************************************************************************)
EXTENDS WorkQueueTopology

CONSTANTS
  KeyOf,             \* KeyOf[tp][o + 1] is the key of record o of partition tp
  OrderingModes,     \* subset of {"key_hash", "partition", "unordered"}
  Limits,            \* values of max_in_flight_messages
  RouteBatchSize,
  OrderedRouteBatch, \* values of engine.supports_ordered_route_batch
  BlockingCacheTtl,
  BlockingTimeouts,  \* max_blocking_duration_ms > 0
  PoisonThreshold,   \* failure_threshold; 0 when the circuit is disabled
  Statuses,          \* outcomes of an execution
  FaultKinds,        \* subset of {"revoke", "submit"}
  MaxFaults

ASSUME WorkManagerAssumption ==
  /\ KeyOf \in [Partitions -> Seq(Keys)]
  /\ OrderingModes \subseteq {"key_hash", "partition", "unordered"} /\ OrderingModes # {}
  /\ Limits \subseteq Nat \ {0} /\ Limits # {}
  /\ RouteBatchSize \in Nat \ {0}
  /\ {BlockingCacheTtl, PoisonThreshold, MaxFaults} \subseteq Nat
  /\ OrderedRouteBatch \subseteq BOOLEAN /\ OrderedRouteBatch # {}
  /\ BlockingTimeouts \in BOOLEAN
  /\ Statuses \subseteq {"SUCCESS", "FAILURE"}

VARIABLES
  assigned,          \* partitions with a tracker
  generation,        \* assignments so far, by partition
  fetched,           \* next offset to submit, by partition
  completed,         \* offsets the tracker holds complete, by partition
  topology,
  known,             \* _in_flight_work_items
  dispatched,        \* _dispatch_timestamps
  in_flight,         \* _current_in_flight_count
  total_queued,      \* _total_queued_messages
  locks,             \* _key_in_flight_counts or _partition_in_flight_counts
  max_in_flight,
  ordering_mode,     \* chosen when the manager is built
  ordered_route_batch,
  rebalancing,
  blocking,          \* _blocking_cache
  cache_counter,     \* _blocking_cache_counter
  circuits,          \* the poison circuit's _states
  engine,            \* accepted executions in submission order
  engine_events,     \* completions the engine has ready
  completion_queue,  \* _completion_queue
  polled,            \* completed_events on their way to the trackers
  should_schedule,
  todo,
  faults

ledger == <<known, dispatched, in_flight, total_queued, locks>>
settings == <<max_in_flight, ordering_mode, ordered_route_batch>>
cache == <<blocking, cache_counter>>
assignment == <<assigned, generation, fetched, completed, rebalancing>>
vars == <<assignment, topology, ledger, settings, cache, circuits, engine,
          engine_events, completion_queue, polled, should_schedule, todo, faults>>

Item == [tp : Partitions, offset : Nat, generation : Nat]

Event == [item : Item, status : {"SUCCESS", "FAILURE"}]

\* The record's key, by which the poison circuit isolates it.
CircuitKey(x) == <<x.tp, KeyOf[x.tp][x.offset + 1]>>

\* In partition mode all records of a partition share one queue.
QueueKeyOf(x) ==
  IF ordering_mode = "partition" THEN <<x.tp, CHOOSE k \in Keys : TRUE>> ELSE CircuitKey(x)

Offsets(tp) == 0 .. (Len(KeyOf[tp]) - 1)

Closed == [failure_count |-> 0, window |-> "none"]

TypeOK ==
  /\ assigned \subseteq Partitions
  /\ generation \in [Partitions -> Nat]
  /\ fetched \in [Partitions -> Nat]
  /\ \A tp \in Partitions : completed[tp] \subseteq Offsets(tp)
  /\ topology \in TopologyType(Item)
  /\ known \subseteq Item /\ dispatched \subseteq Item
  /\ in_flight \in Nat /\ total_queued \in Nat
  /\ locks \in [QueueKeys -> Nat]
  /\ max_in_flight \in Limits
  /\ ordering_mode \in OrderingModes /\ ordered_route_batch \in OrderedRouteBatch
  /\ rebalancing \in BOOLEAN /\ should_schedule \in BOOLEAN
  /\ blocking \in [Partitions -> Nat \cup {NoOffset}]
  /\ cache_counter \in 0 .. BlockingCacheTtl
  /\ circuits \in [QueueKeys -> [failure_count : Nat, window : {"none", "open", "expired"}]]
  /\ engine \in Seq(Item)
  /\ engine_events \cup completion_queue \cup polled \subseteq Event
  /\ todo \in Seq({"dispatch", "schedule", "pass", "poll", "drain", "timeout", "mark"})
  /\ faults \in 0 .. MaxFaults

Init ==
  /\ assigned = {}
  /\ generation = [tp \in Partitions |-> 0]
  /\ fetched = [tp \in Partitions |-> 0]
  /\ completed = [tp \in Partitions |-> {}]
  /\ topology = EmptyTopology
  /\ known = {} /\ dispatched = {}
  /\ in_flight = 0 /\ total_queued = 0
  /\ locks = [q \in QueueKeys |-> 0]
  /\ max_in_flight \in Limits
  /\ ordering_mode \in OrderingModes /\ ordered_route_batch \in OrderedRouteBatch
  /\ rebalancing = FALSE
  /\ blocking = [tp \in Partitions |-> NoOffset]
  /\ cache_counter = 0
  /\ circuits = [q \in QueueKeys |-> Closed]
  /\ engine = << >>
  /\ engine_events = {} /\ completion_queue = {} /\ polled = {}
  /\ should_schedule = FALSE
  /\ todo = << >>
  /\ faults = 0

Fault(kind) ==
  /\ kind \in FaultKinds
  /\ faults < MaxFaults
  /\ faults' = faults + 1

At(step) == todo # << >> /\ Head(todo) = step

-----------------------------------------------------------------------------
(* Trackers *)

Gaps(tp) == {o \in Offsets(tp) : o < fetched[tp] /\ o \notin completed[tp]}

\* get_blocking_offsets: the first gap head of every tracker.
GetBlockingOffsets ==
  [tp \in Partitions |-> IF tp \notin assigned \/ Gaps(tp) = {} THEN NoOffset ELSE Min(Gaps(tp))]

-----------------------------------------------------------------------------
(* submit_message_batch *)

DrainSteps == <<"poll", "timeout", "mark">>

Submit(tp) ==
  LET x == [tp |-> tp, offset |-> fetched[tp], generation |-> generation[tp]]
  IN  /\ tp \in assigned
      /\ fetched[tp] \in Offsets(tp)
      /\ fetched' = [fetched EXCEPT ![tp] = @ + 1]
      /\ known' = known \cup {x}
      /\ topology' = Enqueue(topology, QueueKeyOf(x), x)
      /\ total_queued' = total_queued + 1
      /\ cache_counter' = 0
      /\ UNCHANGED <<assigned, generation, completed, rebalancing, dispatched, in_flight, locks,
                     settings, blocking, circuits, engine, engine_events,
                     completion_queue, polled, should_schedule, faults>>

\* A loop iteration with messages dispatches them, schedules, and drains.
DispatchMessages(tp) ==
  /\ todo = << >>
  /\ Submit(tp)
  /\ todo' = <<"dispatch", "schedule">> \o DrainSteps

DispatchAnother(tp) == At("dispatch") /\ Submit(tp) /\ UNCHANGED todo

EndDispatch ==
  /\ At("dispatch")
  /\ todo' = Tail(todo)
  /\ UNCHANGED <<assignment, topology, ledger, settings, cache, circuits, engine,
                 engine_events, completion_queue, polled, should_schedule, faults>>

-----------------------------------------------------------------------------
(* schedule *)

\* The queues whose ordering lock covers q: only q itself, or in partition mode
\* the partition's one queue.
IsQueueEligible(q) == ordering_mode = "unordered" \/ locks[q] = 0

Eligible == {q \in QueueKeys : IsQueueEligible(q)}

\* Mutant: several records of a key at once on an engine that does not order them.
RouteBatchLimitUnordered ==
  IF ordering_mode = "partition" THEN 1 ELSE Min({RouteBatchSize, max_in_flight - in_flight})

ResolveRouteBatchLimit ==
  CASE ordering_mode = "partition" -> 1
    [] ordering_mode = "key_hash" /\ ~ordered_route_batch -> 1
    [] OTHER -> Min({RouteBatchSize, max_in_flight - in_flight})

\* The blocking offsets are cached for BlockingCacheTtl calls of schedule.
BeginSchedule ==
  /\ At("schedule")
  /\ IF cache_counter = 0
     THEN blocking' = GetBlockingOffsets /\ cache_counter' = BlockingCacheTtl
     ELSE cache_counter' = cache_counter - 1 /\ UNCHANGED blocking
  /\ todo' = <<"pass">> \o Tail(todo)
  /\ UNCHANGED <<assignment, topology, ledger, settings, circuits, engine,
                 engine_events, completion_queue, polled, should_schedule, faults>>

Picks == PopNextQueueKey(topology, blocking, Eligible)

\* The first n items of the picked queue have been accepted by the engine.
RecordSubmittedItems(pick, n) ==
  LET items == SubSeq(Queue(pick.rest, pick.key), 1, n)
  IN  /\ topology' = DequeueSubmittedItems(pick.rest, pick.key, n)
      /\ engine' = engine \o items
      /\ dispatched' = dispatched \cup ToSet(items)
      /\ in_flight' = in_flight + n
      /\ total_queued' = Max({0, total_queued - n})
      /\ locks' = IF ordering_mode = "unordered" THEN locks
                                                ELSE [locks EXCEPT ![pick.key] = @ + n]
      /\ UNCHANGED known

\* should_force_fail: an open circuit refuses the item, an expired one is pruned.
Refused(x) == circuits[CircuitKey(x)].window = "open"

PruneExpired(x) ==
  IF circuits[CircuitKey(x)].window = "expired"
  THEN [circuits EXCEPT ![CircuitKey(x)] = Closed] ELSE circuits

\* Mutant: a failed submission does not put the queue back.
SubmitFailsUnregistered(pick, batch) ==
  /\ topology' = pick.rest
  /\ batch # << >>
  /\ UNCHANGED <<engine, ledger>>

\* Mutant: the accepted prefix of a batch stays queued.
SubmitFailsKeepsPrefix(pick, batch) ==
  /\ topology' = RefreshQueueHead(pick.rest, pick.key)
  /\ \E n \in 0 .. (Len(batch) - 1) : engine' = engine \o SubSeq(batch, 1, n)
  /\ UNCHANGED ledger

\* BatchSubmitError or any other exception: the accepted prefix is recorded and
\* the queue registered again.
SubmitFails(pick, batch) ==
  \/ /\ topology' = RefreshQueueHead(pick.rest, pick.key)
     /\ UNCHANGED <<engine, ledger>>
  \/ \E n \in 1 .. (Len(batch) - 1) : RecordSubmittedItems(pick, n)

\* One turn of the loop in schedule: pick a queue, then force-fail its head or
\* submit a batch of it.
ScheduleOne ==
  /\ At("pass")
  /\ in_flight < max_in_flight
  /\ ~rebalancing
  /\ \E pick \in Picks :
       LET queue == Queue(pick.rest, pick.key)
           x     == Head(queue)
           batch == SubSeq(queue, 1, Min({ResolveRouteBatchLimit, Len(queue)}))
       IN  \/ /\ Refused(x)
              /\ topology' = DequeueSubmittedItems(pick.rest, pick.key, 1)
              /\ total_queued' = Max({0, total_queued - 1})
              /\ completion_queue' = completion_queue \cup {[item |-> x, status |-> "FAILURE"]}
              /\ cache_counter' = 0
              /\ UNCHANGED <<known, dispatched, in_flight, locks, circuits, engine, todo, faults>>
           \/ /\ ~Refused(x)
              /\ RecordSubmittedItems(pick, Len(batch))
              /\ circuits' = PruneExpired(x)
              /\ UNCHANGED <<completion_queue, cache_counter, todo, faults>>
           \/ /\ ~Refused(x)
              /\ Fault("submit")
              /\ SubmitFails(pick, batch)
              /\ circuits' = PruneExpired(x)
              /\ todo' = Tail(todo)
              /\ UNCHANGED <<completion_queue, cache_counter>>
  /\ UNCHANGED <<assignment, settings, blocking, engine_events, polled, should_schedule>>

EndSchedule ==
  /\ At("pass")
  /\ in_flight >= max_in_flight \/ rebalancing \/ Picks = {}
  /\ todo' = Tail(todo)
  /\ UNCHANGED <<assignment, topology, ledger, settings, cache, circuits, engine,
                 engine_events, completion_queue, polled, should_schedule, faults>>

-----------------------------------------------------------------------------
(* poll_completed_events and the rest of _drain_completion_events_once *)

\* Gap starts whose blocking time may have passed the limit.
Overdue ==
  IF BlockingTimeouts
  THEN {x \in known : x.offset \in Gaps(x.tp) /\ x.offset - 1 \notin Gaps(x.tp)}
  ELSE {}

\* A drain with nothing to poll and nothing overdue leaves no trace.
DrainCompletionEvents ==
  /\ todo = << >>
  /\ engine_events \cup completion_queue # {} \/ Overdue # {}
  /\ todo' = DrainSteps
  /\ UNCHANGED <<assignment, topology, ledger, settings, cache, circuits, engine,
                 engine_events, completion_queue, polled, should_schedule, faults>>

PollCompletedEvents ==
  /\ At("poll")
  /\ completion_queue' = completion_queue \cup engine_events
  /\ engine_events' = {}
  /\ todo' = <<"drain">> \o Tail(todo)
  /\ UNCHANGED <<assignment, topology, ledger, settings, cache, circuits, engine,
                 polled, should_schedule, faults>>

\* PoisonMessageCircuitBreaker.record_completion.
RecordCompletion(e) ==
  LET k     == CircuitKey(e.item)
      count == circuits[k].failure_count + 1
  IN  IF PoisonThreshold = 0 THEN circuits
      ELSE IF e.status = "SUCCESS" THEN [circuits EXCEPT ![k] = Closed]
      ELSE [circuits EXCEPT
              ![k] = [failure_count |-> Min({count, PoisonThreshold}),
                      window |-> IF count >= PoisonThreshold THEN "open" ELSE @.window]]

\* Mutant: an item that was never dispatched gives back a slot.
ReleaseInFlightItemAlways(x) ==
  /\ known' = known \ {x}
  /\ dispatched' = dispatched \ {x}
  /\ in_flight' = Max({0, in_flight - 1})
  /\ locks' = IF x \in dispatched /\ ordering_mode # "unordered"
              THEN [locks EXCEPT ![QueueKeyOf(x)] = Max({0, @ - 1})] ELSE locks
  /\ UNCHANGED total_queued

\* The ordering lock and the slot are given back for a dispatched item only.
ReleaseInFlightItem(x) ==
  /\ known' = known \ {x}
  /\ dispatched' = dispatched \ {x}
  /\ IF x \in dispatched
     THEN /\ in_flight' = Max({0, in_flight - 1})
          /\ locks' = IF ordering_mode = "unordered" THEN locks
                      ELSE [locks EXCEPT ![QueueKeyOf(x)] = Max({0, @ - 1})]
     ELSE UNCHANGED <<in_flight, locks>>
  /\ UNCHANGED total_queued

ProcessCompletionEvent(e) ==
  /\ At("drain")
  /\ e \in completion_queue
  /\ completion_queue' = completion_queue \ {e}
  /\ polled' = polled \cup {e}
  /\ IF e.item.tp \in assigned /\ e.item \in known
     THEN /\ ReleaseInFlightItem(e.item)
          /\ circuits' = RecordCompletion(e)
          /\ should_schedule' = TRUE
     ELSE /\ dispatched' = dispatched \ {e.item}
          /\ UNCHANGED <<known, in_flight, total_queued, locks, circuits, should_schedule>>
  /\ UNCHANGED <<assignment, topology, settings, cache, engine, engine_events, todo,
                 faults>>

\* Released items make it schedule, which may force-fail more: drain again.
EndDrain ==
  /\ At("drain")
  /\ completion_queue = {}
  /\ todo' = (IF should_schedule THEN <<"schedule", "drain">> ELSE << >>) \o Tail(todo)
  /\ should_schedule' = FALSE
  /\ UNCHANGED <<assignment, topology, ledger, settings, cache, circuits, engine,
                 engine_events, completion_queue, polled, faults>>

\* handle_blocking_timeouts: force_fail what is overdue, then poll once more.
HandleBlockingTimeouts ==
  /\ At("timeout")
  /\ \E forced \in SUBSET Overdue :
       /\ completion_queue' =
            completion_queue \cup {[item |-> x, status |-> "FAILURE"] : x \in forced}
       /\ todo' = (IF forced = {} THEN << >> ELSE <<"poll">>) \o Tail(todo)
  /\ UNCHANGED <<assignment, topology, ledger, settings, cache, circuits, engine,
                 engine_events, polled, should_schedule, faults>>

\* process_completed_events marks the offsets complete; with nothing to mark
\* the drain ends without scheduling.
MarkComplete ==
  /\ At("mark")
  /\ completed' = [tp \in Partitions |->
                     IF tp \in assigned
                     THEN completed[tp] \cup {e.item.offset : e \in {p \in polled : p.item.tp = tp}}
                     ELSE completed[tp]]
  /\ polled' = {}
  /\ todo' = IF polled = {} THEN Tail(todo) ELSE <<"schedule">> \o Tail(todo)
  /\ UNCHANGED <<assigned, generation, fetched, rebalancing, topology, ledger, settings,
                 cache, circuits, engine, engine_events, completion_queue, should_schedule,
                 faults>>

-----------------------------------------------------------------------------
(* The engine, the in-flight limit, time, and rebalances *)

\* An engine that takes ordered batches runs the records of a queue one after
\* the other; any other engine runs everything it accepted at once.
Running ==
  {i \in DOMAIN engine :
     ordered_route_batch => \A j \in 1 .. (i - 1) : QueueKeyOf(engine[j]) # QueueKeyOf(engine[i])}

Finish(i, status) ==
  /\ i \in Running
  /\ engine' = RemoveAt(engine, i)
  /\ engine_events' = engine_events \cup {[item |-> engine[i], status |-> status]}
  /\ UNCHANGED <<assignment, topology, ledger, settings, cache, circuits,
                 completion_queue, polled, should_schedule, todo, faults>>

\* The adaptive controller runs outside the control lock.
SetMaxInFlightMessages(value) ==
  /\ value # max_in_flight
  /\ max_in_flight' = value
  /\ UNCHANGED <<assignment, topology, ledger, ordering_mode, ordered_route_batch, cache,
                 circuits, engine, engine_events, completion_queue, polled, should_schedule,
                 todo, faults>>

CooldownExpires(k) ==
  /\ circuits[k].window = "open"
  /\ circuits' = [circuits EXCEPT ![k].window = "expired"]
  /\ UNCHANGED <<assignment, topology, ledger, settings, cache, engine, engine_events,
                 completion_queue, polled, should_schedule, todo, faults>>

\* A revoke takes all partitions (the eager protocol, the client's default).
\* What is complete without a gap is committed; the rest is fetched again.
OnRevoke(tps) ==
  LET gone      == {x \in known : x.tp \in tps}
      resume(tp) == IF Gaps(tp) = {} THEN fetched[tp] ELSE Min(Gaps(tp))
  IN  /\ todo = << >>
      /\ tps = assigned /\ tps # {}
      /\ Fault("revoke")
      /\ topology' = RevokeQueues(topology, tps)
      /\ total_queued' =
           Max({0, total_queued - Cardinality(
                     UNION {ToSet(Queue(topology, q)) : q \in {k \in QueueKeys : k[1] \in tps}})})
      /\ known' = known \ gone
      /\ dispatched' = dispatched \ gone
      /\ in_flight' = Max({0, in_flight - Cardinality(gone \cap dispatched)})
      /\ locks' = [q \in QueueKeys |-> IF q[1] \in tps THEN 0 ELSE locks[q]]
      /\ circuits' = [q \in QueueKeys |-> IF q[1] \in tps THEN Closed ELSE circuits[q]]
      /\ assigned' = assigned \ tps
      /\ fetched' = [tp \in Partitions |-> IF tp \in tps THEN resume(tp) ELSE fetched[tp]]
      /\ completed' = [tp \in Partitions |->
                         IF tp \in tps THEN {o \in completed[tp] : o < resume(tp)}
                                       ELSE completed[tp]]
      /\ rebalancing' = TRUE
      /\ cache_counter' = 0
      /\ UNCHANGED <<generation, settings, blocking, engine, engine_events,
                     completion_queue, polled, should_schedule, todo>>

\* Mutant: scheduling is not resumed.
OnAssignStillRebalancing(tps) ==
  /\ todo = << >>
  /\ assigned = {} /\ tps # {}
  /\ assigned' = tps
  /\ generation' = [tp \in Partitions |-> generation[tp] + (IF tp \in tps THEN 1 ELSE 0)]
  /\ cache_counter' = 0
  /\ UNCHANGED <<fetched, completed, rebalancing, topology, ledger, settings, blocking,
                 circuits, engine, engine_events, completion_queue, polled, should_schedule,
                 todo, faults>>

OnAssign(tps) ==
  /\ todo = << >>
  /\ assigned = {} /\ tps # {}
  /\ assigned' = tps
  /\ generation' = [tp \in Partitions |-> generation[tp] + (IF tp \in tps THEN 1 ELSE 0)]
  /\ rebalancing' = FALSE
  /\ cache_counter' = 0
  /\ UNCHANGED <<fetched, completed, topology, ledger, settings, blocking, circuits,
                 engine, engine_events, completion_queue, polled, should_schedule, todo, faults>>

-----------------------------------------------------------------------------
LockHeld ==
  \/ \E tp \in Partitions : DispatchAnother(tp)
  \/ EndDispatch
  \/ BeginSchedule
  \/ ScheduleOne
  \/ EndSchedule
  \/ PollCompletedEvents
  \/ \E e \in completion_queue : ProcessCompletionEvent(e)
  \/ EndDrain
  \/ HandleBlockingTimeouts
  \/ MarkComplete

Environment ==
  \/ \E i \in DOMAIN engine, s \in Statuses : Finish(i, s)
  \/ \E v \in Limits : SetMaxInFlightMessages(v)
  \/ \E k \in QueueKeys : CooldownExpires(k)
  \/ OnRevoke(assigned)
  \/ \E tps \in SUBSET Partitions : OnAssign(tps)

Next ==
  \/ LockHeld
  \/ \E tp \in Partitions : DispatchMessages(tp)
  \/ DrainCompletionEvents
  \/ Environment

Spec == Init /\ [][Next]_vars

\* Whoever holds the control lock goes on; the lock is handed over first come,
\* first served, so neither the consumer loop, nor the completion monitor, nor a
\* rebalance callback is passed over for ever; the engine ends every execution
\* and the broker gives every partition back.
Fairness ==
  /\ WF_vars(LockHeld)
  /\ SF_vars(DrainCompletionEvents)
  /\ \A tp \in Partitions : SF_vars(DispatchMessages(tp))
  /\ SF_vars(OnAssign(Partitions))
  /\ WF_vars(\E i \in DOMAIN engine, s \in Statuses : Finish(i, s))

FairSpec == Spec /\ Fairness

-----------------------------------------------------------------------------
(* Properties *)

\* No queue is stranded: whatever mix of submissions, refused batches, forced
\* failures and rebalances went before, a queue with work is in the runnable
\* ring exactly once and under its own head offset (WorkQueueTopology).
QueuesRegistered == Coherent(topology)

QueuedItems == UNION {ToSet(Queue(topology, q)) : q \in QueueKeys}

\* Slots, ordering locks and the queued total are exactly what the dispatched
\* and the queued items account for, so none is ever lost or given back twice
\* (_record_submitted_items, _release_in_flight_item, on_revoke).
LedgerBalanced ==
  /\ dispatched \subseteq known
  /\ in_flight = Cardinality(dispatched)
  /\ total_queued = Cardinality(QueuedItems)
  /\ \A q \in QueueKeys :
       locks[q] = IF ordering_mode = "unordered" THEN 0
                  ELSE Cardinality({x \in dispatched : QueueKeyOf(x) = q})

\* The part of it that says a completion gives its slot back: with nothing
\* executing and no completion on its way, no slot is taken
\* (_release_in_flight_item).
SlotsComeBack ==
  engine = << >> /\ engine_events \cup completion_queue = {} => in_flight = 0

Overlapping(x, y) == x # y /\ ordering_mode # "unordered" /\ QueueKeyOf(x) = QueueKeyOf(y)

\* Records of one key, or of one partition in partition mode, never execute at
\* the same time within an assignment.
SerialWithinAssignment ==
  \A i, j \in Running :
    Overlapping(engine[i], engine[j]) => engine[i].generation # engine[j].generation

\* The same across assignments.  It does not hold: a revoke frees the keys of
\* executions that go on (on_revoke).
SerialExecution == \A i, j \in Running : ~Overlapping(engine[i], engine[j])

\* They also execute in offset order: nothing the engine holds is overtaken by
\* a later record of its queue, in the engine or from the queue.
OffsetOrder ==
  ordering_mode # "unordered" =>
    \A i \in DOMAIN engine :
      LET x == engine[i]
          behind == {engine[j] : j \in (i + 1) .. Len(engine)}
                      \cup ToSet(Queue(topology, QueueKeyOf(x)))
      IN  \A y \in behind :
            QueueKeyOf(y) = QueueKeyOf(x) /\ y.generation = x.generation => x.offset < y.offset

\* Every record of the partitions the consumer ends up with is eventually
\* completed, once and for all: no queue starves, no lock or slot is kept, and
\* the loop never waits for an event that does not come (schedule, on_assign).
EventuallyCompleted == <>[](\A tp \in assigned : completed[tp] = Offsets(tp))
=============================================================================
