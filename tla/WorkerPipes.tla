---------------------------- MODULE WorkerPipes ----------------------------
(***************************************************************************)
(* The parent's bookkeeping of the process engine, as operators on values: *)
(* the in-flight registry (process_registry_support.py), the pending       *)
(* dispatches and queue slots of the worker pipes                          *)
(* (process_transport_worker_pipes.py) and the completion buffer with its  *)
(* duplicate suppression (process_completion_buffer.py).                   *)
(*                                                                         *)
(* A work item is a record [off, ep]: its offset and assignment epoch.     *)
(* A payload [item, att] adds requeue_attempts.  The registry is a         *)
(* sequence of [worker, item, att, late], in the order of the Python       *)
(* dictionary; its key is the worker and the offset, so that two epochs of *)
(* one offset share it.  A pending dispatch is [worker, batch, items,      *)
(* released]; batch 0 is a single payload.  book is the record             *)
(* [registry, pending, slots].                                             *)
(***************************************************************************)
EXTENDS Integers, Sequences, SequencesExt

CONSTANTS
    QueueSize,      \* slots of the pipes: process_config.queue_size
    MaxSeen         \* completions remembered: _MAX_SEEN_COMPLETION_IDENTITIES
ASSUME WorkerPipesAssumption == QueueSize \in Nat \ {0} /\ MaxSeen \in Nat \ {0}

ItemsOf(payloads) == {payloads[k].item : k \in DOMAIN payloads}

WithoutItems(payloads, S) == SelectSeq(payloads, LAMBDA x : x.item \notin S)

\* The bounded semaphore refuses to exceed its initial value.
ReleaseSlot(slots) == Min({QueueSize, slots + 1})

SameKey(d, e) ==
    /\ d.worker = e.worker
    /\ d.batch = e.batch
    /\ d.batch = 0 => ItemsOf(d.items) = ItemsOf(e.items)

SetPending(pending, d) ==
    LET k == SelectInSeq(pending, LAMBDA e : SameKey(d, e))
    IN  IF k = 0 THEN Append(pending, d) ELSE [pending EXCEPT ![k] = d]

PopPending(pending, d) == SelectSeq(pending, LAMBDA e : ~SameKey(d, e))

\* Mutant: the first start of a batch drops the whole batch.
PendingStartWholeBatch(book, e) ==
    LET mine == SelectInSeq(book.pending, LAMBDA d :
                    d.worker = e.worker /\ e.item \in ItemsOf(d.items))
    IN  IF mine = 0 THEN book
        ELSE [book EXCEPT !.pending = RemoveAt(@, mine), !.slots = ReleaseSlot(@)]

\* The pending dispatch a start event belongs to: a single payload, or a route
\* batch that still lists the record.
SinglePending(d, e) == d.batch = 0 /\ d.worker = e.worker /\ ItemsOf(d.items) = {e.item}
BatchPending(d, e) == d.batch # 0 /\ d.worker = e.worker /\ e.item \in ItemsOf(d.items)

RemoveStarted(pending, b, i) ==
    LET left == WithoutItems(pending[b].items, {i})
    IN  IF left = <<>> THEN RemoveAt(pending, b)
        ELSE [pending EXCEPT ![b].items = left, ![b].released = TRUE]

(***************************************************************************)
(* A start event takes the record out of the pending dispatches.  The      *)
(* first start of a batch gives its slot back.                             *)
(***************************************************************************)
PendingStart(book, e) ==
    LET s == SelectInSeq(book.pending, LAMBDA d : SinglePending(d, e))
        b == SelectInSeq(book.pending, LAMBDA d : BatchPending(d, e))
    IN  IF s # 0 THEN [book EXCEPT !.pending = RemoveAt(@, s), !.slots = ReleaseSlot(@)]
        ELSE IF b = 0 THEN book
        ELSE [book EXCEPT
                !.pending = RemoveStarted(@, b, e.item),
                !.slots = IF book.pending[b].released THEN @ ELSE ReleaseSlot(@)]

\* Index of the route batch a not_started event belongs to, 0 for none.
BatchOf(pending, e) == SelectInSeq(pending, LAMBDA d : d.batch = e.batch)

PendingNotStarted(book, e) ==
    LET b == BatchOf(book.pending, e)
        left == WithoutItems(book.pending[b].items, ItemsOf(e.items))
    IN  IF b = 0 THEN book
        ELSE [book EXCEPT !.pending = IF left = <<>> THEN RemoveAt(@, b)
                                      ELSE [@ EXCEPT ![b].items = left]]

RegistryIndex(registry, e) ==
    SelectInSeq(registry, LAMBDA r : r.worker = e.worker /\ r.item.off = e.item.off)

Matches(entry, e) == entry.item = e.item

\* A start event of another epoch replaces the entry only if it is younger.
Supersedes(entry, e) == e.item.ep > entry.item.ep

RegistryStart(registry, e) ==
    LET k == RegistryIndex(registry, e)
        entry == [worker |-> e.worker, item |-> e.item, att |-> e.att, late |-> FALSE]
    IN  IF k = 0 THEN Append(registry, entry)
        ELSE IF Matches(registry[k], e) \/ Supersedes(registry[k], e)
        THEN [registry EXCEPT ![k] = entry]
        ELSE registry

RegistryTimeout(registry, e) ==
    LET k == RegistryIndex(registry, e)
    IN  IF k # 0 /\ Matches(registry[k], e)
        THEN [registry EXCEPT ![k].late = TRUE] ELSE registry

RegistryDone(registry, e) ==
    LET k == RegistryIndex(registry, e)
    IN  IF k # 0 /\ Matches(registry[k], e) THEN RemoveAt(registry, k) ELSE registry

ApplyRegistryEvent(book, e) ==
    CASE e.kind = "start" ->
            LET b == PendingStart(book, e)
            IN  [b EXCEPT !.registry = RegistryStart(@, e)]
      [] e.kind = "timeout" -> [book EXCEPT !.registry = RegistryTimeout(@, e)]
      [] e.kind = "done" -> [book EXCEPT !.registry = RegistryDone(@, e)]
      [] e.kind = "not_started" -> PendingNotStarted(book, e)

(***************************************************************************)
(* Draining the registry queue stops at a not_started event of a batch     *)
(* that is still pending: its tail has to be dispatched before the next    *)
(* event is read.                                                          *)
(***************************************************************************)
DrainEvents(book, events) ==
    LET Apply(acc, e) ==
          IF acc.requeue # <<>> THEN [acc EXCEPT !.left = Append(@, e)]
          ELSE [acc EXCEPT
                  !.book = ApplyRegistryEvent(@, e),
                  !.requeue = IF e.kind = "not_started" /\ BatchOf(acc.book.pending, e) # 0
                              THEN e.items ELSE <<>>]
    IN  FoldLeft(Apply, [book |-> book, requeue |-> <<>>, left |-> <<>>], events)

\* Records another death may still requeue, and those whose budget is spent.
Retryable(payloads, maxRetries) ==
    LET live == SelectSeq(payloads, LAMBDA x : x.att < maxRetries)
    IN  [k \in DOMAIN live |-> [item |-> live[k].item, att |-> live[k].att + 1]]

Spent(payloads, maxRetries) == SelectSeq(payloads, LAMBDA x : x.att >= maxRetries)

\* Entries of a dead worker: timed-out records fail, the others are requeued
\* until max_retries deaths.
RecoverDeadWorkerItems(registry, idx, maxRetries) ==
    LET mine == SelectSeq(registry, LAMBDA r : r.worker = idx)
        onTime == SelectSeq(mine, LAMBDA r : ~r.late)
    IN  [registry |-> SelectSeq(registry, LAMBDA r : r.worker # idx),
         failed |-> SelectSeq(mine, LAMBDA r : r.late \/ r.att >= maxRetries),
         requeue |-> Retryable(onTime, maxRetries)]

\* Mutant: the slots of a dead worker's dispatches are not given back.
RecoverPendingKeepsSlots(book, idx, maxRetries) ==
    LET mine == SelectSeq(book.pending, LAMBDA d : d.worker = idx)
        payloads == FlattenSeq([k \in DOMAIN mine |-> mine[k].items])
    IN  [book |-> [book EXCEPT !.pending = SelectSeq(@, LAMBDA d : d.worker # idx)],
         failed |-> Spent(payloads, maxRetries),
         requeue |-> Retryable(payloads, maxRetries)]

RecoverPendingDispatches(book, idx, maxRetries) ==
    LET mine == SelectSeq(book.pending, LAMBDA d : d.worker = idx)
        payloads == FlattenSeq([k \in DOMAIN mine |-> mine[k].items])
        held == Len(SelectSeq(mine, LAMBDA d : ~d.released))
    IN  [book |-> [book EXCEPT !.pending = SelectSeq(@, LAMBDA d : d.worker # idx),
                               !.slots = Min({QueueSize, @ + held})],
         failed |-> Spent(payloads, maxRetries),
         requeue |-> Retryable(payloads, maxRetries)]

DiscardCompletion(registry, S) == SelectSeq(registry, LAMBDA r : r.item \notin S)

\* is_duplicate_event: the oldest identity is forgotten beyond the bound.
Remember(seen, i) ==
    LET longer == Append(seen, i)
    IN  IF Len(longer) > MaxSeen THEN Tail(longer) ELSE longer

\* Mutant: a prefetched completion is not remembered.
TakeEventForgets(buf, ev, limit) ==
    IF ev.item \in Range(buf.seen) THEN buf
    ELSE IF Len(buf.out) >= limit THEN [buf EXCEPT !.prefetched = Append(@, ev)]
    ELSE [buf EXCEPT !.seen = Remember(@, ev.item), !.out = Append(@, ev)]

(***************************************************************************)
(* The completion buffer.  raw is one item of the completion queue: the    *)
(* sequence of events a worker reported together.  buf is                  *)
(* [out, prefetched, seen, left]: a poll fills out up to limit events and  *)
(* leaves the rest of an opened envelope prefetched.                       *)
(***************************************************************************)
TakeEvent(buf, ev, limit) ==
    IF ev.item \in Range(buf.seen) THEN buf
    ELSE LET noted == [buf EXCEPT !.seen = Remember(@, ev.item)]
         IN  IF Len(buf.out) >= limit THEN [noted EXCEPT !.prefetched = Append(@, ev)]
             ELSE [noted EXCEPT !.out = Append(@, ev)]

PollAvailable(buf, raws, limit) ==
    LET Take(acc, raw) ==
          IF Len(acc.out) >= limit THEN [acc EXCEPT !.left = Append(@, raw)]
          ELSE FoldLeft(LAMBDA a, ev : TakeEvent(a, ev, limit), acc, raw)
    IN  FoldLeft(Take, buf, raws)

\* prefetch_queue_item: every new event of the item goes to the prefetched ones.
PrefetchItem(buf, raw) == FoldLeft(LAMBDA a, ev : TakeEvent(a, ev, 0), buf, raw)

DrainCompletions(buf, raws) == FoldLeft(PrefetchItem, buf, raws)
=============================================================================
