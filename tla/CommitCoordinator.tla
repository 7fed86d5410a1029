-------------------------- MODULE CommitCoordinator --------------------------
(***************************************************************************)
(* The asynchronous commit coordinator (control_plane/commit_coordinator.py *)
(* with broker_commit_coordinator_support.py): the commit loop enqueues    *)
(* candidates, a worker task commits them in batches, and a rejected       *)
(* enqueue falls back to the synchronous commit of the poller.  Revoke and *)
(* assign callbacks interleave with both.                                  *)
(*                                                                         *)
(* A candidate carries a lease id, which tells it apart from any other of  *)
(* its partition; ids count enqueues.  A cancelled candidate always leaves *)
(* the outbox in the same step, so _prune_cancelled_leases empties         *)
(* _cancelled_leases every time and a lease is active exactly while its    *)
(* candidate is in the outbox.  Trackers always carry epoch 1, so epoch    *)
(* comparisons never fail.  The tracker is reduced to its committable      *)
(* high-water mark; sparse completion is modelled in PartitionLifecycle.   *)
(***************************************************************************)
EXTENDS Integers, FiniteSetsExt

CONSTANTS
  Partitions,
  MaxOffset,          \* last offset of every partition
  QueueMaxPartitions, \* queue_max_partitions
  FaultKinds,         \* subset of {"kafka", "crash", "callback", "revoke"}
  MaxFaults

ASSUME CoordinatorAssumption ==
  /\ IsFiniteSet(Partitions)
  /\ {MaxOffset, MaxFaults} \subseteq Nat
  /\ QueueMaxPartitions \in Nat \ {0}

VARIABLES
  tracked,       \* partitions in _offset_trackers
  hwm,           \* committable high-water mark of the tracker
  committed,     \* last_committed_offset of the tracker
  dirty,         \* _dirty_commit_partitions
  loop,          \* the commit loop under _commit_lock
  pending,       \* _pending
  in_flight,     \* _in_flight
  stopped,       \* _stopped_partitions
  settled,       \* _latest_settled_offsets
  lease_counter,
  healthy,       \* _healthy, and _accepting, which falls with it
  worker,        \* the worker task
  callback,      \* the revoke callback in progress
  revoked,       \* whether there has been one (history)
  broker,        \* last offset committed to the broker
  handled,       \* end of the contiguous prefix ever completed
  faults

trackers == <<tracked, hwm, committed, dirty>>
outbox == <<pending, in_flight, stopped, lease_counter, healthy>>
rebalance == <<callback, revoked>>
vars == <<trackers, loop, outbox, settled, worker, rebalance, broker, handled, faults>>

Offsets == -1 .. MaxOffset

Candidate == [tp : Partitions, offset : Offsets, lease : Nat]

Commit == [tp : Partitions, offset : Offsets]

Loops ==
  [phase : {"idle", "built", "fallback", "prepared", "acked"},
   commits : SUBSET Commit, sent : SUBSET Commit, attempt : 1 .. 2]

Workers ==
  [phase : {"done", "loop", "taken", "validated", "confirmed", "rejected", "aborted", "crashed",
            "closing", "settling"},
   batch : SUBSET Candidate, sent : SUBSET Candidate]

RevokeCallbacks == [phase : {"none", "prepared", "committed"}, commits : SUBSET Commit]

TypeOK ==
  /\ tracked \subseteq Partitions /\ dirty \subseteq Partitions /\ stopped \subseteq Partitions
  /\ {hwm, committed, settled, broker, handled} \subseteq [Partitions -> Offsets]
  /\ loop \in Loops /\ worker \in Workers /\ callback \in RevokeCallbacks
  /\ pending \subseteq Candidate /\ in_flight \subseteq Candidate
  /\ lease_counter \in Nat /\ healthy \in BOOLEAN /\ revoked \in BOOLEAN
  /\ faults \in 0 .. MaxFaults

NoLoop == [phase |-> "idle", commits |-> {}, sent |-> {}, attempt |-> 1]

NoWorker == [phase |-> "done", batch |-> {}, sent |-> {}]

NoCallback == [phase |-> "none", commits |-> {}]

Init ==
  /\ tracked = {} /\ dirty = {} /\ stopped = {}
  /\ hwm = [tp \in Partitions |-> -1]
  /\ committed = hwm /\ settled = hwm /\ broker = hwm /\ handled = hwm
  /\ loop = NoLoop /\ worker = NoWorker /\ callback = NoCallback
  /\ revoked = FALSE
  /\ pending = {} /\ in_flight = {}
  /\ lease_counter = 0
  /\ healthy = TRUE
  /\ faults = 0

Fault(kind) ==
  /\ kind \in FaultKinds
  /\ faults < MaxFaults
  /\ faults' = faults + 1

\* The offset each commit of a set gives its partition.
Overriding(offsets, commits) ==
  [tp \in Partitions |->
     IF \E c \in commits : c.tp = tp THEN (CHOOSE c \in commits : c.tp = tp).offset
                                     ELSE offsets[tp]]

Of(candidates, tps) == {c \in candidates : c.tp \in tps}

TopicPartitions(candidates) == {c.tp : c \in candidates}

IsActiveLease(c) == c \in pending \cup in_flight

\* Mutant: only what is pending is cancelled.
CancelLeasesPending(tps) ==
  /\ pending' = pending \ Of(pending, tps)
  /\ UNCHANGED in_flight

CancelLeases(tps) ==
  /\ pending' = pending \ Of(pending, tps)
  /\ in_flight' = in_flight \ Of(in_flight, tps)

-----------------------------------------------------------------------------
(* Completions and the commit loop *)

\* The next record of the contiguous prefix completes.
Complete(tp) ==
  /\ tp \in tracked
  /\ hwm[tp] < MaxOffset
  /\ hwm' = [hwm EXCEPT ![tp] = @ + 1]
  /\ handled' = [handled EXCEPT ![tp] = Max({@, hwm'[tp]})]
  /\ dirty' = dirty \cup {tp}
  /\ UNCHANGED <<tracked, committed, loop, outbox, settled, worker, rebalance, broker, faults>>

\* An idle consumer, or one that retried a DLQ publish, forces the scan of all
\* partitions; otherwise only dirty ones are considered.
BuildCommitCandidates(force) ==
  LET ready == {tp \in tracked : hwm[tp] > committed[tp] /\ (force \/ tp \in dirty)}
  IN  /\ loop.phase = "idle"
      /\ ready # {}
      /\ loop' = [NoLoop EXCEPT !.phase = "built",
                                !.commits = {[tp |-> tp, offset |-> hwm[tp]] : tp \in ready}]
      /\ UNCHANGED <<trackers, outbox, settled, worker, rebalance, broker, handled, faults>>

\* A candidate that is neither of a revoked partition, nor settled, nor already
\* in the outbox.
Fresh(c) ==
  LET current == Of(pending, {c.tp})
  IN  /\ c.tp \notin stopped
      /\ c.offset > settled[c.tp]
      /\ \A x \in IF current = {} THEN Of(in_flight, {c.tp}) ELSE current : c.offset > x.offset

\* Mutant: candidates in flight do not count.
QueueFullPendingOnly(added, last) ==
  Cardinality(pending) + Cardinality(added) > QueueMaxPartitions

\* The outbox has no room for the partitions added; the last one enqueued sees
\* the largest projected size, which counts it unless it is in flight as well.
QueueFull(added, last) ==
  Cardinality(pending) + Cardinality(in_flight) + Cardinality(added)
    - (IF last \in TopicPartitions(in_flight) THEN 1 ELSE 0) > QueueMaxPartitions

\* Mutant: the worker is not started.
AcceptIdle(fresh) ==
  /\ pending' = (pending \ Of(pending, TopicPartitions(fresh)))
                \cup {[tp |-> c.tp, offset |-> c.offset, lease |-> lease_counter + 1] : c \in fresh}
  /\ lease_counter' = lease_counter + 1
  /\ UNCHANGED worker

\* Newer candidates take the place of pending ones and wake the worker.
Accept(fresh) ==
  /\ pending' = (pending \ Of(pending, TopicPartitions(fresh)))
                \cup {[tp |-> c.tp, offset |-> c.offset, lease |-> lease_counter + 1] : c \in fresh}
  /\ lease_counter' = lease_counter + 1
  /\ worker' = IF worker.phase = "done" THEN [NoWorker EXCEPT !.phase = "loop"] ELSE worker

\* build_candidates and enqueue.  A rejected enqueue cancels the leases of all
\* its partitions and leaves the commit to the synchronous path.
Enqueue ==
  /\ loop.phase = "built"
  /\ LET candidates == {c \in loop.commits : c.tp \in tracked}
         fresh      == {c \in candidates : Fresh(c)}
         added      == TopicPartitions(fresh) \ TopicPartitions(pending)
         Reject     == /\ CancelLeases(TopicPartitions(candidates))
                       /\ loop' = [loop EXCEPT !.phase = "fallback"]
                       /\ UNCHANGED <<lease_counter, worker>>
     IN  \/ /\ candidates = {} \/ (healthy /\ fresh = {})
            /\ loop' = NoLoop
            /\ UNCHANGED <<pending, in_flight, lease_counter, worker>>
         \/ candidates # {} /\ ~healthy /\ Reject
         \/ \E last \in added : healthy /\ QueueFull(added, last) /\ Reject
         \/ /\ healthy /\ fresh # {}
            /\ added = {} \/ \E last \in added : ~QueueFull(added, last)
            /\ Accept(fresh)
            /\ loop' = NoLoop
            /\ UNCHANGED in_flight
  /\ UNCHANGED <<trackers, stopped, healthy, settled, rebalance, broker,
                 handled, faults>>

\* clear_committed_dirty_partitions: a partition stays dirty for as long as it
\* has completed offsets above the committed one.
ClearCommittedDirtyPartitions(tps) ==
  dirty' = (dirty \ tps) \cup {tp \in tps \cap tracked : hwm[tp] > committed'[tp]}

CommitThrough(commits) ==
  committed' = Overriding(committed, {c \in commits : /\ c.tp \in tracked
                                                      /\ c.offset > committed[c.tp]})

\* _commit_offsets, as in PartitionLifecycle.
PrepareCommit ==
  LET sent == {c \in loop.commits : c.tp \in tracked}
  IN  /\ loop.phase = "fallback"
      /\ UNCHANGED committed
      /\ IF sent = {}
         THEN loop' = NoLoop /\ ClearCommittedDirtyPartitions(TopicPartitions(loop.commits))
         ELSE loop' = [loop EXCEPT !.phase = "prepared", !.sent = sent] /\ UNCHANGED dirty
      /\ UNCHANGED <<tracked, hwm, outbox, settled, worker, rebalance, broker, handled, faults>>

SyncCommit ==
  /\ loop.phase = "prepared"
  /\ callback.phase = "none"
  /\ broker' = Overriding(broker, loop.sent)
  /\ loop' = [loop EXCEPT !.phase = "acked"]
  /\ UNCHANGED <<trackers, outbox, settled, worker, rebalance, handled, faults>>

SyncCommitFails ==
  /\ loop.phase = "prepared"
  /\ callback.phase = "none"
  /\ Fault("kafka")
  /\ broker' \in {broker, Overriding(broker, loop.sent)}
  /\ loop' = IF loop.attempt < 2 THEN [loop EXCEPT !.attempt = 2] ELSE NoLoop
  /\ UNCHANGED <<trackers, outbox, settled, worker, rebalance, handled>>

SettleSyncCommit ==
  /\ loop.phase = "acked"
  /\ CommitThrough(loop.sent)
  /\ ClearCommittedDirtyPartitions(TopicPartitions(loop.commits))
  /\ loop' = NoLoop
  /\ UNCHANGED <<tracked, hwm, outbox, settled, worker, rebalance, broker, handled, faults>>

-----------------------------------------------------------------------------
(* The worker: _run_worker *)

TakeBatch ==
  /\ worker.phase = "loop"
  /\ IF pending # {} /\ healthy
     THEN /\ worker' = [phase |-> "taken", batch |-> pending, sent |-> {}]
          /\ in_flight' = pending
          /\ pending' = {}
     ELSE worker' = NoWorker /\ UNCHANGED <<pending, in_flight>>
  /\ UNCHANGED <<trackers, loop, stopped, lease_counter, healthy, settled, rebalance, broker,
                 handled, faults>>

NextBatch == worker' = [NoWorker EXCEPT !.phase = "loop"]

\* commit_sync under the control lock: partitions that are gone lose their lease.
Revalidate ==
  LET sent  == Of(worker.batch, tracked)
      stale == TopicPartitions(worker.batch) \ tracked
  IN  /\ worker.phase = "taken"
      /\ IF sent = {}
         THEN pending' = pending \ Of(pending, stale) /\ in_flight' = {} /\ NextBatch
         ELSE CancelLeases(stale) /\ worker' = [worker EXCEPT !.phase = "validated", !.sent = sent]
      /\ UNCHANGED <<trackers, loop, stopped, lease_counter, healthy, settled, rebalance, broker,
                     handled, faults>>

\* commit_if_active, under the operation guard.
CommitIfActive ==
  /\ worker.phase = "validated"
  /\ callback.phase = "none"
  /\ LET Ends(phase) == worker' = [worker EXCEPT !.phase = phase]
         Commits == broker' = Overriding(broker, worker.sent)
         active == \A c \in worker.sent : IsActiveLease(c)
     IN  \/ ~active /\ Ends("aborted") /\ UNCHANGED <<broker, faults>>
         \/ active /\ Commits /\ Ends("confirmed") /\ UNCHANGED faults
         \/ active /\ Fault("kafka") /\ (Commits \/ UNCHANGED broker) /\ Ends("rejected")
         \/ active /\ Fault("crash") /\ UNCHANGED broker /\ Ends("crashed")
  /\ UNCHANGED <<trackers, loop, outbox, settled, rebalance, handled>>

ActiveBatch == {c \in worker.batch : IsActiveLease(c)}

Confirm ==
  /\ worker.phase = "confirmed"
  /\ settled' = Overriding(settled, ActiveBatch)
  /\ worker' = [worker EXCEPT !.phase = "settling"]
  /\ UNCHANGED <<trackers, loop, outbox, rebalance, broker, handled, faults>>

\* The partitions of the batch whose tracker its settlement moves.
Advanced ==
  TopicPartitions({c \in ActiveBatch : c.tp \in tracked /\ c.offset > committed[c.tp]})

\* settle_committed_offsets: only leases that are still active move a tracker.
Settle ==
  /\ worker.phase = "settling"
  /\ CommitThrough(ActiveBatch)
  /\ ClearCommittedDirtyPartitions(Advanced)
  /\ in_flight' = {}
  /\ NextBatch
  /\ UNCHANGED <<tracked, hwm, loop, pending, stopped, lease_counter, healthy, settled, rebalance,
                 broker, handled, faults>>

\* The success callback raises while it records metrics, after the trackers
\* moved and with some partitions cleared: the coordinator is closed for good.
SettleFails ==
  /\ worker.phase = "settling"
  /\ ActiveBatch # {}
  /\ Fault("callback")
  /\ CommitThrough(ActiveBatch)
  /\ \E tps \in SUBSET Advanced : ClearCommittedDirtyPartitions(tps)
  /\ healthy' = FALSE
  /\ in_flight' = {}
  /\ NextBatch
  /\ UNCHANGED <<tracked, hwm, loop, pending, stopped, lease_counter, settled, rebalance, broker,
                 handled>>

\* Mutant: a batch the broker refused is taken for committed.
RetrySettles ==
  /\ worker.phase = "rejected"
  /\ CommitThrough(ActiveBatch)
  /\ in_flight' = {}
  /\ NextBatch
  /\ UNCHANGED <<tracked, hwm, dirty, loop, pending, stopped, lease_counter, healthy, settled,
                 rebalance, broker, handled, faults>>

\* The failure callback, which raises at most while it records metrics.
RetainFailedCommitOffsets ==
  /\ dirty' = dirty \cup TopicPartitions(ActiveBatch)
  /\ \/ UNCHANGED <<healthy, faults>>
     \/ ActiveBatch # {} /\ Fault("callback") /\ healthy' = FALSE

\* A KafkaException: what is still active goes back, over anything newer.
Retry ==
  /\ worker.phase = "rejected"
  /\ RetainFailedCommitOffsets
  /\ pending' = (pending \ Of(pending, TopicPartitions(ActiveBatch))) \cup ActiveBatch
  /\ in_flight' = {}
  /\ NextBatch
  /\ UNCHANGED <<tracked, hwm, committed, loop, stopped, lease_counter, settled, rebalance, broker,
                 handled>>

\* CommitBatchAborted: the whole batch, and whatever is pending for its
\* partitions, loses its lease.
Abort ==
  /\ worker.phase = "aborted"
  /\ pending' = pending \ Of(pending, TopicPartitions(worker.sent))
  /\ in_flight' = {}
  /\ NextBatch
  /\ UNCHANGED <<trackers, loop, stopped, lease_counter, healthy, settled, rebalance, broker,
                 handled, faults>>

\* Any other exception closes the coordinator at once, and ends the worker when
\* the failure callback has had the control lock.
WorkerCrash ==
  /\ worker.phase = "crashed"
  /\ healthy' = FALSE
  /\ worker' = [worker EXCEPT !.phase = "closing"]
  /\ UNCHANGED <<trackers, loop, pending, in_flight, stopped, lease_counter, settled, rebalance,
                 broker, handled, faults>>

WorkerExit ==
  /\ worker.phase = "closing"
  /\ RetainFailedCommitOffsets
  /\ in_flight' = {}
  /\ worker' = NoWorker
  /\ UNCHANGED <<tracked, hwm, committed, loop, pending, stopped, lease_counter, settled, rebalance,
                 broker, handled>>

-----------------------------------------------------------------------------
(* Rebalance callbacks, which hold the operation guard throughout *)

\* Mutant: the position after the safe offset is taken for the offset.
PrepareRevokePosition ==
  LET remaining(tp) == {c.offset : c \in Of(pending \cup in_flight, {tp})}
      safe(tp)      == Min({MaxOffset, Max({hwm[tp]} \cup remaining(tp)) + 1})
  IN  /\ callback.phase = "none"
      /\ tracked # {}
      /\ Fault("revoke")
      /\ revoked' = TRUE
      /\ stopped' = stopped \cup tracked
      /\ pending' = pending \ Of(pending, tracked)
      /\ committed' = [tp \in Partitions |-> IF tp \in tracked THEN hwm[tp] ELSE committed[tp]]
      /\ callback' = [phase |-> "prepared",
                      commits |-> {[tp |-> tp, offset |-> safe(tp)] :
                                     tp \in {p \in tracked : safe(p) >= 0}}]
      /\ UNCHANGED <<tracked, hwm, dirty, loop, in_flight, lease_counter, healthy, settled, worker,
                     broker, handled>>

\* prepare_revoke_sync: the outbox is read before its pending part is dropped;
\* what is in flight stays.
PrepareRevoke ==
  LET remaining(tp) == {c.offset : c \in Of(pending \cup in_flight, {tp})}
      safe(tp)      == Max({hwm[tp]} \cup remaining(tp))
  IN  /\ callback.phase = "none"
      /\ tracked # {}
      /\ Fault("revoke")
      /\ revoked' = TRUE
      /\ stopped' = stopped \cup tracked
      /\ pending' = pending \ Of(pending, tracked)
      /\ committed' = [tp \in Partitions |-> IF tp \in tracked THEN hwm[tp] ELSE committed[tp]]
      /\ callback' = [phase |-> "prepared",
                      commits |-> {[tp |-> tp, offset |-> safe(tp)] :
                                     tp \in {p \in tracked : safe(p) >= 0}}]
      /\ UNCHANGED <<tracked, hwm, dirty, loop, in_flight, lease_counter, healthy, settled, worker,
                     broker, handled>>

CommitPreparedRevokeOffsets ==
  /\ callback.phase = "prepared"
  /\ callback' = [callback EXCEPT !.phase = "committed"]
  /\ \/ broker' = Overriding(broker, callback.commits) /\ UNCHANGED faults
     \/ /\ Fault("kafka")
        /\ \E failed \in SUBSET callback.commits :
             broker' = Overriding(broker, callback.commits \ failed)
  /\ UNCHANGED <<revoked, trackers, loop, outbox, settled, worker, handled>>

CleanupRevoke ==
  /\ callback.phase = "committed"
  /\ callback' = NoCallback
  /\ tracked' = {}
  /\ dirty' = {}
  /\ UNCHANGED <<revoked, hwm, committed, loop, outbox, settled, worker, broker, handled, faults>>

Assign ==
  /\ callback.phase = "none"
  /\ tracked = {}
  /\ tracked' = Partitions
  /\ stopped' = {}
  /\ hwm' = broker
  /\ committed' = broker
  /\ UNCHANGED <<dirty, loop, pending, in_flight, lease_counter, healthy, settled, worker,
                 rebalance, broker, handled, faults>>

-----------------------------------------------------------------------------
CommitLoop ==
  \/ \E force \in BOOLEAN : BuildCommitCandidates(force)
  \/ Enqueue
  \/ PrepareCommit
  \/ SyncCommit
  \/ SyncCommitFails
  \/ SettleSyncCommit

Worker ==
  \/ TakeBatch
  \/ Revalidate
  \/ CommitIfActive
  \/ Confirm
  \/ Settle
  \/ SettleFails
  \/ Retry
  \/ Abort
  \/ WorkerCrash
  \/ WorkerExit

Rebalance == PrepareRevoke \/ CommitPreparedRevokeOffsets \/ CleanupRevoke \/ Assign

Next ==
  \/ \E tp \in Partitions : Complete(tp)
  \/ CommitLoop
  \/ Worker
  \/ Rebalance

Spec == Init /\ [][Next]_vars

\* The commit loop is run again after every drain, the worker is a task of the
\* same event loop, records complete and the callbacks run to their end.  No
\* forced scan is counted on.
Fairness ==
  /\ \A tp \in Partitions : WF_vars(Complete(tp))
  /\ WF_vars(BuildCommitCandidates(FALSE))
  /\ WF_vars(Enqueue \/ PrepareCommit \/ SyncCommit \/ SettleSyncCommit)
  /\ WF_vars(Worker)
  /\ WF_vars(CommitPreparedRevokeOffsets \/ CleanupRevoke \/ Assign)

FairSpec == Spec /\ Fairness

-----------------------------------------------------------------------------
(* Properties *)

\* Until a revoke takes the partitions away, a tracker advances only over what
\* the broker acknowledged: by a settlement, by the synchronous fallback, or by
\* hydration; retried, aborted and crashed batches never move it
\* (settle_committed_offsets).
SettledAfterConfirmation == ~revoked => \A tp \in tracked : committed[tp] <= broker[tp]

\* Nothing is committed that has not completed, whichever path commits it: the
\* worker, the fallback, or a revoke that takes over a candidate of the outbox
\* (prepare_revoke_sync).
CommitsOnlyHandled == \A tp \in Partitions : broker[tp] <= handled[tp]

\* Until a revoke, the worker and the synchronous fallback never undo each
\* other's commits: the lease of a batch is cancelled before the fallback commits
\* something newer (commit_if_active, _commit_ready_offsets).
CommitsAdvance == [][revoked \/ \A tp \in Partitions : broker'[tp] >= broker[tp]]_broker

\* The same across a revoke.  It does not hold: a batch in flight keeps its lease
\* through the revoke and is committed after it (stop_accepting_partitions).
CommitsAlwaysAdvance == [][\A tp \in Partitions : broker'[tp] >= broker[tp]]_broker

\* However candidates are coalesced, retried and taken, the outbox holds at
\* most QueueMaxPartitions partitions and one candidate of a partition in each
\* of its two halves (enqueue).
OutboxBounded ==
  /\ Cardinality(TopicPartitions(pending \cup in_flight)) <= QueueMaxPartitions
  /\ \A half \in {pending, in_flight} : Cardinality(TopicPartitions(half)) = Cardinality(half)

\* Refused, aborted and crashed batches, a closed coordinator and a full outbox
\* only delay a commit: unless the partitions are revoked, the broker ends up
\* with everything that completed.
EventuallyCommitted == []~revoked => <>[](\A tp \in Partitions : broker[tp] = MaxOffset)

\* The same of the trackers.  It does not hold: a batch is taken for settled
\* before its tracker moves, and a full outbox can cancel it in between.
EventuallySettled == []~revoked => <>[](\A tp \in Partitions : committed[tp] = MaxOffset)
=============================================================================
