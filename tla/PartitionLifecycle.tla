------------------------- MODULE PartitionLifecycle -------------------------
(***************************************************************************)
(* The life of one partition in the control plane: records are fetched and *)
(* handed to the execution engine, completions come back in any order, the *)
(* contiguous prefix is committed to the broker, and the partition is      *)
(* revoked, lost in a crash and assigned again.                            *)
(*                                                                         *)
(* Every action is one critical section of the code: a body run under the  *)
(* poller's control lock, or one broker call made under the operation      *)
(* guard.  Awaits between critical sections are where other actions        *)
(* interleave.  The guard is held by consume() while a rebalance callback  *)
(* runs, so no commit of the event loop reaches the broker meanwhile.      *)
(*                                                                         *)
(* The WorkManager is reduced to its ledger (queued, known, dispatched);   *)
(* its scheduling is modelled in WorkManager.tla.                          *)
(***************************************************************************)
EXTENDS OffsetTracker, MetadataEncoder

CONSTANTS
  Log,                \* the offsets that hold a record
  Start,              \* broker's committed position before the first assignment
  MaxRetries,         \* execution.max_retries
  DlqEnabled,         \* kafka_config.dlq_enabled
  TaskTimeouts,       \* process engine: an attempt may end by task timeout
  BlockingTimeouts,   \* max_blocking_duration_ms > 0
  MetadataSnapshot,   \* rebalance_state_strategy = "metadata_snapshot"
  MetadataCap,        \* MAX_COMPLETED_OFFSETS_FOR_METADATA
  FaultKinds,         \* what the environment may do to the consumer
  MaxFaults           \* bound on how often it does so

ASSUME LifecycleAssumption ==
  /\ Log \subseteq Offsets
  /\ Start \in Nat /\ Start <= MaxOffset + 1
  /\ MaxRetries \in Nat \ {0}
  /\ MetadataCap \in Nat
  /\ MaxFaults \in Nat
  /\ {DlqEnabled, TaskTimeouts, BlockingTimeouts, MetadataSnapshot} \subseteq BOOLEAN

VARIABLES
  assigned,     \* the partition has an entry in _offset_trackers
  tracker,      \* that entry (Unassigned when there is none)
  position,     \* next offset the Kafka client delivers, 0 while unassigned
  queued,       \* work items in a virtual queue
  known,        \* _in_flight_work_items
  dispatched,   \* _dispatch_timestamps
  running,      \* executions the engine has accepted and not finished
  events,       \* completion events not yet processed
  pending_dlq,  \* _pending_dlq_events
  dirty,        \* the partition is in _dirty_commit_partitions
  commit,       \* the commit under _commit_lock
  callback,     \* the revoke callback in progress
  broker,       \* committed position held by the broker, and what its metadata decodes to
  handled,      \* offsets that succeeded, reached the DLQ, or failed with the DLQ off
  generation,   \* number of assignments so far
  faults

local == <<assigned, tracker, position, queued, known, dispatched, pending_dlq, dirty>>
vars == <<local, running, events, commit, callback, broker, handled, generation, faults>>

\* A work item: its id stands for the assignment that submitted it.
WorkItem == [offset : Offsets, generation : Nat, epoch : Nat]

Event == [item : WorkItem, status : {"SUCCESS", "FAILURE"}, attempt : 1 .. MaxRetries]

CommitState ==
  [phase : {"idle", "candidate", "prepared", "acked"}, offset : Offsets \cup {-1},
   metadata : SUBSET Offsets, attempt : 1 .. 2]

CallbackState ==
  [phase : {"none", "prepared", "committed"}, offset : Offsets \cup {-1},
   metadata : SUBSET Offsets]

Idle == [phase |-> "idle", offset |-> -1, metadata |-> {}, attempt |-> 1]

NoCallback == [phase |-> "none", offset |-> -1, metadata |-> {}]

Unassigned == NewTracker(0, {})

TypeOK ==
  /\ assigned \in BOOLEAN
  /\ tracker \in Tracker
  /\ position \in 0 .. MaxOffset + 1
  /\ queued \subseteq WorkItem
  /\ known \subseteq WorkItem
  /\ dispatched \subseteq WorkItem
  /\ running \subseteq WorkItem
  /\ events \subseteq Event
  /\ pending_dlq \subseteq Event
  /\ dirty \in BOOLEAN
  /\ commit \in CommitState
  /\ callback \in CallbackState
  /\ broker \in [offset : 0 .. MaxOffset + 1, metadata : SUBSET Offsets]
  /\ handled \subseteq Offsets
  /\ generation \in Nat
  /\ faults \in 0 .. MaxFaults

Init ==
  /\ assigned = FALSE
  /\ tracker = Unassigned
  /\ position = 0
  /\ queued = {} /\ known = {} /\ dispatched = {}
  /\ running = {} /\ events = {} /\ pending_dlq = {}
  /\ dirty = FALSE
  /\ commit = Idle
  /\ callback = NoCallback
  /\ broker = [offset |-> Start, metadata |-> {}]
  /\ handled = 0 .. (Start - 1)
  /\ generation = 0
  /\ faults = 0

\* Kinds: "revoke", "crash", "commit" (a failed broker commit), "dlq" (a failed
\* DLQ publish), "lookup" (a failed committed-offset lookup on assignment).
Fault(kind) ==
  /\ kind \in FaultKinds
  /\ faults < MaxFaults
  /\ faults' = faults + 1

-----------------------------------------------------------------------------
(* Dispatch, scheduling and execution *)

\* dispatch_messages for the next record: one that is complete beyond the
\* committed prefix is skipped, any other becomes a work item.
Dispatch ==
  /\ assigned
  /\ callback.phase = "none"
  /\ \E o \in Log :
       /\ o >= position
       /\ \A p \in Log : p >= position => o <= p
       /\ position' = o + 1
       /\ LET item == [offset |-> o, generation |-> generation, epoch |-> tracker.epoch]
          IN  IF IsCompletedUncommitted(tracker, o)
              THEN UNCHANGED <<tracker, queued, known>>
              ELSE /\ tracker' = UpdateLastFetchedOffset(tracker, o)
                   /\ queued' = queued \cup {item}
                   /\ known' = known \cup {item}
  /\ UNCHANGED <<assigned, dispatched, pending_dlq, dirty, running, events, commit,
                 callback, broker, handled, generation, faults>>

\* WorkManager.schedule moves one queued item to the engine.
Schedule(x) ==
  /\ x \in queued
  /\ queued' = queued \ {x}
  /\ dispatched' = dispatched \cup {x}
  /\ running' = running \cup {x}
  /\ UNCHANGED <<assigned, tracker, position, known, pending_dlq, dirty, events,
                 commit, callback, broker, handled, generation, faults>>

\* The engine ends an execution with one completion event.  A worker function
\* that keeps raising fails on the last attempt; a task timeout in a process
\* worker ends the execution on whichever attempt it interrupts.
Finish(x, status, attempt) ==
  /\ x \in running
  /\ status = "FAILURE" => attempt = MaxRetries \/ TaskTimeouts
  /\ running' = running \ {x}
  /\ events' = events \cup {[item |-> x, status |-> status, attempt |-> attempt]}
  /\ handled' = IF status = "SUCCESS" THEN handled \cup {x.offset} ELSE handled
  /\ UNCHANGED <<local, commit, callback, broker, generation, faults>>

\* handle_blocking_timeouts: force_fail finds the work item of a blocking
\* offset, queued or dispatched, and emits a terminal failure for it.
ForceFail(x) ==
  /\ BlockingTimeouts
  /\ assigned
  /\ x \in known
  /\ x.offset \in tracker.blocking
  /\ events' = events \cup {[item |-> x, status |-> "FAILURE", attempt |-> MaxRetries]}
  /\ UNCHANGED <<local, running, commit, callback, broker, handled, generation, faults>>

\* Scheduling and the metrics poll call get_gaps, which starts the timestamps of
\* new gap starts and drops the others.
\* Only ForceFail reads them.
PollGaps ==
  /\ BlockingTimeouts
  /\ assigned
  /\ tracker' = GetGaps(tracker)
  /\ UNCHANGED <<assigned, position, queued, known, dispatched, pending_dlq, dirty,
                 running, events, commit, callback, broker, handled, generation, faults>>

-----------------------------------------------------------------------------
(* Completion *)

NeedsDlq(e) == e.status = "FAILURE" /\ DlqEnabled /\ e.attempt >= MaxRetries

Skipped(e) == e.status = "FAILURE" /\ ~DlqEnabled

\* Mutant: the offset is marked complete although its DLQ publish failed.
ResolveUnpublished(e) ==
  /\ tracker' = MarkComplete(tracker, e.item.offset)
  /\ dirty' = (dirty \/ tracker'.completed_offsets # tracker.completed_offsets)
  /\ handled' \in {handled, handled \cup {e.item.offset}}
  /\ UNCHANGED <<pending_dlq, faults>>

\* Mutant: an event whose DLQ publish failed is not parked for a retry.
ResolveForgets(e) ==
  IF NeedsDlq(e)
  THEN UNCHANGED <<tracker, dirty, handled, pending_dlq, faults>>
  ELSE /\ tracker' = MarkComplete(tracker, e.item.offset)
       /\ dirty' = TRUE
       /\ UNCHANGED <<handled, pending_dlq, faults>>

\* A completion that passed the fence: publish a terminal failure to the DLQ,
\* then mark the offset complete; a failed publish parks the event instead.
Resolve(e) ==
  \/ /\ NeedsDlq(e)
     /\ Fault("dlq")
     /\ pending_dlq' = pending_dlq \cup {e}
     /\ UNCHANGED <<tracker, dirty, handled>>
  \/ /\ tracker' = MarkComplete(tracker, e.item.offset)
     /\ dirty' = (dirty \/ tracker'.completed_offsets # tracker.completed_offsets)
     /\ handled' = IF NeedsDlq(e) \/ Skipped(e)
                   THEN handled \cup {e.item.offset} ELSE handled
     /\ pending_dlq' = {p \in pending_dlq : p.item.offset # e.item.offset}
     /\ UNCHANGED faults

\* Completions for an unassigned partition, of another epoch, or of an offset
\* whose DLQ publish is still pending are dropped.
Accepted(e) ==
  /\ assigned
  /\ e.item.epoch = tracker.epoch
  /\ \A p \in pending_dlq : p.item.offset # e.item.offset

\* Mutant: the completed item stays in the in-flight ledgers.
ProcessCompletionKeepsItem(e) ==
  /\ e \in events
  /\ events' = events \ {e}
  /\ IF Accepted(e) THEN Resolve(e)
                    ELSE UNCHANGED <<tracker, dirty, handled, pending_dlq, faults>>
  /\ UNCHANGED <<assigned, position, queued, known, dispatched, running, commit, callback,
                 broker, generation>>

\* poll_completed_events releases the item, process_completed_events resolves it.
ProcessCompletion(e) ==
  /\ e \in events
  /\ events' = events \ {e}
  /\ known' = known \ {e.item}
  /\ dispatched' = dispatched \ {e.item}
  /\ IF Accepted(e) THEN Resolve(e)
                    ELSE UNCHANGED <<tracker, dirty, handled, pending_dlq, faults>>
  /\ UNCHANGED <<assigned, position, queued, running, commit, callback, broker, generation>>

\* The next drain retries every parked event of an assigned partition.
RetryDlq(e) ==
  /\ e \in pending_dlq
  /\ assigned
  /\ e.item.epoch = tracker.epoch
  /\ Resolve(e)
  /\ UNCHANGED <<assigned, position, queued, known, dispatched, running, events,
                 commit, callback, broker, generation>>

-----------------------------------------------------------------------------
(* Commit: build_commit_candidates, then _commit_offsets *)

InFlightOffsets == {x.offset : x \in dispatched \cap known}

GetMinInFlightOffset == IF InFlightOffsets = {} THEN None ELSE Min(InFlightOffsets)

\* The MetadataCap lowest completed offsets from base on.
GetCommitMetadataOffsets(t, base) ==
  {o \in t.completed_offsets :
     o >= base /\ Cardinality({p \in t.completed_offsets : base <= p /\ p < o}) < MetadataCap}

\* What the next owner will decode from the commit metadata; contiguous_only
\* commits carry none.
CommitMetadata(t, base) ==
  IF MetadataSnapshot
  THEN DecodeMetadata(EncodeMetadata(GetCommitMetadataOffsets(t, base), base))
  ELSE {}

BuildCommitCandidates ==
  /\ commit.phase = "idle"
  /\ assigned
  /\ dirty \/ pending_dlq # {}
  /\ LET hwm == GetCommittableHighWaterMark(tracker, GetMinInFlightOffset)
     IN  /\ hwm > tracker.last_committed_offset
         /\ commit' = [Idle EXCEPT !.phase = "candidate", !.offset = hwm]
  /\ UNCHANGED <<local, running, events, callback, broker, handled, generation, faults>>

PrepareCommit ==
  /\ commit.phase = "candidate"
  /\ IF assigned
     THEN commit' = [commit EXCEPT !.phase = "prepared",
                                   !.metadata = CommitMetadata(tracker, commit.offset + 1)]
     ELSE commit' = Idle
  /\ UNCHANGED <<local, running, events, callback, broker, handled, generation, faults>>

\* Mutant: the position behind the next record is committed.
BrokerCommitOffByOne ==
  /\ commit.phase = "prepared"
  /\ callback.phase = "none"
  /\ broker' = [offset |-> commit.offset + 2, metadata |-> commit.metadata]
  /\ commit' = [commit EXCEPT !.phase = "acked"]
  /\ UNCHANGED <<local, running, events, callback, handled, generation, faults>>

BrokerCommit ==
  /\ commit.phase = "prepared"
  /\ callback.phase = "none"
  /\ broker' = [offset |-> commit.offset + 1, metadata |-> commit.metadata]
  /\ commit' = [commit EXCEPT !.phase = "acked"]
  /\ UNCHANGED <<local, running, events, callback, handled, generation, faults>>

\* A KafkaException: one retry, then the candidate is dropped.  A commit whose
\* answer was lost has reached the broker all the same.
BrokerCommitFails ==
  /\ commit.phase = "prepared"
  /\ callback.phase = "none"
  /\ Fault("commit")
  /\ broker' \in {broker, [offset |-> commit.offset + 1, metadata |-> commit.metadata]}
  /\ commit' = IF commit.attempt < 2 THEN [commit EXCEPT !.attempt = @ + 1] ELSE Idle
  /\ UNCHANGED <<local, running, events, callback, handled, generation>>

\* Mutant: the dirty mark is cleared although completed offsets remain.
SettleCommitClean ==
  /\ commit.phase = "acked"
  /\ commit' = Idle
  /\ tracker' = IF assigned THEN CommitThrough(tracker, commit.offset) ELSE tracker
  /\ dirty' = FALSE
  /\ UNCHANGED <<assigned, position, queued, known, dispatched, pending_dlq, running,
                 events, callback, broker, handled, generation, faults>>

\* commit_through and, with no await in between, clear_committed_dirty_partitions.
SettleCommit ==
  /\ commit.phase = "acked"
  /\ commit' = Idle
  /\ tracker' = IF assigned THEN CommitThrough(tracker, commit.offset) ELSE tracker
  /\ dirty' = (assigned /\ tracker'.completed_offsets # {})
  /\ UNCHANGED <<assigned, position, queued, known, dispatched, pending_dlq, running,
                 events, callback, broker, handled, generation, faults>>

-----------------------------------------------------------------------------
(* Rebalance *)

\* prepare_revoke_sync: drop the partition's work, advance the local prefix and
\* fix the offset of the final commit.  Nothing is committed below offset 0.
PrepareRevoke ==
  /\ assigned
  /\ callback.phase = "none"
  /\ Fault("revoke")
  /\ queued' = {} /\ known' = {} /\ dispatched' = {}
  /\ tracker' = AdvanceHighWaterMark(tracker)
  /\ LET safe_offset == tracker'.last_committed_offset
     IN  IF safe_offset < 0
         THEN callback' = [NoCallback EXCEPT !.phase = "committed"]
         ELSE callback' = [phase |-> "prepared", offset |-> safe_offset,
                           metadata |-> CommitMetadata(tracker', safe_offset + 1)]
  /\ UNCHANGED <<assigned, position, pending_dlq, dirty, running, events, commit,
                 broker, handled, generation>>

CommitPreparedRevokeOffsets ==
  /\ callback.phase = "prepared"
  /\ callback' = [callback EXCEPT !.phase = "committed"]
  /\ \/ /\ broker' = [offset |-> callback.offset + 1, metadata |-> callback.metadata]
        /\ UNCHANGED faults
     \/ /\ Fault("commit")
        /\ UNCHANGED broker
  /\ UNCHANGED <<local, running, events, commit, handled, generation>>

CleanupRevoke ==
  /\ callback.phase = "committed"
  /\ callback' = NoCallback
  /\ assigned' = FALSE
  /\ tracker' = Unassigned
  /\ position' = 0
  /\ dirty' = FALSE
  /\ pending_dlq' = {}
  /\ UNCHANGED <<queued, known, dispatched, running, events, commit, broker,
                 handled, generation, faults>>

\* The broker keeps the payload, here what it decodes to; its offsets below the
\* committed position are no news.
DecodeAssignmentCompletedOffsets(last_committed) ==
  {o \in broker.metadata : o > last_committed}

\* build_assignments for one partition: a new tracker hydrated from the
\* broker's committed offset and metadata.
HydratedTracker(last_committed, completed) ==
  IncrementEpoch(
    RehydrateAssignmentState(NewTracker(last_committed + 1, completed),
                             last_committed, Max({last_committed} \cup completed)))

\* A failed committed-offset lookup leaves only the assignment offset, which is
\* OFFSET_INVALID: the tracker then starts below offset 0, while the client
\* itself still resumes at the committed position.
Assign ==
  /\ ~assigned
  /\ assigned' = TRUE
  /\ generation' = generation + 1
  /\ position' = broker.offset
  /\ \/ /\ tracker' = HydratedTracker(broker.offset - 1,
                                      DecodeAssignmentCompletedOffsets(broker.offset - 1))
        /\ UNCHANGED faults
     \/ /\ Fault("lookup")
        /\ tracker' = HydratedTracker(-1, {})
  /\ UNCHANGED <<queued, known, dispatched, pending_dlq, dirty, running, events, commit,
                 callback, broker, handled>>

\* The process dies, or a failed rebalance bridge ends the consumer loop.
Crash ==
  /\ assigned
  /\ Fault("crash")
  /\ assigned' = FALSE
  /\ tracker' = Unassigned
  /\ position' = 0
  /\ queued' = {} /\ known' = {} /\ dispatched' = {} /\ pending_dlq' = {}
  /\ running' = {} /\ events' = {}
  /\ dirty' = FALSE
  /\ commit' = Idle
  /\ callback' = NoCallback
  /\ UNCHANGED <<broker, handled, generation>>

-----------------------------------------------------------------------------
Work ==
  \/ Dispatch
  \/ \E x \in queued : Schedule(x)
  \/ \E x \in running, s \in {"SUCCESS", "FAILURE"}, a \in 1 .. MaxRetries : Finish(x, s, a)
  \/ \E x \in known : ForceFail(x)
  \/ PollGaps
  \/ \E e \in events : ProcessCompletion(e)
  \/ \E e \in pending_dlq : RetryDlq(e)

CommitStep ==
  BuildCommitCandidates \/ PrepareCommit \/ BrokerCommit \/ BrokerCommitFails \/ SettleCommit

Rebalance ==
  PrepareRevoke \/ CommitPreparedRevokeOffsets \/ CleanupRevoke \/ Assign \/ Crash

Next == Work \/ CommitStep \/ Rebalance

Spec == Init /\ [][Next]_vars

\* The consumer loop, the completion monitor and the rebalance callbacks are
\* looping or run to completion, and the engine ends every execution.  Nothing
\* obliges the environment to fault or the metrics poll to run.
Fairness ==
  /\ WF_vars(Dispatch)
  /\ WF_vars(\E x \in queued : Schedule(x))
  /\ WF_vars(\E x \in running, s \in {"SUCCESS", "FAILURE"}, a \in 1 .. MaxRetries :
               Finish(x, s, a))
  /\ WF_vars(\E e \in events : ProcessCompletion(e))
  /\ WF_vars(\E e \in pending_dlq : RetryDlq(e))
  /\ WF_vars(BuildCommitCandidates)
  /\ WF_vars(PrepareCommit)
  /\ WF_vars(BrokerCommit)
  /\ WF_vars(SettleCommit)
  /\ WF_vars(CommitPreparedRevokeOffsets)
  /\ WF_vars(CleanupRevoke)
  /\ WF_vars(Assign)

FairSpec == Spec /\ Fairness

-----------------------------------------------------------------------------
(* Properties *)

\* At-least-once: the position committed to the broker, by the commit loop or
\* by a revoke callback, has only handled offsets below it (_commit_offsets,
\* commit_prepared_revoke_offsets).
NeverCommitsUnhandled == 0 .. (broker.offset - 1) \subseteq handled

Promise == INSTANCE AtLeastOnce WITH committed <- broker.offset

\* The whole life of the partition, seen as its handled offsets and committed
\* position, is a behaviour of the at-least-once promise.
ImplementsAtLeastOnce == Promise!Spec

\* What the consumer will not execute again is handled: the sparse completed
\* set of the tracker and the one handed over in commit metadata, from which
\* is_completed_uncommitted makes dispatch_messages skip records.
SkipsOnlyHandled == tracker.completed_offsets \cup broker.metadata \subseteq handled

\* The strengthening of the two that is inductive.  Every place from which an
\* offset can reach the broker or the skip test holds handled offsets only: the
\* tracker, the broker, and the candidates a commit or a revoke callback carries
\* across an await.  A completion event either reports a success that happened
\* or is a failure that the DLQ policy will see.
LedgersHandled ==
  /\ tracker.completed_offsets \cup (0 .. tracker.last_committed_offset) \subseteq handled
  /\ broker.metadata \cup (0 .. (broker.offset - 1)) \subseteq handled
  /\ commit.metadata \cup (0 .. commit.offset) \subseteq handled
  /\ callback.metadata \cup (0 .. callback.offset) \subseteq handled
  /\ \A e \in events \cup pending_dlq :
       \/ e.item.offset \in handled
       \/ e.status = "FAILURE" /\ (e.attempt = MaxRetries \/ ~DlqEnabled)

\* No fetched record is forgotten while the partition is owned: above the
\* committed offset it is complete, queued, executing, reported in an
\* unprocessed completion event of this epoch, or parked for a DLQ retry.
NoLostWork ==
  assigned /\ callback.phase = "none" =>
    \A o \in Log :
      tracker.last_committed_offset < o /\ o < position =>
        \/ o \in tracker.completed_offsets
        \/ \E x \in queued \cup running : x.offset = o /\ x.epoch = tracker.epoch
        \/ \E e \in events \cup pending_dlq :
             e.item.offset = o /\ e.item.epoch = tracker.epoch

\* No completed offset lies at or below the committed one.  One that did would
\* stop the walk of get_committable_high_water_mark for good.
CompletedAboveCommitted ==
  \A o \in tracker.completed_offsets : o > tracker.last_committed_offset

\* The unkeyed cache _first_gap_head is the first gap of the current state
\* after any sequence of tracker operations.
FirstGapHeadCoherent == tracker.first_gap_head = CalculateFirstGapHead(tracker)

\* With contiguous_only hand-over, a partition with completed offsets left is
\* in _dirty_commit_partitions, without which no commit is attempted for it.
DirtyCoversCompleted ==
  ~MetadataSnapshot /\ assigned /\ tracker.completed_offsets # {} => dirty

\* Within one assignment the committed offset never moves back, also when a
\* commit prepared before a rebalance is settled on the tracker made after it.
CommittedOffsetAdvances ==
  [][assigned' /\ generation' = generation
       => tracker'.last_committed_offset >= tracker.last_committed_offset]_vars

\* Every record is eventually below the local commit prefix for good.
EventuallyPrefixComplete ==
  <>[](assigned /\ \A o \in Log : o <= tracker.last_committed_offset)

\* The broker eventually holds a committed position behind the last record.
EventuallyCommitted == <>[](\A o \in Log : o < broker.offset)

\* The committed position of the broker never moves back, whichever of the
\* commit loop and the revoke callback writes it.  It does not hold: a prepared
\* commit is sent after the newer one of a revoke (_commit_offsets).
BrokerOffsetMonotone == [][broker'.offset >= broker.offset]_broker

\* A tracker without gaps holds no blocking timestamp (get_gaps).  It does not
\* hold between the completion that closes the gap and the next scan.
NoGapNoBlocking == Missing(tracker) = {} => tracker.blocking = {}

\* A completion of an earlier assignment never changes the tracker: the epoch
\* carried by an event is compared with the tracker's.  It does not hold: every
\* assignment has epoch 1 (build_assignments).
StaleCompletionFenced ==
  [][\A e \in events \ events' :
       e.item.generation # generation /\ generation' = generation => UNCHANGED tracker]_vars
=============================================================================
