---------------------- MODULE PartitionLifecycleProofs ----------------------
(***************************************************************************)
(* Proofs, for every log, retry limit, fault bound and hand-over strategy, *)
(* that the partition lifecycle keeps its types, commits and skips only    *)
(* handled offsets, and implements the at-least-once promise.              *)
(***************************************************************************)
EXTENDS PartitionLifecycle, OffsetTrackerProofs, MetadataEncoderProofs

-----------------------------------------------------------------------------
(* Type correctness *)

\* Unassigned is a tracker with nothing committed and nothing complete.
LEMMA UnassignedType ==
  /\ Unassigned \in Tracker
  /\ Unassigned.completed_offsets = {}
  /\ Unassigned.last_committed_offset = -1
<1> DEFINE u == [ last_committed_offset |-> 0 - 1, last_fetched_offset |-> 0 - 1,
                  completed_offsets |-> {}, epoch |-> 0, first_gap_head |-> None,
                  blocking |-> {} ]
<1>1. u \in Tracker /\ u.completed_offsets = {} /\ u.last_committed_offset = -1
  BY DEF Tracker, None
<1>2. Unassigned = BumpVersion(u)
  BY DEF Unassigned, NewTracker
<1> HIDE DEF u
<1> QED
  BY <1>1, <1>2, BumpVersionType

\* The tracker build_assignments installs carries the committed offset and the
\* completed offsets it was given.
LEMMA HydratedTrackerEffect ==
  ASSUME NEW lc \in Offsets \cup {-1}, NEW completed \in SUBSET Offsets
  PROVE  /\ HydratedTracker(lc, completed) \in Tracker
         /\ HydratedTracker(lc, completed).completed_offsets = completed
         /\ HydratedTracker(lc, completed).last_committed_offset = lc
<1> DEFINE t == [ last_committed_offset |-> (lc + 1) - 1, last_fetched_offset |-> (lc + 1) - 1,
                  completed_offsets |-> completed, epoch |-> 0, first_gap_head |-> None,
                  blocking |-> {} ]
           n == BumpVersion(t)
           f == Max({lc} \cup completed)
           r == [n EXCEPT !.last_committed_offset = lc, !.last_fetched_offset = f]
           b == BumpVersion(r)
<1>1. t \in Tracker /\ t.completed_offsets = completed
  BY MaxOffsetAssumption DEF Tracker, None, Offsets
<1>2. NewTracker(lc + 1, completed) = n
  BY DEF NewTracker
<1> HIDE DEF t
<1>3. n \in Tracker /\ n.completed_offsets = completed
  BY <1>1, BumpVersionType
<1>4. f \in Offsets \cup {-1}
  BY MaxOfOffsets
<1> HIDE DEF n, f
<1>5. r \in Tracker /\ r.completed_offsets = completed /\ r.last_committed_offset = lc
  BY <1>3, <1>4 DEF Tracker
<1> HIDE DEF r
<1>6. b \in Tracker /\ b.completed_offsets = completed /\ b.last_committed_offset = lc
  BY <1>5, BumpVersionType
<1>7. HydratedTracker(lc, completed) = IncrementEpoch(b)
  BY <1>2 DEF HydratedTracker, RehydrateAssignmentState, r, f
<1> HIDE DEF b
<1> QED
  BY <1>6, <1>7 DEF IncrementEpoch, Tracker

\* advance_high_water_mark commits a run of completed offsets.
LEMMA AdvanceHighWaterMarkEffect ==
  ASSUME NEW t \in Tracker
  PROVE  /\ AdvanceHighWaterMark(t) \in Tracker
         /\ AdvanceHighWaterMark(t).completed_offsets \subseteq t.completed_offsets
         /\ AdvanceHighWaterMark(t).last_committed_offset >= t.last_committed_offset
         /\ (t.last_committed_offset + 1) .. AdvanceHighWaterMark(t).last_committed_offset
              \subseteq t.completed_offsets
<1> DEFINE c == GetCommittableHighWaterMark(t, None)
<1>1. /\ c \in Offsets \cup {-1}
      /\ (t.last_committed_offset + 1) .. c \subseteq t.completed_offsets
  BY CommittableHighWaterMarkRun DEF None
<1> HIDE DEF c
<1>2. AdvanceHighWaterMark(t) = CommitThrough(t, c)
  BY DEF AdvanceHighWaterMark, c
<1>3. t.last_committed_offset \in Int
  BY MaxOffsetAssumption DEF Tracker, Offsets
<1>4. (t.last_committed_offset + 1) .. t.last_committed_offset = {}
  BY <1>3
<1> QED
  BY <1>1, <1>2, <1>4, CommitThroughEffect

\* The metadata of a commit lists completed offsets of the tracker only.
LEMMA MetadataCompleted ==
  ASSUME NEW t \in Tracker, NEW base \in Int
  PROVE  CommitMetadata(t, base) \subseteq t.completed_offsets
<1> DEFINE offsets == GetCommitMetadataOffsets(t, base)
<1>1. offsets \subseteq t.completed_offsets /\ offsets \subseteq Int
  BY MaxOffsetAssumption DEF GetCommitMetadataOffsets, Tracker, Offsets
<1> HIDE DEF offsets
<1>2. DecodeMetadata(EncodeMetadata(offsets, base)) \subseteq offsets
  BY <1>1, DecodedWasEncoded
<1> QED
  BY <1>1, <1>2 DEF CommitMetadata, offsets

\* The least in-flight offset is an offset, or None.
LEMMA MinInFlightType ==
  ASSUME TypeOK
  PROVE  GetMinInFlightOffset \in Offsets \cup {None}
<1>1. InFlightOffsets \subseteq Offsets
  BY DEF TypeOK, InFlightOffsets, WorkItem
<1> QED
  BY <1>1, MinOfOffsets DEF GetMinInFlightOffset

\* The resting values of the constants of the state: no commit, no callback,
\* and the client position 0.
LEMMA RestingTypes ==
  Idle \in CommitState /\ NoCallback \in CallbackState /\ 0 \in 0 .. MaxOffset + 1
BY MaxOffsetAssumption DEF Idle, NoCallback, CommitState, CallbackState

\* Resolving a completion keeps the types of what it changes.
LEMMA ResolveType ==
  ASSUME TypeOK, NEW e \in Event, Resolve(e)
  PROVE  /\ tracker' \in Tracker
         /\ dirty' \in BOOLEAN
         /\ handled' \subseteq Offsets
         /\ pending_dlq' \subseteq Event
         /\ faults' \in 0 .. MaxFaults
<1>1. e.item.offset \in Offsets
  BY DEF Event, WorkItem
<1>2. MarkComplete(tracker, e.item.offset) \in Tracker
  BY <1>1, MarkCompleteEffect DEF TypeOK
<1>3. CASE Fault("dlq") /\ pending_dlq' = pending_dlq \cup {e}
             /\ UNCHANGED <<tracker, dirty, handled>>
  BY <1>3, LifecycleAssumption DEF TypeOK, Fault
<1>4. CASE /\ tracker' = MarkComplete(tracker, e.item.offset)
           /\ dirty' = (dirty \/ tracker'.completed_offsets # tracker.completed_offsets)
           /\ handled' \in {handled, handled \cup {e.item.offset}}
           /\ pending_dlq' \subseteq pending_dlq
           /\ UNCHANGED faults
  BY <1>1, <1>2, <1>4 DEF TypeOK
<1> QED
  BY <1>3, <1>4 DEF Resolve

\* Every action keeps the type invariant.
LEMMA TypeStep == TypeOK /\ [Next]_vars => TypeOK'
<1> SUFFICES ASSUME TypeOK, [Next]_vars PROVE TypeOK'
  OBVIOUS
<1> USE MaxOffsetAssumption, LifecycleAssumption
<1>1. CASE Dispatch
  <2>1. PICK o \in Log :
          /\ position' = o + 1
          /\ LET item == [offset |-> o, generation |-> generation, epoch |-> tracker.epoch]
             IN  \/ UNCHANGED <<tracker, queued, known>>
                 \/ /\ tracker' = UpdateLastFetchedOffset(tracker, o)
                    /\ queued' = queued \cup {item}
                    /\ known' = known \cup {item}
    BY <1>1 DEF Dispatch
  <2>2. o \in Offsets /\ UpdateLastFetchedOffset(tracker, o) \in Tracker
    BY UpdateLastFetchedOffsetEffect DEF TypeOK
  <2>3. [offset |-> o, generation |-> generation, epoch |-> tracker.epoch] \in WorkItem
    BY <2>2 DEF TypeOK, WorkItem, Tracker
  <2>4. tracker' \in Tracker /\ queued' \subseteq WorkItem /\ known' \subseteq WorkItem
    BY <2>1, <2>2, <2>3 DEF TypeOK
  <2>5. position' \in 0 .. MaxOffset + 1
    BY <2>1, <2>2 DEF Offsets
  <2> QED
    BY <1>1, <2>4, <2>5 DEF Dispatch, TypeOK
<1>2. ASSUME NEW x \in queued, Schedule(x) PROVE TypeOK'
  BY <1>2 DEF Schedule, TypeOK
<1>3. ASSUME NEW x \in running, NEW s \in {"SUCCESS", "FAILURE"}, NEW a \in 1 .. MaxRetries,
             Finish(x, s, a)
      PROVE  TypeOK'
  <2>1. x \in WorkItem /\ x.offset \in Offsets
    BY DEF TypeOK, WorkItem
  <2>2. [item |-> x, status |-> s, attempt |-> a] \in Event
    BY <2>1 DEF Event
  <2> QED
    BY <1>3, <2>1, <2>2 DEF Finish, TypeOK, local
<1>4. ASSUME NEW x \in known, ForceFail(x) PROVE TypeOK'
  <2>1. [item |-> x, status |-> "FAILURE", attempt |-> MaxRetries] \in Event
    BY DEF TypeOK, Event
  <2> QED
    BY <1>4, <2>1 DEF ForceFail, TypeOK, local
<1>5. CASE PollGaps
  BY <1>5, GetGapsEffect DEF PollGaps, TypeOK
<1>6. ASSUME NEW e \in events, ProcessCompletion(e) PROVE TypeOK'
  <2>1. /\ tracker' \in Tracker /\ dirty' \in BOOLEAN /\ handled' \subseteq Offsets
        /\ pending_dlq' \subseteq Event /\ faults' \in 0 .. MaxFaults
    <3>1. CASE Accepted(e)
      <4>1. Resolve(e) /\ e \in Event
        BY <1>6, <3>1 DEF ProcessCompletion, TypeOK
      <4> QED
        BY <4>1, ResolveType
    <3>2. CASE ~Accepted(e)
      BY <1>6, <3>2 DEF ProcessCompletion, TypeOK
    <3> QED
      BY <3>1, <3>2
  <2> QED
    BY <1>6, <2>1 DEF ProcessCompletion, TypeOK
<1>7. ASSUME NEW e \in pending_dlq, RetryDlq(e) PROVE TypeOK'
  <2>1. e \in Event /\ Resolve(e)
    BY <1>7 DEF RetryDlq, TypeOK
  <2>2. /\ tracker' \in Tracker /\ dirty' \in BOOLEAN /\ handled' \subseteq Offsets
        /\ pending_dlq' \subseteq Event /\ faults' \in 0 .. MaxFaults
    BY <2>1, ResolveType
  <2> QED
    BY <1>7, <2>2 DEF RetryDlq, TypeOK
<1>8. CASE BuildCommitCandidates
  <2>1. GetCommittableHighWaterMark(tracker, GetMinInFlightOffset) \in Offsets \cup {-1}
    BY MinInFlightType, CommittableHighWaterMarkRun DEF TypeOK
  <2>2. commit' \in CommitState
    <3> DEFINE hwm == GetCommittableHighWaterMark(tracker, GetMinInFlightOffset)
    <3>1. commit' = [Idle EXCEPT !.phase = "candidate", !.offset = hwm]
      BY <1>8 DEF BuildCommitCandidates
    <3> HIDE DEF hwm
    <3>2. hwm \in Offsets \cup {-1}
      BY <2>1 DEF hwm
    <3> QED
      BY <3>1, <3>2, RestingTypes DEF CommitState
  <2> QED
    BY <1>8, <2>2 DEF BuildCommitCandidates, TypeOK, local
<1>9. CASE PrepareCommit
  <2>1. CommitMetadata(tracker, commit.offset + 1) \subseteq Offsets
    BY MetadataCompleted, MaxOffsetAssumption DEF TypeOK, Tracker, CommitState, Offsets
  <2>2. commit' \in CommitState
    <3>1. CASE assigned
      <4>1. commit' = [commit EXCEPT !.phase = "prepared",
                                     !.metadata = CommitMetadata(tracker, commit.offset + 1)]
        BY <1>9, <3>1 DEF PrepareCommit
      <4> QED
        BY <4>1, <2>1 DEF CommitState, TypeOK
    <3>2. CASE ~assigned
      BY <1>9, <3>2, RestingTypes DEF PrepareCommit
    <3> QED
      BY <3>1, <3>2
  <2> QED
    BY <1>9, <2>2 DEF PrepareCommit, TypeOK, local
<1>10. CASE BrokerCommit
  <2>1. commit.offset + 1 \in 0 .. MaxOffset + 1
    BY DEF TypeOK, CommitState, Offsets
  <2> QED
    BY <1>10, <2>1 DEF BrokerCommit, TypeOK, CommitState, local
<1>11. CASE BrokerCommitFails
  <2>1. commit.offset + 1 \in 0 .. MaxOffset + 1
    BY DEF TypeOK, CommitState, Offsets
  <2>2. commit' \in CommitState
    BY <1>11, RestingTypes DEF BrokerCommitFails, TypeOK, CommitState
  <2> QED
    BY <1>11, <2>1, <2>2 DEF BrokerCommitFails, TypeOK, CommitState, local, Fault
<1>12. CASE SettleCommit
  <2>1. CommitThrough(tracker, commit.offset) \in Tracker
    BY CommitThroughEffect DEF TypeOK, CommitState
  <2> QED
    BY <1>12, <2>1, RestingTypes DEF SettleCommit, TypeOK
<1>13. CASE PrepareRevoke
  <2>1. tracker' \in Tracker /\ tracker'.last_committed_offset \in Offsets \cup {-1}
    BY <1>13, AdvanceHighWaterMarkEffect DEF PrepareRevoke, TypeOK, Tracker
  <2>2. \A b \in Int : CommitMetadata(tracker', b) \subseteq Offsets
    BY <2>1, MetadataCompleted DEF Tracker
  <2>3. callback' \in CallbackState
    BY <1>13, <2>1, <2>2 DEF PrepareRevoke, NoCallback, CallbackState, Offsets
  <2> QED
    BY <1>13, <2>1, <2>3 DEF PrepareRevoke, TypeOK, Fault
<1>14. CASE CommitPreparedRevokeOffsets
  <2>1. callback.offset + 1 \in 0 .. MaxOffset + 1
    BY DEF TypeOK, CallbackState, Offsets
  <2> QED
    BY <1>14, <2>1 DEF CommitPreparedRevokeOffsets, TypeOK, CallbackState, local, Fault
<1>15. CASE CleanupRevoke
  BY <1>15, UnassignedType, RestingTypes DEF CleanupRevoke, TypeOK
<1>16. CASE Assign
  <2>1. broker.offset - 1 \in Offsets \cup {-1}
    BY DEF TypeOK, Offsets
  <2>2. {o \in broker.metadata : o > broker.offset - 1} \in SUBSET Offsets
    BY DEF TypeOK
  <2>3. tracker' \in Tracker
    BY <1>16, <2>1, <2>2, HydratedTrackerEffect DEF Assign, DecodeAssignmentCompletedOffsets
  <2> QED
    BY <1>16, <2>3 DEF Assign, TypeOK, Fault
<1>17. CASE Crash
  <2>1. faults' \in 0 .. MaxFaults
    BY <1>17 DEF Crash, TypeOK, Fault
  <2> QED
    BY <1>17, <2>1, UnassignedType, RestingTypes DEF Crash, TypeOK
<1>18. CASE UNCHANGED vars
  BY <1>18 DEF vars, local, TypeOK
<1> QED
  BY <1>1, <1>2, <1>3, <1>4, <1>5, <1>6, <1>7, <1>8, <1>9, <1>10, <1>11, <1>12,
     <1>13, <1>14, <1>15, <1>16, <1>17, <1>18
  DEF Next, Work, CommitStep, Rebalance

\* The type invariant holds initially.
LEMMA TypeInit == Init => TypeOK
<1> SUFFICES ASSUME Init PROVE TypeOK
  OBVIOUS
<1>1. handled \subseteq Offsets
  BY MaxOffsetAssumption, LifecycleAssumption DEF Init, Offsets
<1>2. broker \in [offset : 0 .. MaxOffset + 1, metadata : SUBSET Offsets]
  BY MaxOffsetAssumption, LifecycleAssumption DEF Init
<1>3. faults \in 0 .. MaxFaults
  BY LifecycleAssumption DEF Init
<1> QED
  BY <1>1, <1>2, <1>3, UnassignedType, RestingTypes DEF Init, TypeOK

\* Every reachable state has the declared types: in particular a committed
\* position never leaves the log and a local prefix is -1 or an offset.
THEOREM TypeCorrect == Spec => []TypeOK
BY TypeInit, TypeStep, PTL DEF Spec

-----------------------------------------------------------------------------
(* At-least-once *)

\* A failure always reaches the DLQ policy.  It does in the async engine, and
\* whenever the DLQ is off; a task timeout of the process engine breaks it.
FailuresAreTerminal == ~TaskTimeouts \/ ~DlqEnabled

\* Handled offsets stay handled.
LEMMA HandledGrows ==
  ASSUME TypeOK, [Next]_vars
  PROVE  handled \subseteq handled'
<1>1. ASSUME NEW e, Resolve(e) PROVE handled \subseteq handled'
  BY <1>1 DEF Resolve
<1>2. CASE Work
  BY <1>1, <1>2 DEF Work, Dispatch, Schedule, Finish, ForceFail, PollGaps,
                    ProcessCompletion, RetryDlq
<1>3. CASE CommitStep
  BY <1>3 DEF CommitStep, BuildCommitCandidates, PrepareCommit, BrokerCommit,
              BrokerCommitFails, SettleCommit
<1>4. CASE Rebalance
  BY <1>4 DEF Rebalance, PrepareRevoke, CommitPreparedRevokeOffsets, CleanupRevoke,
              Assign, Crash
<1> QED
  BY <1>2, <1>3, <1>4 DEF Next, vars

\* The parts of LedgersHandled, each about one ledger.
TrackerHandled == tracker.completed_offsets \cup (0 .. tracker.last_committed_offset) \subseteq handled

BrokerHandled == broker.metadata \cup (0 .. (broker.offset - 1)) \subseteq handled

CommitHandled == commit.metadata \cup (0 .. commit.offset) \subseteq handled

CallbackHandled == callback.metadata \cup (0 .. callback.offset) \subseteq handled

EventHandled(e) ==
  \/ e.item.offset \in handled
  \/ e.status = "FAILURE" /\ (e.attempt = MaxRetries \/ ~DlqEnabled)

EventsHandled == \A e \in events \cup pending_dlq : EventHandled(e)

\* LedgersHandled is the conjunction of its parts.
LEMMA LedgersHandledParts ==
  LedgersHandled <=> /\ TrackerHandled /\ BrokerHandled /\ CommitHandled
                     /\ CallbackHandled /\ EventsHandled
BY DEF LedgersHandled, TrackerHandled, BrokerHandled, CommitHandled, CallbackHandled,
       EventsHandled, EventHandled

\* A prefix extended by a run of completed offsets is handled.
LEMMA PrefixHandled ==
  ASSUME TypeOK, TrackerHandled, NEW c \in Offsets \cup {-1},
         (tracker.last_committed_offset + 1) .. c \subseteq tracker.completed_offsets
  PROVE  0 .. c \subseteq handled
<1>1. tracker.last_committed_offset \in Int /\ c \in Int
  BY MaxOffsetAssumption DEF TypeOK, Tracker, Offsets
<1>2. 0 .. c \subseteq (0 .. tracker.last_committed_offset)
                         \cup ((tracker.last_committed_offset + 1) .. c)
  BY <1>1
<1> QED
  BY <1>2 DEF TrackerHandled

\* Resolving an event handles its offset before it is marked complete.
LEMMA ResolveHandles ==
  ASSUME TypeOK, LedgersHandled, NEW e \in events \cup pending_dlq, Resolve(e)
  PROVE  /\ TrackerHandled'
         /\ \A p \in pending_dlq' : p \in pending_dlq \cup {e}
<1>1. e \in Event /\ e.item.offset \in Offsets /\ EventHandled(e) /\ TrackerHandled
  BY LedgersHandledParts DEF TypeOK, Event, WorkItem, EventsHandled
<1>2. CASE UNCHANGED <<tracker, handled>> /\ pending_dlq' = pending_dlq \cup {e}
  BY <1>1, <1>2 DEF TrackerHandled
<1>3. CASE /\ tracker' = MarkComplete(tracker, e.item.offset)
           /\ handled' = IF NeedsDlq(e) \/ Skipped(e)
                         THEN handled \cup {e.item.offset} ELSE handled
           /\ pending_dlq' \subseteq pending_dlq
  <2>1. e.item.offset \in handled'
    BY <1>1, <1>3, LifecycleAssumption DEF EventHandled, NeedsDlq, Skipped, Event
  <2>2. handled \subseteq handled'
    BY <1>3
  <2>3. /\ tracker'.completed_offsets \subseteq tracker.completed_offsets \cup {e.item.offset}
        /\ tracker'.last_committed_offset = tracker.last_committed_offset
    BY <1>1, <1>3, MarkCompleteEffect DEF TypeOK
  <2> QED
    BY <1>1, <1>3, <2>1, <2>2, <2>3 DEF TrackerHandled
<1> QED
  BY <1>2, <1>3 DEF Resolve

\* Every action keeps the ledgers handled.
LEMMA LedgersStep ==
  ASSUME FailuresAreTerminal
  PROVE  TypeOK /\ LedgersHandled /\ [Next]_vars => LedgersHandled'
<1> SUFFICES ASSUME TypeOK, LedgersHandled, [Next]_vars PROVE LedgersHandled'
  OBVIOUS
<1>a. TrackerHandled /\ BrokerHandled /\ CommitHandled /\ CallbackHandled /\ EventsHandled
  BY LedgersHandledParts
<1>b. handled \subseteq handled'
  BY HandledGrows
\* A ledger that did not change is still handled.
<1>c. /\ UNCHANGED tracker => TrackerHandled'
      /\ UNCHANGED broker => BrokerHandled'
      /\ UNCHANGED commit => CommitHandled'
      /\ UNCHANGED callback => CallbackHandled'
  BY <1>a, <1>b DEF TrackerHandled, BrokerHandled, CommitHandled, CallbackHandled
<1>d. \A e \in events \cup pending_dlq : EventHandled(e)'
  BY <1>a, <1>b DEF EventsHandled, EventHandled
<1>e. events' \cup pending_dlq' \subseteq events \cup pending_dlq => EventsHandled'
  BY <1>d DEF EventsHandled
<1> SUFFICES /\ TrackerHandled' /\ BrokerHandled' /\ CommitHandled'
             /\ CallbackHandled' /\ EventsHandled'
  BY LedgersHandledParts
  DEF LedgersHandled, TrackerHandled, BrokerHandled, CommitHandled, CallbackHandled,
      EventsHandled, EventHandled
<1> DEFINE Goal == /\ TrackerHandled' /\ BrokerHandled' /\ CommitHandled'
                   /\ CallbackHandled' /\ EventsHandled'
<1>1. CASE Dispatch
  <2>1. /\ tracker'.completed_offsets = tracker.completed_offsets
        /\ tracker'.last_committed_offset = tracker.last_committed_offset
    BY <1>1, UpdateLastFetchedOffsetEffect, LifecycleAssumption DEF Dispatch, TypeOK
  <2> QED
    BY <1>1, <1>a, <1>b, <1>c, <1>e, <2>1 DEF Dispatch, TrackerHandled
<1>2. ASSUME NEW x \in queued, Schedule(x) PROVE Goal
  BY <1>2, <1>c, <1>e DEF Schedule
<1>3. ASSUME NEW x \in running, NEW s \in {"SUCCESS", "FAILURE"}, NEW a \in 1 .. MaxRetries,
             Finish(x, s, a)
      PROVE  Goal
  <2> DEFINE e == [item |-> x, status |-> s, attempt |-> a]
  <2>1. EventHandled(e)'
    BY <1>3 DEF Finish, EventHandled, FailuresAreTerminal
  <2>2. events' = events \cup {e} /\ UNCHANGED <<tracker, broker, commit, callback, pending_dlq>>
    BY <1>3 DEF Finish, local
  <2> QED
    BY <2>1, <2>2, <1>c, <1>d DEF EventsHandled
<1>4. ASSUME NEW x \in known, ForceFail(x) PROVE Goal
  <2> DEFINE e == [item |-> x, status |-> "FAILURE", attempt |-> MaxRetries]
  <2>1. EventHandled(e)'
    BY DEF EventHandled
  <2>2. events' = events \cup {e} /\ UNCHANGED <<tracker, broker, commit, callback, pending_dlq>>
    BY <1>4 DEF ForceFail, local
  <2> QED
    BY <2>1, <2>2, <1>c, <1>d DEF EventsHandled
<1>5. CASE PollGaps
  <2>1. /\ tracker'.completed_offsets = tracker.completed_offsets
        /\ tracker'.last_committed_offset = tracker.last_committed_offset
    BY <1>5, GetGapsEffect DEF PollGaps, TypeOK
  <2> QED
    BY <1>5, <1>a, <1>c, <1>e, <2>1 DEF PollGaps, TrackerHandled
<1>6. ASSUME NEW e \in events, ProcessCompletion(e) PROVE Goal
  <2>1. TrackerHandled' /\ pending_dlq' \subseteq pending_dlq \cup {e}
    <3>1. CASE Accepted(e)
      BY <1>6, <3>1, ResolveHandles DEF ProcessCompletion
    <3>2. CASE ~Accepted(e)
      BY <1>6, <3>2, <1>c DEF ProcessCompletion
    <3> QED
      BY <3>1, <3>2
  <2> QED
    BY <1>6, <2>1, <1>c, <1>e DEF ProcessCompletion
<1>7. ASSUME NEW e \in pending_dlq, RetryDlq(e) PROVE Goal
  <2>1. TrackerHandled' /\ pending_dlq' \subseteq pending_dlq
    BY <1>7, ResolveHandles DEF RetryDlq
  <2> QED
    BY <1>7, <2>1, <1>c, <1>e DEF RetryDlq
<1>8. CASE BuildCommitCandidates
  <2> DEFINE hwm == GetCommittableHighWaterMark(tracker, GetMinInFlightOffset)
  <2>1. /\ hwm \in Offsets \cup {-1}
        /\ (tracker.last_committed_offset + 1) .. hwm \subseteq tracker.completed_offsets
    BY MinInFlightType, CommittableHighWaterMarkRun DEF TypeOK
  <2>2. 0 .. hwm \subseteq handled
    BY <1>a, <2>1, PrefixHandled
  <2>3. commit'.offset = hwm /\ commit'.metadata = {}
    BY <1>8 DEF BuildCommitCandidates, Idle
  <2>4. CommitHandled'
    BY <1>b, <2>2, <2>3 DEF CommitHandled
  <2> QED
    BY <1>8, <2>4, <1>c, <1>e DEF BuildCommitCandidates, local
<1>9. CASE PrepareCommit
  <2>1. CommitHandled'
    <3>1. CASE assigned
      <4>1. commit' = [commit EXCEPT !.phase = "prepared",
                                     !.metadata = CommitMetadata(tracker, commit.offset + 1)]
        BY <1>9, <3>1 DEF PrepareCommit
      <4>2. CommitMetadata(tracker, commit.offset + 1) \subseteq handled
        BY <1>a, MetadataCompleted, MaxOffsetAssumption
        DEF TypeOK, TrackerHandled, CommitState, Offsets
      <4> QED
        BY <4>1, <4>2, <1>a, <1>b DEF CommitHandled, TypeOK, CommitState
    <3>2. CASE ~assigned
      BY <1>9, <3>2 DEF PrepareCommit, CommitHandled, Idle
    <3> QED
      BY <3>1, <3>2
  <2> QED
    BY <1>9, <2>1, <1>c, <1>e DEF PrepareCommit, local
<1>10. CASE BrokerCommit
  <2>1. commit.offset \in Int
    BY MaxOffsetAssumption DEF TypeOK, CommitState, Offsets
  <2>2. BrokerHandled'
    BY <1>10, <1>a, <1>b, <2>1 DEF BrokerCommit, BrokerHandled, CommitHandled
  <2>3. CommitHandled'
    BY <1>10, <1>a, <1>b DEF BrokerCommit, CommitHandled, TypeOK, CommitState
  <2> QED
    BY <1>10, <2>2, <2>3, <1>c, <1>e DEF BrokerCommit, local
<1>11. CASE BrokerCommitFails
  <2>1. commit.offset \in Int
    BY MaxOffsetAssumption DEF TypeOK, CommitState, Offsets
  <2>2. BrokerHandled'
    BY <1>11, <1>a, <1>b, <1>c, <2>1 DEF BrokerCommitFails, BrokerHandled, CommitHandled
  <2>3. CommitHandled'
    <3>1. CASE commit' = Idle
      BY <3>1 DEF CommitHandled, Idle
    <3>2. CASE commit' = [commit EXCEPT !.attempt = @ + 1]
      BY <3>2, <1>a, <1>b DEF CommitHandled, TypeOK, CommitState
    <3> QED
      BY <3>1, <3>2, <1>11 DEF BrokerCommitFails
  <2> QED
    BY <1>11, <2>2, <2>3, <1>c, <1>e DEF BrokerCommitFails, local
<1>12. CASE SettleCommit
  <2>1. TrackerHandled'
    <3>1. CASE assigned
      <4>1. /\ tracker'.completed_offsets \subseteq tracker.completed_offsets
            /\ tracker'.last_committed_offset
                 \in {tracker.last_committed_offset, commit.offset}
        BY <1>12, <3>1, CommitThroughEffect DEF SettleCommit, TypeOK, CommitState
      <4> QED
        BY <4>1, <1>a, <1>b DEF TrackerHandled, CommitHandled
    <3>2. CASE ~assigned
      BY <1>12, <3>2, <1>c DEF SettleCommit
    <3> QED
      BY <3>1, <3>2
  <2>2. CommitHandled'
    BY <1>12 DEF SettleCommit, CommitHandled, Idle
  <2> QED
    BY <1>12, <2>1, <2>2, <1>c, <1>e DEF SettleCommit
<1>13. CASE PrepareRevoke
  <2> DEFINE safe == tracker'.last_committed_offset
  <2>1. tracker' = AdvanceHighWaterMark(tracker) /\ tracker \in Tracker
    BY <1>13 DEF PrepareRevoke, TypeOK
  <2>2. /\ tracker' \in Tracker
        /\ tracker'.completed_offsets \subseteq tracker.completed_offsets
        /\ (tracker.last_committed_offset + 1) .. safe \subseteq tracker.completed_offsets
    BY <2>1, AdvanceHighWaterMarkEffect
  <2>3. safe \in Offsets \cup {-1}
    BY <2>2 DEF Tracker
  <2>4. 0 .. safe \subseteq handled
    BY <1>a, <2>2, <2>3, PrefixHandled
  <2>5. TrackerHandled'
    BY <1>a, <1>b, <2>2, <2>4 DEF TrackerHandled
  <2>6. CallbackHandled'
    <3>1. CASE safe < 0
      BY <1>13, <3>1 DEF PrepareRevoke, CallbackHandled, NoCallback
    <3>2. CASE ~(safe < 0)
      <4>1. callback' = [phase |-> "prepared", offset |-> safe,
                         metadata |-> CommitMetadata(tracker', safe + 1)]
        BY <1>13, <3>2 DEF PrepareRevoke
      <4>2. CommitMetadata(tracker', safe + 1) \subseteq tracker'.completed_offsets
        BY <2>2, <2>3, MetadataCompleted, MaxOffsetAssumption DEF Offsets
      <4> QED
        BY <4>1, <4>2, <1>b, <2>4, <2>5 DEF CallbackHandled, TrackerHandled
    <3> QED
      BY <3>1, <3>2
  <2> QED
    BY <1>13, <2>5, <2>6, <1>c, <1>e DEF PrepareRevoke
<1>14. CASE CommitPreparedRevokeOffsets
  <2>1. callback.offset \in Int
    BY MaxOffsetAssumption DEF TypeOK, CallbackState, Offsets
  <2>2. BrokerHandled'
    BY <1>14, <1>a, <1>b, <1>c, <2>1
    DEF CommitPreparedRevokeOffsets, BrokerHandled, CallbackHandled
  <2>3. CallbackHandled'
    BY <1>14, <1>a, <1>b
    DEF CommitPreparedRevokeOffsets, CallbackHandled, TypeOK, CallbackState
  <2> QED
    BY <1>14, <2>2, <2>3, <1>c, <1>e DEF CommitPreparedRevokeOffsets, local
<1>15. CASE CleanupRevoke
  <2>1. TrackerHandled' /\ CallbackHandled'
    BY <1>15, UnassignedType
    DEF CleanupRevoke, TrackerHandled, CallbackHandled, NoCallback
  <2> QED
    BY <1>15, <2>1, <1>c, <1>e DEF CleanupRevoke
<1>16. CASE Assign
  <2> DEFINE completed == {o \in broker.metadata : o > broker.offset - 1}
  <2>1. broker.offset - 1 \in Offsets \cup {-1}
    BY MaxOffsetAssumption DEF TypeOK, Offsets
  <2>2. completed \in SUBSET Offsets /\ completed \subseteq handled
    BY <1>a DEF TypeOK, BrokerHandled
  <2>3. \/ /\ tracker'.completed_offsets = completed
           /\ tracker'.last_committed_offset = broker.offset - 1
        \/ /\ tracker'.completed_offsets = {}
           /\ tracker'.last_committed_offset = -1
    BY <1>16, <2>1, <2>2, HydratedTrackerEffect DEF Assign, DecodeAssignmentCompletedOffsets
  <2>4. TrackerHandled'
    BY <2>2, <2>3, <1>a, <1>b DEF TrackerHandled, BrokerHandled
  <2> QED
    BY <1>16, <2>4, <1>c, <1>e DEF Assign
<1>17. CASE Crash
  <2>1. TrackerHandled' /\ CallbackHandled' /\ CommitHandled'
    BY <1>17, UnassignedType
    DEF Crash, TrackerHandled, CallbackHandled, CommitHandled, NoCallback, Idle
  <2> QED
    BY <1>17, <2>1, <1>c, <1>e DEF Crash
<1>18. CASE UNCHANGED vars
  BY <1>18, <1>c, <1>e DEF vars, local
<1> QED
  BY <1>1, <1>2, <1>3, <1>4, <1>5, <1>6, <1>7, <1>8, <1>9, <1>10, <1>11, <1>12,
     <1>13, <1>14, <1>15, <1>16, <1>17, <1>18
  DEF Next, Work, CommitStep, Rebalance

\* Nothing but the offsets below Start is committed initially, and they count
\* as handled.
LEMMA LedgersInit == Init => LedgersHandled
BY UnassignedType DEF Init, LedgersHandled, Idle, NoCallback

\* Every ledger holds handled offsets only, in every reachable state, when no
\* failure bypasses the DLQ policy.
THEOREM LedgersAlwaysHandled ==
  ASSUME FailuresAreTerminal
  PROVE  Spec => []LedgersHandled
BY TypeCorrect, LedgersInit, LedgersStep, PTL DEF Spec

\* At-least-once: the broker's committed position never passes an offset that
\* neither succeeded nor was disposed of by the failure policy, across every
\* interleaving of completions, commits, revokes, assignments and crashes.
THEOREM AtLeastOnceCommit ==
  ASSUME FailuresAreTerminal
  PROVE  Spec => []NeverCommitsUnhandled
<1>1. LedgersHandled => NeverCommitsUnhandled
  BY DEF LedgersHandled, NeverCommitsUnhandled
<1> QED
  BY <1>1, LedgersAlwaysHandled, PTL

\* Records skipped at dispatch because of restored or local completion state
\* are handled.
THEOREM SkipSafety ==
  ASSUME FailuresAreTerminal
  PROVE  Spec => []SkipsOnlyHandled
<1>1. LedgersHandled => SkipsOnlyHandled
  BY DEF LedgersHandled, SkipsOnlyHandled
<1> QED
  BY <1>1, LedgersAlwaysHandled, PTL

-----------------------------------------------------------------------------
(* Refinement of the at-least-once promise *)

\* No step handles an offset and writes the broker's position at once.
LEMMA HandleOrCommit ==
  ASSUME TypeOK, [Next]_vars
  PROVE  \/ UNCHANGED handled
         \/ UNCHANGED broker /\ \E o \in Offsets : handled' = handled \cup {o}
<1>1. ASSUME NEW x \in running, NEW s \in {"SUCCESS", "FAILURE"}, NEW a \in 1 .. MaxRetries,
             Finish(x, s, a)
      PROVE  \/ UNCHANGED handled
             \/ UNCHANGED broker /\ \E o \in Offsets : handled' = handled \cup {o}
  <2>1. x.offset \in Offsets
    BY DEF TypeOK, WorkItem
  <2> QED
    BY <1>1, <2>1 DEF Finish
<1>2. ASSUME NEW e \in Event, Resolve(e), UNCHANGED broker
      PROVE  \/ UNCHANGED handled
             \/ UNCHANGED broker /\ \E o \in Offsets : handled' = handled \cup {o}
  <2>1. e.item.offset \in Offsets
    BY Zenon DEF Event, WorkItem
  <2> QED
    BY <1>2, <2>1 DEF Resolve
<1>3. CASE Work
  BY <1>1, <1>2, <1>3 DEF Work, Dispatch, Schedule, ForceFail, PollGaps,
                          ProcessCompletion, RetryDlq, TypeOK
<1>4. CASE CommitStep
  BY <1>4 DEF CommitStep, BuildCommitCandidates, PrepareCommit, BrokerCommit,
              BrokerCommitFails, SettleCommit
<1>5. CASE Rebalance
  BY <1>5 DEF Rebalance, PrepareRevoke, CommitPreparedRevokeOffsets, CleanupRevoke,
              Assign, Crash
<1> QED
  BY <1>3, <1>4, <1>5 DEF Next, vars

\* The lifecycle of a partition, with the broker's offset as the committed
\* position, implements the at-least-once promise.
THEOREM LifecycleImplementsAtLeastOnce ==
  ASSUME FailuresAreTerminal
  PROVE  Spec => ImplementsAtLeastOnce
<1>1. Init => Promise!Init
  BY DEF Init, Promise!Init
<1>2. TypeOK /\ TypeOK' /\ LedgersHandled' /\ [Next]_vars
        => [Promise!Next]_<<handled, broker.offset>>
  <2> SUFFICES ASSUME TypeOK, TypeOK', LedgersHandled', [Next]_vars
               PROVE  [Promise!Next]_<<handled, broker.offset>>
    OBVIOUS
  <2>1. CASE UNCHANGED handled
    <3>1. broker'.offset \in 0 .. MaxOffset + 1
      BY DEF TypeOK
    <3>2. 0 .. (broker'.offset - 1) \subseteq handled
      BY <2>1 DEF LedgersHandled
    <3> QED
      BY <2>1, <3>1, <3>2 DEF Promise!Next, Promise!Commit
  <2>2. CASE UNCHANGED broker /\ \E o \in Offsets : handled' = handled \cup {o}
    BY <2>2, SMTT(30) DEF Promise!Next, Promise!Handle, Offsets
  <2> QED
    BY <2>1, <2>2, HandleOrCommit
<1> QED
  BY <1>1, <1>2, TypeCorrect, LedgersAlwaysHandled, PTL
  DEF Spec, ImplementsAtLeastOnce, Promise!Spec
===============================================================================
