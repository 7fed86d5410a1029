------------------------- MODULE LifecycleWorkProofs --------------------------
(***************************************************************************)
(* Proofs, for every log, retry limit, fault bound and hand-over strategy, *)
(* that the lifecycle overlooks nothing: the tracker stays coherent over   *)
(* assignments, completed offsets keep their partition in the commit       *)
(* loop's scan, and every fetched record stays complete, in the engine or  *)
(* on its way back.                                                        *)
(***************************************************************************)
EXTENDS PartitionLifecycleProofs

-----------------------------------------------------------------------------
(* The tracker across assignments *)

\* What every step does to the tracker: one of its operations, or the tracker
\* of an assignment or of no assignment.
LEMMA TrackerSteps ==
  ASSUME TypeOK, [Next]_vars
  PROVE  \/ UNCHANGED <<tracker, assigned>>
         \/ \E o \in Offsets : /\ tracker' = UpdateLastFetchedOffset(tracker, o)
                               /\ UNCHANGED <<assigned, generation>>
         \/ /\ tracker' = GetGaps(tracker)
            /\ UNCHANGED <<assigned, generation>>
         \/ \E o \in Offsets : /\ tracker' = MarkComplete(tracker, o)
                               /\ UNCHANGED <<assigned, generation>>
         \/ \E c \in Offsets \cup {-1} : /\ tracker' = CommitThrough(tracker, c)
                                         /\ UNCHANGED <<assigned, generation>>
         \/ tracker' = Unassigned /\ ~assigned'
         \/ /\ \E lc \in Offsets \cup {-1}, S \in SUBSET Offsets :
                 tracker' = HydratedTracker(lc, S) /\ \A o \in S : o > lc
            /\ generation' = generation + 1
<1>1. ASSUME NEW e \in Event, Resolve(e), UNCHANGED <<assigned, generation>>
      PROVE  \/ UNCHANGED <<tracker, assigned>>
             \/ \E o \in Offsets : /\ tracker' = MarkComplete(tracker, o)
                                   /\ UNCHANGED <<assigned, generation>>
  <2>1. e.item.offset \in Offsets
    BY DEF Event, WorkItem
  <2> QED
    BY <1>1, <2>1, SMTT(30) DEF Resolve
<1>2. CASE Dispatch
  BY <1>2, LifecycleAssumption, ZenonT(30) DEF Dispatch
<1>3. CASE \E e \in events : ProcessCompletion(e)
  BY <1>1, <1>3 DEF ProcessCompletion, TypeOK
<1>4. CASE \E e \in pending_dlq : RetryDlq(e)
  BY <1>1, <1>4 DEF RetryDlq, TypeOK
<1>5. CASE SettleCommit
  <2>1. commit.offset \in Offsets \cup {-1}
    BY DEF TypeOK, CommitState
  <2> QED
    BY <1>5, <2>1 DEF SettleCommit
<1>6. CASE PrepareRevoke
  <2>1. GetCommittableHighWaterMark(tracker, None) \in Offsets \cup {-1}
    BY CommittableHighWaterMarkRun DEF TypeOK, None
  <2> QED
    BY <1>6, <2>1 DEF PrepareRevoke, AdvanceHighWaterMark
<1>7. CASE Assign
  <2> DEFINE S == {o \in broker.metadata : o > broker.offset - 1}
  <2>1. broker.offset - 1 \in Offsets \cup {-1}
    BY MaxOffsetAssumption DEF TypeOK, Offsets
  <2>2. S \in SUBSET Offsets /\ \A o \in S : o > broker.offset - 1
    BY DEF TypeOK
  <2>3. tracker' = HydratedTracker(broker.offset - 1, S) \/ tracker' = HydratedTracker(-1, {})
    BY <1>7 DEF Assign, DecodeAssignmentCompletedOffsets
  <2>4. generation' = generation + 1
    BY <1>7 DEF Assign
  <2> HIDE DEF S
  <2> QED
    BY <2>1, <2>2, <2>3, <2>4
<1>8. CASE \/ \E x \in queued : Schedule(x)
           \/ \E x \in running, s \in {"SUCCESS", "FAILURE"}, a \in 1 .. MaxRetries :
                Finish(x, s, a)
           \/ \E x \in known : ForceFail(x)
           \/ BuildCommitCandidates \/ PrepareCommit \/ BrokerCommit \/ BrokerCommitFails
           \/ CommitPreparedRevokeOffsets \/ UNCHANGED vars
  BY <1>8 DEF Schedule, Finish, ForceFail, BuildCommitCandidates, PrepareCommit, BrokerCommit,
              BrokerCommitFails, CommitPreparedRevokeOffsets, vars, local
<1>9. CASE PollGaps
  BY <1>9 DEF PollGaps
<1>10. CASE CleanupRevoke \/ Crash
  BY <1>10 DEF CleanupRevoke, Crash
<1> QED
  BY ZenonT(30), <1>2, <1>3, <1>4, <1>5, <1>6, <1>7, <1>8, <1>9, <1>10
  DEF Next, Work, CommitStep, Rebalance

\* A hydrated tracker has a coherent gap cache.
LEMMA HydratedTrackerCoherent ==
  ASSUME NEW lc \in Offsets \cup {-1}, NEW S \in SUBSET Offsets
  PROVE  GapHeadCoherent(HydratedTracker(lc, S))
<1> DEFINE n == NewTracker(lc + 1, S)
           r == [n EXCEPT !.last_committed_offset = lc,
                          !.last_fetched_offset = Max({lc} \cup S)]
           b == BumpVersion(r)
<1>1. n \in Tracker
  <2> DEFINE t == [ last_committed_offset |-> (lc + 1) - 1,
                    last_fetched_offset |-> (lc + 1) - 1, completed_offsets |-> S,
                    epoch |-> 0, first_gap_head |-> None, blocking |-> {} ]
  <2>1. t \in Tracker
    BY MaxOffsetAssumption, SMTT(30) DEF Tracker, None, Offsets
  <2>2. n = BumpVersion(t)
    BY DEF NewTracker
  <2> HIDE DEF t, n
  <2> QED
    BY <2>1, <2>2, BumpVersionType
<1>2. Max({lc} \cup S) \in Offsets \cup {-1}
  BY MaxOfOffsets
<1> HIDE DEF n
<1>3. r \in Tracker
  BY <1>1, <1>2 DEF Tracker
<1>4. HydratedTracker(lc, S) = [b EXCEPT !.epoch = @ + 1]
  BY DEF HydratedTracker, IncrementEpoch, RehydrateAssignmentState, n
<1> HIDE DEF r
<1>5. b \in Tracker /\ GapHeadCoherent(b)
  BY <1>3, BumpVersionType, BumpVersionCoherent
<1> HIDE DEF b
<1> DEFINE h == HydratedTracker(lc, S)
<1>6. /\ h.last_committed_offset = b.last_committed_offset
      /\ h.last_fetched_offset = b.last_fetched_offset
      /\ h.completed_offsets = b.completed_offsets
      /\ h.first_gap_head = b.first_gap_head
  BY <1>4, <1>5 DEF Tracker
<1> HIDE DEF h
<1>7. GapHeadCoherent(h)
  BY <1>5, <1>6 DEF GapHeadCoherent, CalculateFirstGapHead, Missing
<1> QED
  BY <1>7 DEF h

\* Unassigned has a coherent gap cache.
LEMMA UnassignedCoherent == GapHeadCoherent(Unassigned)
<1> DEFINE u == [ last_committed_offset |-> 0 - 1, last_fetched_offset |-> 0 - 1,
                  completed_offsets |-> {}, epoch |-> 0, first_gap_head |-> None,
                  blocking |-> {} ]
<1>1. u \in Tracker
  BY DEF Tracker, None
<1>2. Unassigned = BumpVersion(u)
  BY DEF Unassigned, NewTracker
<1> HIDE DEF u
<1> QED
  BY <1>1, <1>2, BumpVersionCoherent

\* No completed offset is ever at or below the committed one, so the walk that
\* computes the high-water mark is never stopped by a stale element.
THEOREM CompletedStaysAboveCommitted == Spec => []CompletedAboveCommitted
<1>1. Init => CompletedAboveCommitted
  BY UnassignedType DEF Init, CompletedAboveCommitted
<1>2. TypeOK /\ CompletedAboveCommitted /\ [Next]_vars => CompletedAboveCommitted'
  <2> SUFFICES ASSUME TypeOK, CompletedAboveCommitted, [Next]_vars
               PROVE  AboveCommitted(tracker')
    BY DEF CompletedAboveCommitted, AboveCommitted
  <2>1. tracker \in Tracker /\ AboveCommitted(tracker)
    BY DEF TypeOK, CompletedAboveCommitted, AboveCommitted
  <2>2. ASSUME NEW o \in Offsets, tracker' = UpdateLastFetchedOffset(tracker, o)
        PROVE  AboveCommitted(tracker')
    BY <2>1, <2>2, UpdateLastFetchedOffsetEffect DEF AboveCommitted
  <2>3. CASE tracker' = GetGaps(tracker)
    BY <2>1, <2>3, GetGapsEffect DEF AboveCommitted
  <2>4. ASSUME NEW o \in Offsets, tracker' = MarkComplete(tracker, o)
        PROVE  AboveCommitted(tracker')
    BY <2>1, <2>4, MarkCompleteAbove
  <2>5. ASSUME NEW c \in Offsets \cup {-1}, tracker' = CommitThrough(tracker, c)
        PROVE  AboveCommitted(tracker')
    BY <2>1, <2>5, CommitThroughAbove
  <2>6. CASE tracker' = Unassigned
    BY <2>6, UnassignedType DEF AboveCommitted
  <2>7. ASSUME NEW lc \in Offsets \cup {-1}, NEW S \in SUBSET Offsets,
               tracker' = HydratedTracker(lc, S), \A o \in S : o > lc
        PROVE  AboveCommitted(tracker')
    BY <2>7, HydratedTrackerEffect DEF AboveCommitted
  <2>8. CASE UNCHANGED tracker
    BY <2>1, <2>8
  <2> QED
    BY <2>2, <2>3, <2>4, <2>5, <2>6, <2>7, <2>8, TrackerSteps
<1> QED
  BY <1>1, <1>2, TypeCorrect, PTL DEF Spec

\* The cached first gap head is that of the tracker's current state, after any
\* sequence of operations and reassignments.
THEOREM GapHeadStaysCoherent == Spec => []FirstGapHeadCoherent
<1>1. Init => FirstGapHeadCoherent
  BY UnassignedCoherent DEF Init, FirstGapHeadCoherent, GapHeadCoherent
<1>2. TypeOK /\ FirstGapHeadCoherent /\ [Next]_vars => FirstGapHeadCoherent'
  <2> SUFFICES ASSUME TypeOK, FirstGapHeadCoherent, [Next]_vars
               PROVE  GapHeadCoherent(tracker')
    BY DEF FirstGapHeadCoherent, GapHeadCoherent, CalculateFirstGapHead, Missing
  <2>1. tracker \in Tracker /\ GapHeadCoherent(tracker) /\ -1 \in Offsets \cup {-1}
    BY DEF TypeOK, FirstGapHeadCoherent, GapHeadCoherent
  <2>2. 0 \in Offsets
    BY MaxOffsetAssumption DEF Offsets
  <2>3. CASE \E o \in Offsets : \/ tracker' = UpdateLastFetchedOffset(tracker, o)
                                \/ tracker' = MarkComplete(tracker, o)
    BY <2>1, <2>3, OperationsCoherent
  <2>4. CASE tracker' = GetGaps(tracker)
    BY <2>1, <2>2, <2>4, OperationsCoherent
  <2>5. CASE \E c \in Offsets \cup {-1} : tracker' = CommitThrough(tracker, c)
    BY <2>1, <2>2, <2>5, OperationsCoherent
  <2>6. CASE tracker' = Unassigned
    BY <2>6, UnassignedCoherent
  <2>7. CASE \E lc \in Offsets \cup {-1}, S \in SUBSET Offsets :
               tracker' = HydratedTracker(lc, S)
    BY <2>7, HydratedTrackerCoherent
  <2>8. CASE UNCHANGED tracker
    BY <2>1, <2>8
  <2> QED
    BY <2>3, <2>4, <2>5, <2>6, <2>7, <2>8, TrackerSteps
<1> QED
  BY <1>1, <1>2, TypeCorrect, PTL DEF Spec

\* Within one assignment the committed offset never moves back, whatever stale
\* commit is settled.
THEOREM CommittedOffsetNeverRegresses == Spec => CommittedOffsetAdvances
<1>1. TypeOK /\ [Next]_vars
        => [assigned' /\ generation' = generation
              => tracker'.last_committed_offset >= tracker.last_committed_offset]_vars
  <2> SUFFICES ASSUME TypeOK, [Next]_vars, assigned', generation' = generation
               PROVE  tracker'.last_committed_offset >= tracker.last_committed_offset
    OBVIOUS
  <2>1. tracker \in Tracker /\ tracker.last_committed_offset \in Int /\ generation \in Nat
    BY MaxOffsetAssumption DEF TypeOK, Tracker, Offsets
  <2>2. CASE \/ UNCHANGED tracker
             \/ \E o \in Offsets : \/ tracker' = UpdateLastFetchedOffset(tracker, o)
                                   \/ tracker' = MarkComplete(tracker, o)
             \/ tracker' = GetGaps(tracker)
    BY <2>1, <2>2, UpdateLastFetchedOffsetEffect, MarkCompleteEffect, GetGapsEffect
  <2>3. CASE \E c \in Offsets \cup {-1} : tracker' = CommitThrough(tracker, c)
    BY <2>1, <2>3, CommitThroughEffect
  <2>4. generation' # generation + 1
    BY <2>1, SMTT(30)
  <2> QED
    BY <2>2, <2>3, <2>4, TrackerSteps, ZenonT(30)
<1> QED
  BY <1>1, TypeCorrect, PTL DEF Spec, CommittedOffsetAdvances

-----------------------------------------------------------------------------
(* What the commit loop looks at *)

\* contiguous_only commits carry no metadata, and completed offsets keep the
\* partition dirty.
DirtyInv ==
  ~MetadataSnapshot =>
    /\ broker.metadata = {} /\ commit.metadata = {} /\ callback.metadata = {}
    /\ assigned /\ tracker.completed_offsets # {} => dirty

\* Every step keeps it: a completion marks the partition dirty, and a settlement
\* clears the mark only if nothing is left.
LEMMA DirtyStep ==
  ASSUME TypeOK, DirtyInv, [Next]_vars
  PROVE  DirtyInv'
<1> SUFFICES ASSUME ~MetadataSnapshot
             PROVE  /\ broker'.metadata = {} /\ commit'.metadata = {} /\ callback'.metadata = {}
                    /\ assigned' /\ tracker'.completed_offsets # {} => dirty'
  BY Zenon DEF DirtyInv
<1>0. /\ broker.metadata = {} /\ commit.metadata = {} /\ callback.metadata = {}
      /\ assigned /\ tracker.completed_offsets # {} => dirty
      /\ Idle.metadata = {} /\ NoCallback.metadata = {}
      /\ tracker \in Tracker /\ commit \in CommitState /\ callback \in CallbackState
  BY DEF DirtyInv, TypeOK, Idle, NoCallback
<1>1. ASSUME NEW t, NEW base PROVE CommitMetadata(t, base) = {}
  BY DEF CommitMetadata
<1>2. ASSUME NEW e \in Event, Resolve(e), UNCHANGED <<assigned, broker, commit, callback>>
      PROVE  /\ broker'.metadata = {} /\ commit'.metadata = {} /\ callback'.metadata = {}
             /\ assigned' /\ tracker'.completed_offsets # {} => dirty'
  BY <1>0, <1>2, ZenonT(40) DEF Resolve
<1>3. CASE \/ \E x \in queued : Schedule(x)
           \/ \E x \in running, s \in {"SUCCESS", "FAILURE"}, a \in 1 .. MaxRetries : Finish(x, s, a)
           \/ \E x \in known : ForceFail(x)
           \/ UNCHANGED vars
  <2>1. UNCHANGED <<assigned, tracker, dirty, broker, commit, callback>>
    BY <1>3, SMTT(30) DEF Schedule, Finish, ForceFail, vars, local
  <2> QED
    BY <1>0, <2>1
<1>4. CASE Dispatch
  <2>1. tracker'.completed_offsets = tracker.completed_offsets
    BY <1>0, <1>4, LifecycleAssumption, UpdateLastFetchedOffsetEffect, SMTT(30) DEF Dispatch
  <2> QED
    BY <1>0, <1>4, <2>1, ZenonT(30) DEF Dispatch
<1>5. CASE PollGaps
  BY <1>0, <1>5, GetGapsEffect, ZenonT(30) DEF PollGaps
<1>6. CASE \E e \in events : ProcessCompletion(e)
  <2>1. PICK e \in events : ProcessCompletion(e)
    BY <1>6
  <2>2. e \in Event
    BY DEF TypeOK
  <2> QED
    BY <1>0, <1>2, <2>1, <2>2 DEF ProcessCompletion
<1>7. CASE \E e \in pending_dlq : RetryDlq(e)
  BY <1>2, <1>7, ZenonT(40) DEF RetryDlq, TypeOK
<1>8. CASE BuildCommitCandidates \/ PrepareCommit
  <2>1. UNCHANGED <<local, broker, callback>>
    BY <1>8 DEF BuildCommitCandidates, PrepareCommit
  <2>2. ASSUME NEW h PROVE [Idle EXCEPT !.phase = "candidate", !.offset = h].metadata = {}
    BY DEF Idle
  <2>3. ASSUME NEW m
        PROVE  [commit EXCEPT !.phase = "prepared", !.metadata = m].metadata = m
    BY <1>0 DEF CommitState
  <2>4. BuildCommitCandidates => commit'.metadata = {}
    BY <2>2 DEF BuildCommitCandidates
  <2>5. PrepareCommit => commit'.metadata = {}
    BY <1>0, <1>1, <2>3 DEF PrepareCommit
  <2> QED
    BY <1>0, <1>8, <2>1, <2>4, <2>5 DEF local
<1>9. CASE BrokerCommit \/ BrokerCommitFails
  BY <1>0, <1>9 DEF BrokerCommit, BrokerCommitFails, CommitState, local
<1>10. CASE SettleCommit
  BY <1>0, <1>10 DEF SettleCommit
<1>11. CASE PrepareRevoke
  <2>1. tracker' = AdvanceHighWaterMark(tracker) /\ UNCHANGED <<assigned, broker, commit, dirty>>
    BY <1>11 DEF PrepareRevoke
  <2>2. tracker'.completed_offsets \subseteq tracker.completed_offsets
    BY <1>0, <2>1, AdvanceHighWaterMarkEffect
  <2>3. callback'.metadata = {}
    BY <1>1, <1>11 DEF PrepareRevoke, NoCallback
  <2> QED
    BY <1>0, <2>1, <2>2, <2>3
<1>12. CASE CommitPreparedRevokeOffsets
  BY <1>0, <1>12 DEF CommitPreparedRevokeOffsets, CallbackState, local
<1>13. CASE CleanupRevoke \/ Crash
  BY <1>0, <1>13 DEF CleanupRevoke, Crash
<1>14. CASE Assign
  <2>1. DecodeAssignmentCompletedOffsets(broker.offset - 1) = {}
    BY <1>0 DEF DecodeAssignmentCompletedOffsets
  <2>2. broker.offset - 1 \in Offsets \cup {-1}
    BY MaxOffsetAssumption DEF TypeOK, Offsets
  <2>3. tracker'.completed_offsets = {}
    BY <1>14, <2>1, <2>2, HydratedTrackerEffect DEF Assign
  <2> QED
    BY <1>0, <1>14, <2>3 DEF Assign
<1> QED
  BY ZenonT(60), <1>3, <1>4, <1>5, <1>6, <1>7, <1>8, <1>9, <1>10, <1>11, <1>12, <1>13, <1>14
  DEF Next, Work, CommitStep, Rebalance

\* With contiguous_only hand-over the dirty scan never overlooks a partition with
\* completed offsets.
THEOREM DirtyAlwaysCovers == Spec => []DirtyCoversCompleted
<1>1. Init => DirtyInv
  BY DEF Init, DirtyInv, Idle, NoCallback
<1>2. DirtyInv => DirtyCoversCompleted
  BY DEF DirtyInv, DirtyCoversCompleted
<1> QED
  BY <1>1, <1>2, DirtyStep, TypeCorrect, PTL DEF Spec

-----------------------------------------------------------------------------
(* No fetched record is forgotten *)

\* The operations on a tracker keep its epoch.
LEMMA EpochKept ==
  ASSUME NEW t \in Tracker, NEW o \in Offsets, NEW c \in Offsets \cup {-1}
  PROVE  /\ UpdateLastFetchedOffset(t, o).epoch = t.epoch
         /\ GetGaps(t).epoch = t.epoch
         /\ MarkComplete(t, o).epoch = t.epoch
         /\ CommitThrough(t, c).epoch = t.epoch
<1> DEFINE f == [t EXCEPT !.last_fetched_offset = o]
           m == [t EXCEPT !.completed_offsets = @ \cup {o}]
           s == [t EXCEPT !.completed_offsets = @ \ ((t.last_committed_offset + 1) .. c),
                          !.last_committed_offset = c]
<1>1. f \in Tracker /\ m \in Tracker /\ s \in Tracker
  BY DEF Tracker
<1>2. f.epoch = t.epoch /\ m.epoch = t.epoch /\ s.epoch = t.epoch /\ GetGaps(t).epoch = t.epoch
  BY DEF Tracker, GetGaps
<1>3. /\ UpdateLastFetchedOffset(t, o) \in {t, BumpVersion(f)}
      /\ MarkComplete(t, o) \in {t, BumpVersion(m)}
      /\ CommitThrough(t, c) \in {t, BumpVersion(s)}
  BY DEF UpdateLastFetchedOffset, MarkComplete, CommitThrough
<1> HIDE DEF f, m, s
<1> QED
  BY <1>1, <1>2, <1>3, BumpVersionType

\* mark_complete adds the offset unless it is committed.
LEMMA MarkCompleteAdds ==
  ASSUME NEW t \in Tracker, NEW o \in Offsets
  PROVE  /\ t.completed_offsets \subseteq MarkComplete(t, o).completed_offsets
         /\ o > t.last_committed_offset => o \in MarkComplete(t, o).completed_offsets
<1> DEFINE m == [t EXCEPT !.completed_offsets = @ \cup {o}]
<1>1. m \in Tracker /\ m.completed_offsets = t.completed_offsets \cup {o}
  BY DEF Tracker
<1>2. MarkComplete(t, o) = IF o > t.last_committed_offset /\ o \notin t.completed_offsets
                           THEN BumpVersion(m) ELSE t
  BY DEF MarkComplete
<1> HIDE DEF m
<1> QED
  BY <1>1, <1>2, BumpVersionType

\* commit_through removes nothing above the offset it commits.
LEMMA CommitThroughKeeps ==
  ASSUME NEW t \in Tracker, NEW c \in Offsets \cup {-1},
         NEW o \in t.completed_offsets, o > CommitThrough(t, c).last_committed_offset
  PROVE  o \in CommitThrough(t, c).completed_offsets
<1> DEFINE s == [t EXCEPT !.completed_offsets = @ \ ((t.last_committed_offset + 1) .. c),
                          !.last_committed_offset = c]
<1>1. /\ s \in Tracker /\ s.last_committed_offset = c
      /\ s.completed_offsets = t.completed_offsets \ ((t.last_committed_offset + 1) .. c)
  BY DEF Tracker
<1>2. CommitThrough(t, c) = IF c <= t.last_committed_offset THEN t ELSE BumpVersion(s)
  BY DEF CommitThrough
<1>3. t.last_committed_offset \in Int /\ c \in Int /\ o \in Int
  BY MaxOffsetAssumption DEF Tracker, Offsets
<1> HIDE DEF s
<1> QED
  BY <1>1, <1>2, <1>3, BumpVersionType

\* Where offset o of the current assignment is accounted for.
Accounted(o) ==
  \/ o \in tracker.completed_offsets
  \/ \E x \in queued \cup running : x.offset = o /\ x.epoch = tracker.epoch
  \/ \E e \in events \cup pending_dlq : e.item.offset = o /\ e.item.epoch = tracker.epoch

\* NoLostWork with what a dropped duplicate needs: the parked event it gave way
\* to is of the current epoch.
WorkInv ==
  /\ ~assigned => pending_dlq = {}
  /\ assigned => \A e \in pending_dlq : e.item.epoch = tracker.epoch
  /\ assigned /\ callback.phase = "none" =>
       \A o \in Log : tracker.last_committed_offset < o /\ o < position => Accounted(o)

\* Resolving an event leaves its offset complete, committed or parked.
LEMMA WorkResolve ==
  ASSUME TypeOK, WorkInv, assigned, NEW e \in Event, e.item.epoch = tracker.epoch, Resolve(e),
         UNCHANGED <<assigned, position, queued, running, callback>>, events \ {e} \subseteq events'
  PROVE  WorkInv'
<1>1. e.item.offset \in Offsets /\ tracker \in Tracker
  BY DEF Event, WorkItem, TypeOK
<1>2. CASE pending_dlq' = pending_dlq \cup {e} /\ UNCHANGED tracker
  BY <1>2 DEF WorkInv, Accounted
<1>3. CASE /\ tracker' = MarkComplete(tracker, e.item.offset)
           /\ pending_dlq' = {p \in pending_dlq : p.item.offset # e.item.offset}
  <2>1. /\ tracker'.epoch = tracker.epoch
        /\ tracker'.last_committed_offset = tracker.last_committed_offset
        /\ tracker.completed_offsets \subseteq tracker'.completed_offsets
        /\ e.item.offset > tracker.last_committed_offset
             => e.item.offset \in tracker'.completed_offsets
    <3>1. -1 \in Offsets \cup {-1}
      OBVIOUS
    <3> QED
      BY <1>1, <1>3, <3>1, EpochKept, MarkCompleteEffect, MarkCompleteAdds
  <2>2. ASSUME NEW o \in Log, callback.phase = "none",
               tracker.last_committed_offset < o, o < position
        PROVE  Accounted(o)'
    <3>1. Accounted(o)
      BY <2>2, SMTT(30) DEF WorkInv
    <3>2. CASE o = e.item.offset
      <4>1. tracker.last_committed_offset \in Int /\ o \in Int
        BY <1>1, MaxOffsetAssumption, LifecycleAssumption DEF Tracker, Offsets
      <4>2. o > tracker.last_committed_offset
        BY <2>2, <4>1
      <4> QED
        BY <2>1, <3>2, <4>2 DEF Accounted
    <3>3. CASE o # e.item.offset
      BY <1>3, <2>1, <3>1, <3>3 DEF Accounted
    <3> QED
      BY <3>2, <3>3
  <2> QED
    BY <1>3, <2>1, <2>2, SMTT(30) DEF WorkInv
<1> QED
  BY <1>2, <1>3 DEF Resolve

\* A step that leaves the tracker, the client and the parked events alone only has
\* to keep the offsets in hand.
LEMMA WorkMoves ==
  ASSUME WorkInv, UNCHANGED <<assigned, tracker, position, pending_dlq, callback>>,
         \A o \in Log : Accounted(o) => Accounted(o)'
  PROVE  WorkInv'
BY DEF WorkInv

\* Every step keeps fetched records accounted for.
LEMMA WorkStep ==
  ASSUME "lookup" \notin FaultKinds, TypeOK, WorkInv, [Next]_vars
  PROVE  WorkInv'
<1>0. tracker \in Tracker /\ position \in Int /\ tracker.last_committed_offset \in Int
  BY MaxOffsetAssumption DEF TypeOK, Tracker, Offsets
<1>1. ASSUME NEW x \in queued, Schedule(x) PROVE WorkInv'
  BY <1>1, WorkMoves DEF Schedule, Accounted
<1>2. ASSUME NEW x \in running, NEW s \in {"SUCCESS", "FAILURE"}, NEW a \in 1 .. MaxRetries,
             Finish(x, s, a)
      PROVE  WorkInv'
  <2>1. \A o \in Log : Accounted(o) => Accounted(o)'
    <3> DEFINE e == [item |-> x, status |-> s, attempt |-> a]
    <3>1. e.item = x /\ events' = events \cup {e} /\ running' = running \ {x}
          /\ UNCHANGED <<tracker, queued, pending_dlq>>
      BY <1>2, SMTT(30) DEF Finish, local
    <3> HIDE DEF e
    <3> QED
      BY <3>1 DEF Accounted
  <2> QED
    BY <1>2, <2>1, WorkMoves DEF Finish, local
<1>3. ASSUME NEW x \in known, ForceFail(x) PROVE WorkInv'
  BY <1>3, WorkMoves DEF ForceFail, local, Accounted
<1>4. CASE Dispatch
  <2>1. PICK o \in Log :
          /\ o >= position /\ \A p \in Log : p >= position => o <= p
          /\ position' = o + 1
          /\ \/ IsCompletedUncommitted(tracker, o) /\ UNCHANGED <<tracker, queued>>
             \/ /\ tracker' = UpdateLastFetchedOffset(tracker, o)
                /\ queued' = queued \cup
                     {[offset |-> o, generation |-> generation, epoch |-> tracker.epoch]}
    BY <1>4 DEF Dispatch
  <2>2. o \in Offsets /\ o \in Int /\ \A p \in Log : p \in Int
    BY LifecycleAssumption, MaxOffsetAssumption DEF Offsets
  <2>3. /\ tracker'.epoch = tracker.epoch
        /\ tracker'.last_committed_offset = tracker.last_committed_offset
        /\ tracker'.completed_offsets = tracker.completed_offsets
    <3>1. -1 \in Offsets \cup {-1}
      OBVIOUS
    <3> QED
      BY <1>0, <2>1, <2>2, <3>1, EpochKept, UpdateLastFetchedOffsetEffect
  <2>4. UNCHANGED <<assigned, callback, pending_dlq, running, events>> /\ queued \subseteq queued'
    BY <1>4 DEF Dispatch
  <2>5. Accounted(o)'
    <3>1. CASE IsCompletedUncommitted(tracker, o)
      BY <2>3, <3>1 DEF Accounted, IsCompletedUncommitted
    <3>2. CASE queued' = queued \cup
                 {[offset |-> o, generation |-> generation, epoch |-> tracker.epoch]}
      <4> DEFINE x == [offset |-> o, generation |-> generation, epoch |-> tracker.epoch]
      <4>1. x \in queued' /\ x.offset = o /\ x.epoch = tracker.epoch
        BY <3>2
      <4> HIDE DEF x
      <4> QED
        BY <2>3, <4>1 DEF Accounted
    <3> QED
      BY <2>1, <3>1, <3>2
  <2>6. ASSUME NEW p \in Log, assigned, callback.phase = "none",
               tracker.last_committed_offset < p, p < position'
        PROVE  Accounted(p)'
    <3>1. p = o \/ p < position
      BY <1>0, <2>1, <2>2, <2>6, SMTT(30)
    <3>2. CASE p < position
      BY <2>3, <2>4, <2>6, <3>2, SMTT(30) DEF WorkInv, Accounted
    <3> QED
      BY <2>5, <3>1, <3>2
  <2> QED
    BY <2>3, <2>4, <2>6 DEF WorkInv
<1>5. CASE PollGaps
  <2>1. 0 \in Offsets /\ -1 \in Offsets \cup {-1}
    BY MaxOffsetAssumption DEF Offsets
  <2>2. /\ tracker'.epoch = tracker.epoch
        /\ tracker'.last_committed_offset = tracker.last_committed_offset
        /\ tracker'.completed_offsets = tracker.completed_offsets
    BY <1>0, <1>5, <2>1, EpochKept, GetGapsEffect DEF PollGaps
  <2> QED
    BY <1>5, <2>2 DEF PollGaps, WorkInv, Accounted
<1>6. ASSUME NEW e \in events, ProcessCompletion(e) PROVE WorkInv'
  <2>1. e \in Event
    BY DEF TypeOK
  <2>2. CASE Accepted(e)
    BY <1>6, <2>1, <2>2, WorkResolve DEF ProcessCompletion, Accepted
  <2>3. CASE ~Accepted(e)
    <3>1. UNCHANGED <<assigned, tracker, position, queued, running, pending_dlq, callback>>
          /\ events' = events \ {e}
      BY <1>6, <2>3 DEF ProcessCompletion
    <3>2. CASE ~assigned
      BY <3>1, <3>2 DEF WorkInv
    <3>3. CASE assigned /\ e.item.epoch # tracker.epoch
      BY <3>1, <3>3, WorkMoves DEF Accounted
    <3>4. CASE assigned /\ \E p \in pending_dlq : p.item.offset = e.item.offset
      <4>1. \E p \in pending_dlq : p.item.offset = e.item.offset /\ p.item.epoch = tracker.epoch
        BY <3>4 DEF WorkInv
      <4> QED
        BY <3>1, <4>1, WorkMoves DEF Accounted
    <3> QED
      BY <2>3, <3>2, <3>3, <3>4 DEF Accepted
  <2> QED
    BY <2>2, <2>3
<1>7. ASSUME NEW e \in pending_dlq, RetryDlq(e) PROVE WorkInv'
  BY <1>7, WorkResolve, SMTT(30) DEF RetryDlq, TypeOK
<1>8. CASE BuildCommitCandidates \/ PrepareCommit \/ BrokerCommit \/ BrokerCommitFails \/ UNCHANGED vars
  <2>1. UNCHANGED <<local, running, events, callback>>
    BY <1>8 DEF BuildCommitCandidates, PrepareCommit, BrokerCommit, BrokerCommitFails, vars
  <2> QED
    BY <2>1, WorkMoves DEF local, Accounted
<1>9. CASE SettleCommit
  <2>1. commit.offset \in Offsets \cup {-1} /\ 0 \in Offsets
    BY MaxOffsetAssumption DEF TypeOK, CommitState, Offsets
  <2>2. CASE ~assigned
    BY <1>9, <2>2 DEF SettleCommit, WorkInv
  <2>3. CASE assigned
    <3>1. tracker' = CommitThrough(tracker, commit.offset)
      BY <1>9, <2>3, SMTT(30) DEF SettleCommit
    <3>2. tracker'.epoch = tracker.epoch /\ tracker' \in Tracker
          /\ tracker'.last_committed_offset >= tracker.last_committed_offset
      BY <1>0, <2>1, <3>1, EpochKept, CommitThroughEffect
    <3>3. ASSUME NEW o \in Log, tracker'.last_committed_offset < o, Accounted(o) PROVE Accounted(o)'
      <4>1. o \in Int /\ tracker'.last_committed_offset \in Int
        BY <3>2, LifecycleAssumption, MaxOffsetAssumption DEF Tracker, Offsets
      <4>2. o \in tracker.completed_offsets => o \in tracker'.completed_offsets
        BY <1>0, <2>1, <3>1, <3>3, <4>1, CommitThroughKeeps
      <4> QED
        BY <1>9, <3>2, <3>3, <4>2 DEF SettleCommit, Accounted
    <3>4. ASSUME NEW o \in Log, callback.phase = "none", tracker'.last_committed_offset < o, o < position
          PROVE  Accounted(o)'
      <4>1. o \in Int /\ tracker'.last_committed_offset \in Int
        BY <3>2, LifecycleAssumption, MaxOffsetAssumption DEF Tracker, Offsets
      <4>2. tracker.last_committed_offset < o
        BY <1>0, <3>2, <3>4, <4>1
      <4> QED
        BY <2>3, <3>3, <3>4, <4>2 DEF WorkInv
    <3> QED
      BY <1>9, <2>3, <3>2, <3>4 DEF SettleCommit, WorkInv
  <2> QED
    BY <2>2, <2>3
<1>10. CASE PrepareRevoke
  <2>1. GetCommittableHighWaterMark(tracker, None) \in Offsets \cup {-1} /\ 0 \in Offsets
    BY <1>0, CommittableHighWaterMarkRun, MaxOffsetAssumption DEF None, Offsets
  <2>2. tracker'.epoch = tracker.epoch
    BY <1>0, <1>10, <2>1, EpochKept DEF PrepareRevoke, AdvanceHighWaterMark
  <2>3. callback'.phase # "none"
    BY <1>10 DEF PrepareRevoke, NoCallback
  <2> QED
    BY <1>10, <2>2, <2>3 DEF PrepareRevoke, WorkInv
<1>11. CASE CommitPreparedRevokeOffsets
  <2>1. callback'.phase # "none"
    BY <1>11 DEF CommitPreparedRevokeOffsets, TypeOK, CallbackState
  <2> QED
    BY <1>11, <2>1 DEF CommitPreparedRevokeOffsets, local, WorkInv
<1>12. CASE CleanupRevoke \/ Crash
  BY <1>12 DEF CleanupRevoke, Crash, WorkInv
<1>13. CASE Assign
  <2>1. broker.offset - 1 \in Offsets \cup {-1}
    BY MaxOffsetAssumption DEF TypeOK, Offsets
  <2>2. DecodeAssignmentCompletedOffsets(broker.offset - 1) \in SUBSET Offsets
    BY DEF TypeOK, DecodeAssignmentCompletedOffsets
  <2>3. tracker' = HydratedTracker(broker.offset - 1,
                                   DecodeAssignmentCompletedOffsets(broker.offset - 1))
    BY <1>13 DEF Assign, Fault
  <2>4. tracker'.last_committed_offset = broker.offset - 1
    BY <2>1, <2>2, <2>3, HydratedTrackerEffect
  <2>5. position' = broker.offset /\ assigned' /\ pending_dlq' = {}
    BY <1>13 DEF Assign, WorkInv
  <2>6. \A o \in Log : ~(tracker'.last_committed_offset < o /\ o < position')
    BY <2>1, <2>4, <2>5, LifecycleAssumption, MaxOffsetAssumption DEF Offsets, TypeOK
  <2> QED
    BY <2>5, <2>6 DEF WorkInv
<1> QED
  BY <1>1, <1>2, <1>3, <1>4, <1>5, <1>6, <1>7, <1>8, <1>9, <1>10, <1>11, <1>12, <1>13
  DEF Next, Work, CommitStep, Rebalance

\* While the partition is owned no fetched record is forgotten, unless the lookup
\* of the committed offset fails, which puts the tracker below what is committed.
THEOREM NoWorkIsLost ==
  ASSUME "lookup" \notin FaultKinds
  PROVE  Spec => []NoLostWork
<1>1. Init => WorkInv
  BY DEF Init, WorkInv
<1>2. WorkInv => NoLostWork
  BY DEF WorkInv, NoLostWork, Accounted
<1> QED
  BY <1>1, <1>2, WorkStep, TypeCorrect, PTL DEF Spec
=============================================================================
