-------------------------- MODULE CommitOutboxProofs --------------------------
(***************************************************************************)
(* The outbox of the commit coordinator, for every finite set of partitions *)
(* and every limit: it keeps its bound.                                    *)
(***************************************************************************)
EXTENDS CommitCoordinatorProofs

-----------------------------------------------------------------------------
(* The size of the outbox *)

\* One candidate of a partition.
Distinct(S) == \A c, d \in S : c.tp = d.tp => c = d

\* A set of candidates is of finitely many partitions.
LEMMA PartitionsFinite ==
  ASSUME NEW S, S \subseteq Candidate
  PROVE  TopicPartitions(S) \subseteq Partitions /\ IsFiniteSet(TopicPartitions(S))
<1>1. TopicPartitions(S) \in SUBSET Partitions
  BY DEF TopicPartitions, Candidate
<1> QED
  BY <1>1, FS_Subset, CoordinatorAssumption

\* Candidates of different partitions are as many as their partitions.
LEMMA DistinctCardinality ==
  ASSUME NEW S, S \subseteq Candidate, Distinct(S)
  PROVE  Cardinality(TopicPartitions(S)) = Cardinality(S)
<1> DEFINE T == TopicPartitions(S)
           f == [c \in S |-> c.tp]
<1>1. IsFiniteSet(T)
  BY PartitionsFinite
<1>2. f \in [S -> T]
  BY DEF TopicPartitions
<1>3. f \in Injection(S, T)
  BY <1>2 DEF Injection, IsInjective, Distinct
<1>4. f \in Surjection(S, T)
  BY <1>2 DEF Surjection, TopicPartitions
<1> HIDE DEF f, T
<1>5. Cardinality(S) = Cardinality(T)
  BY <1>1, <1>3, <1>4, FS_Injection
<1> QED
  BY <1>5 DEF T

\* A union has at most as many elements as its parts together.
LEMMA UnionBound ==
  ASSUME NEW S, IsFiniteSet(S), NEW T, IsFiniteSet(T)
  PROVE  /\ IsFiniteSet(S \cup T) /\ Cardinality(S \cup T) \in Nat
         /\ Cardinality(S) \in Nat /\ Cardinality(T) \in Nat
         /\ Cardinality(S \cup T) <= Cardinality(S) + Cardinality(T)
<1>1. IsFiniteSet(S \cup T) /\ Cardinality(S \cup T) = Cardinality(S) + Cardinality(T) - Cardinality(S \cap T)
  BY FS_Union
<1>2. IsFiniteSet(S \cap T)
  BY FS_Subset
<1>3. Cardinality(S \cap T) \in Nat /\ Cardinality(S) \in Nat /\ Cardinality(T) \in Nat /\ Cardinality(S \cup T) \in Nat
  BY <1>1, <1>2, FS_CardinalityType
<1> QED
  BY <1>1, <1>3

\* What the bound rests on: the candidates of every set the coordinator moves
\* around are of different partitions.
OutboxInv ==
  /\ Distinct(loop.commits) /\ Distinct(pending) /\ Distinct(in_flight) /\ Distinct(worker.batch)
  /\ Cardinality(TopicPartitions(pending \cup in_flight)) <= QueueMaxPartitions

\* The bound survives whatever adds no partition to the outbox.
LEMMA NoNewPartition ==
  ASSUME CommitInv, OutboxInv,
         TopicPartitions(pending' \cup in_flight') \subseteq TopicPartitions(pending \cup in_flight)
  PROVE  Cardinality(TopicPartitions(pending' \cup in_flight')) <= QueueMaxPartitions
<1> DEFINE U == TopicPartitions(pending \cup in_flight)
           V == TopicPartitions(pending' \cup in_flight')
<1>1. pending \cup in_flight \subseteq Candidate
  BY DEF CommitInv, TypeOK
<1>2. IsFiniteSet(U)
  BY <1>1, PartitionsFinite
<1>3. V \in SUBSET U /\ Cardinality(U) <= QueueMaxPartitions
  BY DEF OutboxInv
<1> HIDE DEF U, V
<1>4. Cardinality(V) <= Cardinality(U) /\ Cardinality(V) \in Nat /\ Cardinality(U) \in Nat
  BY <1>2, <1>3, FS_Subset, FS_CardinalityType
<1>5. Cardinality(V) <= QueueMaxPartitions
  BY <1>3, <1>4, Constants
<1> QED
  BY <1>5 DEF V

\* Removing candidates, and emptying or keeping the batch, keeps the invariant.
LEMMA OutboxShrinks ==
  ASSUME CommitInv, OutboxInv, pending' \subseteq pending, in_flight' \subseteq in_flight,
         worker'.batch \subseteq worker.batch, loop'.commits \subseteq loop.commits
  PROVE  OutboxInv'
<1>1. TopicPartitions(pending' \cup in_flight') \subseteq TopicPartitions(pending \cup in_flight)
  BY DEF TopicPartitions
<1>2. Distinct(loop'.commits) /\ Distinct(pending') /\ Distinct(in_flight') /\ Distinct(worker'.batch)
  BY DEF OutboxInv, Distinct
<1> QED
  BY <1>1, <1>2, NoNewPartition DEF OutboxInv, Distinct

\* The outbox starts empty.
LEMMA OutboxInit == Init => OutboxInv
<1> SUFFICES ASSUME Init PROVE OutboxInv
  OBVIOUS
<1>1. TopicPartitions(pending \cup in_flight) = {}
  BY DEF Init, TopicPartitions
<1>2. Cardinality({}) = 0
  BY FS_EmptySet
<1>3. Distinct(loop.commits) /\ Distinct(pending) /\ Distinct(in_flight) /\ Distinct(worker.batch)
  BY DEF Init, Distinct, NoLoop, NoWorker
<1> QED
  BY <1>1, <1>2, <1>3, Constants DEF OutboxInv

\* The candidates of one scan are of different partitions.
LEMMA OutboxBuild ==
  ASSUME CommitInv, OutboxInv, NEW force \in BOOLEAN, BuildCommitCandidates(force)
  PROVE  OutboxInv'
<1> DEFINE ready == {tp \in tracked : hwm[tp] > committed[tp] /\ (force \/ tp \in dirty)}
           new == {[tp |-> tp, offset |-> hwm[tp]] : tp \in ready}
<1>1. loop' = [NoLoop EXCEPT !.phase = "built", !.commits = new]
  BY DEF BuildCommitCandidates
<1>2. Distinct(new)
  BY DEF Distinct
<1>3. UNCHANGED <<pending, in_flight, worker>>
  BY DEF BuildCommitCandidates, outbox
<1> HIDE DEF new
<1>4. loop'.commits = new
  <2> DEFINE x == [NoLoop EXCEPT !.phase = "built"]
             y == [x EXCEPT !.commits = new]
  <2>1. x = [phase |-> "built", commits |-> {}, sent |-> {}, attempt |-> 1]
    BY DEF NoLoop
  <2> HIDE DEF x
  <2>2. y = [phase |-> "built", commits |-> new, sent |-> {}, attempt |-> 1]
    BY <2>1
  <2>3. loop' = y
    BY <1>1, Zenon DEF x
  <2> QED
    BY <2>2, <2>3
<1>5. Distinct(loop'.commits)
  BY <1>2, <1>4
<1> QED
  BY <1>3, <1>5 DEF OutboxInv, Distinct, TopicPartitions

\* enqueue admits a new partition only while there is room for it.
LEMMA OutboxAccept ==
  ASSUME CommitInv, OutboxInv, NEW fresh, fresh \subseteq loop.commits, Accept(fresh), UNCHANGED in_flight,
         NEW added, added = TopicPartitions(fresh) \ TopicPartitions(pending),
         added = {} \/ \E last \in added : ~QueueFull(added, last)
  PROVE  /\ Distinct(pending')
         /\ Cardinality(TopicPartitions(pending' \cup in_flight')) <= QueueMaxPartitions
<1> DEFINE new == {[tp |-> c.tp, offset |-> c.offset, lease |-> lease_counter + 1] : c \in fresh}
           old == pending \ Of(pending, TopicPartitions(fresh))
           P == TopicPartitions(pending)
           I == TopicPartitions(in_flight)
           V == TopicPartitions(pending' \cup in_flight')
<1>1. pending' = old \cup new
  BY DEF Accept
<1>2. Distinct(new)
  BY DEF OutboxInv, Distinct
<1>3. TopicPartitions(new) \subseteq TopicPartitions(fresh)
  <2>1. \A x \in new : \E c \in fresh : x.tp = c.tp
    OBVIOUS
  <2> HIDE DEF new
  <2> QED
    BY <2>1 DEF TopicPartitions
<1>4. old \subseteq pending /\ \A c \in old : c.tp \notin TopicPartitions(fresh)
  BY DEF Of
<1>5. \A c \in new : c.tp \in TopicPartitions(fresh)
  BY DEF TopicPartitions
<1> HIDE DEF new, old
<1>6. Distinct(pending')
  <2>1. Distinct(old)
    BY <1>4 DEF OutboxInv, Distinct
  <2> QED
    BY <1>1, <1>2, <1>4, <1>5, <2>1 DEF Distinct
<1>7. V \subseteq (P \cup added) \cup I
  BY <1>1, <1>3, <1>4 DEF TopicPartitions
<1>8. pending \subseteq Candidate /\ in_flight \subseteq Candidate /\ loop.commits \subseteq Commit
  BY RecordTypes DEF CommitInv, TypeOK
<1>9. /\ IsFiniteSet(P) /\ IsFiniteSet(I) /\ IsFiniteSet(added)
      /\ Cardinality(pending) = Cardinality(P) /\ Cardinality(in_flight) = Cardinality(I)
  <2>1. Cardinality(pending) = Cardinality(P) /\ Cardinality(in_flight) = Cardinality(I)
    BY <1>8, DistinctCardinality DEF OutboxInv
  <2>2. added \in SUBSET Partitions
    BY <1>8 DEF TopicPartitions, Commit
  <2>3. IsFiniteSet(added)
    BY <2>2, FS_Subset, CoordinatorAssumption
  <2> QED
    BY <1>8, <2>1, <2>3, PartitionsFinite
<1>10. CASE added = {}
  <2>1. V \subseteq TopicPartitions(pending \cup in_flight)
    BY <1>7, <1>10 DEF TopicPartitions
  <2> QED
    BY <1>6, <2>1, NoNewPartition, SMTT(30)
<1>11. ASSUME NEW last \in added, ~QueueFull(added, last)
       PROVE  Cardinality(V) <= QueueMaxPartitions
  <2> DEFINE J == I \ {last}
             PA == P \cup added
  <2>1. IsFiniteSet(J) /\ Cardinality(J) = IF last \in I THEN Cardinality(I) - 1 ELSE Cardinality(I)
    BY <1>9, FS_RemoveElement
  <2>2. V \subseteq PA \cup J
    BY <1>7, <1>11
  <2>3. Cardinality(P) + Cardinality(I) + Cardinality(added) - (IF last \in I THEN 1 ELSE 0)
          <= QueueMaxPartitions
    <3>1. Cardinality(P) \in Nat /\ Cardinality(I) \in Nat /\ Cardinality(added) \in Nat
      BY <1>9, FS_CardinalityType
    <3>2. ~(Cardinality(P) + Cardinality(I) + Cardinality(added) - (IF last \in I THEN 1 ELSE 0)
              > QueueMaxPartitions)
      BY <1>9, <1>11, Zenon DEF QueueFull
    <3> HIDE DEF P, I
    <3> QED
      BY <3>1, <3>2, Constants
  <2> HIDE DEF V, P, I, J
  <2>4. /\ IsFiniteSet(PA) /\ Cardinality(PA) \in Nat /\ Cardinality(P) \in Nat
        /\ Cardinality(added) \in Nat /\ Cardinality(PA) <= Cardinality(P) + Cardinality(added)
    BY <1>9, UnionBound
  <2> HIDE DEF PA
  <2>5. /\ IsFiniteSet(PA \cup J) /\ Cardinality(PA \cup J) \in Nat /\ Cardinality(J) \in Nat
        /\ Cardinality(PA \cup J) <= Cardinality(PA) + Cardinality(J)
    BY <2>1, <2>4, UnionBound
  <2>6. IsFiniteSet(V) /\ Cardinality(V) <= Cardinality(PA \cup J) /\ Cardinality(V) \in Nat
    BY <2>2, <2>5, FS_Subset, FS_CardinalityType
  <2>7. Cardinality(I) \in Nat
    BY <1>9, FS_CardinalityType
  <2> QED
    BY <2>1, <2>3, <2>4, <2>5, <2>6, <2>7, Constants, SMTT(30)
<1> QED
  BY <1>6, <1>10, <1>11

\* An enqueue is ignored, rejected or accepted.
LEMMA OutboxEnqueue ==
  ASSUME CommitInv, OutboxInv, Enqueue
  PROVE  OutboxInv'
<1>1. loop' = NoLoop \/ loop' = [loop EXCEPT !.phase = "fallback"]
  BY DEF Enqueue
<1>2. loop'.commits \subseteq loop.commits
  <2>1. [loop EXCEPT !.phase = "fallback"].commits = loop.commits
    BY DEF CommitInv, TypeOK, Loops
  <2>2. NoLoop.commits = {}
    BY DEF NoLoop
  <2> QED
    BY <1>1, <2>1, <2>2
<1>3. worker' = worker \/ worker' = [NoWorker EXCEPT !.phase = "loop"]
  BY DEF Enqueue, Accept
<1>4. worker'.batch \subseteq worker.batch
  BY <1>3, RecordTypes
<1>5. CASE pending' \subseteq pending /\ in_flight' \subseteq in_flight
  BY <1>2, <1>4, <1>5, OutboxShrinks
<1>6. ASSUME NEW fresh, fresh \subseteq loop.commits, Accept(fresh), UNCHANGED in_flight,
             NEW added, added = TopicPartitions(fresh) \ TopicPartitions(pending),
             added = {} \/ \E last \in added : ~QueueFull(added, last)
      PROVE  OutboxInv'
  <2>1. /\ Distinct(pending')
        /\ Cardinality(TopicPartitions(pending' \cup in_flight')) <= QueueMaxPartitions
    BY <1>6, OutboxAccept
  <2>2. Distinct(loop'.commits) /\ Distinct(in_flight') /\ Distinct(worker'.batch)
    BY <1>2, <1>4, <1>6 DEF OutboxInv, Distinct
  <2> QED
    BY <2>1, <2>2 DEF OutboxInv, Distinct
<1>7. \/ pending' \subseteq pending /\ in_flight' \subseteq in_flight
      \/ \E fresh, added :
           /\ fresh \subseteq loop.commits /\ Accept(fresh) /\ UNCHANGED in_flight
           /\ added = TopicPartitions(fresh) \ TopicPartitions(pending)
           /\ added = {} \/ \E last \in added : ~QueueFull(added, last)
  BY Zenon DEF Enqueue, CancelLeases
<1> QED
  BY <1>5, <1>6, <1>7

\* The batch takes the place of what was in flight.
LEMMA OutboxTake ==
  ASSUME CommitInv, OutboxInv, TakeBatch
  PROVE  OutboxInv'
<1>0. loop' = loop
  BY DEF TakeBatch
<1>1. CASE worker' = NoWorker /\ UNCHANGED <<pending, in_flight>>
  BY <1>0, <1>1, OutboxShrinks DEF NoWorker
<1>2. CASE /\ worker' = [phase |-> "taken", batch |-> pending, sent |-> {}]
           /\ in_flight' = pending /\ pending' = {}
  <2>1. TopicPartitions(pending' \cup in_flight') \subseteq TopicPartitions(pending \cup in_flight)
    BY <1>2 DEF TopicPartitions
  <2>2. Cardinality(TopicPartitions(pending' \cup in_flight')) <= QueueMaxPartitions
    BY <2>1, NoNewPartition
  <2>3. Distinct(loop'.commits) /\ Distinct(pending') /\ Distinct(in_flight') /\ Distinct(worker'.batch)
    BY <1>0, <1>2 DEF OutboxInv, Distinct
  <2> QED
    BY <2>2, <2>3 DEF OutboxInv, Distinct
<1> QED
  BY <1>1, <1>2 DEF TakeBatch

\* What a refused batch puts back was in flight or is pending.
LEMMA OutboxRetry ==
  ASSUME CommitInv, OutboxInv, Retry
  PROVE  OutboxInv'
<1>1. /\ pending' = (pending \ Of(pending, TopicPartitions(ActiveBatch))) \cup ActiveBatch
      /\ in_flight' = {} /\ loop' = loop /\ worker' = [NoWorker EXCEPT !.phase = "loop"]
  BY DEF Retry, NextBatch
<1>2. ActiveBatch \subseteq worker.batch /\ ActiveBatch \subseteq pending \cup in_flight
  BY DEF ActiveBatch, IsActiveLease
<1>3. TopicPartitions(pending' \cup in_flight') \subseteq TopicPartitions(pending \cup in_flight)
  BY <1>1, <1>2 DEF TopicPartitions
<1>4. Cardinality(TopicPartitions(pending' \cup in_flight')) <= QueueMaxPartitions
  BY <1>3, NoNewPartition
<1>5. Distinct(pending')
  BY <1>1, <1>2 DEF OutboxInv, Distinct, Of, TopicPartitions
<1>6. Distinct(loop'.commits) /\ Distinct(in_flight') /\ Distinct(worker'.batch)
  BY <1>1, RecordTypes DEF OutboxInv, Distinct
<1> QED
  BY <1>4, <1>5, <1>6 DEF OutboxInv, Distinct

\* Every other step only removes candidates.
LEMMA OutboxOthers ==
  ASSUME CommitInv, OutboxInv,
         \/ \E tp \in Partitions : Complete(tp)
         \/ PrepareCommit \/ SyncCommit \/ SyncCommitFails \/ SettleSyncCommit
         \/ Revalidate \/ CommitIfActive \/ Confirm \/ Settle \/ SettleFails \/ Abort
         \/ WorkerCrash \/ WorkerExit \/ Rebalance \/ UNCHANGED vars
  PROVE  OutboxInv'
<1> DEFINE sent == {c \in loop.commits : c.tp \in tracked}
           live == Of(worker.batch, tracked)
<1>1. pending' \subseteq pending /\ in_flight' \subseteq in_flight
  BY DEF Complete, PrepareCommit, SyncCommit, SyncCommitFails, SettleSyncCommit, Revalidate,
         CommitIfActive, Confirm, Settle, SettleFails, Abort, WorkerCrash, WorkerExit, Rebalance,
         PrepareRevoke, CommitPreparedRevokeOffsets, CleanupRevoke, Assign, CancelLeases, vars, outbox
<1>2. \/ loop' \in {loop, NoLoop, [loop EXCEPT !.phase = "acked"], [loop EXCEPT !.attempt = 2]}
      \/ loop' = [loop EXCEPT !.phase = "prepared", !.sent = sent]
  BY Zenon DEF Complete, PrepareCommit, SyncCommit, SyncCommitFails, SettleSyncCommit, Revalidate,
         CommitIfActive, Confirm, Settle, SettleFails, Abort, WorkerCrash, WorkerExit, Rebalance,
         PrepareRevoke, CommitPreparedRevokeOffsets, CleanupRevoke, Assign, vars
<1>3. \/ worker' \in {worker, NoWorker, [NoWorker EXCEPT !.phase = "loop"]}
      \/ \E ph : worker' = [worker EXCEPT !.phase = ph]
      \/ worker' = [worker EXCEPT !.phase = "validated", !.sent = live]
  BY Zenon DEF Complete, PrepareCommit, SyncCommit, SyncCommitFails, SettleSyncCommit, Revalidate,
         CommitIfActive, Confirm, Settle, SettleFails, Abort, WorkerCrash, WorkerExit, Rebalance,
         PrepareRevoke, CommitPreparedRevokeOffsets, CleanupRevoke, Assign, NextBatch, vars
<1> HIDE DEF sent, live
<1>4. loop \in Loops /\ worker \in Workers
  BY DEF CommitInv, TypeOK
<1>5. loop'.commits \subseteq loop.commits
  <2>1. [loop EXCEPT !.attempt = 2].commits = loop.commits
    BY <1>4 DEF Loops
  <2>2. [loop EXCEPT !.phase = "acked"].commits = loop.commits
    BY <1>4 DEF Loops
  <2>3. [loop EXCEPT !.phase = "prepared", !.sent = sent].commits = loop.commits
    <3>1. [loop EXCEPT !.phase = "prepared", !.sent = sent]
            = [phase |-> "prepared", commits |-> loop.commits, sent |-> sent, attempt |-> loop.attempt]
      BY <1>4, LoopMoves
    <3> QED
      BY <3>1
  <2>4. NoLoop.commits = {}
    BY DEF NoLoop
  <2>5. CASE loop' = [loop EXCEPT !.phase = "prepared", !.sent = sent]
    BY <2>3, <2>5, ZenonT(40)
  <2> QED
    BY <1>2, <2>1, <2>2, <2>4, <2>5
<1>6. worker'.batch \subseteq worker.batch
  BY <1>3, <1>4, WorkerMoves, RecordTypes DEF NoWorker
<1> QED
  BY <1>1, <1>5, <1>6, OutboxShrinks

\* Every step keeps the outbox within its bound.
LEMMA OutboxNext ==
  ASSUME CommitInv, OutboxInv, [Next]_vars
  PROVE  OutboxInv'
  BY OutboxBuild, OutboxEnqueue, OutboxTake, OutboxRetry, OutboxOthers
     DEF Next, CommitLoop, Worker

\* The outbox never outgrows queue_max_partitions and never holds two candidates
\* of a partition in one of its halves, for any number of partitions.
THEOREM OutboxStaysBounded == Spec => []OutboxBounded
<1>1. CommitInv /\ OutboxInv => OutboxBounded
  <2> SUFFICES ASSUME CommitInv, OutboxInv PROVE OutboxBounded
    OBVIOUS
  <2>1. pending \subseteq Candidate /\ in_flight \subseteq Candidate
    BY DEF CommitInv, TypeOK
  <2>2. /\ Cardinality(TopicPartitions(pending)) = Cardinality(pending)
        /\ Cardinality(TopicPartitions(in_flight)) = Cardinality(in_flight)
    BY <2>1, DistinctCardinality DEF OutboxInv
  <2> QED
    BY <2>2 DEF OutboxInv, OutboxBounded
<1> QED
  BY <1>1, OutboxInit, OutboxNext, CommitInvariant, PTL DEF Spec

=============================================================================
