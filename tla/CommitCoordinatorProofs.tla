----------------------- MODULE CommitCoordinatorProofs ------------------------
(***************************************************************************)
(* The commit coordinator, for every number of partitions and every size   *)
(* of the outbox: nothing is committed that has not completed.             *)
(***************************************************************************)
EXTENDS CommitCoordinator, TLAPS, FiniteSetTheorems, WellFoundedInduction

-----------------------------------------------------------------------------
(* Records and sets of commits *)

\* The assumption on the constants, one by one.
LEMMA Constants == MaxOffset \in Nat /\ MaxFaults \in Nat /\ QueueMaxPartitions \in Nat \ {0}
BY CoordinatorAssumption

\* What a commit and a candidate have in common.
Sendable(c) == c.tp \in Partitions /\ c.offset \in Offsets

\* Commits and candidates both name a partition and an offset.
LEMMA Sendables ==
  /\ \A c \in Commit : Sendable(c)
  /\ \A c \in Candidate : Sendable(c)
BY DEF Commit, Candidate, Sendable

\* Handled(S): every commit of S is of offsets that have completed.
Handled(S) == \A c \in S : c.offset <= handled[c.tp]

\* Overriding gives each partition its old offset or that of one of its commits.
LEMMA OverridingValue ==
  ASSUME NEW f, NEW S, NEW tp \in Partitions
  PROVE  \/ Overriding(f, S)[tp] = f[tp]
         \/ \E c \in S : c.tp = tp /\ Overriding(f, S)[tp] = c.offset
<1>1. CASE \E c \in S : c.tp = tp
  <2> DEFINE d == CHOOSE c \in S : c.tp = tp
  <2>1. d \in S /\ d.tp = tp
    BY <1>1
  <2>2. Overriding(f, S)[tp] = d.offset
    BY <1>1 DEF Overriding
  <2> QED
    BY <2>1, <2>2
<1>2. CASE ~\E c \in S : c.tp = tp
  BY <1>2 DEF Overriding
<1> QED
  BY <1>1, <1>2

\* Overriding offsets with commits gives offsets.
LEMMA OverridingType ==
  ASSUME NEW f \in [Partitions -> Offsets], NEW S, \A c \in S : Sendable(c)
  PROVE  Overriding(f, S) \in [Partitions -> Offsets]
<1>1. \A tp \in Partitions : Overriding(f, S)[tp] \in Offsets
  BY OverridingValue DEF Sendable
<1>2. Overriding(f, S) = [tp \in Partitions |-> Overriding(f, S)[tp]]
  BY DEF Overriding
<1> QED
  BY <1>1, <1>2

\* Overriding handled offsets with handled commits gives handled offsets.
LEMMA OverridingHandled ==
  ASSUME NEW f, NEW S, \A tp \in Partitions : f[tp] <= handled[tp], Handled(S)
  PROVE  \A tp \in Partitions : Overriding(f, S)[tp] <= handled[tp]
BY OverridingValue DEF Handled

\* The largest of a set of offsets.
LEMMA MaxOfOffsets ==
  ASSUME NEW S, S \subseteq Offsets, S # {}
  PROVE  Max(S) \in S /\ \A y \in S : Max(S) >= y
<1> DEFINE T == {n \in Nat : MaxOffset - n \in S}
<1>1. \A y \in S : MaxOffset - y \in Nat /\ MaxOffset - (MaxOffset - y) = y
  BY Constants DEF Offsets
<1>2. \A y \in S : MaxOffset - y \in T
  BY <1>1
<1>3. T \subseteq Nat /\ T # {}
  BY <1>2
<1>4. PICK n \in T : \A m \in T : n <= m
  <2> DEFINE R == OpToRel(<, Nat)
  <2>1. IsWellFoundedOn(R, Nat)
    BY NatLessThanWellFounded
  <2>2. \A a, b \in Nat : a < b => <<a, b>> \in R
    BY DEF OpToRel
  <2> HIDE DEF R, T
  <2>3. PICK x \in T : \A y \in T : ~(<<y, x>> \in R)
    BY <1>3, <2>1, WFMin
  <2>4. \A y \in T : ~(y < x)
    BY <1>3, <2>2, <2>3
  <2>5. \A y \in T : x <= y
    BY <1>3, <2>4
  <2> QED
    BY <2>5
<1>5. MaxOffset - n \in S
  BY <1>4
<1>6. \A y \in S : MaxOffset - n >= y
  <2> SUFFICES ASSUME NEW y \in S PROVE MaxOffset - n >= y
    OBVIOUS
  <2>1. n <= MaxOffset - y
    BY <1>2, <1>4
  <2>2. n \in Nat /\ y \in Int
    BY <1>4, Constants DEF Offsets
  <2> QED
    BY <2>1, <2>2, Constants
<1> QED
  BY <1>5, <1>6 DEF Max

\* What the commit loop's record is after it changes phase.
LEMMA LoopMoves ==
  ASSUME NEW l \in Loops, NEW ph, NEW s
  PROVE  /\ [l EXCEPT !.phase = ph]
              = [phase |-> ph, commits |-> l.commits, sent |-> l.sent, attempt |-> l.attempt]
         /\ [l EXCEPT !.phase = ph, !.sent = s]
              = [phase |-> ph, commits |-> l.commits, sent |-> s, attempt |-> l.attempt]
<1> DEFINE x == [l EXCEPT !.phase = ph]
           y == [x EXCEPT !.sent = s]
<1>1. x = [phase |-> ph, commits |-> l.commits, sent |-> l.sent, attempt |-> l.attempt]
  BY DEF Loops
<1> HIDE DEF x
<1>2. y = [phase |-> ph, commits |-> l.commits, sent |-> s, attempt |-> l.attempt]
  BY <1>1
<1> HIDE DEF y
<1>3. [l EXCEPT !.phase = ph] = x /\ [l EXCEPT !.phase = ph, !.sent = s] = y
  BY Zenon DEF x, y
<1> QED
  BY <1>1, <1>2, <1>3, Zenon

\* What the worker's record is after it changes phase.
LEMMA WorkerMoves ==
  ASSUME NEW w \in Workers, NEW ph, NEW s
  PROVE  /\ [w EXCEPT !.phase = ph] = [phase |-> ph, batch |-> w.batch, sent |-> w.sent]
         /\ [w EXCEPT !.phase = ph, !.sent = s] = [phase |-> ph, batch |-> w.batch, sent |-> s]
<1> DEFINE x == [w EXCEPT !.phase = ph]
           y == [x EXCEPT !.sent = s]
<1>1. x = [phase |-> ph, batch |-> w.batch, sent |-> w.sent]
  BY DEF Workers
<1> HIDE DEF x
<1>2. y = [phase |-> ph, batch |-> w.batch, sent |-> s]
  BY <1>1
<1> HIDE DEF y
<1>3. [w EXCEPT !.phase = ph] = x /\ [w EXCEPT !.phase = ph, !.sent = s] = y
  BY Zenon DEF x, y
<1> QED
  BY <1>1, <1>2, <1>3, Zenon

-----------------------------------------------------------------------------
(* Type correctness *)

\* The types of the fields of the loop, the worker and the callback.
LEMMA RecordTypes ==
  /\ loop \in Loops =>
       /\ loop.phase \in {"idle", "built", "fallback", "prepared", "acked"}
       /\ loop.commits \subseteq Commit /\ loop.sent \subseteq Commit /\ loop.attempt \in 1 .. 2
  /\ worker \in Workers => worker.batch \subseteq Candidate /\ worker.sent \subseteq Candidate
  /\ callback \in RevokeCallbacks => callback.commits \subseteq Commit
  /\ NoLoop \in Loops /\ NoWorker \in Workers /\ NoCallback \in RevokeCallbacks
  /\ [NoWorker EXCEPT !.phase = "loop"] = [phase |-> "loop", batch |-> {}, sent |-> {}]
  /\ [NoWorker EXCEPT !.phase = "loop"] \in Workers
BY DEF Loops, Workers, RevokeCallbacks, NoLoop, NoWorker, NoCallback

\* The records that carry a set of commits.
LEMMA BuiltLoop ==
  ASSUME NEW S, S \subseteq Commit,
         NEW l, l = [phase |-> "built", commits |-> S, sent |-> {}, attempt |-> 1]
  PROVE  l \in Loops /\ l.commits = S /\ l.sent = {}
BY DEF Loops

\* The loop's record when it has built its commits.
LEMMA LoopWith ==
  ASSUME NEW S
  PROVE  [NoLoop EXCEPT !.phase = "built", !.commits = S]
           = [phase |-> "built", commits |-> S, sent |-> {}, attempt |-> 1]
<1> DEFINE x == [NoLoop EXCEPT !.phase = "built"]
<1>1. x = [phase |-> "built", commits |-> {}, sent |-> {}, attempt |-> 1]
  BY DEF NoLoop
<1> HIDE DEF x
<1>2. [x EXCEPT !.commits = S] = [phase |-> "built", commits |-> S, sent |-> {}, attempt |-> 1]
  BY <1>1
<1> QED
  BY <1>2, Zenon DEF x

\* The record of a revoke callback that has prepared its commits.
LEMMA BuiltCallback ==
  ASSUME NEW S, S \subseteq Commit, NEW k, k = [phase |-> "prepared", commits |-> S]
  PROVE  k \in RevokeCallbacks /\ k.commits = S
BY DEF RevokeCallbacks

\* A committed position comes from the broker, the tracker or what was sent.
LEMMA CommitThroughType ==
  ASSUME TypeOK, NEW S, \A c \in S : Sendable(c), CommitThrough(S)
  PROVE  committed' \in [Partitions -> Offsets]
<1> DEFINE T == {c \in S : c.tp \in tracked /\ c.offset > committed[c.tp]}
<1>1. committed' = Overriding(committed, T)
  BY DEF CommitThrough
<1> QED
  BY <1>1, OverridingType DEF TypeOK

\* clear_committed_dirty_partitions leaves only partitions dirty.
LEMMA ClearType ==
  ASSUME TypeOK, NEW tps, ClearCommittedDirtyPartitions(tps)
  PROVE  dirty' \subseteq Partitions
BY DEF TypeOK, ClearCommittedDirtyPartitions

-----------------------------------------------------------------------------
(* The inductive invariant of the commits *)

PositionsHandled ==
  \A tp \in Partitions : hwm[tp] <= handled[tp] /\ broker[tp] <= handled[tp]

\* Everything that is on its way to the broker has completed.
SetsHandled ==
  /\ Handled(loop.commits) /\ Handled(loop.sent)
  /\ Handled(pending) /\ Handled(in_flight)
  /\ Handled(worker.batch) /\ Handled(worker.sent)
  /\ Handled(callback.commits)

CommitInv == TypeOK /\ PositionsHandled /\ SetsHandled

\* A fresh coordinator has committed nothing and holds nothing.
LEMMA CommitInit == Init => CommitInv
<1> SUFFICES ASSUME Init PROVE CommitInv
  OBVIOUS
<1>1. hwm \in [Partitions -> Offsets]
  BY Constants DEF Init, Offsets
<1>2. TypeOK
  <2>1. {hwm, committed, settled, broker, handled} \subseteq [Partitions -> Offsets]
    BY <1>1 DEF Init
  <2>2. healthy \in BOOLEAN /\ revoked \in BOOLEAN
    BY DEF Init
  <2>3. faults \in 0 .. MaxFaults /\ lease_counter \in Nat
    BY Constants DEF Init
  <2> QED
    BY <2>1, <2>2, <2>3, RecordTypes DEF Init, TypeOK
<1>3. PositionsHandled
  BY DEF Init, PositionsHandled
<1>4. SetsHandled
  BY DEF Init, SetsHandled, Handled, NoLoop, NoWorker, NoCallback
<1> QED
  BY <1>2, <1>3, <1>4 DEF CommitInv

\* A completion only raises what has been handled.
LEMMA CompleteStep ==
  ASSUME CommitInv, NEW tp \in Partitions, Complete(tp)
  PROVE  CommitInv'
<1> USE RecordTypes, Sendables DEF Complete, trackers, outbox, rebalance
<1>a. hwm \in [Partitions -> Offsets] /\ handled \in [Partitions -> Offsets]
  BY DEF CommitInv, TypeOK
<1>b. hwm[tp] \in Offsets /\ handled[tp] \in Offsets /\ hwm[tp] + 1 \in Offsets
  BY <1>a, Constants DEF Offsets
<1> DEFINE m == Max({handled[tp], hwm[tp] + 1})
<1>c. m \in Offsets /\ m >= handled[tp] /\ m >= hwm[tp] + 1
  <2>1. m \in {handled[tp], hwm[tp] + 1} /\ \A y \in {handled[tp], hwm[tp] + 1} : m >= y
    <3> DEFINE S == {handled[tp], hwm[tp] + 1}
    <3>1. S \subseteq Offsets /\ S # {}
      BY <1>b
    <3> HIDE DEF S
    <3>2. Max(S) \in S /\ \A y \in S : Max(S) >= y
      BY <3>1, MaxOfOffsets
    <3> QED
      BY <3>2 DEF S
  <2> QED
    BY <1>b, <2>1
<1>d. hwm' = [hwm EXCEPT ![tp] = hwm[tp] + 1] /\ handled' = [handled EXCEPT ![tp] = m]
  <2>1. hwm'[tp] = hwm[tp] + 1
    BY <1>a
  <2> QED
    BY <1>a, <2>1
<1> HIDE DEF m
<1>e. hwm' \in [Partitions -> Offsets] /\ handled' \in [Partitions -> Offsets]
  BY <1>a, <1>b, <1>c, <1>d
<1>f. \A q \in Partitions : handled[q] \in Int /\ handled'[q] \in Int /\ handled[q] <= handled'[q]
  BY <1>a, <1>b, <1>c, <1>d, <1>e, Constants DEF Offsets
<1>1. TypeOK'
  BY <1>e DEF CommitInv, TypeOK
<1>2. PositionsHandled'
  <2> SUFFICES ASSUME NEW q \in Partitions PROVE hwm'[q] <= handled'[q] /\ broker'[q] <= handled'[q]
    BY Zenon DEF PositionsHandled
  <2>1. hwm[q] <= handled[q] /\ broker[q] <= handled[q] /\ hwm[q] \in Int /\ broker[q] \in Int
    BY <1>a, Constants DEF CommitInv, TypeOK, PositionsHandled, Offsets
  <2>2. broker'[q] <= handled'[q]
    <3>1. broker'[q] = broker[q]
      OBVIOUS
    <3>2. handled[q] \in Int /\ handled'[q] \in Int /\ handled[q] <= handled'[q]
      BY <1>f
    <3> QED
      BY <2>1, <3>1, <3>2
  <2>3. CASE q = tp
    BY <1>a, <1>b, <1>c, <1>d, <2>2, <2>3
  <2>4. CASE q # tp
    BY <1>a, <1>d, <2>1, <2>2, <2>4
  <2> QED
    BY <2>3, <2>4

<1>3. SetsHandled'
  <2>1. ASSUME NEW S, \A c \in S : Sendable(c), Handled(S)
        PROVE  \A c \in S : c.offset <= handled'[c.tp]
    <3> SUFFICES ASSUME NEW c \in S PROVE c.offset <= handled'[c.tp]
      OBVIOUS
    <3>1. c.tp \in Partitions /\ c.offset \in Int /\ c.offset <= handled[c.tp]
      BY <2>1, Constants DEF Handled, Sendable, Offsets
    <3>2. handled[c.tp] \in Int /\ handled'[c.tp] \in Int /\ handled[c.tp] <= handled'[c.tp]
      BY <1>f, <3>1
    <3> QED
      BY <3>1, <3>2
  <2>2. UNCHANGED <<loop, pending, in_flight, worker, callback>>
    OBVIOUS
  <2>3. /\ \A c \in loop.commits \cup loop.sent \cup callback.commits : Sendable(c)
        /\ \A c \in pending \cup in_flight \cup worker.batch \cup worker.sent : Sendable(c)
    BY DEF CommitInv, TypeOK
  <2> QED
    BY <2>1, <2>2, <2>3 DEF CommitInv, SetsHandled, Handled
<1> QED
  BY <1>1, <1>2, <1>3, Zenon DEF CommitInv

\* The commit loop takes its candidates from the trackers.
LEMMA BuildStep ==
  ASSUME CommitInv, NEW force \in BOOLEAN, BuildCommitCandidates(force)
  PROVE  CommitInv'
<1> USE RecordTypes, Sendables DEF BuildCommitCandidates, trackers, outbox, rebalance
<1> DEFINE ready == {tp \in tracked : hwm[tp] > committed[tp] /\ (force \/ tp \in dirty)}
           new == {[tp |-> tp, offset |-> hwm[tp]] : tp \in ready}
<1>a. ready \subseteq Partitions /\ hwm \in [Partitions -> Offsets]
  BY DEF CommitInv, TypeOK
<1>b. loop' = [phase |-> "built", commits |-> new, sent |-> {}, attempt |-> 1]
  <2>1. loop' = [NoLoop EXCEPT !.phase = "built", !.commits = new]
    BY Zenon
  <2> QED
    BY <2>1, LoopWith, Zenon
<1> HIDE DEF ready
<1>c. new \subseteq Commit /\ Handled(new)
  BY <1>a DEF Commit, CommitInv, PositionsHandled, Handled
<1> HIDE DEF new
<1>d. loop' \in Loops /\ loop'.commits = new /\ loop'.sent = {}
  <2> HIDE DEF BuildCommitCandidates
  <2> QED
    BY <1>b, <1>c, BuiltLoop
<1>1. TypeOK'
  BY <1>d DEF CommitInv, TypeOK
<1>2. PositionsHandled'
  BY DEF CommitInv, TypeOK, PositionsHandled
<1>3. SetsHandled'
  BY <1>c, <1>d DEF CommitInv, SetsHandled, Handled
<1> QED
  BY <1>1, <1>2, <1>3, Zenon DEF CommitInv

\* enqueue moves candidates of the loop into the outbox, or drops some.
LEMMA EnqueueStep ==
  ASSUME CommitInv, Enqueue
  PROVE  CommitInv'
<1> USE RecordTypes, Sendables DEF Enqueue, trackers, outbox, rebalance
<1>a. loop' = NoLoop \/ loop' = [loop EXCEPT !.phase = "fallback"]
  OBVIOUS
<1>b. loop' \in Loops /\ Handled(loop'.commits) /\ Handled(loop'.sent)
  <2>1. CASE loop' = NoLoop
    BY <2>1 DEF NoLoop, Handled
  <2>2. CASE loop' = [loop EXCEPT !.phase = "fallback"]
    <3>1. loop' = [phase |-> "fallback", commits |-> loop.commits, sent |-> loop.sent, attempt |-> loop.attempt]
      BY <2>2, LoopMoves DEF CommitInv, TypeOK
    <3> QED
      BY <3>1 DEF CommitInv, TypeOK, SetsHandled, Loops
  <2> QED
    BY <1>a, <2>1, <2>2
<1>c. worker' = worker \/ worker' = [NoWorker EXCEPT !.phase = "loop"]
  BY DEF Accept
<1>d. worker' \in Workers /\ Handled(worker'.batch) /\ Handled(worker'.sent)
  BY <1>c DEF CommitInv, TypeOK, SetsHandled, Handled
<1>e. in_flight' \subseteq in_flight
  BY DEF CancelLeases
<1>f. lease_counter' \in Nat
  <2>1. lease_counter' = lease_counter \/ lease_counter' = lease_counter + 1
    BY DEF Accept
  <2> QED
    BY <2>1 DEF CommitInv, TypeOK
<1>g. pending' \subseteq Candidate /\ Handled(pending')
  <2>1. CASE pending' \subseteq pending
    BY <2>1 DEF CommitInv, TypeOK, SetsHandled, Handled
  <2>2. ASSUME NEW fresh, fresh \subseteq loop.commits, Accept(fresh)
        PROVE  pending' \subseteq Candidate /\ Handled(pending')
    <3> DEFINE new == {[tp |-> c.tp, offset |-> c.offset, lease |-> lease_counter + 1] : c \in fresh}
    <3>1. pending' \subseteq pending \cup new
      BY <2>2 DEF Accept
    <3>2. new \subseteq Candidate
      BY <2>2 DEF CommitInv, TypeOK, Candidate, Sendable
    <3>3. Handled(new)
      BY <2>2 DEF CommitInv, SetsHandled, Handled
    <3> QED
      BY <3>1, <3>2, <3>3 DEF CommitInv, TypeOK, SetsHandled, Handled
  <2>3. \/ pending' \subseteq pending
        \/ \E fresh : fresh \subseteq loop.commits /\ Accept(fresh)
    BY DEF CancelLeases
  <2> QED
    BY <2>1, <2>2, <2>3
<1>1. TypeOK'
  BY <1>b, <1>d, <1>e, <1>f, <1>g DEF CommitInv, TypeOK
<1>2. PositionsHandled'
  BY DEF CommitInv, TypeOK, PositionsHandled
<1>3. SetsHandled'
  BY <1>b, <1>d, <1>e, <1>g DEF CommitInv, SetsHandled, Handled
<1> QED
  BY <1>1, <1>2, <1>3, Zenon DEF CommitInv

\* The fallback keeps the candidates of partitions still tracked.
LEMMA PrepareCommitStep ==
  ASSUME CommitInv, PrepareCommit
  PROVE  CommitInv'
<1> USE RecordTypes, Sendables DEF PrepareCommit, trackers, outbox, rebalance
<1> DEFINE sent == {c \in loop.commits : c.tp \in tracked}
<1>a. loop' = NoLoop \/ loop' = [loop EXCEPT !.phase = "prepared", !.sent = sent]
  OBVIOUS
<1>b. loop' \in Loops /\ Handled(loop'.commits) /\ Handled(loop'.sent)
  <2>1. CASE loop' = NoLoop
    BY <2>1 DEF NoLoop, Handled
  <2>2. CASE loop' = [loop EXCEPT !.phase = "prepared", !.sent = sent]
    <3> HIDE DEF sent
    <3>1. loop' = [phase |-> "prepared", commits |-> loop.commits, sent |-> sent, attempt |-> loop.attempt]
      <4>1. loop \in Loops
        BY DEF CommitInv, TypeOK
      <4> QED
        BY <2>2, <4>1, LoopMoves, ZenonT(60)
    <3>2. sent \subseteq loop.commits
      BY DEF sent
    <3> QED
      BY <3>1, <3>2 DEF CommitInv, TypeOK, SetsHandled, Loops, Handled
  <2> QED
    BY <1>a, <2>1, <2>2
<1>c. dirty' \subseteq Partitions
  BY ClearType DEF CommitInv, TypeOK
<1>1. TypeOK'
  BY <1>b, <1>c DEF CommitInv, TypeOK
<1>2. PositionsHandled'
  BY DEF CommitInv, TypeOK, PositionsHandled
<1>3. SetsHandled'
  BY <1>b DEF CommitInv, SetsHandled, Handled
<1> QED
  BY <1>1, <1>2, <1>3, Zenon DEF CommitInv

\* The fallback commits candidates of the loop.
LEMMA SyncCommitStep ==
  ASSUME CommitInv, SyncCommit
  PROVE  CommitInv'
<1> USE RecordTypes, Sendables DEF SyncCommit, trackers, outbox, rebalance
<1>a. loop' = [phase |-> "acked", commits |-> loop.commits, sent |-> loop.sent, attempt |-> loop.attempt]
  BY LoopMoves DEF CommitInv, TypeOK
<1>b. loop' \in Loops
  BY <1>a DEF CommitInv, TypeOK, Loops
<1>c. broker' \in [Partitions -> Offsets]
  BY OverridingType DEF CommitInv, TypeOK
<1>1. TypeOK'
  BY <1>b, <1>c DEF CommitInv, TypeOK
<1>2. PositionsHandled'
  BY OverridingHandled DEF CommitInv, SetsHandled, PositionsHandled
<1>3. SetsHandled'
  BY <1>a DEF CommitInv, SetsHandled, Handled
<1> QED
  BY <1>1, <1>2, <1>3, Zenon DEF CommitInv

\* A failed fallback commit may still have reached the broker.
LEMMA SyncCommitFailsStep ==
  ASSUME CommitInv, SyncCommitFails
  PROVE  CommitInv'
<1> USE RecordTypes, Sendables DEF SyncCommitFails, Fault, trackers, outbox, rebalance
<1>a. loop' \in Loops /\ Handled(loop'.commits) /\ Handled(loop'.sent)
  <2>1. CASE loop' = NoLoop
    BY <2>1 DEF NoLoop, Handled
  <2>2. CASE loop' = [loop EXCEPT !.attempt = 2]
    <3>1. loop' = [phase |-> loop.phase, commits |-> loop.commits, sent |-> loop.sent, attempt |-> 2]
      BY <2>2 DEF CommitInv, TypeOK, Loops
    <3> QED
      BY <3>1 DEF CommitInv, TypeOK, SetsHandled, Loops
  <2> QED
    BY <2>1, <2>2
<1>b. broker' \in [Partitions -> Offsets]
  BY OverridingType DEF CommitInv, TypeOK
<1>c. faults' \in 0 .. MaxFaults
  BY Constants DEF CommitInv, TypeOK
<1>1. TypeOK'
  BY <1>a, <1>b, <1>c DEF CommitInv, TypeOK
<1>2. PositionsHandled'
  BY OverridingHandled DEF CommitInv, SetsHandled, PositionsHandled
<1>3. SetsHandled'
  BY <1>a DEF CommitInv, SetsHandled, Handled
<1> QED
  BY <1>1, <1>2, <1>3, Zenon DEF CommitInv

\* The trackers take over what the fallback committed.
LEMMA SettleSyncCommitStep ==
  ASSUME CommitInv, SettleSyncCommit
  PROVE  CommitInv'
<1> USE RecordTypes, Sendables DEF SettleSyncCommit, trackers, outbox, rebalance
<1>a. dirty' \subseteq Partitions /\ committed' \in [Partitions -> Offsets]
  BY ClearType, CommitThroughType DEF CommitInv, TypeOK
<1>1. TypeOK'
  BY <1>a DEF CommitInv, TypeOK
<1>2. PositionsHandled'
  BY DEF CommitInv, TypeOK, PositionsHandled
<1>3. SetsHandled'
  BY DEF CommitInv, SetsHandled, Handled, NoLoop
<1> QED
  BY <1>1, <1>2, <1>3, Zenon DEF CommitInv

\* The worker's batch comes from the outbox.
LEMMA TakeBatchStep ==
  ASSUME CommitInv, TakeBatch
  PROVE  CommitInv'
<1> USE RecordTypes, Sendables DEF TakeBatch, trackers, outbox, rebalance
<1>a. \/ worker' = NoWorker /\ UNCHANGED <<pending, in_flight>>
      \/ worker' = [phase |-> "taken", batch |-> pending, sent |-> {}] /\ in_flight' = pending /\ pending' = {}
  OBVIOUS
<1>b. worker' \in Workers
  BY <1>a DEF CommitInv, TypeOK, Workers
<1>c. Handled(worker'.batch) /\ Handled(worker'.sent)
  BY <1>a DEF CommitInv, SetsHandled, Handled, NoWorker
<1>1. TypeOK'
  BY <1>a, <1>b DEF CommitInv, TypeOK
<1>2. PositionsHandled'
  BY DEF CommitInv, TypeOK, PositionsHandled
<1>3. SetsHandled'
  BY <1>a, <1>c DEF CommitInv, SetsHandled, Handled
<1> QED
  BY <1>1, <1>2, <1>3, Zenon DEF CommitInv

\* Revalidation sends a part of the batch.
LEMMA RevalidateStep ==
  ASSUME CommitInv, Revalidate
  PROVE  CommitInv'
<1> USE RecordTypes, Sendables DEF Revalidate, trackers, outbox, rebalance
<1> DEFINE sent == Of(worker.batch, tracked)
<1>a. sent \subseteq worker.batch
  BY DEF Of
<1>b. pending' \subseteq pending /\ in_flight' \subseteq in_flight
  BY DEF CancelLeases
<1>c. NextBatch \/ worker' = [worker EXCEPT !.phase = "validated", !.sent = sent]
  OBVIOUS
<1> HIDE DEF sent
<1>d. worker' \in Workers /\ Handled(worker'.batch) /\ Handled(worker'.sent)
  <2>1. CASE NextBatch
    BY <2>1 DEF NextBatch, Handled
  <2>2. CASE worker' = [worker EXCEPT !.phase = "validated", !.sent = sent]
    <3>1. worker' = [phase |-> "validated", batch |-> worker.batch, sent |-> sent]
      BY <2>2, WorkerMoves, ZenonT(30) DEF CommitInv, TypeOK
    <3> QED
      BY <1>a, <3>1, SMTT(30) DEF CommitInv, TypeOK, SetsHandled, Handled, Workers
  <2> QED
    BY <1>c, <2>1, <2>2
<1>1. TypeOK'
  BY <1>b, <1>d DEF CommitInv, TypeOK
<1>2. PositionsHandled'
  BY DEF CommitInv, TypeOK, PositionsHandled
<1>3. SetsHandled'
  BY <1>b, <1>d DEF CommitInv, SetsHandled, Handled
<1> QED
  BY <1>1, <1>2, <1>3, Zenon DEF CommitInv

\* The worker commits what it revalidated, or fails with or without effect.
LEMMA CommitIfActiveStep ==
  ASSUME CommitInv, CommitIfActive
  PROVE  CommitInv'
<1> USE RecordTypes, Sendables DEF CommitIfActive, trackers, outbox, rebalance
<1>a. PICK ph \in {"aborted", "confirmed", "rejected", "crashed"} : worker' = [worker EXCEPT !.phase = ph]
  BY Zenon
<1>b. worker' = [phase |-> ph, batch |-> worker.batch, sent |-> worker.sent]
  BY <1>a, WorkerMoves DEF CommitInv, TypeOK
<1>c. worker' \in Workers
  BY <1>b DEF CommitInv, TypeOK, Workers
<1>d. broker' = broker \/ broker' = Overriding(broker, worker.sent)
  OBVIOUS
<1>e. broker' \in [Partitions -> Offsets]
  BY <1>d, OverridingType DEF CommitInv, TypeOK
<1>f. faults' \in 0 .. MaxFaults
  BY Constants DEF CommitInv, TypeOK, Fault
<1>1. TypeOK'
  BY <1>c, <1>e, <1>f DEF CommitInv, TypeOK
<1>2. PositionsHandled'
  BY <1>d, OverridingHandled DEF CommitInv, SetsHandled, PositionsHandled
<1>3. SetsHandled'
  BY <1>b DEF CommitInv, SetsHandled, Handled
<1> QED
  BY <1>1, <1>2, <1>3, Zenon DEF CommitInv

\* A confirmed batch is recorded as settled.
LEMMA ConfirmStep ==
  ASSUME CommitInv, Confirm
  PROVE  CommitInv'
<1> USE RecordTypes, Sendables DEF Confirm, trackers, outbox, rebalance
<1>a. worker' = [phase |-> "settling", batch |-> worker.batch, sent |-> worker.sent]
  BY WorkerMoves DEF CommitInv, TypeOK
<1>b. worker' \in Workers
  BY <1>a DEF CommitInv, TypeOK, Workers
<1>c. \A c \in ActiveBatch : Sendable(c)
  BY DEF ActiveBatch, CommitInv, TypeOK
<1>d. settled' \in [Partitions -> Offsets]
  BY <1>c, OverridingType DEF CommitInv, TypeOK
<1>1. TypeOK'
  BY <1>b, <1>d DEF CommitInv, TypeOK
<1>2. PositionsHandled'
  BY DEF CommitInv, TypeOK, PositionsHandled
<1>3. SetsHandled'
  BY <1>a DEF CommitInv, SetsHandled, Handled
<1> QED
  BY <1>1, <1>2, <1>3, Zenon DEF CommitInv

\* The trackers take over the active part of the batch.
LEMMA SettleStep ==
  ASSUME CommitInv, Settle
  PROVE  CommitInv'
<1> USE RecordTypes, Sendables DEF Settle, trackers, outbox, rebalance
<1>n. worker' \in Workers /\ worker'.batch = {} /\ worker'.sent = {}
  BY DEF NextBatch
<1>c. \A c \in ActiveBatch : Sendable(c)
  BY DEF ActiveBatch, CommitInv, TypeOK
<1>d. dirty' \subseteq Partitions /\ committed' \in [Partitions -> Offsets]
  BY <1>c, ClearType, CommitThroughType DEF CommitInv
<1>1. TypeOK'
  BY <1>n, <1>d DEF CommitInv, TypeOK
<1>2. PositionsHandled'
  BY DEF CommitInv, TypeOK, PositionsHandled
<1>3. SetsHandled'
  BY <1>n DEF CommitInv, SetsHandled, Handled
<1> QED
  BY <1>1, <1>2, <1>3, Zenon DEF CommitInv

\* So they do when the success callback raises.
LEMMA SettleFailsStep ==
  ASSUME CommitInv, SettleFails
  PROVE  CommitInv'
<1> USE RecordTypes, Sendables DEF SettleFails, trackers, outbox, rebalance
<1>n. worker' \in Workers /\ worker'.batch = {} /\ worker'.sent = {}
  BY DEF NextBatch
<1>c. \A c \in ActiveBatch : Sendable(c)
  BY DEF ActiveBatch, CommitInv, TypeOK
<1>d. dirty' \subseteq Partitions /\ committed' \in [Partitions -> Offsets]
  BY <1>c, ClearType, CommitThroughType DEF CommitInv
<1>f. faults' \in 0 .. MaxFaults /\ healthy' \in BOOLEAN
  <2>1. faults' \in 0 .. MaxFaults
    BY Constants DEF CommitInv, TypeOK, Fault
  <2> QED
    BY <2>1
<1>1. TypeOK'
  BY <1>n, <1>d, <1>f DEF CommitInv, TypeOK
<1>2. PositionsHandled'
  BY DEF CommitInv, TypeOK, PositionsHandled
<1>3. SetsHandled'
  BY <1>n DEF CommitInv, SetsHandled, Handled
<1> QED
  BY <1>1, <1>2, <1>3, Zenon DEF CommitInv

\* A refused batch goes back to the outbox.
LEMMA RetryStep ==
  ASSUME CommitInv, Retry
  PROVE  CommitInv'
<1> USE RecordTypes, Sendables DEF Retry, trackers, outbox, rebalance
<1>n. worker' \in Workers /\ worker'.batch = {} /\ worker'.sent = {}
  BY DEF NextBatch
<1>a. ActiveBatch \subseteq worker.batch
  BY DEF ActiveBatch
<1>b. dirty' \subseteq Partitions
  BY <1>a DEF CommitInv, TypeOK, RetainFailedCommitOffsets, TopicPartitions, Sendable
<1>f. faults' \in 0 .. MaxFaults /\ healthy' \in BOOLEAN
  <2>1. faults' = faults \/ (faults < MaxFaults /\ faults' = faults + 1)
    BY DEF RetainFailedCommitOffsets, Fault
  <2>2. faults' \in 0 .. MaxFaults
    BY <2>1, Constants DEF CommitInv, TypeOK
  <2>3. healthy' \in BOOLEAN
    BY ZenonT(40) DEF CommitInv, TypeOK, RetainFailedCommitOffsets
  <2> QED
    BY <2>2, <2>3
<1>1. TypeOK'
  BY <1>n, <1>a, <1>b, <1>f DEF CommitInv, TypeOK
<1>2. PositionsHandled'
  BY DEF CommitInv, TypeOK, PositionsHandled
<1>3. SetsHandled'
  BY <1>n, <1>a DEF CommitInv, SetsHandled, Handled
<1> QED
  BY <1>1, <1>2, <1>3, Zenon DEF CommitInv

\* An aborted batch leaves the outbox.
LEMMA AbortStep ==
  ASSUME CommitInv, Abort
  PROVE  CommitInv'
<1> USE RecordTypes, Sendables DEF Abort, trackers, outbox, rebalance
<1>n. worker' \in Workers /\ worker'.batch = {} /\ worker'.sent = {}
  BY DEF NextBatch
<1>1. TypeOK'
  BY <1>n DEF CommitInv, TypeOK
<1>2. PositionsHandled'
  BY DEF CommitInv, TypeOK, PositionsHandled
<1>3. SetsHandled'
  BY <1>n DEF CommitInv, SetsHandled, Handled
<1> QED
  BY <1>1, <1>2, <1>3, Zenon DEF CommitInv

\* A crash of the worker closes the coordinator and moves nothing.
LEMMA WorkerCrashStep ==
  ASSUME CommitInv, WorkerCrash
  PROVE  CommitInv'
<1> USE RecordTypes, Sendables DEF WorkerCrash, trackers, outbox, rebalance
<1>a. worker' = [phase |-> "closing", batch |-> worker.batch, sent |-> worker.sent]
  BY WorkerMoves DEF CommitInv, TypeOK
<1>b. worker' \in Workers
  BY <1>a DEF CommitInv, TypeOK, Workers
<1>1. TypeOK'
  BY <1>b DEF CommitInv, TypeOK
<1>2. PositionsHandled'
  BY DEF CommitInv, TypeOK, PositionsHandled
<1>3. SetsHandled'
  BY <1>a DEF CommitInv, SetsHandled, Handled
<1> QED
  BY <1>1, <1>2, <1>3, Zenon DEF CommitInv

\* Nor does the end of the crashed worker.
LEMMA WorkerExitStep ==
  ASSUME CommitInv, WorkerExit
  PROVE  CommitInv'
<1> USE RecordTypes, Sendables DEF WorkerExit, trackers, outbox, rebalance
<1>a. ActiveBatch \subseteq worker.batch
  BY DEF ActiveBatch
<1>b. dirty' \subseteq Partitions
  BY <1>a DEF CommitInv, TypeOK, RetainFailedCommitOffsets, TopicPartitions, Sendable
<1>f. faults' \in 0 .. MaxFaults /\ healthy' \in BOOLEAN
  <2>1. faults' = faults \/ (faults < MaxFaults /\ faults' = faults + 1)
    BY DEF RetainFailedCommitOffsets, Fault
  <2>2. faults' \in 0 .. MaxFaults
    BY <2>1, Constants DEF CommitInv, TypeOK
  <2>3. healthy' \in BOOLEAN
    BY DEF CommitInv, TypeOK, RetainFailedCommitOffsets
  <2> QED
    BY <2>2, <2>3
<1>1. TypeOK'
  BY <1>b, <1>f DEF CommitInv, TypeOK
<1>2. PositionsHandled'
  BY DEF CommitInv, TypeOK, PositionsHandled
<1>3. SetsHandled'
  BY DEF CommitInv, SetsHandled, Handled, NoWorker
<1> QED
  BY <1>1, <1>2, <1>3, Zenon DEF CommitInv

\* A revoke commits the high-water mark or a larger candidate of the outbox.
LEMMA PrepareRevokeStep ==
  ASSUME CommitInv, PrepareRevoke
  PROVE  CommitInv'
<1> USE RecordTypes, Sendables DEF PrepareRevoke, trackers, outbox, rebalance
<1> DEFINE remaining(tp) == {c.offset : c \in Of(pending \cup in_flight, {tp})}
           safe(tp)      == Max({hwm[tp]} \cup remaining(tp))
           new           == {[tp |-> tp, offset |-> safe(tp)] : tp \in {p \in tracked : safe(p) >= 0}}
<1>a. ASSUME NEW tp \in Partitions
      PROVE  safe(tp) \in Offsets /\ safe(tp) <= handled[tp]
  <2> DEFINE S == {hwm[tp]} \cup remaining(tp)
  <2>1. S \subseteq Offsets /\ S # {}
    BY DEF CommitInv, TypeOK, Of, Sendable
  <2>2. \A y \in S : y <= handled[tp]
    BY DEF CommitInv, PositionsHandled, SetsHandled, Handled, Of
  <2> HIDE DEF S
  <2>3. Max(S) \in S
    BY <2>1, MaxOfOffsets
  <2> QED
    BY <2>1, <2>2, <2>3 DEF S
<1>b. callback' = [phase |-> "prepared", commits |-> new]
  OBVIOUS
<1> HIDE DEF safe
<1>c. new \subseteq Commit /\ Handled(new)
  BY <1>a DEF CommitInv, TypeOK, Commit, Handled
<1> HIDE DEF new
<1>d. callback' \in RevokeCallbacks /\ callback'.commits = new
  <2> HIDE DEF PrepareRevoke
  <2> QED
    BY <1>b, <1>c, BuiltCallback
<1>e. committed' \in [Partitions -> Offsets]
  BY DEF CommitInv, TypeOK
<1>f. faults' \in 0 .. MaxFaults
  BY Constants DEF CommitInv, TypeOK, Fault
<1>1. TypeOK'
  BY <1>d, <1>e, <1>f DEF CommitInv, TypeOK
<1>2. PositionsHandled'
  BY DEF CommitInv, TypeOK, PositionsHandled
<1>3. SetsHandled'
  BY <1>c, <1>d DEF CommitInv, SetsHandled, Handled
<1> QED
  BY <1>1, <1>2, <1>3, Zenon DEF CommitInv

\* The revoke's commits reach the broker, all or some of them.
LEMMA CommitRevokeStep ==
  ASSUME CommitInv, CommitPreparedRevokeOffsets
  PROVE  CommitInv'
<1> USE RecordTypes, Sendables DEF CommitPreparedRevokeOffsets, trackers, outbox, rebalance
<1>a. callback' = [phase |-> "committed", commits |-> callback.commits]
  BY DEF CommitInv, TypeOK, RevokeCallbacks
<1>b. callback' \in RevokeCallbacks
  BY <1>a DEF CommitInv, TypeOK, RevokeCallbacks
<1>c. PICK sent \in SUBSET callback.commits : broker' = Overriding(broker, sent)
  OBVIOUS
<1>d. broker' \in [Partitions -> Offsets]
  BY <1>c, OverridingType DEF CommitInv, TypeOK
<1>e. Handled(sent)
  BY <1>c DEF CommitInv, SetsHandled, Handled
<1>f. faults' \in 0 .. MaxFaults
  BY Constants DEF CommitInv, TypeOK, Fault
<1>1. TypeOK'
  BY <1>b, <1>d, <1>f DEF CommitInv, TypeOK
<1>2. PositionsHandled'
  BY <1>c, <1>e, OverridingHandled DEF CommitInv, PositionsHandled
<1>3. SetsHandled'
  BY <1>a DEF CommitInv, SetsHandled, Handled
<1> QED
  BY <1>1, <1>2, <1>3, Zenon DEF CommitInv

\* The trackers go.
LEMMA CleanupRevokeStep ==
  ASSUME CommitInv, CleanupRevoke
  PROVE  CommitInv'
<1> USE RecordTypes, Sendables DEF CleanupRevoke, trackers, outbox, rebalance
<1>1. TypeOK'
  BY DEF CommitInv, TypeOK
<1>2. PositionsHandled'
  BY DEF CommitInv, TypeOK, PositionsHandled
<1>3. SetsHandled'
  BY DEF CommitInv, SetsHandled, Handled, NoCallback
<1> QED
  BY <1>1, <1>2, <1>3, Zenon DEF CommitInv

\* New trackers start from the broker's offsets.
LEMMA AssignStep ==
  ASSUME CommitInv, Assign
  PROVE  CommitInv'
<1> USE RecordTypes, Sendables DEF Assign, trackers, outbox, rebalance
<1>1. TypeOK'
  BY DEF CommitInv, TypeOK
<1>2. PositionsHandled'
  BY DEF CommitInv, TypeOK, PositionsHandled
<1>3. SetsHandled'
  BY DEF CommitInv, SetsHandled, Handled
<1> QED
  BY <1>1, <1>2, <1>3, Zenon DEF CommitInv

\* Every step keeps the invariant.
LEMMA CommitNext ==
  ASSUME CommitInv, [Next]_vars
  PROVE  CommitInv'
<1>1. ASSUME UNCHANGED vars PROVE CommitInv'
  BY <1>1 DEF vars, trackers, outbox, rebalance, CommitInv, TypeOK, PositionsHandled, SetsHandled, Handled
<1> QED
  BY SMTT(30), <1>1, CompleteStep, BuildStep, EnqueueStep, PrepareCommitStep, SyncCommitStep, SyncCommitFailsStep,
     SettleSyncCommitStep, TakeBatchStep, RevalidateStep, CommitIfActiveStep, ConfirmStep, SettleStep,
     SettleFailsStep, RetryStep, AbortStep, WorkerCrashStep, WorkerExitStep, PrepareRevokeStep,
     CommitRevokeStep, CleanupRevokeStep, AssignStep
     DEF Next, CommitLoop, Worker, Rebalance

\* Every state has the types of the coordinator, and everything on its way to the
\* broker has completed.
THEOREM CommitInvariant == Spec => []CommitInv
  BY CommitInit, CommitNext, PTL DEF Spec

\* Whatever the worker, the fallback and the revoke callbacks do and however their
\* commits fail, only completed offsets reach the broker.
THEOREM OnlyHandledCommitted == Spec => []CommitsOnlyHandled
<1>1. CommitInv => CommitsOnlyHandled
  BY DEF CommitInv, PositionsHandled, CommitsOnlyHandled
<1> QED
  BY <1>1, CommitInvariant, PTL
===============================================================================
