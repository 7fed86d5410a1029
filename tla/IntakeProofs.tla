----------------------------- MODULE IntakeProofs -----------------------------
(***************************************************************************)
(* The intake of the consumer, for every limit, batch size and combination *)
(* of controllers: the limits agree, ownership follows the client, a call  *)
(* the bridge has given up never acts, and the load stays within one batch *)
(* of the configured limit.                                                *)
(***************************************************************************)
EXTENDS IntakeLoopProofs

-----------------------------------------------------------------------------
(* The steps of the bridge and its callbacks *)

\* The client calls back in the middle of a consume().
LEMMA RebalanceStep ==
  ASSUME IntakeInv, Rebalance
  PROVE  IntakeInv'
<1> USE CallbackFacts DEF IntakeInv, Rebalance, bridge_vars, backpressure_vars, work, ownership
<1>0. call = NoCall /\ call.phase = "none"
  BY NoCallOutside
<1>1. TypeOK'
  BY IntakeBounds DEF TypeOK, BridgeTypeOK, Callbacks
<1>2. LimitsCoherent' /\ CallbackShape'
  BY <1>0 DEF LimitsCoherent, CallbackShape
<1>3. OwnershipAgrees'
  BY DEF TypeOK, CallbackShape, OwnershipAgrees, OwnershipDuring
<1>4. OwnershipDuring'
  BY <1>0 DEF TypeOK, OwnershipAgrees, OwnershipDuring
<1>5. NoWorkWithoutTracker'
  BY <1>0 DEF TypeOK, NoWorkWithoutTracker, load
<1>6. LoadBounded' /\ LoadDuringPass'
  BY DEF TypeOK, CallbackShape, LoadBounded, LoadDuringPass, load
<1> QED
  BY <1>1, <1>2, <1>3, <1>4, <1>5, <1>6

\* The callback hands its next operation to the event loop.
LEMMA BridgeStepStep ==
  ASSUME IntakeInv, BridgeStep
  PROVE  IntakeInv'
<1> USE CallbackFacts DEF IntakeInv, BridgeStep, CallBridge, bridge_vars, backpressure_vars, work, ownership
<1>0. call.phase = "none" /\ call'.phase = "waiting" /\ call'.op = Head(callback)
  BY DEF NoCall
<1>1. TypeOK'
  BY DEF TypeOK, BridgeTypeOK, Calls, Operations
<1>2. LimitsCoherent' /\ CallbackShape'
  BY <1>0 DEF LimitsCoherent, CallbackShape
<1>3. OwnershipAgrees'
  BY DEF TypeOK, CallbackShape, OwnershipAgrees, OwnershipDuring
<1>4. OwnershipDuring'
  BY <1>0 DEF OwnershipDuring
<1>5. NoWorkWithoutTracker'
  BY <1>0 DEF NoWorkWithoutTracker, load
<1>6. LoadBounded' /\ LoadDuringPass'
  BY DEF TypeOK, CallbackShape, LoadBounded, LoadDuringPass, load
<1> QED
  BY <1>1, <1>2, <1>3, <1>4, <1>5, <1>6

\* The event loop starts the callback's mutation.
LEMMA BridgeStartsStep ==
  ASSUME IntakeInv, BridgeStarts
  PROVE  IntakeInv'
<1> USE CallbackFacts DEF IntakeInv, BridgeStarts, MarkStarted, bridge_vars, backpressure_vars, work, ownership
<1>0. call' \in Calls /\ call'.op = call.op /\ call'.phase = "started" /\ call' # NoCall
  BY CallMoves DEF TypeOK, BridgeTypeOK
<1>a. \/ call.op = "assign" /\ callback = AssignSteps
      \/ call.op = "prepare" /\ callback = RevokeSteps
      \/ call.op = "cleanup" /\ callback = <<"cleanup">>
  BY CallOfCallback
<1>1. TypeOK'
  BY <1>0 DEF TypeOK, BridgeTypeOK
<1>2. LimitsCoherent' /\ CallbackShape'
  BY <1>0, <1>a DEF LimitsCoherent, CallbackShape, Operations
<1>3. OwnershipAgrees'
  BY DEF TypeOK, CallbackShape, OwnershipAgrees, OwnershipDuring
<1>4. OwnershipDuring'
  BY <1>0 DEF OwnershipDuring
<1>5. NoWorkWithoutTracker'
  BY <1>0 DEF NoWorkWithoutTracker, load
<1>6. LoadBounded' /\ LoadDuringPass'
  BY DEF TypeOK, CallbackShape, LoadBounded, LoadDuringPass, load
<1> QED
  BY <1>1, <1>2, <1>3, <1>4, <1>5, <1>6

\* The callback gives the mutation up.
LEMMA BridgeTimesOutStep ==
  ASSUME IntakeInv, BridgeTimesOut
  PROVE  IntakeInv'
<1> USE CallbackFacts DEF IntakeInv, BridgeTimesOut, TimeOut, bridge_vars, backpressure_vars, work, ownership
<1>0. call' \in Calls /\ call'.op = call.op /\ call'.phase = "given_up" /\ call' # NoCall
  BY CallMoves DEF TypeOK, BridgeTypeOK
<1>a. \/ call.op = "assign" /\ callback = AssignSteps
      \/ call.op = "prepare" /\ callback = RevokeSteps
      \/ call.op = "cleanup" /\ callback = <<"cleanup">>
  BY CallOfCallback
<1>1. TypeOK'
  BY <1>0, <1>a DEF TypeOK, BridgeTypeOK, Operations
<1>2. LimitsCoherent' /\ CallbackShape'
  BY <1>0, <1>a DEF LimitsCoherent, CallbackShape, Operations
<1>3. OwnershipAgrees'
  BY DEF TypeOK, CallbackShape, OwnershipAgrees, OwnershipDuring
<1>4. OwnershipDuring'
  BY <1>0 DEF OwnershipDuring
<1>5. NoWorkWithoutTracker'
  BY <1>0 DEF NoWorkWithoutTracker, load
<1>6. LoadBounded' /\ LoadDuringPass'
  BY DEF TypeOK, CallbackShape, LoadBounded, LoadDuringPass, load
<1> QED
  BY <1>1, <1>2, <1>3, <1>4, <1>5, <1>6

\* The mutation takes effect.
LEMMA BridgeAppliesStep ==
  ASSUME IntakeInv, BridgeApplies
  PROVE  IntakeInv'
<1> USE CallbackFacts DEF IntakeInv, BridgeApplies, Applied, bridge_vars, backpressure_vars, work, ownership
<1>0. call' \in Calls /\ call'.op = call.op /\ call'.phase = "applied" /\ call' # NoCall
  BY CallMoves DEF TypeOK, BridgeTypeOK
<1>a. \/ call.op = "assign" /\ callback = AssignSteps
      \/ call.op = "prepare" /\ callback = RevokeSteps
      \/ call.op = "cleanup" /\ callback = <<"cleanup">>
  BY CallOfCallback
<1>b. \/ call.op = "prepare" /\ in_flight' = 0 /\ queued' = 0 /\ tracked' = tracked
      \/ call.op = "assign" /\ in_flight' = in_flight /\ queued' = queued /\ tracked' = TRUE
      \/ call.op = "cleanup" /\ in_flight' = in_flight /\ queued' = queued /\ tracked' = FALSE
  BY <1>a DEF Mutate
<1>c. tracked' \in BOOLEAN
  BY <1>b DEF TypeOK
<1>d. in_flight' \in Nat /\ queued' \in Nat
  BY <1>b DEF TypeOK
<1>1. TypeOK'
  BY <1>0, <1>c, <1>d DEF TypeOK, BridgeTypeOK
<1>2. LimitsCoherent' /\ CallbackShape'
  BY <1>0, <1>a DEF LimitsCoherent, CallbackShape, Operations
<1>3. OwnershipAgrees'
  BY <1>a DEF OwnershipAgrees
<1>4. OwnershipDuring'
  BY <1>0, <1>a, <1>b DEF OwnershipDuring
<1>5. NoWorkWithoutTracker'
  BY <1>0, <1>a, <1>b DEF TypeOK, NoWorkWithoutTracker, OwnershipDuring, load
<1>6. LoadBounded' /\ LoadDuringPass'
  <2>1. pc \in {"polling", "close"}
    BY <1>a DEF CallbackShape
  <2>2. CASE call.op = "prepare"
    BY <1>b, <2>1, <2>2, IntakeBounds DEF LoadBounded, LoadDuringPass, load
  <2>3. CASE call.op = "assign"
    <3>1. pc = "polling" /\ ~tracked
      BY <1>a, <2>3 DEF CallbackShape, OwnershipDuring
    <3>2. in_flight' + queued' = 0
      BY <1>b, <2>3, <3>1 DEF NoWorkWithoutTracker, load
    <3> QED
      BY <2>1, <3>2, IntakeBounds DEF LoadBounded, LoadDuringPass, load
  <2>4. CASE call.op = "cleanup"
    BY <1>b, <2>1, <2>4 DEF LoadBounded, LoadDuringPass
  <2> QED
    BY <1>b, <2>2, <2>3, <2>4
<1> QED
  BY <1>1, <1>2, <1>3, <1>4, <1>5, <1>6

\* The callback takes the answer and goes on.
LEMMA BridgeAnswersStep ==
  ASSUME IntakeInv, BridgeAnswers
  PROVE  IntakeInv'
<1> USE CallbackFacts DEF IntakeInv, BridgeAnswers, BridgeReturns, bridge_vars, backpressure_vars, work, ownership
<1>a. \/ call.op = "assign" /\ callback = AssignSteps
      \/ call.op = "prepare" /\ callback = RevokeSteps
      \/ call.op = "cleanup" /\ callback = <<"cleanup">>
  BY CallOfCallback
<1>b. call' = NoCall /\ call'.phase = "none" /\ call' \in Calls
  BY DEF NoCall, Calls
<1>c. \/ call.phase = "applied" /\ callback = RevokeSteps /\ callback' = Tail(RevokeSteps)
      \/ call.phase = "applied" /\ callback # RevokeSteps /\ callback' = << >>
      \/ call.phase = "given_up" /\ callback' = << >>
  BY <1>a
<1>d. pc \in {"polling", "close"} /\ ~failed /\ (failed' <=> call.phase = "given_up") /\ failed' \in BOOLEAN
  BY <1>a DEF CallbackShape
<1>e. UNCHANGED <<adaptive, limits, is_paused>>
  BY DEF CallbackOver
<1>f. IF callback' = << >> THEN client_assigned' = ~client_assigned /\ client_paused' = FALSE
      ELSE UNCHANGED <<client_assigned, client_paused>>
  BY SMTT(30) DEF CallbackOver
<1>1. TypeOK'
  <2>1. callback' \in Callbacks
    BY <1>c DEF Callbacks
  <2>2. client_assigned' \in BOOLEAN /\ client_paused' \in BOOLEAN
    BY <1>f DEF TypeOK
  <2> QED
    BY <1>b, <1>d, <1>e, <2>1, <2>2 DEF TypeOK, BridgeTypeOK
<1>2. LimitsCoherent' /\ CallbackShape'
  BY <1>b, <1>c, <1>d, <1>e DEF LimitsCoherent, CallbackShape
<1>3. OwnershipAgrees'
  BY <1>a, <1>c, <1>d, <1>f DEF TypeOK, OwnershipAgrees, OwnershipDuring
<1>4. OwnershipDuring'
  BY <1>a, <1>c, <1>f DEF OwnershipDuring
<1>5. NoWorkWithoutTracker'
  BY <1>a, <1>b, <1>c DEF NoWorkWithoutTracker, load
<1>6. LoadBounded' /\ LoadDuringPass'
  BY <1>d, <1>e, <1>f DEF LoadBounded, LoadDuringPass, load
<1> QED
  BY <1>1, <1>2, <1>3, <1>4, <1>5, <1>6

\* The callback commits the revoked offsets in its own thread.
LEMMA CommitRevokeStep ==
  ASSUME IntakeInv, CommitRevoke
  PROVE  IntakeInv'
<1> USE CallbackFacts DEF IntakeInv, CommitRevoke, bridge_vars, backpressure_vars, work, ownership
<1>0. callback = Tail(RevokeSteps) /\ callback' = <<"cleanup">>
  BY DEF TypeOK, Callbacks
<1>a. call = NoCall /\ call.phase = "none"
  BY <1>0, NoCallOutside
<1>1. TypeOK'
  BY <1>0 DEF TypeOK, BridgeTypeOK, Callbacks
<1>2. LimitsCoherent' /\ CallbackShape'
  BY <1>0, <1>a, SMTT(30) DEF LimitsCoherent, CallbackShape
<1>3. OwnershipAgrees'
  BY <1>0 DEF OwnershipAgrees
<1>4. OwnershipDuring'
  BY <1>0, <1>a DEF OwnershipDuring
<1>5. NoWorkWithoutTracker'
  BY <1>0, <1>a DEF NoWorkWithoutTracker, load
<1>6. LoadBounded' /\ LoadDuringPass'
  BY DEF TypeOK, CallbackShape, LoadBounded, LoadDuringPass, load
<1> QED
  BY <1>1, <1>2, <1>3, <1>4, <1>5, <1>6

\* consume() raises, which ends the consumer loop.
LEMMA ConsumeRaisesStep ==
  ASSUME IntakeInv, ConsumeRaises
  PROVE  IntakeInv'
<1> USE CallbackFacts DEF IntakeInv, ConsumeRaises, LoopFreesLock, bridge_vars, backpressure_vars, work, ownership
<1>1. TypeOK'
  BY DEF TypeOK, BridgeTypeOK
<1>2. LimitsCoherent' /\ CallbackShape'
  BY DEF TypeOK, BridgeTypeOK, LimitsCoherent, CallbackShape
<1>3. OwnershipAgrees'
  BY DEF TypeOK, CallbackShape, OwnershipAgrees, OwnershipDuring
<1>4. OwnershipDuring'
  BY DEF TypeOK, CallbackShape, OwnershipAgrees, OwnershipDuring
<1>5. NoWorkWithoutTracker'
  BY DEF TypeOK, CallbackShape, NoWorkWithoutTracker, load
<1>6. LoadBounded' /\ LoadDuringPass'
  BY DEF TypeOK, CallbackShape, LoadBounded, LoadDuringPass, load
<1> QED
  BY <1>1, <1>2, <1>3, <1>4, <1>5, <1>6

\* The consumer is being closed.
LEMMA CloseStep ==
  ASSUME IntakeInv, Close
  PROVE  IntakeInv'
<1> USE CallbackFacts DEF IntakeInv, Close, bridge_vars, backpressure_vars, work, ownership
<1>0. call = NoCall /\ call.phase = "none"
  BY NoCallOutside DEF CallbackShape
<1>1. TypeOK'
  BY DEF TypeOK, BridgeTypeOK, Callbacks
<1>2. LimitsCoherent' /\ CallbackShape'
  BY <1>0 DEF LimitsCoherent, CallbackShape
<1>3. OwnershipAgrees'
  BY DEF TypeOK, CallbackShape, OwnershipAgrees, OwnershipDuring
<1>4. OwnershipDuring'
  BY DEF TypeOK, CallbackShape, OwnershipAgrees, OwnershipDuring
<1>5. NoWorkWithoutTracker'
  BY <1>0 DEF NoWorkWithoutTracker, load
<1>6. LoadBounded' /\ LoadDuringPass'
  BY DEF TypeOK, CallbackShape, LoadBounded, LoadDuringPass, load
<1> QED
  BY <1>1, <1>2, <1>3, <1>4, <1>5, <1>6

\* The close call returns.
LEMMA ClosedStep ==
  ASSUME IntakeInv, Closed
  PROVE  IntakeInv'
<1> USE CallbackFacts DEF IntakeInv, Closed, bridge_vars, backpressure_vars, work, ownership
<1>1. TypeOK'
  BY SMTT(30) DEF TypeOK, BridgeTypeOK
<1>2. LimitsCoherent' /\ CallbackShape'
  BY DEF TypeOK, BridgeTypeOK, LimitsCoherent, CallbackShape
<1>3. OwnershipAgrees'
  BY DEF TypeOK, CallbackShape, OwnershipAgrees, OwnershipDuring
<1>4. OwnershipDuring'
  BY DEF TypeOK, CallbackShape, OwnershipAgrees, OwnershipDuring
<1>5. NoWorkWithoutTracker'
  BY DEF TypeOK, CallbackShape, NoWorkWithoutTracker, load
<1>6. LoadBounded' /\ LoadDuringPass'
  BY DEF TypeOK, CallbackShape, LoadBounded, LoadDuringPass, load
<1> QED
  BY <1>1, <1>2, <1>3, <1>4, <1>5, <1>6

-----------------------------------------------------------------------------
(* The theorems *)

\* Every step keeps the invariant.
LEMMA NextInv ==
  ASSUME IntakeInv, [Next]_vars
  PROVE  IntakeInv'
<1> DEFINE Quiet == TypeOK' /\ UNCHANGED <<backpressure_vars, call, pc, work, ownership, callback>>
<1>1. ASSUME Quiet PROVE IntakeInv'
  <2>1. in_flight \in Nat /\ queued \in Nat
    BY DEF IntakeInv, TypeOK
  <2>2. in_flight' + queued' <= in_flight + queued
    <3>1. in_flight' = in_flight /\ queued' = queued
      BY <1>1, SMTT(30) DEF work
    <3> QED
      BY <2>1, <3>1
  <2> QED
    BY <1>1, <2>2, OffLoopStep DEF work
<1>2. ASSUME MonitorWakes \/ MonitorPrepares \/ MonitorCommits \/ CommitEnds \/ MonitorSettles
      PROVE  Quiet
  BY <1>2, ZenonT(40) DEF MonitorWakes, MonitorPrepares, MonitorCommits, CommitEnds, MonitorSettles,
       IntakeInv, TypeOK, BridgeTypeOK, bridge_vars, backpressure_vars, work, ownership
<1>3. ASSUME MonitorTakesLock PROVE Quiet
  BY <1>3, ZenonT(40) DEF MonitorTakesLock, LoopTakesLock,
       IntakeInv, TypeOK, BridgeTypeOK, backpressure_vars, work, ownership
<1>4. ASSUME NEW op \in Operations, AbandonedEnds(op) PROVE Quiet
  BY <1>4, SMTT(30) DEF AbandonedEnds, DropAbandoned,
       IntakeInv, TypeOK, BridgeTypeOK, backpressure_vars, work, ownership
<1>5. ASSUME UNCHANGED vars PROVE Quiet
  BY <1>5 DEF vars, IntakeInv, TypeOK, BridgeTypeOK, bridge_vars, backpressure_vars, work, ownership
<1> HIDE DEF Quiet
<1> QED
  BY <1>1, <1>2, <1>3, <1>4, <1>5, CheckStep, EnterConsumeStep, ConsumeReturnsStep, DispatchStep,
     ConsumeRaisesStep, CloseStep, ClosedStep, MonitorDrainsStep, RebalanceStep, BridgeStepStep,
     BridgeStartsStep, BridgeAppliesStep, BridgeTimesOutStep, BridgeAnswersStep, CommitRevokeStep
     DEF Next, Loop, Monitor, Callback

\* The inductive invariant holds in every reachable state, TypeOK included.
THEOREM IntakeInvariant == Spec => []IntakeInv
  BY InitInv, NextInv, PTL DEF Spec

\* Whatever the limits, the batch size and the controllers, the load of a served
\* partition whose pause the client obeys stays within one batch of the configured
\* limit (BrokerPoller._run_consumer, check_backpressure).
THEOREM LoadStaysBounded == Spec => []LoadBounded
<1>1. IntakeInv => LoadBounded
  BY DEF IntakeInv
<1> QED
  BY <1>1, IntakeInvariant, PTL

\* The limits of the loop, of the scheduler and of the controllers never drift
\* apart (set_runtime_max_in_flight).
THEOREM LimitsStayCoherent == Spec => []LimitsCoherent
<1>1. IntakeInv => LimitsCoherent
  BY DEF IntakeInv
<1> QED
  BY <1>1, IntakeInvariant, PTL

\* Between callbacks, unless one raised, the consumer serves what the client owns.
THEOREM OwnershipStaysAgreed == Spec => []OwnershipAgrees
<1>1. IntakeInv => OwnershipAgrees
  BY DEF IntakeInv
<1> QED
  BY <1>1, IntakeInvariant, PTL

\* A bridge call that was given up never mutates: ownership changes only by a call
\* that was started (mark_started, cancel_if_not_started).
THEOREM GivenUpCallsStayOut == Spec => GaveUpStaysOut
<1>1. [Next]_vars => [tracked' # tracked => call.phase = "started"]_vars
  BY DEF Next, vars, Loop, Monitor, Callback, Check, EnterConsume, ConsumeReturns, Dispatch, ConsumeRaises,
         Close, Closed, MonitorWakes, MonitorTakesLock, MonitorDrains, MonitorPrepares, MonitorCommits,
         CommitEnds, MonitorSettles, BridgeStep, BridgeStarts, BridgeApplies, Applied, BridgeAnswers,
         CommitRevoke, Rebalance, BridgeTimesOut, AbandonedEnds, ownership
<1> QED
  BY <1>1, PTL DEF Spec, GaveUpStaysOut
=============================================================================
