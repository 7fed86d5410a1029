--------------------------- MODULE IntakeLoopProofs ---------------------------
(***************************************************************************)
(* The consumer loop and the monitor, for every limit, batch size and      *)
(* combination of controllers: the invariant of the intake, and that the   *)
(* loop's own steps keep it.                                               *)
(***************************************************************************)
EXTENDS Intake, TLAPS

-----------------------------------------------------------------------------
(* The limits *)

\* The larger of two numbers.
LEMMA MaxOfTwo ==
  ASSUME NEW a \in Int, NEW b \in Int
  PROVE  Max({a, b}) = IF a >= b THEN a ELSE b
<1>1. CASE a >= b
  <2>1. a \in {a, b} /\ \A y \in {a, b} : a >= y
    BY <1>1
  <2>2. \A x \in {a, b} : (\A y \in {a, b} : x >= y) => x = a
    BY <1>1
  <2> QED
    BY <1>1, <2>1, <2>2 DEF Max
<1>2. CASE b > a
  <2>1. b \in {a, b} /\ \A y \in {a, b} : b >= y
    BY <1>2
  <2>2. \A x \in {a, b} : (\A y \in {a, b} : x >= y) => x = b
    BY <1>2
  <2> QED
    BY <1>2, <2>1, <2>2 DEF Max
<1> QED
  BY <1>1, <1>2

\* The smaller of two numbers.
LEMMA MinOfTwo ==
  ASSUME NEW a \in Int, NEW b \in Int
  PROVE  Min({a, b}) = IF a <= b THEN a ELSE b
<1>1. CASE a <= b
  <2>1. a \in {a, b} /\ \A y \in {a, b} : a <= y
    BY <1>1
  <2>2. \A x \in {a, b} : (\A y \in {a, b} : x <= y) => x = a
    BY <1>1
  <2> QED
    BY <1>1, <2>1, <2>2 DEF Min
<1>2. CASE b < a
  <2>1. b \in {a, b} /\ \A y \in {a, b} : b <= y
    BY <1>2
  <2>2. \A x \in {a, b} : (\A y \in {a, b} : x <= y) => x = b
    BY <1>2
  <2> QED
    BY <1>2, <2>1, <2>2 DEF Min
<1> QED
  BY <1>1, <1>2

\* Clamp puts a value between 1 and the configured limit.
LEMMA ClampRange ==
  ASSUME NEW v \in Int
  PROVE  /\ Clamp(v) \in 1 .. ConfiguredMaxInFlight
         /\ v \in 1 .. ConfiguredMaxInFlight => Clamp(v) = v
<1>1. Min({ConfiguredMaxInFlight, v}) = IF ConfiguredMaxInFlight <= v THEN ConfiguredMaxInFlight ELSE v
  BY MinOfTwo, BackpressureAssumption
<1>2. Min({ConfiguredMaxInFlight, v}) \in Int
  BY <1>1, BackpressureAssumption
<1>3. Clamp(v) = IF 1 >= Min({ConfiguredMaxInFlight, v}) THEN 1 ELSE Min({ConfiguredMaxInFlight, v})
  BY <1>2, MaxOfTwo DEF Clamp
<1> QED
  BY <1>1, <1>3, BackpressureAssumption

\* The point to resume at is at least 1 and not above the limit.
LEMMA ResumeLimitRange ==
  ASSUME NEW l \in Nat \ {0}
  PROVE  ResumeLimit(l) \in 1 .. l
<1>1. (l * 7) \div 10 \in Nat /\ (l * 7) \div 10 <= l
  OBVIOUS
<1>2. ResumeLimit(l) = IF 1 >= (l * 7) \div 10 THEN 1 ELSE (l * 7) \div 10
  BY <1>1, MaxOfTwo DEF ResumeLimit
<1> QED
  BY <1>1, <1>2

\* What LimitsCoherent says, of any value of the limits.
CoherentLimits(l) ==
  l.scheduler = l.current /\ 1 <= l.resume /\ l.resume <= l.current

\* set_runtime_max_in_flight keeps the limits coherent, whatever it is given.
LEMMA SetRuntimeCoherent ==
  ASSUME NEW l \in Limits, CoherentLimits(l), NEW v \in Int
  PROVE  /\ SetRuntimeMaxInFlight(l, v) \in Limits
         /\ CoherentLimits(SetRuntimeMaxInFlight(l, v))
<1>1. Clamp(v) \in 1 .. ConfiguredMaxInFlight
  BY ClampRange
<1>2. ResumeLimit(Clamp(v)) \in 1 .. Clamp(v)
  BY <1>1, ResumeLimitRange, BackpressureAssumption
<1> QED
  BY <1>1, <1>2, BackpressureAssumption DEF SetRuntimeMaxInFlight, Limits, CoherentLimits

\* The controllers stay between 1 and the configured limit.
LEMMA EvaluateBackpressureRange ==
  ASSUME NEW e \in 1 .. ConfiguredMaxInFlight, NEW q, NEW sample
  PROVE  EvaluateBackpressure(e, q, sample) \in 1 .. ConfiguredMaxInFlight
<1>1. BackpressureMinInFlight \in 1 .. ConfiguredMaxInFlight
  BY ClampRange, BackpressureAssumption DEF BackpressureMinInFlight
<1>2. Max({BackpressureMinInFlight, e - ScaleDownStep}) \in 1 .. ConfiguredMaxInFlight
  BY <1>1, MaxOfTwo, BackpressureAssumption
<1>3. Min({ConfiguredMaxInFlight, e + ScaleUpStep}) \in 1 .. ConfiguredMaxInFlight
  BY MinOfTwo, BackpressureAssumption
<1> QED
  BY <1>2, <1>3 DEF EvaluateBackpressure

\* The adaptive concurrency controller decides within its configured range.
LEMMA EvaluateConcurrencyRange ==
  ASSUME NEW c \in 1 .. ConfiguredMaxInFlight, NEW i, NEW q, NEW sample
  PROVE  EvaluateConcurrency(c, i, q, sample) \in 1 .. ConfiguredMaxInFlight
<1>1. ConcurrencyMinInFlight \in 1 .. ConfiguredMaxInFlight
  <2>1. ConfiguredMaxInFlight \div 4 \in 0 .. ConfiguredMaxInFlight
    BY BackpressureAssumption
  <2>2. Max({1, ConfiguredMaxInFlight \div 4}) \in 1 .. ConfiguredMaxInFlight
    BY <2>1, MaxOfTwo, BackpressureAssumption
  <2> QED
    BY <2>2, ClampRange, BackpressureAssumption DEF ConcurrencyMinInFlight
<1>2. Max({ConcurrencyMinInFlight, c - ScaleDownStep}) \in 1 .. ConfiguredMaxInFlight
  BY <1>1, MaxOfTwo, BackpressureAssumption
<1>3. Min({ConfiguredMaxInFlight, c + ScaleUpStep}) \in 1 .. ConfiguredMaxInFlight
  BY MinOfTwo, BackpressureAssumption
<1> QED
  BY <1>2, <1>3 DEF EvaluateConcurrency

\* The adaptive backpressure pass keeps the limits coherent.
LEMMA AdjustBackpressureCoherent ==
  ASSUME NEW l \in Limits, CoherentLimits(l), NEW q, NEW sample
  PROVE  /\ MaybeAdjustAdaptiveBackpressure(l, q, sample) \in Limits
         /\ CoherentLimits(MaybeAdjustAdaptiveBackpressure(l, q, sample))
<1> DEFINE new == EvaluateBackpressure(l.effective, q, sample)
           evaluated == [l EXCEPT !.effective = new]
<1>1. new \in 1 .. ConfiguredMaxInFlight
  BY EvaluateBackpressureRange DEF Limits
<1> HIDE DEF new
<1>2. evaluated \in Limits /\ CoherentLimits(evaluated)
  BY <1>1 DEF Limits, CoherentLimits
<1>3. new \in Int
  BY <1>1, BackpressureAssumption
<1> HIDE DEF evaluated
<1>4. /\ SetRuntimeMaxInFlight(evaluated, new) \in Limits
      /\ CoherentLimits(SetRuntimeMaxInFlight(evaluated, new))
  BY <1>2, <1>3, SetRuntimeCoherent
<1>5. MaybeAdjustAdaptiveBackpressure(l, q, sample)
        = IF "backpressure" \notin adaptive THEN l
          ELSE IF new = l.current THEN evaluated ELSE SetRuntimeMaxInFlight(evaluated, new)
  BY DEF MaybeAdjustAdaptiveBackpressure, new, evaluated
<1> QED
  BY <1>2, <1>4, <1>5

\* The adaptive concurrency pass keeps the limits coherent.
LEMMA AdjustConcurrencyCoherent ==
  ASSUME NEW l \in Limits, CoherentLimits(l), NEW i, NEW q, NEW sample
  PROVE  /\ MaybeAdjustAdaptiveConcurrency(l, i, q, sample) \in Limits
         /\ CoherentLimits(MaybeAdjustAdaptiveConcurrency(l, i, q, sample))
<1> DEFINE new == EvaluateConcurrency(l.current, i, q, sample)
<1>1. new \in Int
  BY EvaluateConcurrencyRange, BackpressureAssumption DEF Limits
<1> HIDE DEF new
<1>2. /\ SetRuntimeMaxInFlight(l, new) \in Limits
      /\ CoherentLimits(SetRuntimeMaxInFlight(l, new))
  BY <1>1, SetRuntimeCoherent
<1>3. MaybeAdjustAdaptiveConcurrency(l, i, q, sample)
        = IF "concurrency" \notin adaptive \ sample.cooling \/ new = l.current THEN l
          ELSE SetRuntimeMaxInFlight(l, new)
  BY DEF MaybeAdjustAdaptiveConcurrency, new
<1> QED
  BY <1>2, <1>3

-----------------------------------------------------------------------------
(* The load *)

\* Starting queued work moves it and a completion removes it; neither adds load.
LEMMA ScheduledLoad ==
  ASSUME NEW running \in Nat, NEW waiting \in Nat, limits \in Limits
  PROVE  /\ Scheduled(running, waiting).in_flight \in Nat
         /\ Scheduled(running, waiting).queued \in Nat
         /\ Scheduled(running, waiting).in_flight + Scheduled(running, waiting).queued
              = running + waiting
<1> DEFINE room == Max({0, limits.scheduler - running})
           started == Min({waiting, room})
<1>1. limits.scheduler \in Int
  BY BackpressureAssumption DEF Limits
<1>2. room \in Nat
  BY <1>1, MaxOfTwo
<1> HIDE DEF room
<1>3. started \in 0 .. waiting
  BY <1>2, MinOfTwo
<1> HIDE DEF started
<1>4. Scheduled(running, waiting)
        = [in_flight |-> running + started, queued |-> waiting - started]
  BY DEF Scheduled, started, room
<1> QED
  BY <1>3, <1>4

\* Draining completions lowers the load.
LEMMA DrainedLoad ==
  ASSUME NEW w, w.in_flight \in Nat, w.queued \in Nat, limits \in Limits,
         NEW done \in 0 .. w.in_flight, Drained(w, done)
  PROVE  /\ in_flight' \in Nat /\ queued' \in Nat
         /\ in_flight' + queued' <= w.in_flight + w.queued
<1> DEFINE s == Scheduled(w.in_flight - done, w.queued)
<1>1. s.in_flight \in Nat /\ s.queued \in Nat /\ s.in_flight + s.queued = w.in_flight - done + w.queued
  <2>1. w.in_flight - done \in Nat
    OBVIOUS
  <2> QED
    BY <2>1, ScheduledLoad
<1> HIDE DEF s
<1>2. CASE done = 0
  BY <1>2 DEF Drained
<1>3. CASE done # 0
  <2>1. in_flight' = s.in_flight /\ queued' = s.queued
    BY <1>3 DEF Drained, s
  <2> QED
    BY <1>1, <2>1
<1> QED
  BY <1>2, <1>3

-----------------------------------------------------------------------------
(* The inductive invariant *)

\* Where a callback may be, and which call of the bridge it waits for.
CallbackShape ==
  /\ callback # << >> => pc \in {"polling", "close"} /\ ~failed
  /\ callback = AssignSteps => pc = "polling"
  /\ failed => pc \in {"polling", "closing", "close", "raised"}
  /\ call # NoCall =>
       callback # << >> /\ call.op = Head(callback) /\ call.op \in Operations /\ call.phase # "none"

\* Who owns the partition while a callback changes it.
OwnershipDuring ==
  pc = "polling" =>
    /\ callback = AssignSteps => ~client_assigned /\ tracked = (call.phase = "applied")
    /\ callback \in {RevokeSteps, Tail(RevokeSteps)} => client_assigned /\ tracked
    /\ callback = <<"cleanup">> => client_assigned /\ tracked = (call.phase # "applied")

\* A partition that is not served has no work, nor has one whose revoke has dropped it.
NoWorkWithoutTracker ==
  (\/ ~tracked
   \/ callback \in {Tail(RevokeSteps), <<"cleanup">>}
   \/ callback = RevokeSteps /\ call.phase = "applied") => load = 0

\* What the loop knows of the load between its check and its dispatch.
LoadDuringPass ==
  /\ pc \in {"consume", "polling"} /\ tracked /\ ~is_paused => load <= ConfiguredMaxInFlight
  /\ pc = "dispatch" /\ tracked /\ (is_paused => client_paused) =>
       load + batch <= ConfiguredMaxInFlight + BatchSize

IntakeInv ==
  /\ TypeOK
  /\ LimitsCoherent
  /\ CallbackShape
  /\ OwnershipAgrees
  /\ OwnershipDuring
  /\ NoWorkWithoutTracker
  /\ LoadBounded
  /\ LoadDuringPass

-----------------------------------------------------------------------------
(* Each step keeps it *)

\* The callbacks, their heads and their tails.
LEMMA CallbackFacts ==
  /\ AssignSteps # << >> /\ RevokeSteps # << >> /\ Tail(RevokeSteps) # << >> /\ <<"cleanup">> # << >>
  /\ AssignSteps # RevokeSteps /\ AssignSteps # Tail(RevokeSteps) /\ AssignSteps # <<"cleanup">>
  /\ RevokeSteps # Tail(RevokeSteps) /\ RevokeSteps # <<"cleanup">>
  /\ Tail(RevokeSteps) # <<"cleanup">>
  /\ Head(AssignSteps) = "assign" /\ Head(RevokeSteps) = "prepare"
  /\ Head(Tail(RevokeSteps)) = "commit" /\ Head(<<"cleanup">>) = "cleanup"
  /\ Tail(AssignSteps) = << >> /\ Tail(Tail(RevokeSteps)) = <<"cleanup">> /\ Tail(<<"cleanup">>) = << >>
<1>1. Tail(RevokeSteps) = <<"commit", "cleanup">>
  BY DEF RevokeSteps
<1>2. Tail(Tail(RevokeSteps)) = <<"cleanup">>
  <2>1. Tail(<<"commit", "cleanup">>) = <<"cleanup">>
    OBVIOUS
  <2> QED
    BY <1>1, <2>1, Zenon
<1>3. /\ Len(AssignSteps) = 1 /\ Len(RevokeSteps) = 3 /\ Len(Tail(RevokeSteps)) = 2
      /\ Len(<<"cleanup">>) = 1 /\ Len(<< >>) = 0
  BY <1>1 DEF RevokeSteps, AssignSteps
<1>4. /\ Head(AssignSteps) = "assign" /\ Head(RevokeSteps) = "prepare"
      /\ Head(Tail(RevokeSteps)) = "commit" /\ Head(<<"cleanup">>) = "cleanup"
  BY <1>1 DEF RevokeSteps, AssignSteps
<1>5. Tail(AssignSteps) = << >> /\ Tail(<<"cleanup">>) = << >>
  BY DEF AssignSteps
<1>6. "assign" # "cleanup" /\ 0 # 1 /\ 0 # 2 /\ 0 # 3 /\ 1 # 2 /\ 1 # 3 /\ 2 # 3
  OBVIOUS
<1> QED
  BY <1>2, <1>3, <1>4, <1>5, <1>6, Zenon

\* The bounds of the constants.
LEMMA IntakeBounds ==
  ConfiguredMaxInFlight \in Nat \ {0} /\ BatchSize \in Nat \ {0} /\ MaxRebalances \in Nat
BY BackpressureAssumption, IntakeAssumption

\* A sum of naturals is a natural.
LEMMA SumNat ==
  ASSUME NEW a \in Nat, NEW b \in Nat
  PROVE  a + b \in Nat
OBVIOUS

\* A sum is bounded when its parts are.
LEMMA SumBound ==
  ASSUME NEW a \in Nat, NEW b \in Nat, NEW c \in Nat, NEW d \in Nat, a <= c, b <= d
  PROVE  a + b <= c + d
OBVIOUS

\* The poller starts idle, with nothing in flight.
LEMMA InitInv == Init => IntakeInv
<1> SUFFICES ASSUME Init PROVE IntakeInv
  OBVIOUS
<1>1. ResumeLimit(ConfiguredMaxInFlight) \in 1 .. ConfiguredMaxInFlight
  BY ResumeLimitRange, BackpressureAssumption
<1>2. limits \in Limits /\ LimitsCoherent
  BY <1>1, BackpressureAssumption DEF Init, InitBackpressure, Limits, LimitsCoherent
<1> USE DEF Init, InitBackpressure, InitBridge
<1>3. TypeOK
  <2>1. call \in Calls /\ callback \in Callbacks
    BY DEF Calls, NoCall, Callbacks
  <2>2. {is_paused, client_paused, client_assigned, tracked, failed} \subseteq BOOLEAN
    OBVIOUS
  <2> QED
    BY <1>2, <2>1, <2>2, IntakeBounds DEF TypeOK, BridgeTypeOK
<1>4. CallbackShape /\ OwnershipAgrees /\ OwnershipDuring
  BY CallbackFacts DEF CallbackShape, OwnershipAgrees, OwnershipDuring
<1>5. NoWorkWithoutTracker /\ LoadBounded /\ LoadDuringPass
  BY IntakeBounds DEF NoWorkWithoutTracker, LoadBounded, LoadDuringPass, load
<1> QED
  BY <1>2, <1>3, <1>4, <1>5 DEF IntakeInv

\* Which callback waits for which call.
LEMMA CallOfCallback ==
  ASSUME TypeOK, CallbackShape, call.phase # "none"
  PROVE  \/ call.op = "assign" /\ callback = AssignSteps
         \/ call.op = "prepare" /\ callback = RevokeSteps
         \/ call.op = "cleanup" /\ callback = <<"cleanup">>
<1>1. call # NoCall
  BY DEF NoCall
<1>2. callback # << >> /\ call.op = Head(callback) /\ call.op \in {"assign", "prepare", "cleanup"}
  BY <1>1 DEF CallbackShape, Operations
<1>3. callback \in {AssignSteps, RevokeSteps, Tail(RevokeSteps), <<"cleanup">>}
  BY <1>2 DEF TypeOK, Callbacks
<1> QED
  BY <1>2, <1>3, CallbackFacts

\* Outside a rebalance callback no call waits for the bridge.
LEMMA NoCallOutside ==
  ASSUME CallbackShape, callback = << >> \/ callback = Tail(RevokeSteps)
  PROVE  call = NoCall /\ call.phase = "none"
<1>1. call = NoCall
  BY CallbackFacts DEF CallbackShape, Operations
<1> QED
  BY <1>1 DEF NoCall

\* A call goes from phase to phase with its operation.
LEMMA CallMoves ==
  ASSUME call \in Calls, NEW ph \in {"waiting", "started", "applied", "given_up"},
         call' = [call EXCEPT !.phase = ph]
  PROVE  call' \in Calls /\ call'.op = call.op /\ call'.phase = ph /\ call' # NoCall
  BY DEF Calls, NoCall

\* What only takes and frees the locks, moves the monitor or ends work keeps all of it.
LEMMA OffLoopStep ==
  ASSUME IntakeInv, TypeOK', in_flight' + queued' <= in_flight + queued,
         UNCHANGED <<backpressure_vars, call, pc, batch, ownership, callback>>
  PROVE  IntakeInv'
<1> USE DEF IntakeInv, backpressure_vars, ownership
<1>1. LimitsCoherent' /\ CallbackShape'
  BY DEF LimitsCoherent, CallbackShape
<1>2. OwnershipAgrees' /\ OwnershipDuring'
  BY DEF OwnershipAgrees, OwnershipDuring
<1> DEFINE before == in_flight + queued
           after == in_flight' + queued'
<1>3. before \in Nat /\ after \in Nat /\ after <= before /\ batch \in Nat
  <2>1. in_flight \in Nat /\ queued \in Nat /\ in_flight' \in Nat /\ queued' \in Nat
    BY DEF TypeOK
  <2>2. before \in Nat /\ after \in Nat
    BY <2>1, SumNat, Zenon
  <2>3. batch \in Nat
    BY IntakeBounds DEF TypeOK
  <2> QED
    BY <2>2, <2>3
<1> HIDE DEF before, after
<1>4. NoWorkWithoutTracker'
  <2>1. before = 0 => after = 0
    BY <1>3
  <2> QED
    BY <2>1 DEF NoWorkWithoutTracker, load, before, after
<1>5. LoadBounded'
  <2>1. before <= ConfiguredMaxInFlight + BatchSize => after <= ConfiguredMaxInFlight + BatchSize
    BY <1>3, IntakeBounds
  <2> QED
    BY <2>1 DEF LoadBounded, load, before, after
<1>6. LoadDuringPass'
  <2>1. before <= ConfiguredMaxInFlight => after <= ConfiguredMaxInFlight
    BY <1>3, IntakeBounds
  <2>2. before + batch <= ConfiguredMaxInFlight + BatchSize =>
          after + batch <= ConfiguredMaxInFlight + BatchSize
    BY <1>3, IntakeBounds
  <2> QED
    BY <2>1, <2>2 DEF LoadDuringPass, load, before, after
<1> QED
  BY <1>1, <1>2, <1>4, <1>5, <1>6

\* The monitor takes completions over.
LEMMA MonitorDrainsStep ==
  ASSUME IntakeInv, MonitorDrains
  PROVE  IntakeInv'
<1> DEFINE w == [in_flight |-> in_flight, queued |-> queued]
<1>1. PICK done \in Min({1, in_flight}) .. in_flight : Drained(w, done)
  BY DEF MonitorDrains
<1>2. in_flight \in Nat /\ queued \in Nat /\ limits \in Limits
  BY DEF IntakeInv, TypeOK
<1>3. w.in_flight = in_flight /\ w.queued = queued
  OBVIOUS
<1>4. done \in 0 .. w.in_flight
  <2>1. Min({1, in_flight}) \in Nat
    BY <1>2, MinOfTwo
  <2> QED
    BY <1>2, <1>3, <2>1
<1> HIDE DEF w
<1>5. in_flight' \in Nat /\ queued' \in Nat /\ in_flight' + queued' <= in_flight + queued
  BY <1>1, <1>2, <1>3, <1>4, DrainedLoad
<1>6. TypeOK'
  BY <1>5 DEF IntakeInv, TypeOK, BridgeTypeOK, MonitorDrains, LoopFreesLock, backpressure_vars, ownership
<1> QED
  BY <1>5, <1>6, OffLoopStep DEF MonitorDrains, LoopFreesLock

\* A dispatch adds what was fetched, of a partition that is served.
LEMMA DispatchLoad ==
  ASSUME TypeOK, Dispatch
  PROVE  /\ in_flight' \in Nat /\ queued' \in Nat
         /\ in_flight' + queued' <= load + (IF tracked THEN batch ELSE 0)
<1> DEFINE added == IF tracked THEN batch ELSE 0
           s == Scheduled(in_flight, queued + added)
           w == IF batch = 0 THEN [in_flight |-> in_flight, queued |-> queued] ELSE s
<1>1. PICK done \in 0 .. w.in_flight : Drained(w, done)
  BY DEF Dispatch
<1>2. in_flight \in Nat /\ queued \in Nat /\ limits \in Limits /\ added \in Nat /\ queued + added \in Nat
  BY DEF TypeOK
<1> HIDE DEF added
<1>3. s.in_flight \in Nat /\ s.queued \in Nat /\ s.in_flight + s.queued = in_flight + (queued + added)
  BY <1>2, ScheduledLoad
<1> HIDE DEF s
<1>4. w.in_flight \in Nat /\ w.queued \in Nat /\ w.in_flight + w.queued <= load + added
  BY <1>2, <1>3 DEF load
<1> HIDE DEF w
<1>5. in_flight' \in Nat /\ queued' \in Nat /\ in_flight' + queued' <= w.in_flight + w.queued
  BY <1>1, <1>2, <1>4, DrainedLoad
<1>6. load + added \in Nat
  BY <1>2 DEF load
<1> QED
  BY <1>4, <1>5, <1>6 DEF added

\* The batch is dispatched and completions are drained.
LEMMA DispatchStep ==
  ASSUME IntakeInv, Dispatch
  PROVE  IntakeInv'
<1>1. /\ in_flight \in Nat /\ queued \in Nat /\ in_flight' \in Nat /\ queued' \in Nat /\ batch \in Nat
      /\ in_flight' + queued' <= in_flight + queued + (IF tracked THEN batch ELSE 0)
  BY DispatchLoad, IntakeBounds DEF IntakeInv, TypeOK, load
<1>2. /\ callback = << >> /\ ~failed /\ pc = "dispatch" /\ pc' = "check"
      /\ UNCHANGED <<backpressure_vars, bridge_vars, ownership, callback, guard, monitor>> /\ batch' = 0
  BY DEF IntakeInv, CallbackShape, Dispatch
<1> USE DEF bridge_vars, backpressure_vars, ownership
<1>3. TypeOK'
  BY <1>1, <1>2, IntakeBounds DEF IntakeInv, TypeOK, BridgeTypeOK
<1>4. LimitsCoherent' /\ CallbackShape'
  BY <1>2 DEF IntakeInv, LimitsCoherent, CallbackShape
<1>5. OwnershipAgrees' /\ OwnershipDuring'
  BY <1>2 DEF IntakeInv, OwnershipAgrees, OwnershipDuring
<1> DEFINE before == in_flight + queued
           after == in_flight' + queued'
<1>6. before \in Nat /\ after \in Nat
  BY <1>1, SumNat, Zenon
<1>7. /\ after <= before + (IF tracked THEN batch ELSE 0)
      /\ batch \in Nat
  BY <1>1
<1> HIDE DEF before, after
<1>8. NoWorkWithoutTracker'
  <2>1. ~tracked => before = 0
    BY DEF IntakeInv, NoWorkWithoutTracker, load, before
  <2>2. ~tracked => after = 0
    BY <1>6, <1>7, <2>1
  <2> QED
    BY <1>2, <2>2, CallbackFacts DEF NoWorkWithoutTracker, load, after
<1>9. LoadBounded' /\ LoadDuringPass'
  <2>1. tracked /\ (is_paused => client_paused) =>
          before + batch <= ConfiguredMaxInFlight + BatchSize
    BY <1>2 DEF IntakeInv, LoadDuringPass, load, before
  <2>2. tracked /\ (is_paused => client_paused) => after <= ConfiguredMaxInFlight + BatchSize
    BY <1>6, <1>7, <2>1, IntakeBounds
  <2> QED
    BY <1>2, <2>2 DEF LoadBounded, LoadDuringPass, load, after
<1> QED
  BY <1>3, <1>4, <1>5, <1>8, <1>9 DEF IntakeInv

\* A thread takes the guard and calls consume().
LEMMA EnterConsumeStep ==
  ASSUME IntakeInv, EnterConsume
  PROVE  IntakeInv'
<1> USE CallbackFacts DEF IntakeInv, EnterConsume, bridge_vars, backpressure_vars, work, ownership
<1>1. TypeOK'
  BY DEF TypeOK, BridgeTypeOK
<1>2. LimitsCoherent' /\ CallbackShape'
  BY DEF TypeOK, BridgeTypeOK, LimitsCoherent, CallbackShape
<1>3. OwnershipAgrees'
  BY DEF TypeOK, CallbackShape, OwnershipAgrees, OwnershipDuring
<1>4. OwnershipDuring'
  BY DEF TypeOK, CallbackShape, OwnershipAgrees, OwnershipDuring
<1>5. NoWorkWithoutTracker'
  BY DEF TypeOK, CallbackShape, NoWorkWithoutTracker, load
<1>6. LoadBounded' /\ LoadDuringPass'
  BY DEF TypeOK, CallbackShape, LoadBounded, LoadDuringPass, load
<1> QED
  BY <1>1, <1>2, <1>3, <1>4, <1>5, <1>6

\* consume() returns a batch while the client is not paused.
LEMMA ConsumeReturnsStep ==
  ASSUME IntakeInv, ConsumeReturns
  PROVE  IntakeInv'
<1> USE CallbackFacts DEF IntakeInv, ConsumeReturns, bridge_vars, backpressure_vars, work, ownership
<1>1. TypeOK'
  BY IntakeBounds DEF TypeOK, BridgeTypeOK
<1>2. LimitsCoherent' /\ CallbackShape'
  BY DEF TypeOK, BridgeTypeOK, LimitsCoherent, CallbackShape
<1>3. OwnershipAgrees'
  BY DEF TypeOK, CallbackShape, OwnershipAgrees, OwnershipDuring
<1>4. OwnershipDuring'
  BY DEF TypeOK, CallbackShape, OwnershipAgrees, OwnershipDuring
<1>5. NoWorkWithoutTracker'
  BY DEF TypeOK, CallbackShape, NoWorkWithoutTracker, load
<1>6. LoadBounded' /\ LoadDuringPass'
  <2>1. batch' \in 0 .. BatchSize /\ (client_paused => batch' = 0)
    BY IntakeBounds DEF TypeOK
  <2>2. in_flight' + queued' = load /\ load \in Nat
    BY DEF TypeOK, load
  <2>3. tracked /\ (is_paused => client_paused) =>
          load <= ConfiguredMaxInFlight + BatchSize /\ (~is_paused => load <= ConfiguredMaxInFlight)
    BY DEF LoadBounded, LoadDuringPass
  <2>4. tracked /\ (is_paused => client_paused) =>
          load + batch' <= ConfiguredMaxInFlight + BatchSize
    <3>1. CASE client_paused
      BY <2>1, <2>2, <2>3, <3>1
    <3>2. CASE ~client_paused
      <4>1. batch' \in Nat /\ batch' <= BatchSize /\ load \in Nat
        BY <2>1, <2>2, IntakeBounds
      <4>2. tracked /\ (is_paused => client_paused) => load <= ConfiguredMaxInFlight
        BY <2>3, <3>2
      <4> QED
        BY <4>1, <4>2, IntakeBounds, SumBound
    <3> QED
      BY <3>1, <3>2
  <2> QED
    BY <2>2, <2>3, <2>4 DEF LoadBounded, LoadDuringPass, load
<1> QED
  BY <1>1, <1>2, <1>3, <1>4, <1>5, <1>6

\* The backpressure pass pauses or resumes, and adapts the limits.
LEMMA CheckStep ==
  ASSUME IntakeInv, Check
  PROVE  IntakeInv'
<1>1. PICK sample \in Sample :
        LET l == MaybeAdjustAdaptiveConcurrency(
                   MaybeAdjustAdaptiveBackpressure(limits, queued, sample),
                   in_flight, queued, sample)
        IN  /\ limits' = l
            /\ is_paused' = IF NothingToCheck(l, in_flight, queued) THEN is_paused
                            ELSE CheckRuntimeBackpressure(l, in_flight, queued, client_assigned)
            /\ client_paused' = IF is_paused' # is_paused THEN is_paused' ELSE client_paused
            /\ UNCHANGED adaptive
  BY DEF Check, CheckBackpressure
<1> DEFINE l == MaybeAdjustAdaptiveConcurrency(
                  MaybeAdjustAdaptiveBackpressure(limits, queued, sample),
                  in_flight, queued, sample)
<1>2. l \in Limits /\ CoherentLimits(l)
  <2>1. limits \in Limits /\ CoherentLimits(limits)
    BY DEF IntakeInv, TypeOK, LimitsCoherent, CoherentLimits
  <2> QED
    BY <2>1, AdjustBackpressureCoherent, AdjustConcurrencyCoherent
<1>3. /\ limits' = l
      /\ is_paused' = IF NothingToCheck(l, in_flight, queued) THEN is_paused
                      ELSE CheckRuntimeBackpressure(l, in_flight, queued, client_assigned)
      /\ client_paused' = IF is_paused' # is_paused THEN is_paused' ELSE client_paused
      /\ UNCHANGED adaptive
  BY <1>1
<1> HIDE DEF l
<1>4. /\ pc = "check" /\ pc' = "consume" /\ callback = << >> /\ ~failed
      /\ UNCHANGED <<bridge_vars, work, ownership, callback, guard, monitor>>
  BY DEF Check, IntakeInv, CallbackShape
<1>5. tracked = client_assigned
  BY <1>4 DEF IntakeInv, OwnershipAgrees
<1>6. is_paused \in BOOLEAN /\ is_paused' \in BOOLEAN /\ client_paused' \in BOOLEAN
  BY <1>3 DEF IntakeInv, TypeOK, CheckRuntimeBackpressure
<1> DEFINE total == in_flight + queued
<1>7. total \in Nat
  BY DEF IntakeInv, TypeOK
<1>8. l.current \in Nat /\ l.resume \in Nat /\ l.resume <= l.current /\ l.current <= ConfiguredMaxInFlight
  BY <1>2, IntakeBounds DEF Limits, CoherentLimits
\* A flag that is down after the check says that the load is within the limit.
<1>9. tracked /\ ~is_paused' => total <= ConfiguredMaxInFlight
  <2> SUFFICES ASSUME tracked, ~is_paused' PROVE total <= ConfiguredMaxInFlight
    OBVIOUS
  <2>1. CASE NothingToCheck(l, in_flight, queued)
    BY <1>7, <1>8, <2>1, IntakeBounds DEF NothingToCheck
  <2>2. CASE ~NothingToCheck(l, in_flight, queued)
    <3>1. ~CheckRuntimeBackpressure(l, in_flight, queued, client_assigned)
      BY <1>3, <2>2
    <3>2. total <= l.current
      BY <1>5, <1>7, <1>8, <3>1 DEF CheckRuntimeBackpressure
    <3> QED
      BY <1>7, <1>8, <3>2, IntakeBounds
  <2> QED
    BY <2>1, <2>2
<1>10. tracked /\ (is_paused' => client_paused') => total <= ConfiguredMaxInFlight + BatchSize
  <2>1. CASE ~is_paused'
    BY <1>7, <1>9, <2>1, IntakeBounds
  <2>2. CASE is_paused'
    <3>1. (is_paused' => client_paused') => (is_paused => client_paused)
      BY <1>3, <1>6, <2>2
    <3> QED
      BY <3>1 DEF IntakeInv, LoadBounded, load
  <2> QED
    BY <2>1, <2>2
<1> HIDE DEF total
<1> USE DEF bridge_vars, work, ownership
<1>11. TypeOK'
  BY <1>2, <1>3, <1>4, <1>6 DEF IntakeInv, TypeOK, BridgeTypeOK
<1>12. LimitsCoherent' /\ CallbackShape'
  BY <1>2, <1>3, <1>4 DEF IntakeInv, LimitsCoherent, CoherentLimits, CallbackShape
<1>13. OwnershipAgrees' /\ OwnershipDuring' /\ NoWorkWithoutTracker'
  BY <1>4 DEF IntakeInv, OwnershipAgrees, OwnershipDuring, NoWorkWithoutTracker, load
<1>14. LoadBounded' /\ LoadDuringPass'
  BY <1>4, <1>9, <1>10 DEF LoadBounded, LoadDuringPass, load, total
<1> QED
  BY <1>11, <1>12, <1>13, <1>14 DEF IntakeInv
===============================================================================
