----------------------------- MODULE Backpressure -----------------------------
(***************************************************************************)
(* The in-flight limit of the consumer loop and the pause flag that follows *)
(* it (broker_backpressure_support.py, adaptive_backpressure.py,            *)
(* adaptive_concurrency.py, BrokerRuntimeSupport.check_backpressure).       *)
(*                                                                          *)
(* Clocks and rates are the environment's: a sample says whether each       *)
(* controller is still cooling down, the lag and the completion latency.    *)
(***************************************************************************)
EXTENDS Integers, FiniteSetsExt

CONSTANTS
  ConfiguredMaxInFlight,  \* execution.max_in_flight
  QueueMaxMessages,       \* queue_max_messages; 0 is no ceiling
  BackpressureMin,        \* adaptive_backpressure.min_in_flight
  ConcurrencyMin,         \* adaptive_concurrency.min_in_flight
  ScaleUpStep,
  ScaleDownStep,
  LagScaleUpThreshold,    \* adaptive_backpressure.lag_scale_up_threshold
  AdaptiveModes,          \* which controllers are enabled, chosen at the start
  Lags                    \* values of the total true lag

ASSUME BackpressureAssumption ==
  /\ ConfiguredMaxInFlight \in Nat \ {0}
  /\ {QueueMaxMessages, BackpressureMin, ConcurrencyMin, LagScaleUpThreshold} \subseteq Nat
  /\ {ScaleUpStep, ScaleDownStep} \subseteq Nat \ {0}
  /\ AdaptiveModes \subseteq SUBSET {"backpressure", "concurrency"}
  /\ Lags \subseteq Nat

VARIABLES
  adaptive,       \* the enabled controllers; never changes
  limits,         \* the live limits, see Limits
  is_paused,      \* BrokerPoller._is_paused
  client_paused   \* whether the client has paused the assigned partition

backpressure_vars == <<adaptive, limits, is_paused, client_paused>>

\* current is MAX_IN_FLIGHT_MESSAGES, resume MIN_IN_FLIGHT_MESSAGES_TO_RESUME,
\* scheduler the limit WorkManager schedules under and effective the limit the
\* backpressure controller keeps for itself.
Limits ==
  [current : 1 .. ConfiguredMaxInFlight, resume : Nat,
   scheduler : 1 .. ConfiguredMaxInFlight, effective : 1 .. ConfiguredMaxInFlight]

Sample ==
  [cooling : SUBSET {"backpressure", "concurrency"}, lag : Lags,
   latency : {"low", "between", "high", "unknown"}]

Clamp(value) == Max({1, Min({ConfiguredMaxInFlight, value})})

\* 70% of the limit, at least one.
ResumeLimit(limit) == Max({1, (limit * 7) \div 10})

QueueResumeThreshold == (QueueMaxMessages * 7) \div 10

BackpressureMinInFlight == Clamp(BackpressureMin)

\* _resolve_min_in_flight: zero asks for a quarter of the configured limit.
ConcurrencyMinInFlight ==
  IF ConcurrencyMin = 0 THEN Max({1, ConfiguredMaxInFlight \div 4}) ELSE Clamp(ConcurrencyMin)

InitBackpressure ==
  /\ adaptive \in AdaptiveModes
  /\ limits = [current   |-> ConfiguredMaxInFlight,
               resume    |-> ResumeLimit(ConfiguredMaxInFlight),
               scheduler |-> ConfiguredMaxInFlight,
               effective |-> ConfiguredMaxInFlight]
  /\ is_paused = FALSE
  /\ client_paused = FALSE

QueueFull(queued) == QueueMaxMessages > 0 /\ queued >= QueueMaxMessages

SetRuntimeMaxInFlight(l, value) ==
  [current   |-> Clamp(value),
   resume    |-> ResumeLimit(Clamp(value)),
   scheduler |-> IF l.current # Clamp(value) THEN Clamp(value) ELSE l.scheduler,
   effective |-> l.effective]

\* Mutant: the pause is no reason against more.
EvaluateBackpressurePaused(effective, queued, sample) ==
  CASE "backpressure" \in sample.cooling -> effective
    [] "backpressure" \notin sample.cooling /\ sample.latency = "high" ->
         Max({BackpressureMinInFlight, effective - ScaleDownStep})
    [] OTHER -> Min({ConfiguredMaxInFlight, effective + ScaleUpStep})

\* AdaptiveBackpressureController.evaluate: the controller's next own limit.
EvaluateBackpressure(effective, queued, sample) ==
  LET scale_down == is_paused \/ sample.latency = "high"
      scale_up   == /\ sample.lag >= LagScaleUpThreshold
                    /\ ~is_paused /\ queued = 0 /\ sample.latency = "low"
      cooling    == "backpressure" \in sample.cooling
  IN  CASE ~cooling /\ scale_down -> Max({BackpressureMinInFlight, effective - ScaleDownStep})
        [] ~cooling /\ ~scale_down /\ scale_up ->
             Min({ConfiguredMaxInFlight, effective + ScaleUpStep})
        [] OTHER -> effective

MaybeAdjustAdaptiveBackpressure(l, queued, sample) ==
  IF "backpressure" \notin adaptive THEN l
  ELSE LET new_limit == EvaluateBackpressure(l.effective, queued, sample)
           evaluated == [l EXCEPT !.effective = new_limit]
       IN  IF new_limit = l.current THEN evaluated
           ELSE SetRuntimeMaxInFlight(evaluated, new_limit)

\* AdaptiveConcurrencyController.evaluate: the current limit stands for None.
EvaluateConcurrency(current, in_flight, queued, sample) ==
  IF is_paused \/ QueueFull(queued) \/ in_flight + queued > current
  THEN Max({ConcurrencyMinInFlight, current - ScaleDownStep})
  ELSE IF sample.lag >= current /\ queued = 0
  THEN Min({ConfiguredMaxInFlight, current + ScaleUpStep})
  ELSE current

MaybeAdjustAdaptiveConcurrency(l, in_flight, queued, sample) ==
  LET new_limit == EvaluateConcurrency(l.current, in_flight, queued, sample)
  IN  IF "concurrency" \notin adaptive \ sample.cooling \/ new_limit = l.current THEN l
      ELSE SetRuntimeMaxInFlight(l, new_limit)

\* Mutant: queued records are not counted.
CheckRuntimeInFlightOnly(l, in_flight, queued, assigned) ==
  IF ~assigned THEN is_paused
  ELSE IF ~is_paused THEN in_flight > l.current \/ QueueFull(queued)
  ELSE ~(in_flight < l.resume)

\* BrokerRuntimeSupport.check_backpressure: the flag after the check.  Without
\* an assignment there is nothing to pause or resume.
CheckRuntimeBackpressure(l, in_flight, queued, assigned) ==
  LET load == in_flight + queued
  IN  IF ~assigned THEN is_paused
      ELSE IF ~is_paused THEN load > l.current \/ QueueFull(queued)
      ELSE ~(/\ load < l.resume
             /\ QueueResumeThreshold = 0 \/ queued <= QueueResumeThreshold)

\* Nothing to do: no controller, not paused and below every ceiling.
NothingToCheck(l, in_flight, queued) ==
  adaptive = {} /\ ~is_paused /\ ~QueueFull(queued) /\ in_flight + queued <= l.current

\* BrokerBackpressureSupport.check_backpressure.  The client is told only of
\* changes of the flag.
CheckBackpressure(in_flight, queued, assigned) ==
  \E sample \in Sample :
    LET l == MaybeAdjustAdaptiveConcurrency(
               MaybeAdjustAdaptiveBackpressure(limits, queued, sample),
               in_flight, queued, sample)
    IN  /\ limits' = l
        /\ is_paused' = IF NothingToCheck(l, in_flight, queued) THEN is_paused
                        ELSE CheckRuntimeBackpressure(l, in_flight, queued, assigned)
        /\ client_paused' = IF is_paused' # is_paused THEN is_paused' ELSE client_paused
        /\ UNCHANGED adaptive
=============================================================================
