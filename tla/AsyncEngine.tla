----------------------------- MODULE AsyncEngine -----------------------------
(***************************************************************************)
(* AsyncExecutionEngine: one asyncio task per record under a semaphore.    *)
(*                                                                         *)
(* A task is present from submit until its done callback has run; its      *)
(* value is the attempt it is at, or Finished between its end and the      *)
(* callback, when the completion is already visible and the permit is not  *)
(* yet back.  engine_events is the completion queue with the events        *)
(* wait_for_completion prefetched in front.                                *)
(***************************************************************************)
EXTENDS Integers, Sequences, FiniteSets, TLC

CONSTANTS
  MaxInFlight,    \* permits of the semaphore, and the scheduler's limit
  MaxRetries      \* attempts of an execution and of a dead-letter publish

VARIABLES semaphore, in_flight_tasks, engine_events, engine_shutdown

engine_vars == <<semaphore, in_flight_tasks, engine_events, engine_shutdown>>

Finished == 0

Executing == {o \in DOMAIN in_flight_tasks : in_flight_tasks[o] # Finished}

CompletionEvent(o, status, attempt) == [offset |-> o, status |-> status, attempt |-> attempt]

InitEngine ==
  /\ semaphore = MaxInFlight
  /\ in_flight_tasks = << >>
  /\ engine_events = << >>
  /\ engine_shutdown = FALSE

\* submit once the semaphore has a permit; the shutdown flag was tested before
\* the wait and is not tested again.
Submit(o) ==
  /\ semaphore > 0
  /\ semaphore' = semaphore - 1
  /\ in_flight_tasks' = in_flight_tasks @@ (o :> 1)
  /\ UNCHANGED <<engine_events, engine_shutdown>>

Complete(o, status) ==
  /\ engine_events' = Append(engine_events, CompletionEvent(o, status, in_flight_tasks[o]))
  /\ in_flight_tasks' = [in_flight_tasks EXCEPT ![o] = Finished]
  /\ UNCHANGED <<semaphore, engine_shutdown>>

\* Mutant: the last attempt is repeated.
AttemptFailsAgain(o) ==
  /\ o \in Executing
  /\ in_flight_tasks' = [in_flight_tasks EXCEPT ![o] = IF @ < MaxRetries THEN @ + 1 ELSE 1]
  /\ UNCHANGED <<semaphore, engine_events, engine_shutdown>>

\* The worker function raised or timed out: back off and try again, or give up.
AttemptFails(o) ==
  /\ o \in Executing
  /\ IF in_flight_tasks[o] < MaxRetries
     THEN /\ in_flight_tasks' = [in_flight_tasks EXCEPT ![o] = @ + 1]
          /\ UNCHANGED <<semaphore, engine_events, engine_shutdown>>
     ELSE Complete(o, "FAILURE")

AttemptSucceeds(o) == o \in Executing /\ Complete(o, "SUCCESS")

\* Mutant: only a task that was not cancelled gives its permit back.
TaskDoneUnlessShutdown(o) ==
  /\ o \in DOMAIN in_flight_tasks /\ in_flight_tasks[o] = Finished
  /\ in_flight_tasks' = [x \in DOMAIN in_flight_tasks \ {o} |-> in_flight_tasks[x]]
  /\ semaphore' = IF engine_shutdown THEN semaphore ELSE semaphore + 1
  /\ UNCHANGED <<engine_events, engine_shutdown>>

\* _task_done_callback, an iteration of the event loop after the task's end.
TaskDoneCallback(o) ==
  /\ o \in DOMAIN in_flight_tasks /\ in_flight_tasks[o] = Finished
  /\ in_flight_tasks' = [x \in DOMAIN in_flight_tasks \ {o} |-> in_flight_tasks[x]]
  /\ semaphore' = semaphore + 1
  /\ UNCHANGED <<engine_events, engine_shutdown>>

PollCompletedEvents == engine_events' = << >>

\* wait_for_completion would return TRUE at once.
CompletionReady == engine_events # << >>

BeginShutdown ==
  /\ engine_shutdown' = TRUE
  /\ UNCHANGED <<semaphore, in_flight_tasks, engine_events>>

\* The grace period is over: what still executes is cancelled, without a
\* completion.
CancelPending ==
  /\ engine_shutdown
  /\ Executing # {}
  /\ in_flight_tasks' = [o \in DOMAIN in_flight_tasks |-> Finished]
  /\ UNCHANGED <<semaphore, engine_events, engine_shutdown>>

ShutdownComplete == DOMAIN in_flight_tasks = {}

\* The semaphore's permits and the tasks that hold one make up the limit, however
\* a task ends: success, last failure or cancellation (async_engine.py:154).
PermitsConserved == semaphore + Cardinality(DOMAIN in_flight_tasks) = MaxInFlight
=============================================================================
