--------------------------- MODULE RebalanceBridge ---------------------------
(***************************************************************************)
(* The bounded bridge from a rebalance callback, which runs on the thread  *)
(* of consume(), to the event loop, where the state it changes lives       *)
(* (broker_rebalance_bridge.py).                                           *)
(*                                                                         *)
(* The callback thread schedules a coroutine and waits for it with a       *)
(* timeout.  The coroutine needs the control lock; once it has it, it      *)
(* marks the call started and mutates without an await.  A timeout gives   *)
(* the call up only if it has not started, and a call that was given up    *)
(* must not mutate when it gets the lock at last.                          *)
(***************************************************************************)
EXTENDS Integers

VARIABLES
  control_lock,   \* "free", "loop" (the monitor or a dispatch) or "bridge"
  call,           \* the bridge call the callback thread waits for
  abandoned       \* operations given up whose coroutine still waits for the lock

bridge_vars == <<control_lock, call, abandoned>>

Operations == {"assign", "prepare", "cleanup"}

Calls == [op : Operations \cup {"none"},
          phase : {"none", "waiting", "started", "applied", "given_up"}]

NoCall == [op |-> "none", phase |-> "none"]

BridgeTypeOK ==
  /\ control_lock \in {"free", "loop", "bridge"}
  /\ call \in Calls
  /\ abandoned \subseteq Operations

InitBridge ==
  /\ control_lock = "free"
  /\ call = NoCall
  /\ abandoned = {}

\* run_coroutine_threadsafe: the callback thread hands op over and waits.
CallBridge(op) ==
  /\ call = NoCall
  /\ call' = [op |-> op, phase |-> "waiting"]
  /\ UNCHANGED <<control_lock, abandoned>>

\* The coroutine gets the control lock and mark_started succeeds.
MarkStarted ==
  /\ call.phase = "waiting"
  /\ control_lock = "free"
  /\ control_lock' = "bridge"
  /\ call' = [call EXCEPT !.phase = "started"]
  /\ UNCHANGED abandoned

\* The synchronous mutation has run: the lock is free and the result is set.
Applied ==
  /\ call.phase = "started"
  /\ control_lock' = "free"
  /\ call' = [call EXCEPT !.phase = "applied"]
  /\ UNCHANGED abandoned

\* future.result(timeout) expires.  cancel_if_not_started refuses a call that
\* has started, and the callback then waits for it without a bound, which is
\* the step Applied; any other call is given up and its future cancelled.
TimeOut ==
  /\ call.phase = "waiting"
  /\ call' = [call EXCEPT !.phase = "given_up"]
  /\ abandoned' = abandoned \cup {call.op}
  /\ UNCHANGED control_lock

\* The callback thread has its answer.
BridgeReturns ==
  /\ call.phase \in {"applied", "given_up"}
  /\ call' = NoCall
  /\ UNCHANGED <<control_lock, abandoned>>

\* The coroutine of an abandoned call gets the lock, or its cancellation first:
\* mark_started refuses it and it ends without a mutation.
DropAbandoned(op) ==
  /\ op \in abandoned
  /\ abandoned' = abandoned \ {op}
  /\ UNCHANGED <<control_lock, call>>

\* The completion monitor holds the control lock across its awaits, a DLQ
\* publish or a blocked submit among them.
LoopTakesLock ==
  /\ control_lock = "free"
  /\ control_lock' = "loop"
  /\ UNCHANGED <<call, abandoned>>

LoopFreesLock ==
  /\ control_lock = "loop"
  /\ control_lock' = "free"
  /\ UNCHANGED <<call, abandoned>>
=============================================================================
