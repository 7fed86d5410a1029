----------------------------- MODULE AtLeastOnce -----------------------------
(***************************************************************************)
(* What the consumer promises of one partition, whatever threads, commits  *)
(* and rebalances it is made of: a handled offset stays handled, and the   *)
(* committed position only ever moves to a place below which every offset  *)
(* is handled.  It may move back (records are then handled again); it may  *)
(* never pass an offset that was not handled.                              *)
(***************************************************************************)
EXTENDS Integers

CONSTANTS MaxOffset, Start

VARIABLES
  handled,    \* offsets that succeeded or were disposed of by the failure policy
  committed   \* the position a restarted consumer resumes from

Init ==
  /\ handled = 0 .. (Start - 1)
  /\ committed = Start

Handle ==
  /\ \E o \in 0 .. MaxOffset : handled' = handled \cup {o}
  /\ UNCHANGED committed

Commit ==
  /\ committed' \in {n \in 0 .. MaxOffset + 1 : 0 .. (n - 1) \subseteq handled}
  /\ UNCHANGED handled

Next == Handle \/ Commit

Spec == Init /\ [][Next]_<<handled, committed>>
=============================================================================
