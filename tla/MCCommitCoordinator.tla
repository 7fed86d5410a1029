------------------------- MODULE MCCommitCoordinator -------------------------
(* Values for model checking CommitCoordinator. *)
EXTENDS CommitCoordinator

CONSTANTS p1, p2

TwoPartitions == {p1, p2}

AllFaults == {"kafka", "crash", "callback", "revoke"}
=============================================================================
