-------------------------- MODULE MCProcessEngine --------------------------
(* Values for model checking ProcessEngine. *)
EXTENDS ProcessEngine

Item(off) == [off |-> off, ep |-> 0]

\* One worker.
OneWorker == {1}

AllToOne == [off \in 0 .. 1 |-> 1]

\* A route batch of two records.
BatchOnly == <<[batch |-> TRUE, items |-> <<Item(0), Item(1)>>]>>

BothOutcomes == BOOLEAN
=============================================================================
