-------------------------- MODULE MCConsumerRuntime --------------------------
(* Values for model checking ConsumerRuntime. *)
EXTENDS ConsumerRuntime

TwoRecords == <<1, 2>>

BothPolicies == {"graceful", "abort"}

AllFaults == {"start", "fatal", "publish", "commit", "close", "blocking"}
=============================================================================
