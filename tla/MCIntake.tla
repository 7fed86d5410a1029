------------------------------- MODULE MCIntake -------------------------------
(* Values for model checking Intake. *)
EXTENDS Intake

\* No controller, each of them, and both.
AllAdaptiveModes == SUBSET {"backpressure", "concurrency"}

\* Below and above every threshold.
LowAndHigh == {0, 3}
=============================================================================
