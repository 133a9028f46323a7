--------------------------- MODULE MCFoundryWorkflow ---------------------------
(* Small instances of FoundryWorkflow. *)
EXTENDS FoundryWorkflow

CONSTANTS c1, c2, d1

\* Two cancels race with each other over a provider operation that hops.
MCCancels == [updates |-> {c1, c2}, stages |-> 2, observations |-> 2, diagnoses |-> 0, faults |-> 0]

\* A cancel and an owner decision on a run of two generations, with a fault.
MCOwner == [updates |-> {c1, d1}, stages |-> 2, observations |-> 2, diagnoses |-> 1, faults |-> 1]

\* One cancel and two faults, so that the repair of a failure can fail.
MCFaulty == [updates |-> {c1}, stages |-> 2, observations |-> 2, diagnoses |-> 0, faults |-> 2]

\* One cancel, nothing fails, and a provider operation is one StageRun.
MCHealthy == [updates |-> {c1}, stages |-> 1, observations |-> 2, diagnoses |-> 1, faults |-> 0]

MCInstances == {MCCancels, MCOwner, MCFaulty}
MCHealthyInstances == {MCHealthy}

=============================================================================
