---------------------------- MODULE MCFoundryKernel ----------------------------
(* FoundryKernel on small instances for TLC. *)
EXTENDS FoundryKernel, TLC
CONSTANTS p1, p2, r1, r2, r3

\* Processes and runs are interchangeable.
MCSymmetry == Permutations(Procs) \cup Permutations(Runs)

\* One run and one process that starts and advances it.
MCOne ==
  [procs |-> {p1}, runs |-> {r1}, qualify |-> {}, tiers |-> {"low"}, scores |-> {1},
   generations |-> 0, calls |-> {"start", "advance"}, switches |-> 1, overlaps |-> 0,
   faults |-> 0, failing |-> FALSE]

\* Two processes, every risk tier, an owner, one fault.
MCOwned ==
  [MCOne EXCEPT !.procs = {p1, p2}, !.tiers = {"low", "medium", "high"},
     !.calls = {"start", "advance", "decide", "cancel", "fail"}, !.overlaps = 2, !.faults = 1]
\* Generations, scores, a canary's regression, failing providers.
MCEvolving ==
  [MCOne EXCEPT !.tiers = {"low", "high"}, !.scores = {1, 2}, !.generations = 2,
     !.calls = {"start", "advance", "decide", "fail"}, !.failing = TRUE]

\* Two runs of one target, attempts of a failed run still at work.
MCTwo ==
  [MCOne EXCEPT !.procs = {p1, p2}, !.runs = {r1, r2},
     !.calls = {"start", "advance", "fail"}, !.switches = 2, !.overlaps = 1]
\* Three runs, one of them only to qualify, a crash, and an owner who cancels
\* and rolls back.
MCThree ==
  [MCOne EXCEPT !.runs = {r1, r2, r3}, !.qualify = {r3},
     !.calls = {"start", "advance", "cancel", "rollback"}, !.switches = 4, !.faults = 1]
MCInstances == {MCOwned, MCEvolving, MCTwo, MCThree}

\* One contended lock, or one lost answer.
MCFaulty == [MCOne EXCEPT !.tiers = {"high"}, !.calls = {"start", "advance", "fail"}, !.faults = 1]
MCFaultyInstances == {MCFaulty}
=============================================================================
