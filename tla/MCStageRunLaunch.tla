-------------------------- MODULE MCStageRunLaunch --------------------------
(* StageRunLaunch on a small instance for TLC. *)
EXTENDS StageRunLaunch, TLC

\* Outcomes a workflow decides: one that spells like a Temporal status and one
\* that does not, which is what makes the two closers of a row disagree.
MCOutcomes == {"completed", "blocked"}

\* Callers are interchangeable, and so are specs.
MCSymmetry == Permutations(Launchers) \cup Permutations(Specs)
=============================================================================
