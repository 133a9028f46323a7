------------------------- MODULE MCStageRunRecovery -------------------------
(* StageRunRecovery on a small instance for TLC. *)
EXTENDS StageRunRecovery, TLC

\* The producer's resume, bare, with the reviewer's snapshot and with another
\* debt reference, and the resume of the attempt after it.
MCResume == [id : {1}, snapshot : BOOLEAN, debts : {0}]
            \cup [id : {1}, snapshot : {FALSE}, debts : {1}]
            \cup [id : {2}, snapshot : {FALSE}, debts : {0}]

\* Operators are interchangeable.
MCSymmetry == Permutations(Operators)
=============================================================================
