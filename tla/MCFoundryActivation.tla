-------------------------- MODULE MCFoundryActivation --------------------------
(* FoundryActivation on small instances for TLC. *)
EXTENDS FoundryActivation, TLC
CONSTANTS p1, p2, c1, c2, e1, e2

\* Processes, candidates, what they are registered with and receipts are
\* interchangeable.
MCSymmetry ==
  Permutations(Procs) \cup Permutations(Candidates) \cup Permutations(Evidences)
    \cup Permutations(Receipts)

\* Two processes, two versions, two switches, one crash.
MCSwitching ==
  [procs |-> {p1, p2}, versions |-> [candidate: {c1, c2}, evidence: {e1}],
   calls |-> {"register", "activate"}, switches |-> 2, crashes |-> 1]
\* One process that may also roll back and read, three switches, one crash.
MCRollback ==
  [MCSwitching EXCEPT !.procs = {p1}, !.switches = 3,
     !.calls = {"register", "activate", "rollback", "activation", "read"}]
\* Two processes, registrations with other evidence, readers without the lock.
MCReading ==
  [MCSwitching EXCEPT !.versions = [candidate: {c1}, evidence: {e1, e2}] \cup [candidate: {c2}, evidence: {e1}],
     !.calls = {"register", "activate", "activation", "read"}, !.switches = 1]
MCInstances == {MCSwitching, MCRollback, MCReading}
=============================================================================
