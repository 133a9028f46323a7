--------------------------- MODULE MCFoundryLedger ---------------------------
(* FoundryLedger on small instances for TLC. *)
EXTENDS FoundryLedger, FiniteSets, TLC

CONSTANTS k, end   \* an event, and one that ends its run

\* Processes are interchangeable, and so are runs.
MCSymmetry == Permutations(Procs) \cup Permutations(Runs)

MCTouched == {r \in Runs : log[r] # <<>> \/ \E p \in Procs : job[p].run = r}
MCCalled(ops) == \E p \in Procs : job[p].op \in ops
MCOnlyEnds ==
  /\ \A r \in Runs : \A i \in DOMAIN log[r] : log[r][i] # k
  /\ \A p \in Procs : job[p].key # k

MCOneRun == Cardinality(MCTouched) <= 1

\* Bounds: there is one run with any event and every call, or there are several
\* whose only event ends them, without the rebuild of the index.  After the
\* crash a run gets one event after its acceptance, and nobody makes a call
\* that only reads, for locks left behind do not stop a reader.  After a theft
\* of a lock, when the store promises little of two runs, a second one is
\* followed only until one of them is indexed.
MCBounds ==
  /\ MCOneRun \/ (MCOnlyEnds /\ ~MCCalled({"rebuild"}))
  /\ crashes > 0 =>
       /\ ~MCCalled({"read", "list"})
       /\ \A r \in Runs : Len(log[r]) <= 2
  /\ stolen => MCOneRun \/ \A r \in Runs : index[r] = <<>>
=============================================================================
