\* Cancels without faults: what the ledger cancellation leaves running.
SPECIFICATION Spec
CONSTANTS
  Main = Main
  c1 = c1
  c2 = c2
  d1 = d1
  Cancels = {c1, c2}
  Decisions = {d1}
  Instances <- MCHealthyInstances
CHECK_DEADLOCK FALSE
INVARIANT CancelStopsProvider
