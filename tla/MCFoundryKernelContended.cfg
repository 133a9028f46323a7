\* One run, one contended lock.
SPECIFICATION Spec
CONSTANTS
  p1 = p1
  p2 = p2
  r1 = r1
  r2 = r2
  r3 = r3
  Procs = {p1, p2}
  Runs = {r1}
  NoRun = NoRun
  NoVersion = NoVersion
  NoReceipt = NoReceipt
  Instances <- MCFaultyInstances
SYMMETRY MCSymmetry
CHECK_DEADLOCK FALSE
INVARIANTS QuarantineNeedsOutput
