\* One run with an owner and a fault, or of three generations; two or three runs.
SPECIFICATION Spec
CONSTANTS
  p1 = p1
  p2 = p2
  r1 = r1
  r2 = r2
  r3 = r3
  Procs = {p1, p2}
  Runs = {r1, r2, r3}
  NoRun = NoRun
  NoVersion = NoVersion
  NoReceipt = NoReceipt
  Instances <- MCInstances
SYMMETRY MCSymmetry
CHECK_DEADLOCK FALSE
INVARIANTS TypeOK ActivatedWasEarned RunAndSwitchAgree LogHolds FailureHasCause ImprovesItsBaseline
