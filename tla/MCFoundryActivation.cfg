\* Two processes or rollbacks, two versions, two or three switches, one crash.
SPECIFICATION Spec
CONSTANTS
  p1 = p1
  p2 = p2
  c1 = c1
  c2 = c2
  e1 = e1
  e2 = e2
  Procs = {p1, p2}
  MaxCrashes = 1
  Files = {Registry}
  Registry = Registry
  Free = Free
  Dead = Dead
  NoFile = NoFile
  Candidates = {c1, c2}
  Evidences = {e1, e2}
  Receipts = {o1}
  NoReceipt = NoReceipt
  NoVersion = NoVersion
  Instances <- MCInstances
SYMMETRY MCSymmetry
INVARIANTS TypeOK OutcomesHold ReadersAgree
PROPERTY RegisterSpec
