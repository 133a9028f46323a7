\* Two processes, one run with any event or two that only end, one crash, every call.
SPECIFICATION Spec
CONSTANTS
  Procs = {p1, p2}
  Runs = {r1, r2}
  Files = {r1, r2, Target, Index}
  Target = Target
  Index = Index
  Free = Free
  Dead = Dead
  NoFile = NoFile
  NoRun = NoRun
  Accept = Accept
  k = k
  end = end
  Keys = {k, end}
  Ends = {end}
  Calls = {"create", "append", "read", "list", "rebuild"}
  MaxCrashes = 1
SYMMETRY MCSymmetry
INVARIANTS TypeOK MutualExclusion AckedIsIndexed IndexFollowsLog OneActiveRun WriterRepairs NoFalseConflict
PROPERTIES RunLogSpec RefusedOnlyWhenBusy
CONSTRAINT MCBounds
