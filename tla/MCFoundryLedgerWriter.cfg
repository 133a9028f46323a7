\* Two processes, two runs of the target, one crash.
SPECIFICATION Spec
CONSTANTS
  Procs = {p1, p2}
  Runs = {r1, r2}
  Files = {r1, r2, Target, Index}
  Target = Target
  Index = Index
  Free = Free
  Dead = Dead
  NoFile = NoFile
  NoRun = NoRun
  Accept = Accept
  k = k
  end = end
  Keys = {end}
  Ends = {end}
  Calls = {"create", "append"}
  MaxCrashes = 1
SYMMETRY MCSymmetry
INVARIANT OneActiveWriter
