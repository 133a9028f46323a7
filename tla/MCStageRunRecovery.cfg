\* Two operators, four resumes of two recovery ids, three claims, two faults.
SPECIFICATION Spec
CONSTANTS
  Operators = {o1, o2}
  Resume <- MCResume
  MaxClaims = 3
  MaxFaults = 2
SYMMETRY MCSymmetry
INVARIANTS TypeOK EveryRunKept BoundToItsOwn
PROPERTY RetriedWhenOver
