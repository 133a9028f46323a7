\* Three callers, two specs, two faults.
SPECIFICATION Spec
CONSTANTS
  Launchers = {l1, l2, l3}
  Specs = {s1, s2}
  NoSpec = NoSpec
  NoOutcome = "none"
  MaxRuns = 2
  MaxFaults = 2
  Outcomes <- MCOutcomes
SYMMETRY MCSymmetry
INVARIANTS TypeOK ExactlyOneExecution ClosedOnItsOutcome OneClaimant
PROPERTIES NeverDegrades ClaimProtected
