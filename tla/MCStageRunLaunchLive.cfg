\* Two callers, one spec and two faults, with fairness; no symmetry under liveness.
SPECIFICATION FairSpec
CONSTANTS
  Launchers = {l1, l2}
  Specs = {s1}
  NoSpec = NoSpec
  NoOutcome = "none"
  MaxRuns = 2
  MaxFaults = 2
  Outcomes <- MCOutcomes
PROPERTIES RegisteredCloses DurableSpec
