\* Two racing cancels, a cancel and a decision with a fault, or two faults.
SPECIFICATION Spec
CONSTANTS
  Main = Main
  c1 = c1
  c2 = c2
  d1 = d1
  Cancels = {c1, c2}
  Decisions = {d1}
  Instances <- MCInstances
CHECK_DEADLOCK FALSE
INVARIANTS TypeOK EndsAreJustified ProviderFollowsRun
PROPERTY Settles
