\* One StageRun, fresh or recovered, up to the largest repair budget.
SPECIFICATION Spec
CONSTANT MaxRounds <- MCMaxRounds
CHECK_DEADLOCK FALSE
INVARIANTS TypeOK CompletedIsAccepted HandoffIsDecisive
PROPERTIES EndsAsDecided Terminates
