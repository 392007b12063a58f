SPECIFICATION Spec
CONSTANTS
  Procs = {p1, p2}
  MaxRevision = 3
  MaxCrashes = 1
  Operators = {p1}
  OperatorTargets = {"MAINTENANCE"}
  PersistenceFails = TRUE
  ApprovalIds = {a1}
  None = None
INVARIANTS TypeOK CopiesAgreeByRevision BeliefHalts HeldIsDurable
PROPERTIES ApprovalIsFinal TriggerHalts
