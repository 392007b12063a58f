SPECIFICATION Spec
CONSTANTS
  Procs = {p1}
  MaxRevision = 1
  MaxCrashes = 0
  Operators = {p1}
  OperatorTargets = {}
  PersistenceFails = FALSE
  ApprovalIds = {a1}
  None = None
INVARIANT SwitchRevokesApprovals
