SPECIFICATION Spec
CONSTANTS
  Procs = {p1}
  MaxRevision = 1
  MaxCrashes = 0
  Operators = {}
  OperatorTargets = {}
  PersistenceFails = FALSE
  Orders = {o1}
  None = None
  Qty = 1
  Exchange = "BINANCE"
  Workers = {p1}
  Reconcilers = {p1}
  Cancellers = {p1}
  MayReconfigure = FALSE
INVARIANT NoCancelDuringSubmission
