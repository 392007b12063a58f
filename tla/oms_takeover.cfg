SPECIFICATION WorkerSpec
CONSTANTS
  Procs = {p1, p2}
  MaxRevision = 1
  MaxCrashes = 1
  Operators = {}
  OperatorTargets = {}
  PersistenceFails = FALSE
  Orders = {o1}
  None = None
  Qty = 1
  Exchange = "BINANCE"
  Workers = {p1, p2}
  Reconcilers = {}
  Cancellers = {p1}
  MayReconfigure = TRUE
CHECK_DEADLOCK FALSE
INVARIANTS TypeOK AtMostOneSubmission
PROPERTY CommandsSettle
