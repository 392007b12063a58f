SPECIFICATION FairSpec
CONSTANTS
  Procs = {p1}
  MaxRevision = 1
  MaxCrashes = 0
  Operators = {}
  OperatorTargets = {}
  PersistenceFails = FALSE
  Orders = {o1}
  None = None
  Qty = 1
  Exchange = "BINANCE"
  Workers = {p1}
  Reconcilers = {p1}
  Cancellers = {}
  MayReconfigure = FALSE
PROPERTY UnknownResolves
