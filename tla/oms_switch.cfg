SPECIFICATION Spec
CONSTANTS
  Procs = {p1,p2}
  MaxRevision = 1
  MaxCrashes = 0
  Operators = {p1}
  OperatorTargets = {}
  PersistenceFails = FALSE
  Orders = {o1}
  None = None
  Qty = 1
  Exchange = "BINANCE"
  Workers = {p2}
  Reconcilers = {}
  Cancellers = {}
  MayReconfigure = FALSE
PROPERTY NoSubmitUnderSwitch
