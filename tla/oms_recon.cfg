SPECIFICATION Spec
CONSTANTS
  Procs = {p1, p2}
  MaxRevision = 1
  MaxCrashes = 0
  Operators = {}
  OperatorTargets = {}
  PersistenceFails = FALSE
  Orders = {o1}
  None = None
  Qty = 1
  Exchange = "BYBIT"
  Workers = {p1}
  Reconcilers = {p2}
  Cancellers = {p1}
  MayReconfigure = FALSE
INVARIANTS LiveOrdersAreReserved TerminalRowsAgree NoFalseAlarm
PROPERTY TerminalIsFinal
