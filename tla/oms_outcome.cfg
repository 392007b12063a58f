SPECIFICATION FairSpec
CONSTANTS
  Procs = {p1}
  MaxRevision = 1
  MaxCrashes = 1
  Operators = {}
  OperatorTargets = {}
  PersistenceFails = TRUE
  Orders = {o1}
  None = None
  Qty = 2
  Exchange = "BYBIT"
  Workers = {p1}
  Reconcilers = {p1}
  Cancellers = {}
  MayReconfigure = FALSE
PROPERTY VenueOutcomeReachesRow
