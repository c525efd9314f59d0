SPECIFICATION Spec
CONSTANTS
  Tickets = {k1, k2}
  Payments = {p1, p2}
  Tasks = {t1, t2}
  None = None
  Endpoints = {"initiate", "verify", "confirm", "cancel", "callback"}
  Faults = {"abort", "httpError", "loseCallback"}
SYMMETRY Symmetry
INVARIANTS TypeOK IInv SoldIsCharged LinkIsCharged PaidIsCharged
PROPERTIES ClosedIsOverwrittenBySaves StrandedByFault
CHECK_DEADLOCK FALSE
