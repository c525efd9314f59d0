SPECIFICATION Spec
CONSTANTS
  Tickets = {k1}
  Payments = {p1, p2}
  Tasks = {t1, t2}
  None = None
  Endpoints = {"initiate", "verify", "cancel", "callback"}
  Faults = {}
SYMMETRY Symmetry
INVARIANTS OneSuccessPerTicket
CHECK_DEADLOCK FALSE
