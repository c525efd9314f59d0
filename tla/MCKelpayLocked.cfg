SPECIFICATION Spec
CONSTANTS
  Tickets = {k1}
  Payments = {p1, p2, p3}
  Tasks = {t1, t2}
  None = None
  Endpoints = {"initiate", "cancel", "callback"}
  Faults = {"abort", "loseCallback"}
SYMMETRY Symmetry
INVARIANTS OneOpenPayment LedgerInv
PROPERTIES TerminalIsFinal ImplementsLedger
CHECK_DEADLOCK FALSE
