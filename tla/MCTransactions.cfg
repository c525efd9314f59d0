SPECIFICATION TxSpec
CONSTANTS
  Tickets = {k1}
  Payments = {p1, p2}
  Tasks = {t1, t2}
  None = None
  Endpoints = {"initiate", "callback", "cancel"}
  Faults = {"dbError"}
  MaxPool = 2
INVARIANTS TxInv
CHECK_DEADLOCK FALSE
PROPERTIES ImplementsFlow RequestsEnd
