SPECIFICATION FairSpec
CONSTANTS
  Tickets = {k1}
  Payments = {p1, p2}
  Tasks = {t1, t2}
  None = None
  Endpoints = {"initiate", "cancel", "callback"}
  Faults = {"httpError"}
PROPERTIES ChargedIsRecorded
CHECK_DEADLOCK FALSE
