SPECIFICATION FairSpec
CONSTANTS
  Tickets = {k1}
  Payments = {p1}
  Tasks = {t1, t2}
  None = None
  Endpoints = {"initiate", "verify", "callback"}
  Faults = {"httpError"}
PROPERTIES ChargedIsRecorded
CHECK_DEADLOCK FALSE
