SPECIFICATION OfficeSpec
CONSTANTS
  Tickets = {k1}
  Payments = {p1, p2}
  Tasks = {t1, t2}
  None = None
  Endpoints = {"initiate", "callback", "purchase", "complete", "updateStatus", "webhook", "removeTicket"}
  Faults = {"dbError"}
  StaffStatuses = {"success", "failed"}
  PurchaseMethods = {"card"}
SYMMETRY Symmetry
INVARIANTS OfficeInv SoldIsAuthorised RevenueIsBacked
PROPERTIES ImplementsAuthority OrphanedByFailedRelease
CHECK_DEADLOCK FALSE
