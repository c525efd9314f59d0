SPECIFICATION Spec
CONSTANTS
  Emails = {e1}
  Users = {u1}
  Registrations = {r1, r2}
  Codes = {c1, c2, c3}
  Links = {l1, l2}
  Tasks = {t1, t2}
  None = None
  Staff = Staff
  MaxAttempts = 1
  MaxLapses = 1
  Faults = {"mailError", "abort"}
SYMMETRY Symmetry
INVARIANTS AccountsInv AccountIsConfirmed AttemptsBounded OlderLinksAreDead
PROPERTIES ReusableByCutReset
CHECK_DEADLOCK FALSE
