SPECIFICATION ClientSpec
CONSTANTS
  CodeWords = {"0", "1", "2"}
  StatusWords = {"SUCCESS", "FAILED", "CANCELLEDBYUSER", "PENDING", "PROCESSED", "UNSUCCESSFUL"}
  PaidWords = {"SUCCESS"}
  FailedWords = {"FAILED", "CANCELLEDBYUSER"}
  Ticket = k1
  Payment = p1
  Request = t1
  None = None
  References = {r1, r2}
INVARIANTS ClientInv ClientTypeOK FormatIrrelevant ReadersAgree OutcomeIsStated OneChargePerSale
PROPERTIES CodeOutranksStatus CallEnds ImplementsFlow
CHECK_DEADLOCK FALSE
