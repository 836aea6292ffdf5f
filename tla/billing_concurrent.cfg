SPECIFICATION Spec
CONSTANTS
  JobCards = {j1}
  Invoices = {i1, i2}
  GatePasses = {p1, p2, p3}
  Requests = {r1, r2, r3}
  Totals = {0, 1, 2}
  Amounts = {6, 10, 20}
  NoJobCard = NoJobCard
  NoInvoice = NoInvoice
  NoGatePass = NoGatePass
SYMMETRY IdSymmetry
CHECK_DEADLOCK FALSE
INVARIANTS
  PassIsPaidFor
  PaidIsBacked
  PaidHasPass
  ActivePassIsOfLiveInvoice
