SPECIFICATION Spec
CONSTANTS
  Runs = {r1}
  Cancellers = {c1}
  MaxRetry = 0
  MaxFaults = 0
  MaxStoreFaults = 0
INVARIANTS
  CanceledReportServed
CHECK_DEADLOCK FALSE
