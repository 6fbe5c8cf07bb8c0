SPECIFICATION FairSpec
CONSTANTS
  Runs = {r1}
  Cancellers = {c1}
  MaxRetry = 1
  MaxFaults = 1
  MaxStoreFaults = 0
PROPERTIES
  AcceptedRunsFinish
  AcceptedCancelSettles
CHECK_DEADLOCK FALSE
