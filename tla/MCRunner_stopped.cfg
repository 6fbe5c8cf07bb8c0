SPECIFICATION Spec
CHECK_DEADLOCK FALSE
CONSTANTS
  Concurrency = 2
  Iterations = 2
  Requests = 1
  Attempts = 1
  SetupSize = 1
  TeardownSize = 1
INVARIANT StoppedRunsFail
