SPECIFICATION FairSpec
CHECK_DEADLOCK FALSE
CONSTANTS
  Concurrency = 2
  Iterations = 3
  Requests = 2
  Attempts = 2
  SetupSize = 2
  TeardownSize = 1
INVARIANTS SentInOrder SentCompletely StopsPromptly HooksAroundTraffic
PROPERTY Returns
