SPECIFICATION Spec
CHECK_DEADLOCK FALSE
CONSTANTS
  Runs = {r1}
  Cancellers = {c1}
  MaxRetry = 1
  MaxFaults = 1
  MaxStoreFaults = 1
INVARIANTS TypeOK DeadLetterIsFinal OnlyFaultsLeaveRunsBehind OutcomeTold RetriesAreFaults TerminalEventsAgree ReportMatchesStatus
PROPERTIES LifecycleSpec CancelWins NoTrafficAfterCancel
