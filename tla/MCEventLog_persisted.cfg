SPECIFICATION Spec
CHECK_DEADLOCK FALSE
CONSTANTS
  Appenders = {a1}
  Requests = {q1}
  Finishers = {f1}
  NoCall = NoCall
  MaxTimeouts = 0
INVARIANT EventsPersisted
