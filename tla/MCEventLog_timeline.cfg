SPECIFICATION FairSpec
CHECK_DEADLOCK FALSE
CONSTANTS
  Appenders = {a1, a2}
  Requests = {q1, q2}
  Finishers = {f1}
  NoCall = NoCall
  MaxTimeouts = 1
INVARIANTS NumbersAreFree OneRequest OutcomeNeverVictim
PROPERTIES TimelineSpec CallsReturn
