SPECIFICATION FairSpec
CHECK_DEADLOCK FALSE
CONSTANTS
  Readers = {c1}
  MaxEvents = 4
  MaxDrops = 2
  MaxReadFaults = 2
INVARIANTS StreamsInOrder ShownComplete
PROPERTIES OutcomeReachesReaders StreamsEnd
