SPECIFICATION FairSpec
CHECK_DEADLOCK FALSE
CONSTANTS
  Runs = {r1}
  Cancellers = {c1, c2, c3}
INVARIANTS RegistryForgets QueuedCancelSettles
PROPERTIES LifecycleSpec SignaledRunsEndCanceled RunsFinish
