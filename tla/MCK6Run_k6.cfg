SPECIFICATION Spec
CONSTANTS
  None = None
  Scenarios <- MCScenarios
  Statuses = {0, 202, 404, 500, 501}
  Names = {"a", "b", "h", "t"}
  Durations = {1, 2, 4}
INVARIANTS K6SendsPlan EnginesAgree RankGuaranteed
