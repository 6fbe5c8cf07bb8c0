SPECIFICATION Spec
CHECK_DEADLOCK FALSE
CONSTANTS
  Texts <- MCTexts
  Templates <- MCTemplates
  Envs <- MCEnvs
  Parse <- MCParse
  Size <- MCSize
  JSONTexts <- MCJSONTexts
  Jsonb <- MCJsonb
  MetadataHosts <- MCMetadataHosts
  Targets = {"t1"}
  TargetBodies <- MCTargetBodies
  Posted <- MCPosted
  Configs <- MCConfigs
  Savers = {w1}
  Creators = {m1}
  None = None
  MaxRestarts = 1
INVARIANTS SentWithinLimits AcceptedIsExecuted
PROPERTY SavedScenariosRun
