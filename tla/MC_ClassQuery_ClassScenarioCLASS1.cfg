CONSTANTS
  NULL = NULL
  PolicyDBs <- ScenarioDBs

SPECIFICATION QuerySpec

INVARIANT ClassScenarioCLASS1

CHECK_DEADLOCK FALSE
