CONSTANTS
  NULL = NULL
  PolicyDBs <- CrashDBs

SPECIFICATION QuerySpec

INVARIANT QueryDefined

CHECK_DEADLOCK FALSE
