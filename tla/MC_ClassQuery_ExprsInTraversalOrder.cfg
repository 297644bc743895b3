CONSTANTS
  NULL = NULL
  PolicyDBs <- OrderDBs

SPECIFICATION QuerySpec

INVARIANT ExprsInTraversalOrder

CHECK_DEADLOCK FALSE
