CONSTANTS
  NULL = NULL
  MaxFailures = 2
  PolicyDBs <- MCPolicyDBs

SPECIFICATION IterSpec

INVARIANT IterTypeOK
INVARIANT TypeAttributeDuality
INVARIANT NoSelfSubtype
INVARIANT ConstraintPermsRoundTrip

PROPERTY TypeIterRefines
PROPERTY RoleIterRefines
PROPERTY ClassIterRefines
PROPERTY IterationsTerminate
