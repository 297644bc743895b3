CONSTANTS
  Classes = {k1, k2}
  ConsObjs = {c1, c2}
  ExprObjs = {x1, x2}
  ExprTypes <- MCExprTypes
  ExprAttrs <- MCExprAttrs
  ExprOps <- MCExprOps
  ExprNames = {e1, e2}
  ConsPermNames = {}
  NULL = NULL
SYMMETRY MCSymmetry
SPECIFICATION Spec
INVARIANT TypeOK
INVARIANT NoLeakedExpr
INVARIANT ExprEqualIgnoresNameOrder
INVARIANT NoDroppedConstraint
PROPERTY InsertExprIsInsertAt
PROPERTY DelRemovesExactlyMatches
PROPERTY DelFailureLeavesListConsistent
CHECK_DEADLOCK FALSE
