CONSTANTS
  Classes = {k1, k2}
  ConsObjs = {c1, c2}
  ExprObjs = {x1, x2, x3}
  ExprTypes <- MCExprTypes
  ExprAttrs <- MCExprAttrs
  ExprOps <- MCExprOps
  ExprNames = {e1, e2}
  ConsPermNames = {}
  NULL = NULL
SYMMETRY MCSymmetry
SPECIFICATION Spec
INVARIANT OwnedConstraintsLive
CHECK_DEADLOCK FALSE
