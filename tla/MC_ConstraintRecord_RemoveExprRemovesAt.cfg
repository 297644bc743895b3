CONSTANTS
  ExprObjs = {x1, x2, x3}
  ConsObjs = {c1, c2}
  ExprTypes <- MCExprTypes
  ExprAttrs <- MCExprAttrs
  ExprOps <- MCExprOps
  ExprNames = {e1, e2}
  ConsPermNames = {p1}
  NULL = NULL
SYMMETRY MCSymmetry
SPECIFICATION ConsSpec
PROPERTY RemoveExprRemovesAt
CHECK_DEADLOCK FALSE
