------------------------ MODULE MC_ConstraintRecord ------------------------
(* Model-checking instance of ConstraintRecord: two constraint objects,   *)
(* three expression objects, built by the setters as NAMES leaves with    *)
(* one attribute bit, one operator and two names.                          *)
EXTENDS ConstraintRecord, TLC

(* Leaves of one kind, one attribute bit and one operator; two names. *)
MCExprTypes == {SEPOL_CEXPR_TYPE_NAMES}
MCExprAttrs == {SEPOL_CEXPR_ATTR_TYPE}
MCExprOps   == {SEPOL_CEXPR_OP_EQ}


MCSymmetry == Permutations(ExprObjs) \cup Permutations(ExprNames) \cup Permutations(ConsObjs)
=============================================================================
