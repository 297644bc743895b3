--------------------------- MODULE MC_ClassRecord ---------------------------
(* Model-checking instance of ClassRecord: two classes, two constraint    *)
(* objects, two expression objects (three for the violation runs) built   *)
(* as NAMES leaves with one attribute bit, one operator and two names.     *)
EXTENDS ClassRecord, TLC

(* Leaves of one kind, one attribute bit and one operator; two names. *)
MCExprTypes == {SEPOL_CEXPR_TYPE_NAMES}
MCExprAttrs == {SEPOL_CEXPR_ATTR_TYPE}
MCExprOps   == {SEPOL_CEXPR_OP_EQ}


MCSymmetry ==
  Permutations(ExprObjs) \cup Permutations(ExprNames) \cup Permutations(ConsObjs) \cup Permutations(Classes)
=============================================================================
