--------------------------- MODULE MC_ClassQuery ---------------------------
(***************************************************************************)
(* Policy databases for ClassQuery.  CLASS1 is the class of the spec's     *)
(* scenario (section 8): common COMMON1 with PERM1 (value 1), one          *)
(* constraint on PERM1 with the single leaf type1 == TYPE1.  CLASS2 has    *)
(* the same common and the constraint (u1 == u2) and (t1 == TYPE1), in     *)
(* postfix order.  CLASS3 has no common and one constraint.               *)
(***************************************************************************)
EXTENDS ClassQuery

Leaf(ty, at, op, nm, tn) ==
  [expr_type |-> ty, attr |-> at, op |-> op, names |-> nm, type_names |-> tn]

TypeIsTYPE1 == Leaf(CEXPR_NAMES, CEXPR_TYPE, 1, {}, {0})
UserIsUser  == Leaf(CEXPR_ATTR, CEXPR_USER, 1, {}, {})
AndNode     == Leaf(2, 0, 0, {}, {})

Class(v, comkey, comdatum, perms, cons) ==
  [value |-> v, comkey |-> comkey, comdatum |-> comdatum, perms |-> perms,
   constraints |-> cons, validatetrans |-> <<>>, default_user |-> 0,
   default_role |-> 0, default_type |-> 0, default_range |-> 0]

Common1 == [perms |-> [p \in {"PERM1"} |-> 1]]
NoPerms == [p \in {} |-> 0]

DB(classes) ==
  [classValToName |-> <<"CLASS1", "CLASS2", "CLASS3">>,
   classTable |-> classes,
   userValToName |-> <<"u_a">>, roleValToName |-> <<"r_a">>,
   typeValToName |-> <<"TYPE1">>]

CLASS1 == Class(1, "COMMON1", Common1, NoPerms,
                <<[permissions |-> {0}, expr |-> <<TypeIsTYPE1>>]>>)
CLASS2 == Class(2, "COMMON1", Common1, [p \in {"PERM2"} |-> 2],
                <<[permissions |-> {0, 1}, expr |-> <<UserIsUser, TypeIsTYPE1, AndNode>>]>>)
CLASS3 == Class(3, NULL, NULL, [p \in {"PERM3"} |-> 1],
                <<[permissions |-> {0}, expr |-> <<TypeIsTYPE1>>]>>)

ScenarioDBs == {DB([k \in {"CLASS1"} |-> CLASS1])}
OrderDBs    == {DB([k \in {"CLASS2"} |-> CLASS2])}
CrashDBs    == {DB([k \in {"CLASS1", "CLASS3"} |-> IF k = "CLASS1" THEN CLASS1 ELSE CLASS3])}
=============================================================================
