----------------------------- MODULE ClassQuery -----------------------------
(***************************************************************************)
(* Reading a class out of a policy database (src/libsepol/src/classes.c):  *)
(* class_datum_to_record with constraint_datum_to_record and               *)
(* constraint_expr_datum_to_record, behind sepol_class_query.              *)
(*                                                                         *)
(* The record a query returns is kept as a value: name, common, the set of *)
(* permission names, the constraint and validatetrans lists (each a        *)
(* sequence of [perms, exprs]) and the four defaults; an expression is     *)
(* [type, attr, op, names] as in ConstraintRecord.  The class part of a    *)
(* database db is                                                          *)
(*   classValToName           p_class_val_to_name                          *)
(*   classTable               key -> class datum [value, comkey, comdatum, *)
(*                            perms, constraints, validatetrans, defaults] *)
(*   user/role/typeValToName  the value -> name tables NAMES leaves use    *)
(* where perms (and comdatum.perms) map a permission name to its value,    *)
(* comdatum is NULL for a class without a common, and a constraint node   *)
(* is [permissions (the set of bits of its mask), expr (the expression    *)
(* list in postfix order)] with expression datums [expr_type, attr, op,   *)
(* names, type_names].                                                     *)
(*                                                                         *)
(* Any allocation of the translation may fail.  A query that fails is      *)
(* ClassQueryFail at one of the allocation points reached; the error paths *)
(* call sepol_constraint_free and sepol_constraint_expr_free, which        *)
(* dereference their argument without a NULL check.                       *)
(***************************************************************************)
EXTENDS ClassTranslation

CONSTANT PolicyDBs

VARIABLES
  db,       \* the database (never changes)
  result,   \* the record the last query returned, NULL, or [error |-> where]
  ub        \* first undefined behaviour met, or "none"

queryVars == <<db, result, ub>>

(* sepol_class_query of key, translation succeeding. *)
ClassQuery(key) ==
  /\ ub = "none"
  /\ IF ClassExists(db, key)
       THEN LET cls == db.classTable[key] IN
            /\ ub' = TranslationUB(cls)
            /\ result' = IF ub' = "none" THEN ClassDatumToRecord(db, cls)
                                         ELSE [error |-> "translation"]
       ELSE /\ result' = NULL
            /\ UNCHANGED ub
  /\ UNCHANGED db

(* sepol_class_query of key, an allocation failing at point f. *)
ClassQueryFail(key, f) ==
  /\ ub = "none"
  /\ key \in DOMAIN db.classTable
  /\ f \in FailPoints(db.classTable[key])
  /\ result' = [error |-> f]
  /\ ub' = IF f \in CleanFailures THEN "none" ELSE "null_deref"
  /\ UNCHANGED db

QueryInit ==
  /\ db \in PolicyDBs
  /\ result = NULL
  /\ ub = "none"

QueryNext ==
  \/ \E key \in DOMAIN db.classTable \cup {"no_such_class"} : ClassQuery(key)
  \/ \E key \in DOMAIN db.classTable :
       \E f \in FailPoints(db.classTable[key]) : ClassQueryFail(key, f)

QuerySpec == QueryInit /\ [][QueryNext]_queryVars

IsRecord(r) == r # NULL /\ "name" \in DOMAIN r

(* Spec section 8, concrete scenario: querying CLASS1, with common COMMON1 *)
(* holding PERM1 and one constraint (type1 == TYPE1) on PERM1, yields      *)
(* common COMMON1, permissions {PERM1}, one constraint whose one           *)
(* expression is NAMES / TYPE / EQ / {TYPE1}, and all defaults 0.          *)
ClassScenarioCLASS1 ==
  (IsRecord(result) /\ result.name = "CLASS1") =>
    /\ result.common = "COMMON1"
    /\ result.perms = {"PERM1"}
    /\ result.validatetrans = <<>>
    /\ Len(result.constraints) = 1
    /\ result.constraints[1].perms = {"PERM1"}
    /\ result.constraints[1].exprs =
         <<[type |-> CEXPR_NAMES, attr |-> CEXPR_TYPE, op |-> 1, names |-> {"TYPE1"}]>>
    /\ result.default_user = 0 /\ result.default_role = 0
    /\ result.default_type = 0 /\ result.default_range = 0

(* Spec section 4.1: constraint_datum_to_record inserts the expressions of *)
(* a constraint in traversal order, so the record's list is the datum's    *)
(* postfix list, expression for expression.                                *)
ExprsInTraversalOrder ==
  IsRecord(result) =>
    LET cls == db.classTable[result.name] IN
    \A i \in DOMAIN cls.constraints :
      result.constraints[i].exprs =
        [j \in DOMAIN cls.constraints[i].expr |->
           ExprDatumToRecord(db, cls.constraints[i].expr[j])]

(* Spec sections 5 and 7: sepol_class_query either returns a record or     *)
(* reports an error; it never dereferences NULL, in particular not on the  *)
(* error paths of class_datum_to_record and constraint_datum_to_record.    *)
QueryDefined == ub = "none"
=============================================================================
