-------------------------- MODULE ClassTranslation --------------------------
(***************************************************************************)
(* class_datum_to_record and its helpers (src/libsepol/src/classes.c) as   *)
(* operators over a database value: what a translation returns when it    *)
(* succeeds, the undefined behaviour it meets, and the allocation points  *)
(* it reaches.  The database layout is described in ClassQuery.            *)
(***************************************************************************)
EXTENDS Integers, Sequences, SequencesExt, FiniteSets, Bitwise

CONSTANT NULL

(* policydb constraint.h: expression kinds, attributes and operators; the *)
(* sepol constants of class_record.h lines 159-197 have the same values.  *)
CEXPR_ATTR == 4
CEXPR_NAMES == 5
CEXPR_USER == 1
CEXPR_ROLE == 2
CEXPR_TYPE == 4
ExprKinds == 1..5
AttrFlags == {2^i : i \in 0..10}   \* CEXPR_USER .. CEXPR_L2H2
ExprOps   == 1..5                  \* CEXPR_EQ .. CEXPR_INCOMP
(* policydb.h DEFAULT_SOURCE, DEFAULT_TARGET and DEFAULT_SOURCE_LOW ..      *)
(* DEFAULT_GLBLUB, again equal to the SEPOL_CLASS_DEFAULT_* values.        *)
DEFAULT_SOURCE == 1
DEFAULT_TARGET == 2
DefaultRanges == 1..7

(* map_default. *)
MapDefault(from) == IF from \in {DEFAULT_SOURCE, DEFAULT_TARGET} THEN from ELSE 0

(* The kind switch; a kind no case names leaves the zeroed record's 0.     *)
ExprType(e) == IF e.expr_type \in ExprKinds THEN e.expr_type ELSE 0

(* The attribute switch of an ATTR or NAMES leaf.  It switches on          *)
(* expr_type, not on attr: CEXPR_ATTR (4) is the case CEXPR_TYPE and       *)
(* CEXPR_NAMES (5) matches no case.                                        *)
ExprAttr(e) ==
  IF e.expr_type \in {CEXPR_ATTR, CEXPR_NAMES} /\ e.expr_type \in AttrFlags
    THEN e.expr_type ELSE 0

ExprOp(e) ==
  IF e.expr_type \in {CEXPR_ATTR, CEXPR_NAMES} /\ e.op \in ExprOps THEN e.op ELSE 0

(* The NAMES table: chosen by the USER, ROLE, TYPE bits of attr in that    *)
(* order; a TYPE leaf reads type_names->types instead of names.  With none *)
(* of the three, val_to_name is read uninitialised.                        *)
NamesReadUninit(e) ==
  /\ e.expr_type = CEXPR_NAMES
  /\ (e.attr & (CEXPR_USER + CEXPR_ROLE + CEXPR_TYPE)) = 0
  /\ e.names # {}

ExprNames(d, e) ==
  IF e.expr_type # CEXPR_NAMES THEN {}
  ELSE CASE (e.attr & CEXPR_USER) # 0 -> {d.userValToName[b + 1] : b \in e.names}
         [] (e.attr & CEXPR_ROLE) # 0 -> {d.roleValToName[b + 1] : b \in e.names}
         [] (e.attr & CEXPR_TYPE) # 0 -> {d.typeValToName[b + 1] : b \in e.type_names}
         [] OTHER                    -> {}

ExprDatumToRecord(d, e) ==
  [type |-> ExprType(e), attr |-> ExprAttr(e), op |-> ExprOp(e),
   names |-> ExprNames(d, e)]

(* add_perm_helper tests bit 1 << (value - 1) of the uint32 mask.  A mask  *)
(* is kept as the set of its bit indices (TLC's integers stop at 2^31 - 1).*)
(* The shift is an int shift: for the 32nd permission 1 << 31 overflows   *)
(* int, which gcc and clang compute as INT_MIN; converted to uint32 for   *)
(* the & it is bit 31.                                                     *)
(* Mutant: the shift counts from the value, not from value - 1. *)
PermBitByValue(value) == value

PermBit(value) == value - 1

(* add_perm_helper over one permission table (the class's, then the        *)
(* common's).                                                              *)
PermsOfMask(permTable, mask) ==
  {p \in DOMAIN permTable : PermBit(permTable[p]) \in mask}

(* constraint_datum_to_record: index is never incremented, so every        *)
(* expression is inserted at 0, in front of the ones before it.            *)
ConstraintDatumToRecord(d, cls, node) ==
  [perms |-> PermsOfMask(cls.perms, node.permissions)
             \cup PermsOfMask(cls.comdatum.perms, node.permissions),
   exprs |-> FoldLeft(LAMBDA acc, e : InsertAt(acc, 1, ExprDatumToRecord(d, e)),
                      <<>>, node.expr)]

(* class_datum_to_record: name, common, the class's own permission table, *)
(* the constraints and validatetrans in list order (add_constraint and     *)
(* add_validatetrans append), and the defaults.                            *)
ClassDatumToRecord(d, cls) ==
  [name          |-> d.classValToName[cls.value],
   common        |-> cls.comkey,
   perms         |-> DOMAIN cls.perms,
   constraints   |-> [i \in DOMAIN cls.constraints |->
                        ConstraintDatumToRecord(d, cls, cls.constraints[i])],
   validatetrans |-> [i \in DOMAIN cls.validatetrans |->
                        ConstraintDatumToRecord(d, cls, cls.validatetrans[i])],
   default_user  |-> MapDefault(cls.default_user),
   default_role  |-> MapDefault(cls.default_role),
   default_type  |-> MapDefault(cls.default_type),
   default_range |-> IF cls.default_range \in DefaultRanges THEN cls.default_range ELSE 0]

(* sepol_class_count: the number of entries of the p_classes hashtab.     *)
ClassCount(d) == Cardinality(DOMAIN d.classTable)

(* sepol_class_exists, and the lookup of sepol_class_query: whether the    *)
(* hashtab holds the key's name.                                           *)
ClassExists(d, key) == key \in DOMAIN d.classTable

Nodes(cls) == ToSet(cls.constraints) \cup ToSet(cls.validatetrans)

(* Undefined behaviour of a translation that meets no allocation failure:  *)
(* class_datum->comdatum is dereferenced for every constraint node, and a  *)
(* NAMES leaf may read val_to_name uninitialised.                          *)
TranslationUB(cls) ==
  CASE Nodes(cls) # {} /\ cls.comdatum = NULL -> "null_deref"
    [] \E n \in Nodes(cls) : \E i \in DOMAIN n.expr : NamesReadUninit(n.expr[i])
                                           -> "uninit_read"
    [] OTHER                                  -> "none"

(* The allocation points a translation of cls reaches.                     *)
FailPoints(cls) ==
  {"class_create", "set_name"}
  \cup (IF cls.comkey # NULL THEN {"set_common"} ELSE {})
  \cup (IF DOMAIN cls.perms # {} THEN {"add_perm"} ELSE {})
  \cup (IF Nodes(cls) # {}
          THEN {"constraint_create", "add_constraint"}
               \cup (IF \E n \in Nodes(cls) : n.expr # <<>>
                       THEN {"expr_create", "insert_expr"} ELSE {})
               \cup (IF \E n \in Nodes(cls) : n.permissions # {}
                       THEN {"constraint_add_perm"} ELSE {})
          ELSE {})

(* The failures whose error path frees nothing NULL: a failed              *)
(* add_constraint / add_validatetrans leaves constraint set, so            *)
(* sepol_constraint_free gets a real constraint.  Every other failure     *)
(* reaches sepol_constraint_free(NULL) in class_datum_to_record or         *)
(* sepol_constraint_expr_free(NULL) in constraint_datum_to_record.         *)
CleanFailures == {"add_constraint"}
=============================================================================
