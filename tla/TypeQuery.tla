----------------------------- MODULE TypeQuery -----------------------------
(***************************************************************************)
(* Reading types out of a policy database (src/libsepol/src/types.c):      *)
(* type_datum_to_record and the count / exists / query calls built on it.  *)
(*                                                                         *)
(* A database db is a record:                                              *)
(*   kern            policy_type == POLICY_KERN                            *)
(*   typeValToName   p_type_val_to_name, indexed by value 1..nprim         *)
(*   typeKeys        the keys of p_types.table in hashtab order            *)
(*   typeTable       key -> type datum [value, flavor, primary, types,     *)
(*                   flags, bounds]; an ebitmap is the set of its bits     *)
(*   attrTypeMap, typeAttrMap   the kernel's per-value bitmaps             *)
(*   permissiveMap   the kernel's permissive_map (bit = value)             *)
(* Aliases have keys of their own whose datum carries the primary's value. *)
(***************************************************************************)
EXTENDS Integers, Sequences, SequencesExt, FiniteSets, Bitwise

CONSTANTS NULL

LOCAL TR == INSTANCE TypeRecord
              WITH TypeObjs <- {}, StrObjs <- {}, TypeNames <- {}, typeSt <- <<>>,
                   typeRec <- <<>>, strSt <- <<>>, strVal <- <<>>, ub <- "none"

(* policydb.h: datum flavors and flags. *)
TYPE_TYPE   == 0
TYPE_ATTRIB == 1
TYPE_ALIAS  == 2
TYPE_FLAGS_PERMISSIVE        == 1
TYPE_FLAGS_EXPAND_ATTR_TRUE  == 2
TYPE_FLAGS_EXPAND_ATTR_FALSE == 4

(* The flavor switch: a TYPE_TYPE datum that is not primary is a kernel    *)
(* alias.  policydb never stores another flavor.                           *)
TypeFlavor(d) ==
  CASE d.flavor = TYPE_TYPE   -> IF d.primary = 0 THEN TR!SEPOL_TYPE_ALIAS
                                                  ELSE TR!SEPOL_TYPE_TYPE
    [] d.flavor = TYPE_ATTRIB -> TR!SEPOL_TYPE_ATTRIB
    [] d.flavor = TYPE_ALIAS  -> TR!SEPOL_TYPE_ALIAS

(* Mutant: the kernel attribute bitmap picked for every flavor. *)
SubtypeBitmapOneWay(db, d) ==
  IF db.kern THEN db.typeAttrMap[d.value] ELSE d.types

(* Which bitmap holds the relation: in a kernel policy the global          *)
(* attr_type_map for an attribute and type_attr_map otherwise; in a base   *)
(* policy the datum's own types.                                           *)
SubtypeBitmap(db, d) ==
  IF db.kern
    THEN IF d.flavor = TYPE_ATTRIB THEN db.attrTypeMap[d.value]
                                   ELSE db.typeAttrMap[d.value]
    ELSE d.types

(* Mutant: the bit of the datum's own value is not skipped. *)
SubtypesWithSelf(db, d) ==
  LET bits == SetToSortSeq(SubtypeBitmap(db, d), <) IN
  FoldLeft(TR!AddSubtype, <<>>,
           [i \in 1..Len(bits) |-> db.typeValToName[bits[i] + 1]])

(* ebitmap_for_each_positive_bit in ascending order, skipping the datum's  *)
(* own value, each name added with sepol_type_add_subtype.                 *)
Subtypes(db, d) ==
  LET bits == SetToSortSeq({b \in SubtypeBitmap(db, d) : d.value # b + 1}, <)
  IN  FoldLeft(TR!AddSubtype, <<>>,
               [i \in 1..Len(bits) |-> db.typeValToName[bits[i] + 1]])

(* The flag mask: permissive from the datum's flag or, in a kernel policy, *)
(* from permissive_map; the two expand-attribute flags copied.             *)
TypeFlags(db, d) ==
  LET permissive == \/ (d.flags & TYPE_FLAGS_PERMISSIVE) # 0
                    \/ db.kern /\ d.value \in db.permissiveMap
  IN  (IF permissive THEN TR!SEPOL_TYPE_FLAGS_PERMISSIVE ELSE 0)
      | (IF (d.flags & TYPE_FLAGS_EXPAND_ATTR_TRUE) # 0
           THEN TR!SEPOL_TYPE_FLAGS_EXPAND_ATTR_TRUE ELSE 0)
      | (IF (d.flags & TYPE_FLAGS_EXPAND_ATTR_FALSE) # 0
           THEN TR!SEPOL_TYPE_FLAGS_EXPAND_ATTR_FALSE ELSE 0)

(* The alias's primary: the name of the datum's own value for a kernel    *)
(* alias, the name of its primary for a base-policy alias.                 *)
AliasOf(db, d) ==
  CASE d.primary = 0 /\ d.flavor = TYPE_TYPE -> db.typeValToName[d.value]
    [] d.flavor = TYPE_ALIAS                 -> db.typeValToName[d.primary]
    [] OTHER                                 -> NULL

(* type_datum_to_record(p, datum, name): the record a query or an          *)
(* iterator step returns for key name.                                     *)
TypeDatumToRecord(db, d, name) ==
  [name     |-> name,
   flavor   |-> TypeFlavor(d),
   types    |-> Subtypes(db, d),
   flags    |-> TypeFlags(db, d),
   bounds   |-> IF d.bounds # 0 THEN db.typeValToName[d.bounds] ELSE NULL,
   alias_of |-> AliasOf(db, d)]

(* sepol_type_count: the number of keys of the type table. *)
TypeCount(db) == Len(db.typeKeys)

(* sepol_type_exists. *)
TypeExists(db, key) == key \in DOMAIN db.typeTable

(* sepol_type_query: the record, or NULL when the key is not in the table. *)
TypeQueryResult(db, key) ==
  IF TypeExists(db, key) THEN TypeDatumToRecord(db, db.typeTable[key], key)
                         ELSE NULL
=============================================================================
