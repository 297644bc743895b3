----------------------------- MODULE RoleQuery -----------------------------
(***************************************************************************)
(* Reading roles out of a policy database (src/libsepol/src/roles.c):      *)
(* role_datum_to_record and count / exists / query.  The role part of a    *)
(* database db is                                                          *)
(*   roleValToName   p_role_val_to_name, indexed by value 1..nprim         *)
(*   roleByValue     role_val_to_struct: value -> role datum [value,       *)
(*                   flavor, types, roles, bounds] (bitmaps as bit sets)   *)
(* and p_roles.table maps each name of roleValToName to its datum.         *)
(***************************************************************************)
EXTENDS Integers, Sequences, FiniteSets

CONSTANTS NULL

LOCAL RR == INSTANCE RoleRecord
              WITH RoleObjs <- {}, RoleNames <- {}, TypeNames <- {},
                   roleSt <- <<>>, roleRec <- <<>>, ub <- "none"

(* policydb.h: role datum flavors. *)
ROLE_ROLE   == 0
ROLE_ATTRIB == 1

(* The names of the bits of a bitmap, added one by one with               *)
(* sepol_role_add_type / add_subrole (string_list_add).                    *)
NamesOf(bits, valToName) ==
  {valToName[b + 1] : b \in bits}

(* role_datum_to_record: name, the types bitmap, bounds, the flavor switch *)
(* (which has no default: an unknown flavor leaves the record's 0), and   *)
(* the roles bitmap as subroles.                                           *)
RoleDatumToRecord(db, d) ==
  [name     |-> db.roleValToName[d.value],
   types    |-> NamesOf(d.types, db.typeValToName),
   bounds   |-> IF d.bounds # 0 THEN db.roleValToName[d.bounds] ELSE NULL,
   flavor   |-> IF d.flavor = ROLE_ATTRIB THEN RR!SEPOL_ROLE_ATTRIB
                                          ELSE RR!SEPOL_ROLE_ROLE,
   subroles |-> NamesOf(d.roles, db.roleValToName)]

RoleKeys(db) == {db.roleValToName[v] : v \in DOMAIN db.roleValToName}

(* sepol_role_count: nel of p_roles.table, one entry per role. *)
RoleCount(db) == Cardinality(RoleKeys(db))

(* sepol_role_exists. *)
RoleExists(db, key) == key \in RoleKeys(db)

(* sepol_role_query: the record, or NULL. *)
RoleQueryResult(db, key) ==
  IF RoleExists(db, key)
    THEN RoleDatumToRecord(db,
           db.roleByValue[CHOOSE v \in DOMAIN db.roleValToName :
                            db.roleValToName[v] = key])
    ELSE NULL
=============================================================================
