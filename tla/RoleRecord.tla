----------------------------- MODULE RoleRecord -----------------------------
(***************************************************************************)
(* The owned role record of libsepol's record layer                        *)
(* (src/libsepol/src/role_record.c): name, the authorized type names, the  *)
(* bounds name, the flavor and the subrole names, allocated at one of the  *)
(* addresses RoleObjs.                                                     *)
(*                                                                         *)
(* The two name lists are kept by the string_list_* helpers of util.c,     *)
(* which is not part of this source tree; they are modelled from the       *)
(* specification (section 4.5: sets with has/get/add/remove).              *)
(***************************************************************************)
EXTENDS Integers, FiniteSets

CONSTANTS
  RoleObjs,   \* addresses a role record may be allocated at
  RoleNames,  \* role names a caller passes to the setters
  TypeNames,  \* type names a caller passes to add_type
  NULL

VARIABLES
  roleSt,     \* "none", "live" or "freed"
  roleRec,    \* fields of each role object
  ub          \* first undefined behaviour met, or "none"

roleVars == <<roleSt, roleRec, ub>>

(* role_record.h lines 55-56. *)
SEPOL_ROLE_ROLE   == 0
SEPOL_ROLE_ATTRIB == 1

RoleFlavors == {SEPOL_ROLE_ROLE, SEPOL_ROLE_ATTRIB}

EmptyRole ==
  [name |-> NULL, types |-> {}, bounds |-> NULL, flavor |-> SEPOL_ROLE_ROLE,
   subroles |-> {}]

(* string_list_add / string_list_del (util.c, from the specification). *)
StringListAdd(list, n) == list \cup {n}
StringListDel(list, n) == list \ {n}

RoleUpdate(r, field, v) ==
  /\ ub = "none"
  /\ roleSt[r] = "live"
  /\ roleRec' = [roleRec EXCEPT ![r][field] = v]
  /\ UNCHANGED <<roleSt, ub>>

(* sepol_role_create: a zeroed record, at an address malloc may return. *)
RoleCreate(r) ==
  /\ ub = "none"
  /\ roleSt[r] # "live"
  /\ roleSt' = [roleSt EXCEPT ![r] = "live"]
  /\ roleRec' = [roleRec EXCEPT ![r] = EmptyRole]
  /\ UNCHANGED ub

RoleSetName(r, n)     == RoleUpdate(r, "name", n)
RoleSetBounds(r, n)   == RoleUpdate(r, "bounds", n)
RoleSetFlavor(r, f)   == RoleUpdate(r, "flavor", f)
RoleAddType(r, n)     == RoleUpdate(r, "types", StringListAdd(roleRec[r].types, n))
RoleDelType(r, n)     == RoleUpdate(r, "types", StringListDel(roleRec[r].types, n))
RoleAddSubrole(r, n)  == RoleUpdate(r, "subroles", StringListAdd(roleRec[r].subroles, n))
RoleDelSubrole(r, n)  == RoleUpdate(r, "subroles", StringListDel(roleRec[r].subroles, n))

(* sepol_role_clone(r) into a fresh object r2: set_name, add_type for each *)
(* type, set_bounds and the flavor; the subroles are not copied.  set_name *)
(* and set_bounds strdup their argument, so a NULL name or NULL bounds is  *)
(* a NULL dereference.                                                     *)
RoleClone(r, r2) ==
  /\ ub = "none"
  /\ roleSt[r] = "live"
  /\ roleSt[r2] # "live"
  /\ IF roleRec[r].name = NULL \/ roleRec[r].bounds = NULL
       THEN /\ ub' = "null_deref"
            /\ UNCHANGED <<roleSt, roleRec>>
       ELSE /\ roleSt' = [roleSt EXCEPT ![r2] = "live"]
            /\ roleRec' = [roleRec EXCEPT
                             ![r2] = [roleRec[r] EXCEPT !.subroles = {}]]
            /\ UNCHANGED ub

(* sepol_role_free. *)
RoleFree(r) ==
  /\ ub = "none"
  /\ roleSt[r] = "live"
  /\ roleSt' = [roleSt EXCEPT ![r] = "freed"]
  /\ UNCHANGED <<roleRec, ub>>

RoleInit ==
  /\ roleSt = [r \in RoleObjs |-> "none"]
  /\ roleRec = [r \in RoleObjs |-> EmptyRole]
  /\ ub = "none"

RoleNext ==
  \/ \E r \in RoleObjs : RoleCreate(r)
  \/ \E r \in RoleObjs, n \in RoleNames : RoleSetName(r, n)
  \/ \E r \in RoleObjs, n \in RoleNames : RoleSetBounds(r, n)
  \/ \E r \in RoleObjs, f \in RoleFlavors : RoleSetFlavor(r, f)
  \/ \E r \in RoleObjs, n \in TypeNames : RoleAddType(r, n)
  \/ \E r \in RoleObjs, n \in TypeNames : RoleDelType(r, n)
  \/ \E r \in RoleObjs, n \in RoleNames : RoleAddSubrole(r, n)
  \/ \E r \in RoleObjs, n \in RoleNames : RoleDelSubrole(r, n)
  \/ \E r, r2 \in RoleObjs : RoleClone(r, r2)
  \/ \E r \in RoleObjs : RoleFree(r)

RoleTypeOK ==
  /\ roleSt \in [RoleObjs -> {"none", "live", "freed"}]
  /\ \A r \in RoleObjs :
       /\ roleRec[r].name \in RoleNames \cup {NULL}
       /\ roleRec[r].types \subseteq TypeNames
       /\ roleRec[r].bounds \in RoleNames \cup {NULL}
       /\ roleRec[r].flavor \in RoleFlavors
       /\ roleRec[r].subroles \subseteq RoleNames
=============================================================================
