----------------------------- MODULE ClassValue -----------------------------
(***************************************************************************)
(* The value fields of libsepol's class record                             *)
(* (src/libsepol/src/class_record.c, lines 101-334 and 347-403): name,     *)
(* common name, the permission names and the four default fields, for      *)
(* class records allocated at one of the addresses ClassObjs.  The         *)
(* constraint and validatetrans lists, which carry ownership, are the      *)
(* subject of ClassRecord; a class here has none.                          *)
(*                                                                         *)
(* The permission list is kept by the string_list_* helpers of util.c,     *)
(* which is not part of this source tree; it is modelled from the          *)
(* specification as a set.  Strings are values: set_name and set_common    *)
(* free the string they replace, so no string of these fields leaks.  An   *)
(* allocation failure in a setter returns before any change and is a       *)
(* stuttering step.                                                        *)
(***************************************************************************)
EXTENDS Integers, FiniteSets

CONSTANTS
  ClassObjs,   \* addresses a class record may be allocated at
  ClassNames,  \* class and common names a caller passes to the setters
  PermNames,   \* permission names a caller passes to add_perm / del_perm
  NULL

VARIABLES
  classValSt,  \* "none", "live" or "freed"
  classVal,    \* fields of each class object
  ub           \* first undefined behaviour met, or "none"

classValVars == <<classValSt, classVal, ub>>

(* class_record.h lines 83-84 and 98-104: the values the default setters   *)
(* take (a char each; 0 is "not set").                                     *)
DefaultFields == {"default_user", "default_role", "default_type", "default_range"}
DefaultValues(f) == IF f = "default_range" THEN 0..7 ELSE 0..2

(* The memset of sepol_class_create. *)
EmptyClass ==
  [name |-> NULL, common |-> NULL, perms |-> {},
   default_user |-> 0, default_role |-> 0, default_type |-> 0,
   default_range |-> 0]

ClassValUpdate(k, field, v) ==
  /\ ub = "none"
  /\ classValSt[k] = "live"
  /\ classVal' = [classVal EXCEPT ![k][field] = v]
  /\ UNCHANGED <<classValSt, ub>>

(* sepol_class_create. *)
ClassValCreate(k) ==
  /\ ub = "none"
  /\ classValSt[k] # "live"
  /\ classValSt' = [classValSt EXCEPT ![k] = "live"]
  /\ classVal' = [classVal EXCEPT ![k] = EmptyClass]
  /\ UNCHANGED ub

(* sepol_class_set_name: strdup(name), so a NULL name is a NULL            *)
(* dereference; the old name is freed.                                     *)
ClassSetName(k, n) ==
  IF n = NULL THEN /\ ub = "none" /\ classValSt[k] = "live"
                   /\ ub' = "null_deref"
                   /\ UNCHANGED <<classValSt, classVal>>
              ELSE ClassValUpdate(k, "name", n)

(* sepol_class_set_common: a NULL common clears the field. *)
ClassSetCommon(k, n) == ClassValUpdate(k, "common", n)

ClassAddPerm(k, p) == ClassValUpdate(k, "perms", classVal[k].perms \cup {p})
ClassDelPerm(k, p) == ClassValUpdate(k, "perms", classVal[k].perms \ {p})

(* sepol_class_set_default_user / _role / _type / _range. *)
ClassSetDefault(k, f, v) == ClassValUpdate(k, f, v)

(* sepol_class_clone(k) into a fresh object k2: set_name, set_common,      *)
(* add_perm for each permission, then the four default setters.  The      *)
(* name goes through set_name, so cloning a class that has no name yet is  *)
(* a NULL dereference.                                                     *)
ClassValClone(k, k2) ==
  /\ ub = "none"
  /\ classValSt[k] = "live"
  /\ classValSt[k2] # "live"
  /\ IF classVal[k].name = NULL
       THEN /\ ub' = "null_deref"
            /\ UNCHANGED <<classValSt, classVal>>
       ELSE /\ classValSt' = [classValSt EXCEPT ![k2] = "live"]
            /\ classVal' = [classVal EXCEPT ![k2] = classVal[k]]
            /\ UNCHANGED ub

(* sepol_class_free. *)
ClassValFree(k) ==
  /\ ub = "none"
  /\ classValSt[k] = "live"
  /\ classValSt' = [classValSt EXCEPT ![k] = "freed"]
  /\ UNCHANGED <<classVal, ub>>

ClassValInit ==
  /\ classValSt = [k \in ClassObjs |-> "none"]
  /\ classVal = [k \in ClassObjs |-> EmptyClass]
  /\ ub = "none"

ClassValNext ==
  \/ \E k \in ClassObjs : ClassValCreate(k)
  \/ \E k \in ClassObjs, n \in ClassNames \cup {NULL} : ClassSetName(k, n)
  \/ \E k \in ClassObjs, n \in ClassNames \cup {NULL} : ClassSetCommon(k, n)
  \/ \E k \in ClassObjs, p \in PermNames : ClassAddPerm(k, p)
  \/ \E k \in ClassObjs, p \in PermNames : ClassDelPerm(k, p)
  \/ \E k \in ClassObjs, f \in DefaultFields :
        \E v \in DefaultValues(f) : ClassSetDefault(k, f, v)
  \/ \E k, k2 \in ClassObjs : ClassValClone(k, k2)
  \/ \E k \in ClassObjs : ClassValFree(k)
=============================================================================
