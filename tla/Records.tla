------------------------------ MODULE Records ------------------------------
(***************************************************************************)
(* A caller holding type, role and class records at once (type_record.c,  *)
(* role_record.c and the value fields of class_record.c), for the clone   *)
(* contract they share.                                                    *)
(***************************************************************************)
CONSTANTS TypeObjs, StrObjs, TypeNames, RoleObjs, RoleNames,
          ClassObjs, ClassNames, PermNames, NULL

VARIABLES typeSt, typeRec, strSt, strVal, roleSt, roleRec, classValSt, classVal,
          ub

vars == <<typeSt, typeRec, strSt, strVal, roleSt, roleRec, classValSt, classVal,
          ub>>

T == INSTANCE TypeRecord
R == INSTANCE RoleRecord
C == INSTANCE ClassValue

Init == T!TypeInit /\ R!RoleInit /\ C!ClassValInit

Next ==
  \/ T!TypeNext /\ UNCHANGED <<roleSt, roleRec, classValSt, classVal>>
  \/ R!RoleNext /\ UNCHANGED <<typeSt, typeRec, strSt, strVal, classValSt, classVal>>
  \/ C!ClassValNext /\ UNCHANGED <<typeSt, typeRec, strSt, strVal, roleSt, roleRec>>

Spec == Init /\ [][Next]_vars

(* A type record as the caller sees it: its strings read as texts. *)
TypeValue(t) ==
  [typeRec[t] EXCEPT !.name = T!Text(@), !.bounds = T!Text(@),
                     !.alias_of = T!Text(@),
                     !.types = [i \in DOMAIN @ |-> strVal[@[i]]]]

(* Spec sections 3 and 8 (round trip): sepol_type_clone and               *)
(* sepol_role_clone and sepol_class_clone of a named record succeed and    *)
(* yield a record equal to the original in every field.                    *)
CloneRoundTrip ==
  [][/\ \A t, t2 \in TypeObjs, s \in StrObjs :
          (T!TypeClone(t, t2, s) /\ typeRec[t].name # NULL) =>
             /\ ub' = "none"
             /\ TypeValue(t2)' = TypeValue(t)
     /\ \A r, r2 \in RoleObjs :
          (R!RoleClone(r, r2) /\ roleRec[r].name # NULL) =>
             /\ ub' = "none"
             /\ roleRec'[r2] = roleRec[r]
     /\ \A k, k2 \in ClassObjs :
          (C!ClassValClone(k, k2) /\ classVal[k].name # NULL) =>
             /\ ub' = "none"
             /\ classVal'[k2] = classVal[k]]_vars
=============================================================================
