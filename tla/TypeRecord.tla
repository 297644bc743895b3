----------------------------- MODULE TypeRecord -----------------------------
(***************************************************************************)
(* The owned type record of libsepol's record layer                        *)
(* (src/libsepol/src/type_record.c): name, flavor, an array of subtype     *)
(* names, a flag mask, the bounds name and the alias-of name, allocated    *)
(* at one of the addresses TypeObjs.                                       *)
(*                                                                         *)
(* Every string a record holds is a strdup: a heap object at one of the    *)
(* addresses StrObjs, with its text (a member of TypeNames) in strVal.     *)
(* A string never allocated has no text (NULL).                           *)
(* The name, bounds and alias_of fields hold such an address or NULL, the  *)
(* subtype array a sequence of them.  A caller's argument is a text: every *)
(* setter reads it (strdup) before it frees anything.                      *)
(*                                                                         *)
(* A type record is "none" (never allocated), "live", "freed", or "lost":  *)
(* allocated but never handed to the caller (a failed sepol_type_clone).   *)
(* An allocation may fail wherever the code gives the failure a path of    *)
(* its own; a failure whose path changes nothing is a stuttering step.     *)
(* strdup(NULL) and memset(NULL) are undefined; the model records them in  *)
(* ub and stops.                                                           *)
(***************************************************************************)
EXTENDS Integers, Sequences, SequencesExt, FiniteSets, Bitwise

CONSTANTS
  TypeObjs,   \* addresses a type record may be allocated at
  StrObjs,    \* addresses a strdup may return
  TypeNames,  \* the texts a caller passes to the setters
  NULL        \* the null pointer

ASSUME NULL \notin TypeObjs \cup StrObjs \cup TypeNames

VARIABLES
  typeSt,     \* "none", "live", "freed" or "lost"
  typeRec,    \* fields of each type object
  strSt,      \* "none", "live" or "freed", for each string object
  strVal,     \* the text of each string object
  ub          \* first undefined behaviour met, or "none"

typeVars == <<typeSt, typeRec, strSt, strVal, ub>>

(* type_record.h lines 42-44 and 62-64. *)
SEPOL_TYPE_TYPE   == 0
SEPOL_TYPE_ATTRIB == 1
SEPOL_TYPE_ALIAS  == 2
SEPOL_TYPE_FLAGS_PERMISSIVE        == 1
SEPOL_TYPE_FLAGS_EXPAND_ATTR_TRUE  == 2
SEPOL_TYPE_FLAGS_EXPAND_ATTR_FALSE == 4

Flavors == {SEPOL_TYPE_TYPE, SEPOL_TYPE_ATTRIB, SEPOL_TYPE_ALIAS}
Flags == {SEPOL_TYPE_FLAGS_PERMISSIVE, SEPOL_TYPE_FLAGS_EXPAND_ATTR_TRUE,
          SEPOL_TYPE_FLAGS_EXPAND_ATTR_FALSE}

(* The record sepol_type_create's memset leaves. *)
EmptyType ==
  [name |-> NULL, flavor |-> SEPOL_TYPE_TYPE, types |-> <<>>, flags |-> 0,
   bounds |-> NULL, alias_of |-> NULL]

(* Addresses malloc may return: never used, or freed. *)
Free(st) == {o \in DOMAIN st : st[o] \in {"none", "freed"}}

(* The text a string field points to. *)
Text(p) == IF p = NULL THEN NULL ELSE strVal[p]

(* strSt and strVal after free(p) of each p in ps; free(NULL) does       *)
(* nothing.  The text of freed memory is not kept.                        *)
FreeStrs(st, ps) == [s \in DOMAIN st |-> IF s \in ps THEN "freed" ELSE st[s]]
ClearStrs(v, ps) == [s \in DOMAIN v |-> IF s \in ps THEN NULL ELSE v[s]]

(* The heap after a strdup of text n returned s. *)
Dup(s, n) ==
  /\ strSt' = [strSt EXCEPT ![s] = "live"]
  /\ strVal' = [strVal EXCEPT ![s] = n]

-----------------------------------------------------------------------------
(* The subtype array.                                                      *)

(* The texts of an array of strings. *)
Texts(list) == [i \in DOMAIN list |-> strVal[list[i]]]

(* Mutant: append without the has_subtype check. *)
AddSubtypeDup(names, n) == Append(names, n)

(* sepol_type_add_subtype, on the texts of the array: nothing when         *)
(* sepol_type_has_subtype finds n, otherwise n appended.                   *)
AddSubtype(names, n) == IF n \in ToSet(names) THEN names ELSE Append(names, n)

(* The same on the array itself: s, the strdup of n, appended when         *)
(* AddSubtype appends.                                                     *)
AddSubtypeStr(list, s, n) ==
  IF AddSubtype(Texts(list), n) = Texts(list) THEN list ELSE Append(list, s)

(* The loop of sepol_type_del_subtype: i counts up from 0 (the code's      *)
(* index; l is 1-based); a match is freed (collected in fr), the last      *)
(* element moves into its slot and num_types drops, and i still advances,  *)
(* so the element moved in is not compared.                                *)
RECURSIVE DelSubtypeScan(_, _, _, _)
DelSubtypeScan(l, n, i, fr) ==
  IF i >= Len(l) THEN [list |-> l, freed |-> fr]
  ELSE IF strVal[l[i + 1]] = n
       THEN DelSubtypeScan(Front([l EXCEPT ![i + 1] = Last(l)]), n, i + 1,
                           fr \cup {l[i + 1]})
       ELSE DelSubtypeScan(l, n, i + 1, fr)

-----------------------------------------------------------------------------
(* Operations on a live record t.                                          *)

(* A step of live record t that sets one field. *)
Set(t, field, v) ==
  /\ ub = "none"
  /\ typeSt[t] = "live"
  /\ typeRec' = [typeRec EXCEPT ![t][field] = v]

Update(t, field, v) ==
  /\ Set(t, field, v)
  /\ UNCHANGED <<typeSt, strSt, strVal, ub>>

(* A step of t that sets a field and allocates s, a strdup of n. *)
UpdateDup(t, field, v, s, n) ==
  /\ Set(t, field, v)
  /\ s \in Free(strSt)
  /\ Dup(s, n)
  /\ UNCHANGED <<typeSt, ub>>

(* Mutant: sepol_type_create without the memset: stale bytes in flags. *)
TypeCreateUninit(t) ==
  /\ ub = "none"
  /\ t \in Free(typeSt)
  /\ typeSt' = [typeSt EXCEPT ![t] = "live"]
  /\ typeRec' = [typeRec EXCEPT ![t] = [EmptyType EXCEPT !.flags = 8]]
  /\ UNCHANGED <<strSt, strVal, ub>>

(* sepol_type_create: a zeroed record. *)
TypeCreate(t) ==
  /\ ub = "none"
  /\ t \in Free(typeSt)
  /\ typeSt' = [typeSt EXCEPT ![t] = "live"]
  /\ typeRec' = [typeRec EXCEPT ![t] = EmptyType]
  /\ UNCHANGED <<strSt, strVal, ub>>

(* sepol_type_create when malloc fails: the test is of type_ptr, not of    *)
(* *type_ptr, so memset writes through NULL.                               *)
TypeCreateFail ==
  /\ ub = "none"
  /\ ub' = "null_deref"
  /\ UNCHANGED <<typeSt, typeRec, strSt, strVal>>

(* sepol_type_set_name: strdup of n first, then free of the old name. *)
TypeSetName(t, s, n) ==
  /\ Set(t, "name", s)
  /\ s \in Free(strSt)
  /\ strSt' = [FreeStrs(strSt, {typeRec[t].name}) EXCEPT ![s] = "live"]
  /\ strVal' = [ClearStrs(strVal, {typeRec[t].name}) EXCEPT ![s] = n]
  /\ UNCHANGED <<typeSt, ub>>

(* sepol_type_set_flavor. *)
TypeSetFlavor(t, f) == Update(t, "flavor", f)

(* sepol_type_set_alias_of / set_bounds: the field takes the strdup; the  *)
(* old string is not freed.                                                *)
TypeSetAliasOf(t, s, n) == UpdateDup(t, "alias_of", s, s, n)
TypeSetBounds(t, s, n)  == UpdateDup(t, "bounds", s, s, n)

(* The same two setters when strdup fails: the field is set to NULL, and   *)
(* the old string is lost.                                                 *)
TypeSetAliasOfFail(t) == Update(t, "alias_of", NULL)
TypeSetBoundsFail(t)  == Update(t, "bounds", NULL)

(* sepol_type_set_flag / unset_flag: flags |= f, flags &= ~f. *)
TypeSetFlag(t, f)   == Update(t, "flags", typeRec[t].flags | f)
TypeUnsetFlag(t, f) == Update(t, "flags", typeRec[t].flags - (typeRec[t].flags & f))

(* sepol_type_add_subtype.  Its failures (reallocarray, or the strdup     *)
(* after it) leave num_types as it was: stuttering steps.                  *)
(* When has_subtype finds n it returns at once: a stuttering step.       *)
TypeAddSubtype(t, s, n) ==
  LET l == AddSubtypeStr(typeRec[t].types, s, n) IN
  /\ l # typeRec[t].types
  /\ UpdateDup(t, "types", l, s, n)

(* sepol_type_del_subtype: the scan, freeing each match it meets. *)
TypeDelSubtype(t, n) ==
  LET r == DelSubtypeScan(typeRec[t].types, n, 0, {}) IN
  /\ Set(t, "types", r.list)
  /\ strSt' = FreeStrs(strSt, r.freed)
  /\ strVal' = ClearStrs(strVal, r.freed)
  /\ UNCHANGED <<typeSt, ub>>

(* Mutant: clone copying the name pointer instead of a strdup. *)
TypeCloneShareName(t, t2, s) ==
  /\ ub = "none"
  /\ typeSt[t] = "live"
  /\ t2 \in Free(typeSt)
  /\ typeRec[t].name # NULL
  /\ typeSt' = [typeSt EXCEPT ![t2] = "live"]
  /\ typeRec' = [typeRec EXCEPT ![t2] = [EmptyType EXCEPT !.name = typeRec[t].name,
                                                          !.flags = typeRec[t].flags]]
  /\ UNCHANGED <<strSt, strVal, ub>>

(* sepol_type_clone(t) into a fresh object t2: sepol_type_create, a strdup *)
(* s of the name, and the flags; nothing else is copied.  An unnamed t     *)
(* makes it call strdup(NULL).                                             *)
TypeClone(t, t2, s) ==
  /\ ub = "none"
  /\ typeSt[t] = "live"
  /\ t2 \in Free(typeSt)
  /\ IF typeRec[t].name = NULL
       THEN /\ ub' = "null_deref"
            /\ UNCHANGED <<typeSt, typeRec, strSt, strVal>>
       ELSE /\ s \in Free(strSt)
            /\ typeSt' = [typeSt EXCEPT ![t2] = "live"]
            /\ typeRec' = [typeRec EXCEPT
                             ![t2] = [EmptyType EXCEPT !.name = s,
                                                       !.flags = typeRec[t].flags]]
            /\ Dup(s, Text(typeRec[t].name))
            /\ UNCHANGED ub

(* sepol_type_clone when the strdup of the name fails: it returns an      *)
(* error without freeing the record it created.                            *)
TypeCloneFail(t, t2) ==
  /\ ub = "none"
  /\ typeSt[t] = "live"
  /\ typeRec[t].name # NULL
  /\ t2 \in Free(typeSt)
  /\ typeSt' = [typeSt EXCEPT ![t2] = "lost"]
  /\ typeRec' = [typeRec EXCEPT ![t2] = EmptyType]
  /\ UNCHANGED <<strSt, strVal, ub>>

(* The strings record t holds. *)
StringsOf(t) ==
  ({typeRec[t].name, typeRec[t].bounds, typeRec[t].alias_of} \ {NULL})
  \cup ToSet(typeRec[t].types)

(* Mutant: sepol_type_free without free(type->bounds). *)
TypeFreeNoBounds(t) ==
  /\ ub = "none"
  /\ typeSt[t] = "live"
  /\ typeSt' = [typeSt EXCEPT ![t] = "freed"]
  /\ typeRec' = [typeRec EXCEPT ![t] = EmptyType]
  /\ strSt' = FreeStrs(strSt, StringsOf(t) \ {typeRec[t].bounds})
  /\ strVal' = ClearStrs(strVal, StringsOf(t) \ {typeRec[t].bounds})
  /\ UNCHANGED ub

(* sepol_type_free: the name, each subtype, bounds, alias_of, the record  *)
(* (whose stale fields are not kept).                                      *)
TypeFree(t) ==
  /\ ub = "none"
  /\ typeSt[t] = "live"
  /\ typeSt' = [typeSt EXCEPT ![t] = "freed"]
  /\ typeRec' = [typeRec EXCEPT ![t] = EmptyType]
  /\ strSt' = FreeStrs(strSt, StringsOf(t))
  /\ strVal' = ClearStrs(strVal, StringsOf(t))
  /\ UNCHANGED ub

-----------------------------------------------------------------------------
TypeInit ==
  /\ typeSt = [t \in TypeObjs |-> "none"]
  /\ typeRec = [t \in TypeObjs |-> EmptyType]
  /\ strSt = [s \in StrObjs |-> "none"]
  /\ strVal = [s \in StrObjs |-> NULL]
  /\ ub = "none"

(* A caller that builds, edits, clones and frees type records. *)
TypeNext ==
  \/ \E t \in TypeObjs : TypeCreate(t)
  \/ TypeCreateFail
  \/ \E t \in TypeObjs, f \in Flavors : TypeSetFlavor(t, f)
  \/ \E t \in TypeObjs, f \in Flags : TypeSetFlag(t, f) \/ TypeUnsetFlag(t, f)
  \/ \E t \in TypeObjs : TypeSetAliasOfFail(t) \/ TypeSetBoundsFail(t)
  \/ \E t \in TypeObjs, n \in TypeNames : TypeDelSubtype(t, n)
  \/ \E t \in TypeObjs : TypeFree(t)
  \/ \E t \in TypeObjs, s \in StrObjs, n \in TypeNames :
       \/ TypeSetName(t, s, n)
       \/ TypeSetAliasOf(t, s, n)
       \/ TypeSetBounds(t, s, n)
       \/ TypeAddSubtype(t, s, n)
  \/ \E t, t2 \in TypeObjs : TypeCloneFail(t, t2)
  \/ \E t, t2 \in TypeObjs, s \in StrObjs : TypeClone(t, t2, s)

TypeSpec == TypeInit /\ [][TypeNext]_typeVars
=============================================================================
