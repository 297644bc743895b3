-------------------------------- MODULE Keys --------------------------------
(***************************************************************************)
(* The keys of libsepol's record layer: sepol_type_key (type_record.c),    *)
(* sepol_role_key (role_record.c) and sepol_class_key (class_record.c),    *)
(* each a struct holding one strdup'd name, next to the type records they  *)
(* are extracted from.  Keys live in the string heap of TypeRecord.        *)
(*                                                                         *)
(* The three create functions free the key struct when the strdup fails,   *)
(* so a failed create changes nothing: a stuttering step.  The role and    *)
(* class records keep their names as values (RoleRecord, ClassRecord), so *)
(* only sepol_type_key_extract is a step here; key_unpack and the compare  *)
(* functions read and change nothing.                                      *)
(***************************************************************************)
EXTENDS TypeRecord

CONSTANT KeyObjs    \* addresses a key struct may be allocated at

ASSUME NULL \notin KeyObjs

VARIABLES
  keySt,      \* "none", "live" or "freed"
  keyKind,    \* "type", "role" or "class"
  keyName     \* the string object the key's name points to

keyVars == <<keySt, keyKind, keyName>>
vars == <<typeSt, typeRec, strSt, strVal, ub, keySt, keyKind, keyName>>

KeyKinds == {"type", "role", "class"}

(* sepol_{type,role,class}_key_create: a key struct k holding s, a strdup *)
(* of n.                                                                   *)
KeyCreate(k, kind, s, n) ==
  /\ ub = "none"
  /\ k \in Free(keySt)
  /\ s \in Free(strSt)
  /\ keySt' = [keySt EXCEPT ![k] = "live"]
  /\ keyKind' = [keyKind EXCEPT ![k] = kind]
  /\ keyName' = [keyName EXCEPT ![k] = s]
  /\ Dup(s, n)
  /\ UNCHANGED <<typeSt, typeRec, ub>>

TypeKeyCreate(k, s, n)  == KeyCreate(k, "type", s, n)
RoleKeyCreate(k, s, n)  == KeyCreate(k, "role", s, n)
ClassKeyCreate(k, s, n) == KeyCreate(k, "class", s, n)

(* sepol_type_key_extract: sepol_type_key_create of the record's name;    *)
(* strdup(NULL) for an unnamed record.                                     *)
TypeKeyExtract(k, t, s) ==
  /\ ub = "none"
  /\ typeSt[t] = "live"
  /\ IF typeRec[t].name = NULL
       THEN /\ ub' = "null_deref"
            /\ UNCHANGED <<typeSt, typeRec, strSt, strVal, keyVars>>
       ELSE TypeKeyCreate(k, s, Text(typeRec[t].name))

(* Freeing live key k of the given kind, and the strings in freed. *)
FreeKey(k, kind, freed) ==
  /\ ub = "none"
  /\ keySt[k] = "live"
  /\ keyKind[k] = kind
  /\ keySt' = [keySt EXCEPT ![k] = "freed"]
  /\ keyName' = [keyName EXCEPT ![k] = NULL]
  /\ strSt' = FreeStrs(strSt, freed)
  /\ strVal' = ClearStrs(strVal, freed)
  /\ UNCHANGED <<typeSt, typeRec, ub, keyKind>>

(* sepol_type_key_free and sepol_class_key_free free the name and the      *)
(* struct; sepol_role_key_free frees only the struct.                      *)
TypeKeyFree(k)  == FreeKey(k, "type", {keyName[k]})
ClassKeyFree(k) == FreeKey(k, "class", {keyName[k]})
RoleKeyFree(k)  == FreeKey(k, "role", {})

KeysInit ==
  /\ TypeInit
  /\ keySt = [k \in KeyObjs |-> "none"]
  /\ keyKind = [k \in KeyObjs |-> "type"]
  /\ keyName = [k \in KeyObjs |-> NULL]

(* A caller holding type records and keys of every kind. *)
KeysNext ==
  \/ TypeNext /\ UNCHANGED keyVars
  \/ \E k \in KeyObjs, s \in StrObjs, n \in TypeNames :
       TypeKeyCreate(k, s, n) \/ RoleKeyCreate(k, s, n) \/ ClassKeyCreate(k, s, n)
  \/ \E k \in KeyObjs, t \in TypeObjs, s \in StrObjs : TypeKeyExtract(k, t, s)
  \/ \E k \in KeyObjs : TypeKeyFree(k) \/ RoleKeyFree(k) \/ ClassKeyFree(k)

KeysSpec == KeysInit /\ [][KeysNext]_vars

-----------------------------------------------------------------------------
(* Properties.                                                             *)

TypeOK ==
  /\ typeSt \in [TypeObjs -> {"none", "live", "freed", "lost"}]
  /\ strSt \in [StrObjs -> {"none", "live", "freed"}]
  /\ strVal \in [StrObjs -> TypeNames \cup {NULL}]
  /\ keySt \in [KeyObjs -> {"none", "live", "freed"}]
  /\ keyKind \in [KeyObjs -> KeyKinds]
  /\ keyName \in [KeyObjs -> StrObjs \cup {NULL}]
  /\ \A t \in TypeObjs :
       /\ {typeRec[t].name, typeRec[t].bounds, typeRec[t].alias_of} \subseteq StrObjs \cup {NULL}
       /\ typeRec[t].flavor \in Flavors
       /\ typeRec[t].types \in Seq(StrObjs)
       /\ typeRec[t].flags \in 0..7
  /\ ub \in {"none", "null_deref"}

(* Every pointer to a string a record or a key holds, as <<holder, slot,  *)
(* string>>: the fields of the records the caller holds (and of a record  *)
(* a failed clone lost), each slot of their subtype arrays, and the name   *)
(* of every live key.                                                      *)
Pointers ==
  LET held == {t \in TypeObjs : typeSt[t] \in {"live", "lost"}} IN
  {<<t, <<f>>, typeRec[t][f]>> : t \in held, f \in {"name", "bounds", "alias_of"}}
  \cup UNION {{<<t, <<"types", i>>, typeRec[t].types[i]>> : i \in DOMAIN typeRec[t].types} : t \in held}
  \cup {<<k, <<"name">>, keyName[k]>> : k \in {k \in KeyObjs : keySt[k] = "live"}}

(* Records and keys own their strings: every string a record field, a     *)
(* subtype slot or a key points to is live and pointed to from nowhere    *)
(* else.  It needs every setter to strdup before it frees, set_name to     *)
(* free the name it replaces and nothing else, del_subtype to free exactly *)
(* the slots it drops, type_clone and key_extract to copy rather than      *)
(* share, and type_free and key_free to free only what they own, over any  *)
(* sequence of calls.                                                      *)
StringsOwnedOnce ==
  \A s \in StrObjs :
    LET ps == {p \in Pointers : p[3] = s} IN
    /\ Cardinality(ps) <= 1
    /\ ps # {} => strSt[s] = "live"

(* A string still allocated that no record or key points to. *)
Orphan(s) == strSt[s] = "live" /\ \A p \in Pointers : p[3] # s

(* The calls that drop a string as written: set_alias_of and set_bounds    *)
(* overwrite the field without freeing it (or null it when strdup fails),  *)
(* and sepol_role_key_free frees the key but not its name.                 *)
KnownLeak ==
  \/ \E t \in TypeObjs, s \in StrObjs, n \in TypeNames :
       TypeSetAliasOf(t, s, n) \/ TypeSetBounds(t, s, n)
  \/ \E t \in TypeObjs : TypeSetAliasOfFail(t) \/ TypeSetBoundsFail(t)
  \/ \E k \in KeyObjs : RoleKeyFree(k)

(* No other call leaks a string: a step that leaves an allocated string    *)
(* pointed to by nothing is one of the known leaking calls.  It fails if   *)
(* type_free, set_name, del_subtype or a key free forgets a string, or if  *)
(* an allocation is made and not stored.                                   *)
NoOtherLeak ==
  [][(\E s \in StrObjs : Orphan(s)' /\ ~Orphan(s)) => KnownLeak]_vars

(* sepol_type_del_subtype removes the name and keeps every other subtype.  *)
(* Its forward scan never re-examines the element it swaps in, so this     *)
(* rests on sepol_type_add_subtype never storing a name twice, over any    *)
(* sequence of adds, deletes and clones.                                    *)
DelSubtypeRemovesName ==
  [][\A t \in TypeObjs, n \in TypeNames :
       TypeDelSubtype(t, n) =>
         {strVal'[x] : x \in ToSet(typeRec'[t].types)}
           = {strVal[x] : x \in ToSet(typeRec[t].types)} \ {n}]_vars
=============================================================================
