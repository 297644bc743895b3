----------------------------- MODULE Iterators -----------------------------
(***************************************************************************)
(* The type, role and class iterators over one policy database            *)
(* (src/libsepol/src/types.c, roles.c and classes.c), a caller holding at  *)
(* most one of each, and the records they produce.                         *)
(*                                                                         *)
(* The type iterator wraps a hashtab iterator over p_types.table:          *)
(* hashtab_iter_next moves the cursor first and the datum is translated    *)
(* after, so a failed translation has used up its key.  The role iterator  *)
(* keeps an index into role_val_to_struct that only a successful           *)
(* translation advances.  The class iterator is the type iterator's        *)
(* hashtab iterator over p_classes.  Any translation may fail on an        *)
(* allocation; the failures are counted in oom and bounded by MaxFailures. *)
(***************************************************************************)
EXTENDS Integers, Sequences, SequencesExt, FiniteSets

CONSTANTS
  PolicyDBs,    \* the databases the iterators may run over
  MaxFailures,  \* bound on the allocation failures of one behaviour
  NULL

VARIABLES
  db,           \* the database (never changes)
  tLive,        \* a sepol_type_iter_t exists
  tPos,         \* keys of db.typeKeys the hashtab cursor has passed
  tOut,         \* what the last sepol_type_iter_next returned
  rLive,        \* a sepol_role_iter_t exists
  rIdx,         \* its idx field
  rOut,         \* what the last sepol_role_iter_next returned
  oom,          \* allocation failures so far
  cLive,        \* a sepol_class_iter_t exists
  cPos,         \* keys of db.classKeys its hashtab cursor has passed
  cOut          \* what the last sepol_class_iter_next returned

iterVars == <<db, tLive, tPos, tOut, rLive, rIdx, rOut, oom, cLive, cPos, cOut>>
classVars == <<cLive, cPos, cOut>>

TQ == INSTANCE TypeQuery
RQ == INSTANCE RoleQuery
CQ == INSTANCE ClassTranslation

Out(kind, rec) == [kind |-> kind, rec |-> rec]
NoneOut == Out("none", NULL)

Nprim(d) == Len(d.roleValToName)

(* sepol_type_iter_create: hashtab_iter_init puts the cursor before the    *)
(* first key.                                                              *)
TypeIterCreate ==
  /\ ~tLive
  /\ tLive' = TRUE
  /\ tPos' = 0
  /\ tOut' = Out("fresh", NULL)
  /\ UNCHANGED <<db, rLive, rIdx, rOut, oom, cLive, cPos, cOut>>

(* Mutant: a cursor at the end of the table starts over. *)
TypeIterNextWrap ==
  /\ tLive
  /\ IF tPos >= Len(db.typeKeys)
       THEN /\ tOut' = NoneOut
            /\ tPos' = 0
            /\ UNCHANGED oom
       ELSE LET key == db.typeKeys[tPos + 1] IN
            /\ tPos' = tPos + 1
            /\ \/ /\ tOut' = Out("item", TQ!TypeDatumToRecord(db, db.typeTable[key], key))
                  /\ UNCHANGED oom
               \/ /\ oom < MaxFailures
                  /\ oom' = oom + 1
                  /\ tOut' = Out("error", NULL)
  /\ UNCHANGED <<db, tLive, rLive, rIdx, rOut, cLive, cPos, cOut>>

(* sepol_type_iter_next: hashtab_iter_next yields the next key, or NULL    *)
(* at the end of the table, where the item is NULL; otherwise the datum    *)
(* of the key is translated, which may fail.                               *)
TypeIterNext ==
  /\ tLive
  /\ IF tPos >= Len(db.typeKeys)
       THEN /\ tOut' = NoneOut
            /\ UNCHANGED <<tPos, oom>>
       ELSE LET key == db.typeKeys[tPos + 1] IN
            /\ tPos' = tPos + 1
            /\ \/ /\ tOut' = Out("item", TQ!TypeDatumToRecord(db, db.typeTable[key], key))
                  /\ UNCHANGED oom
               \/ /\ oom < MaxFailures
                  /\ oom' = oom + 1
                  /\ tOut' = Out("error", NULL)
  /\ UNCHANGED <<db, tLive, rLive, rIdx, rOut, cLive, cPos, cOut>>

(* sepol_type_iter_destroy. *)
TypeIterDestroy ==
  /\ tLive
  /\ tLive' = FALSE
  /\ UNCHANGED <<db, tPos, tOut, rLive, rIdx, rOut, oom, cLive, cPos, cOut>>

(* Mutant: malloc'd iterator whose idx is never set. *)
RoleIterCreateNoInit ==
  /\ ~rLive
  /\ rLive' = TRUE
  /\ rIdx' \in 0..(Nprim(db) + 1)
  /\ rOut' = Out("fresh", NULL)
  /\ UNCHANGED <<db, tLive, tPos, tOut, oom, cLive, cPos, cOut>>

(* sepol_role_iter_create: idx = 0. *)
RoleIterCreate ==
  /\ ~rLive
  /\ rLive' = TRUE
  /\ rIdx' = 0
  /\ rOut' = Out("fresh", NULL)
  /\ UNCHANGED <<db, tLive, tPos, tOut, oom, cLive, cPos, cOut>>

(* Mutant: idx advanced before the translation is known to succeed. *)
RoleIterNextAdvanceOnError ==
  /\ rLive
  /\ IF rIdx >= Nprim(db)
       THEN /\ rOut' = NoneOut
            /\ UNCHANGED <<rIdx, oom>>
       ELSE /\ rIdx' = rIdx + 1
            /\ \/ /\ rOut' = Out("item", RQ!RoleDatumToRecord(db, db.roleByValue[rIdx + 1]))
                  /\ UNCHANGED oom
               \/ /\ oom < MaxFailures
                  /\ oom' = oom + 1
                  /\ rOut' = Out("error", NULL)
  /\ UNCHANGED <<db, tLive, tPos, tOut, rLive, cLive, cPos, cOut>>

(* Mutant: idx never incremented. *)
RoleIterNextNoAdvance ==
  /\ rLive
  /\ IF rIdx >= Nprim(db)
       THEN /\ rOut' = NoneOut
            /\ UNCHANGED <<rIdx, oom>>
       ELSE \/ /\ rOut' = Out("item", RQ!RoleDatumToRecord(db, db.roleByValue[rIdx + 1]))
               /\ UNCHANGED <<rIdx, oom>>
            \/ /\ oom < MaxFailures
               /\ oom' = oom + 1
               /\ rOut' = Out("error", NULL)
               /\ UNCHANGED rIdx
  /\ UNCHANGED <<db, tLive, tPos, tOut, rLive, cLive, cPos, cOut>>

(* sepol_role_iter_next: NULL once idx reaches nprim; otherwise translate  *)
(* role_val_to_struct[idx] and, only on success, idx++.                    *)
RoleIterNext ==
  /\ rLive
  /\ IF rIdx >= Nprim(db)
       THEN /\ rOut' = NoneOut
            /\ UNCHANGED <<rIdx, oom>>
       ELSE \/ /\ rOut' = Out("item", RQ!RoleDatumToRecord(db, db.roleByValue[rIdx + 1]))
               /\ rIdx' = rIdx + 1
               /\ UNCHANGED oom
            \/ /\ oom < MaxFailures
               /\ oom' = oom + 1
               /\ rOut' = Out("error", NULL)
               /\ UNCHANGED rIdx
  /\ UNCHANGED <<db, tLive, tPos, tOut, rLive, cLive, cPos, cOut>>

(* sepol_role_iter_destroy. *)
RoleIterDestroy ==
  /\ rLive
  /\ rLive' = FALSE
  /\ UNCHANGED <<db, tLive, tPos, tOut, rIdx, rOut, oom, cLive, cPos, cOut>>

(* Mutant: hashtab_iter_init left out, the cursor is whatever malloc gave. *)
ClassIterCreateNoInit ==
  /\ ~cLive
  /\ cLive' = TRUE
  /\ cPos' \in 0..Len(db.classKeys)
  /\ cOut' = Out("fresh", NULL)
  /\ UNCHANGED <<db, tLive, tPos, tOut, rLive, rIdx, rOut, oom>>

(* sepol_class_iter_create: hashtab_iter_init over p_classes. *)
ClassIterCreate ==
  /\ ~cLive
  /\ cLive' = TRUE
  /\ cPos' = 0
  /\ cOut' = Out("fresh", NULL)
  /\ UNCHANGED <<db, tLive, tPos, tOut, rLive, rIdx, rOut, oom>>

(* sepol_class_iter_next: as sepol_type_iter_next, the cursor moves before *)
(* class_datum_to_record runs.  Of the allocation failures only a failed   *)
(* add_constraint / add_validatetrans returns an error: every other one,   *)
(* and a translation with undefined behaviour (CQ!TranslationUB), ends the *)
(* process (run query_crash), so such a behaviour stops at the state      *)
(* before it and is a prefix of a behaviour of this model.                 *)
ClassIterNext ==
  /\ cLive
  /\ IF cPos >= Len(db.classKeys)
       THEN /\ cOut' = NoneOut
            /\ UNCHANGED <<cPos, oom>>
       ELSE LET cls == db.classTable[db.classKeys[cPos + 1]] IN
            /\ cPos' = cPos + 1
            /\ \/ /\ CQ!TranslationUB(cls) = "none"
                  /\ cOut' = Out("item", CQ!ClassDatumToRecord(db, cls))
                  /\ UNCHANGED oom
               \/ /\ oom < MaxFailures
                  /\ CQ!CleanFailures \cap CQ!FailPoints(cls) # {}
                  /\ oom' = oom + 1
                  /\ cOut' = Out("error", NULL)
  /\ UNCHANGED <<db, tLive, tPos, tOut, rLive, rIdx, rOut, cLive>>

(* sepol_class_iter_destroy. *)
ClassIterDestroy ==
  /\ cLive
  /\ cLive' = FALSE
  /\ UNCHANGED <<db, tLive, tPos, tOut, rLive, rIdx, rOut, oom, cPos, cOut>>

IterInit ==
  /\ db \in PolicyDBs
  /\ tLive = FALSE /\ tPos = 0 /\ tOut = NoneOut
  /\ rLive = FALSE /\ rIdx = 0 /\ rOut = NoneOut
  /\ oom = 0
  /\ cLive = FALSE /\ cPos = 0 /\ cOut = NoneOut

IterNext ==
  \/ TypeIterCreate \/ TypeIterNext \/ TypeIterDestroy
  \/ RoleIterCreate \/ RoleIterNext \/ RoleIterDestroy
  \/ ClassIterCreate \/ ClassIterNext \/ ClassIterDestroy

(* The caller loops on next until it returns NULL (the iteration loops of  *)
(* the library's users and tests), so next is taken while an iterator      *)
(* exists.                                                                 *)
IterSpec ==
  /\ IterInit /\ [][IterNext]_iterVars
  /\ WF_iterVars(TypeIterNext) /\ WF_iterVars(RoleIterNext)
  /\ WF_iterVars(ClassIterNext)

IterTypeOK ==
  /\ db \in PolicyDBs
  /\ tLive \in BOOLEAN /\ rLive \in BOOLEAN /\ cLive \in BOOLEAN
  /\ tPos \in 0..Len(db.typeKeys)
  /\ cPos \in 0..Len(db.classKeys)
  /\ rIdx \in 0..Nprim(db)
  /\ oom \in 0..MaxFailures
  /\ {tOut.kind, rOut.kind, cOut.kind} \subseteq {"fresh", "item", "error", "none"}

(* What the last call returned, as the abstract iterator sees it. *)
Result(out) == IF out.kind = "item" THEN out.rec.name ELSE out.kind

TI == INSTANCE Iterator
        WITH MayLose <- TRUE, keys <- ToSet(db.typeKeys), live <- tLive,
             pending <- IF tLive THEN {db.typeKeys[i] : i \in (tPos + 1)..Len(db.typeKeys)}
                                 ELSE {},
             result <- Result(tOut)

RI == INSTANCE Iterator
        WITH MayLose <- FALSE, keys <- RQ!RoleKeys(db), live <- rLive,
             pending <- IF rLive THEN {db.roleValToName[v] : v \in (rIdx + 1)..Nprim(db)}
                                 ELSE {},
             result <- Result(rOut)

CI == INSTANCE Iterator
        WITH MayLose <- TRUE, keys <- ToSet(db.classKeys), live <- cLive,
             pending <- IF cLive THEN {db.classKeys[i] : i \in (cPos + 1)..Len(db.classKeys)}
                                 ELSE {},
             result <- Result(cOut)

(* Spec sections 4.7 and 8 for sepol_type_iter_next: every key of the     *)
(* type table is returned at most once per iteration, "none" comes only    *)
(* once no key is left and then forever, and a failed call may use up its *)
(* key (the hashtab cursor has moved before the translation fails).        *)
TypeIterRefines == TI!Spec

(* The same for sepol_role_iter_next, where a failed translation must      *)
(* leave its role for the next call: idx is advanced only on success, so   *)
(* no role is skipped.                                                     *)
RoleIterRefines == RI!Spec

(* The same for sepol_class_iter_next: each class is returned at most     *)
(* once, and a failed add_constraint uses up its class.                    *)
ClassIterRefines == CI!Spec

(* Spec section 4.7: while the caller keeps calling next, every iterator   *)
(* reaches "none": the cursors and idx make progress past each entry.      *)
IterationsTerminate ==
  /\ tLive ~> (~tLive \/ tOut.kind = "none")
  /\ rLive ~> (~rLive \/ rOut.kind = "none")
  /\ cLive ~> (~cLive \/ cOut.kind = "none")

PrimaryTypes(d) ==
  {k \in DOMAIN d.typeTable : d.typeTable[k].flavor = TQ!TYPE_TYPE
                                /\ d.typeTable[k].primary # 0}
Attributes(d) ==
  {k \in DOMAIN d.typeTable : d.typeTable[k].flavor = TQ!TYPE_ATTRIB}

(* Spec section 8, attribute/type duality, for a kernel policy: querying   *)
(* attribute A lists type T exactly when querying T lists A, although      *)
(* type_datum_to_record reads the two from different global bitmaps.      *)
TypeAttributeDuality ==
  db.kern =>
    \A a \in Attributes(db), t \in PrimaryTypes(db) :
      (t \in ToSet(TQ!TypeQueryResult(db, a).types))
        <=> (a \in ToSet(TQ!TypeQueryResult(db, t).types))

(* Spec sections 4.6 and 8: no queried type, attribute or alias lists     *)
(* itself, or its own primary, in its subtype list, although the kernel    *)
(* bitmaps carry the datum's own bit.                                      *)
NoSelfSubtype ==
  \A k \in DOMAIN db.typeTable :
    LET r == TQ!TypeQueryResult(db, k) IN
      /\ r.name \notin ToSet(r.types)
      /\ db.typeValToName[db.typeTable[k].value] \notin ToSet(r.types)
(* The value of a permission of class cls, from its own table or else its  *)
(* common's.                                                               *)
PermValue(cls, p) ==
  IF p \in DOMAIN cls.perms THEN cls.perms[p] ELSE cls.comdatum.perms[p]

(* Spec section 4.1: a translated constraint lists exactly the permissions *)
(* whose bit (value - 1) is set in the datum's mask, the class's and the   *)
(* common's, up to the 32nd permission whose bit add_perm_helper computes *)
(* with the int shift 1 << 31: mapping the names back to bits gives the    *)
(* mask again.                                                             *)
ConstraintPermsRoundTrip ==
  cOut.kind = "item" =>
    LET cls == db.classTable[cOut.rec.name] IN
    \A i \in DOMAIN cls.constraints :
      {PermValue(cls, p) - 1 : p \in cOut.rec.constraints[i].perms}
        = cls.constraints[i].permissions
=============================================================================
