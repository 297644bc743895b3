--------------------------- MODULE MC_Iterators ---------------------------
(***************************************************************************)
(* Small policy databases for Iterators.  Types: attribute attr_a (value   *)
(* 1), types ty_b (2) and ty_c (3), and al_b, an alias of ty_b; roles:     *)
(* the attribute role r_attr (1) holding staff_r (2) and user_r (3).       *)
(* They vary in                                                            *)
(*   kern     kernel form (global bitmaps, kernel alias with primary 0)    *)
(*            or base form (types embedded in the datum, TYPE_ALIAS)       *)
(*   members  the values of the types in attr_a                            *)
(*   selfA    whether the kernel bitmaps of attr_a carry attr_a's own bit  *)
(*   bnd      whether ty_c is bounded by ty_b                              *)
(*   perm     whether ty_c is permissive (datum flag or permissive_map)    *)
(* with bnd and perm tied to members (ty_c is bounded when ty_b is a       *)
(* member and permissive when it is one itself), so each occurs in both    *)
(* forms; plus the empty database.                                         *)
(*                                                                         *)
(* Every database has the same class table: cls_file, with common          *)
(* file_common (read = 1) and its own permissions write = 2 and            *)
(* relabelto = 32, constrained by u1 == u2 on {read, relabelto} and on     *)
(* {write}; and cls_proc, without a common or a constraint.  relabelto is  *)
(* the 32nd permission, the one add_perm_helper finds with 1 << 31.        *)
(***************************************************************************)
EXTENDS Iterators

TypeNamesOf == <<"attr_a", "ty_b", "ty_c">>

Datum(v, fl, prim, ty, flg, bd) ==
  [value |-> v, flavor |-> fl, primary |-> prim, types |-> ty, flags |-> flg,
   bounds |-> bd]

UserEq == [expr_type |-> CQ!CEXPR_ATTR, attr |-> CQ!CEXPR_USER, op |-> 1,
           names |-> {}, type_names |-> {}]

ClassPart ==
  [classValToName |-> <<"cls_file", "cls_proc">>,
   classKeys      |-> <<"cls_proc", "cls_file">>,
   classTable     |->
     [k \in {"cls_file", "cls_proc"} |->
        IF k = "cls_file"
          THEN [value |-> 1, comkey |-> "file_common",
                comdatum |-> [perms |-> [p \in {"read"} |-> 1]],
                perms |-> [p \in {"write", "relabelto"} |-> IF p = "write" THEN 2 ELSE 32],
                constraints |-> <<[permissions |-> {0, 31}, expr |-> <<UserEq>>],
                                  [permissions |-> {1}, expr |-> <<UserEq>>]>>,
                validatetrans |-> <<>>, default_user |-> 0, default_role |-> 0,
                default_type |-> 0, default_range |-> 0]
          ELSE [value |-> 2, comkey |-> NULL, comdatum |-> NULL,
                perms |-> [p \in {"signal"} |-> 1], constraints |-> <<>>,
                validatetrans |-> <<>>, default_user |-> 1, default_role |-> 0,
                default_type |-> 2, default_range |-> 3]]]

MakeDB(kern, members, selfA, bnd, perm) ==
  LET mbits == {m - 1 : m \in members}
      sbits == IF selfA THEN {0} ELSE {}
      TT == TQ!TYPE_TYPE
      table ==
        [k \in {"attr_a", "ty_b", "ty_c", "al_b"} |->
           CASE k = "attr_a" -> Datum(1, TQ!TYPE_ATTRIB, 1,
                                      IF kern THEN {} ELSE mbits, 0, 0)
             [] k = "ty_b"   -> Datum(2, TT, 1, {}, 0, 0)
             [] k = "ty_c"   -> Datum(3, TT, 1, {},
                                      IF perm /\ ~kern THEN 1 ELSE 0,
                                      IF bnd THEN 2 ELSE 0)
             [] k = "al_b"   -> IF kern THEN Datum(2, TT, 0, {}, 0, 0)
                                        ELSE Datum(2, TQ!TYPE_ALIAS, 2, {}, 0, 0)]
  IN
  ClassPart @@
  [kern          |-> kern,
   typeValToName |-> TypeNamesOf,
   typeKeys      |-> <<"ty_c", "attr_a", "al_b", "ty_b">>,
   typeTable     |-> table,
   attrTypeMap   |-> [v \in 1..3 |-> IF v = 1 THEN mbits \cup sbits ELSE {v - 1}],
   typeAttrMap   |-> [v \in 1..3 |-> IF v = 1 THEN sbits
                                     ELSE {v - 1} \cup (IF v \in members THEN {0} ELSE {})],
   permissiveMap |-> IF perm /\ kern THEN {3} ELSE {},
   roleValToName |-> <<"r_attr", "staff_r", "user_r">>,
   roleByValue   |->
     <<[value |-> 1, flavor |-> RQ!ROLE_ATTRIB, types |-> {}, roles |-> {1, 2}, bounds |-> 0],
       [value |-> 2, flavor |-> RQ!ROLE_ROLE, types |-> {1}, roles |-> {1}, bounds |-> 0],
       [value |-> 3, flavor |-> RQ!ROLE_ROLE, types |-> {2}, roles |-> {2}, bounds |-> 2]>>]

EmptyDB ==
  [kern |-> FALSE, typeValToName |-> <<>>, typeKeys |-> <<>>,
   typeTable |-> [k \in {} |-> 0], attrTypeMap |-> <<>>, typeAttrMap |-> <<>>,
   permissiveMap |-> {}, roleValToName |-> <<>>, roleByValue |-> <<>>,
   classValToName |-> <<>>, classKeys |-> <<>>, classTable |-> [k \in {} |-> 0]]

MCPolicyDBs ==
  {EmptyDB}
  \cup {MakeDB(TRUE, m, s, 2 \in m, 3 \in m) : m \in SUBSET {2, 3}, s \in BOOLEAN}
  \cup {MakeDB(FALSE, m, FALSE, 2 \in m, 3 \in m) : m \in SUBSET {2, 3}}
=============================================================================
