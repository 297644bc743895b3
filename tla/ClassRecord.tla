---------------------------- MODULE ClassRecord ----------------------------
(***************************************************************************)
(* The owned class record of libsepol's record layer                       *)
(* (src/libsepol/src/class_record.c, lines 170-403): a class owns two      *)
(* ordered lists of constraint pointers, its access constraints and its    *)
(* validate-transition rules, and frees them when it is freed.  The class  *)
(* record composes the constraint heap of ConstraintRecord.                *)
(*                                                                         *)
(* Name, common name, permissions and the four default fields are plain    *)
(* deep-copied values with no effect on ownership and are not modelled.    *)
(*                                                                         *)
(* A caller may pass: constraints it created and still owns (not yet      *)
(* handed to a class with add_constraint/add_validatetrans), expressions   *)
(* it owns, and the borrowed const pointers that get_constraints,          *)
(* get_validatetrans and get_exprs return for a live class.                *)
(***************************************************************************)
EXTENDS ConstraintRecord

CONSTANT Classes   \* addresses a class record may be allocated at

VARIABLES
  classSt,   \* allocation state of each class object
  lists,     \* lists[k][kind]: constraints / validatetrans of class k
  handedOver \* constraints whose ownership passed to a class

vars == <<consVars, classSt, lists, handedOver>>

CONSTRAINTS   == "constraints"
VALIDATETRANS == "validatetrans"
Kinds == {CONSTRAINTS, VALIDATETRANS}

LiveClasses == {k \in Classes : classSt[k] = "live"}

(* Constraints a caller owns. *)
CallerCons == {c \in ConsObjs : consSt[c] = "live" /\ c \notin handedOver}

(* Borrowed pointers returned by get_constraints / get_validatetrans of a  *)
(* live class.                                                             *)
BorrowedCons == UNION {ToSet(lists[k][kd]) : k \in LiveClasses, kd \in Kinds}

-----------------------------------------------------------------------------
(* Mutant: compaction that only decrements the count, without moving the  *)
(* last element into the hole.                                             *)
RECURSIVE DelScanNoSwap(_, _, _, _, _)
DelScanNoSwap(h, l, c, i, lo) ==
  IF i = lo \/ h.ub # "none" THEN [heap |-> h, list |-> l]
  ELSE IF EqualsReadsFreed(h, c, l[i])
       THEN [heap |-> [h EXCEPT !.ub = "use_after_free"], list |-> l]
       ELSE IF ConstraintEqual(c, l[i])
            THEN DelScanNoSwap(Release(h, l[i]), Front(l), c, i - 1, lo)
            ELSE DelScanNoSwap(h, l, c, i - 1, lo)

(* The loop of sepol_class_del_constraint / del_validatetrans: i runs from *)
(* num down to 1; every list[i-1] equal to c (sepol_constraint_equals) is  *)
(* freed, num is decremented, and the last element moves into the hole     *)
(* when the hole is not the last slot.  Here l is 1-based, so list[i-1] is *)
(* l[i].  c is a const pointer that may itself sit in the list: once it    *)
(* has been freed, comparing it again reads freed memory.  The scan stops  *)
(* above index lo (0 for the whole list).                                  *)
RECURSIVE DelScan(_, _, _, _, _)
DelScan(h, l, c, i, lo) ==
  IF i = lo \/ h.ub # "none" THEN [heap |-> h, list |-> l]
  ELSE IF EqualsReadsFreed(h, c, l[i])
       THEN [heap |-> [h EXCEPT !.ub = "use_after_free"], list |-> l]
       ELSE IF ConstraintEqual(c, l[i])
            THEN DelScan(Release(h, l[i]),
                         IF i < Len(l) THEN Front([l EXCEPT ![i] = Last(l)])
                                       ELSE Front(l),
                         c, i - 1, lo)
            ELSE DelScan(h, l, c, i - 1, lo)

DelEqual(k, kd, c) ==
  /\ ub = "none"
  /\ classSt[k] = "live"
  /\ LET r == DelScan(Heap, lists[k][kd], c, Len(lists[k][kd]), 0) IN
       /\ SetHeap(r.heap)
       /\ lists' = [lists EXCEPT ![k][kd] = r.list]
  /\ UNCHANGED <<exprVal, consExprs, consPerms, inserted, classSt, handedOver>>

(* Mutant: compaction deferred to after the loop, so the early error      *)
(* return leaves the freed matches in the list.                            *)
DelEqualFailNoCompact(k, kd, c, f) ==
  /\ ub = "none"
  /\ classSt[k] = "live"
  /\ f \in 1..Len(lists[k][kd])
  /\ LET r == DelScan(Heap, lists[k][kd], c, Len(lists[k][kd]), f) IN
       /\ r.heap.ub = "none"
       /\ ~EqualsReadsFreed(r.heap, c, r.list[f])
       /\ EqualsMayFail(c, r.list[f])
       /\ SetHeap(r.heap)
       /\ UNCHANGED lists
  /\ UNCHANGED <<exprVal, consExprs, consPerms, inserted, classSt, handedOver>>

(* The same call failing: sepol_constraint_equals(c, list[f-1]) returns   *)
(* STATUS_ERR (an allocation of get_names) and the function returns it at *)
(* once, after the matches above f have been freed and compacted away.     *)
DelEqualFail(k, kd, c, f) ==
  /\ ub = "none"
  /\ classSt[k] = "live"
  /\ f \in 1..Len(lists[k][kd])
  /\ LET r == DelScan(Heap, lists[k][kd], c, Len(lists[k][kd]), f) IN
       /\ r.heap.ub = "none"
       /\ ~EqualsReadsFreed(r.heap, c, r.list[f])
       /\ EqualsMayFail(c, r.list[f])
       /\ SetHeap(r.heap)
       /\ lists' = [lists EXCEPT ![k][kd] = r.list]
  /\ UNCHANGED <<exprVal, consExprs, consPerms, inserted, classSt, handedOver>>

ClassDelConstraint(k, c) == DelEqual(k, CONSTRAINTS, c)

ClassDelValidatetrans(k, c) == DelEqual(k, VALIDATETRANS, c)

(* sepol_class_add_constraint / add_validatetrans: append the pointer;    *)
(* the class now owns it.                                                  *)
AppendTo(k, kd, c) ==
  /\ ub = "none"
  /\ classSt[k] = "live"
  /\ lists' = [lists EXCEPT ![k][kd] = Append(@, c)]
  /\ handedOver' = handedOver \cup {c}
  /\ UNCHANGED <<consVars, classSt>>

ClassAddConstraint(k, c) == AppendTo(k, CONSTRAINTS, c)

ClassAddValidatetrans(k, c) == AppendTo(k, VALIDATETRANS, c)

(* Mutant: sepol_class_create without the memset. *)
ClassCreateUninit(k) ==
  /\ ub = "none"
  /\ classSt[k] = "none"
  /\ classSt' = [classSt EXCEPT ![k] = "live"]
  /\ lists' = [lists EXCEPT ![k] = [kd \in Kinds |-> <<NULL>>]]
  /\ UNCHANGED <<consVars, handedOver>>

(* sepol_class_create: a zeroed class. *)
ClassCreate(k) ==
  /\ ub = "none"
  /\ classSt[k] = "none"
  /\ classSt' = [classSt EXCEPT ![k] = "live"]
  /\ lists' = [lists EXCEPT ![k] = [kd \in Kinds |-> <<>>]]
  /\ UNCHANGED <<consVars, handedOver>>

(* sepol_class_clone(k) into a fresh object k2: every constraint and       *)
(* validatetrans pointer of k is appended to k2 with add_constraint /      *)
(* add_validatetrans, so both classes hold the same constraint objects.    *)
ClassClone(k, k2) ==
  /\ ub = "none"
  /\ classSt[k] = "live"
  /\ classSt[k2] = "none"
  /\ classSt' = [classSt EXCEPT ![k2] = "live"]
  /\ lists' = [lists EXCEPT ![k2] = lists[k]]
  /\ UNCHANGED <<consVars, handedOver>>

(* How far sepol_class_clone(k) got when an allocation failed: nc         *)
(* constraints and nv validatetrans appended.  A failure in class_create,  *)
(* set_name, set_common or add_perm appends nothing, one in the            *)
(* reallocarray of an add_constraint or add_validatetrans stops the loop   *)
(* at it; the default setters cannot fail.                                 *)
ClonePrefixes(k) ==
  LET nCons == Len(lists[k][CONSTRAINTS])
      nVt   == Len(lists[k][VALIDATETRANS])
  IN  {<<0, 0>>} \cup {<<nc, 0>> : nc \in 0..(nCons - 1)}
                \cup {<<nCons, nv>> : nv \in 0..(nVt - 1)}

(* sepol_class_clone(k) failing: its error path calls sepol_class_free on  *)
(* the partial copy, which runs sepol_constraint_free on the constraint    *)
(* pointers it shares with k.  The copy itself is freed before the caller  *)
(* sees it.                                                                *)
ClassCloneFail(k, nc, nv) ==
  /\ ub = "none"
  /\ classSt[k] = "live"
  /\ <<nc, nv>> \in ClonePrefixes(k)
  /\ SetHeap(FoldLeft(Release, Heap,
                      SubSeq(lists[k][CONSTRAINTS], 1, nc)
                        \o SubSeq(lists[k][VALIDATETRANS], 1, nv)))
  /\ UNCHANGED <<exprVal, consExprs, consPerms, inserted, classSt, lists, handedOver>>

(* Mutant: sepol_class_free that frees only the access constraints. *)
ClassFreeNoValidatetrans(k) ==
  /\ ub = "none"
  /\ classSt[k] = "live"
  /\ classSt' = [classSt EXCEPT ![k] = "freed"]
  /\ SetHeap(FoldLeft(Release, Heap, lists[k][CONSTRAINTS]))
  /\ UNCHANGED <<exprVal, consExprs, consPerms, inserted, lists, handedOver>>

(* sepol_class_free: sepol_constraint_free on every constraint, then on    *)
(* every validatetrans, then the class itself.                             *)
ClassFree(k) ==
  /\ ub = "none"
  /\ classSt[k] = "live"
  /\ classSt' = [classSt EXCEPT ![k] = "freed"]
  /\ SetHeap(FoldLeft(Release, Heap,
                      lists[k][CONSTRAINTS] \o lists[k][VALIDATETRANS]))
  /\ UNCHANGED <<exprVal, consExprs, consPerms, inserted, lists, handedOver>>

-----------------------------------------------------------------------------
Init ==
  /\ ConsInit
  /\ classSt = [k \in Classes |-> "none"]
  /\ lists = [k \in Classes |-> [kd \in Kinds |-> <<>>]]
  /\ handedOver = {}

(* A caller that builds an expression the way constraint_expr_datum_to_   *)
(* record (classes.c) does: set_type on the zeroed expression, then the    *)
(* attribute bits, then set_op, then add_name.  It may also unset or clear *)
(* attribute bits before set_op, and delete names after it.                *)
BuildExpr(x) ==
  LET v == exprVal[x] IN
  \/ v = ExprZero /\ \E t \in ExprTypes : ExprSetType(x, t)
  \/ /\ v.type # 0 /\ v.op = 0
     /\ \/ \E a \in ExprAttrs : ExprSetAttr(x, a) \/ ExprUnsetAttr(x, a)
        \/ ExprClearAttr(x)
        \/ \E o \in ExprOps : ExprSetOp(x, o)
  \/ v.op # 0 /\ \E n \in ExprNames : ExprAddName(x, n) \/ ExprDelName(x, n)

(* Constraint-level operations of a caller that also uses classes. *)
ConstraintOps ==
  /\ UNCHANGED <<classSt, lists, handedOver>>
  /\ \/ \E x \in ExprObjs : ExprCreate(x)
     \/ \E x \in CallerExprs : BuildExpr(x)
     \/ \E x \in CallerExprs \cup ExprsOf(CallerCons \cup BorrowedCons),
           y \in ExprObjs : ExprClone(x, y)
     \/ \E x \in CallerExprs : ExprFree(x)
     \/ \E c \in ConsObjs : ConsCreate(c)
     \/ \E c \in CallerCons, x \in CallerExprs :
           \E index \in 0..Len(consExprs[c]) : ConsInsertExpr(c, index, x)
     \/ \E c \in CallerCons, index \in 0..Cardinality(ExprObjs) :
           ConsRemoveExpr(c, index)
     \/ \E c \in CallerCons : ConsFree(c)

ClassOps ==
  \/ \E k \in Classes : ClassCreate(k)
  \/ \E k \in LiveClasses, c \in CallerCons : ClassAddConstraint(k, c)
  \/ \E k \in LiveClasses, c \in CallerCons : ClassAddValidatetrans(k, c)
  \/ \E k \in LiveClasses, c \in CallerCons \cup BorrowedCons :
        ClassDelConstraint(k, c)
  \/ \E k \in LiveClasses, c \in CallerCons \cup BorrowedCons :
        ClassDelValidatetrans(k, c)
  \/ \E k \in LiveClasses, kd \in Kinds, c \in CallerCons \cup BorrowedCons,
        f \in 1..Cardinality(ConsObjs) : DelEqualFail(k, kd, c, f)
  \/ \E k \in LiveClasses : ClassFree(k)

(* sepol_constraint_clone and sepol_class_clone on what a caller holds,   *)
(* succeeding or failing.                                                  *)
CloneOps ==
  \/ /\ \/ \E c \in CallerCons \cup BorrowedCons, d \in ConsObjs : ConsClone(c, d)
        \/ \E c \in CallerCons \cup BorrowedCons, d \in ConsObjs,
              i \in 0..Cardinality(ExprObjs) : ConsCloneFail(c, d, i)
     /\ UNCHANGED <<classSt, lists, handedOver>>
  \/ \E k \in LiveClasses, k2 \in Classes : ClassClone(k, k2)
  \/ \E k \in LiveClasses, nc, nv \in 0..Cardinality(ConsObjs) :
        ClassCloneFail(k, nc, nv)

Next == ConstraintOps \/ ClassOps \/ CloneOps

Spec == Init /\ [][Next]_vars

(* A caller that never clones a class or a constraint. *)
NextNoClone == ConstraintOps \/ ClassOps

SpecNoClone == Init /\ [][NextNoClone]_vars

-----------------------------------------------------------------------------
(* Properties.                                                             *)

TypeOK ==
  /\ ConsTypeOK
  /\ classSt \in [Classes -> {"none", "live", "freed"}]
  /\ lists \in [Classes -> [Kinds -> Seq(ConsObjs)]]
  /\ handedOver \subseteq ConsObjs

(* A class never drops a constraint: until undefined behaviour, a         *)
(* constraint handed to a class is, while it is still live, in a list of  *)
(* a live class, so every path that takes one out of a class               *)
(* (sepol_class_free, sepol_class_del_constraint / del_validatetrans)      *)
(* passes it to sepol_constraint_free.  A constraint so passed counts as   *)
(* disposed of: that sepol_constraint_free never frees the struct itself   *)
(* (class_record.c line 523) is the "released" state and is not judged    *)
(* here.                                                                   *)
NoDroppedConstraint ==
  ub = "none" =>
    \A c \in handedOver : consSt[c] = "live" => c \in BorrowedCons

(* sepol_class_del_constraint / del_validatetrans remove exactly the       *)
(* constraints equal to the argument (by sepol_constraint_equals), free    *)
(* each of them, and keep every other one: the backward scan with          *)
(* swap-with-last compaction never skips or duplicates an element.         *)
DelRemovesExactlyMatches ==
  [][\A k \in Classes, kd \in Kinds, c \in ConsObjs :
       (DelEqual(k, kd, c) /\ ub' = "none") =>
         LET old  == lists[k][kd]
             keep == SelectSeq(old, LAMBDA e : ~ConstraintEqual(c, e))
         IN  /\ ToBag(lists'[k][kd]) = ToBag(keep)
             /\ \A e \in ToSet(old) \ ToSet(keep) : consSt'[e] = "released"
    ]_vars

(* Spec sections 4.2 and 5: a sepol_class_del_constraint or               *)
(* del_validatetrans that fails part-way (an allocation in                 *)
(* sepol_constraint_equals) leaves a consistent list: every constraint it  *)
(* dropped matched the argument and was freed, and every one it kept is    *)
(* untouched, whatever compaction happened before the failure.            *)
DelFailureLeavesListConsistent ==
  [][\A k \in Classes, kd \in Kinds, c \in ConsObjs, f \in 1..Cardinality(ConsObjs) :
       DelEqualFail(k, kd, c, f) =>
         LET old == lists[k][kd]
             new == lists'[k][kd]
         IN  /\ ToSet(new) \subseteq ToSet(old)
             /\ Len(new) + Cardinality(ToSet(old) \ ToSet(new)) = Len(old)
             /\ \A e \in ToSet(old) \ ToSet(new) :
                   ConstraintEqual(c, e) /\ consSt'[e] = "released"
             /\ \A e \in ToSet(new) : consSt'[e] = consSt[e]
    ]_vars

(* Spec section 3: a record never aliases another; every constraint a      *)
(* live class holds is itself live.  sepol_class_clone followed by         *)
(* sepol_class_free of the original must leave the clone intact.           *)
OwnedConstraintsLive ==
  ub = "none" => \A c \in BorrowedCons : consSt[c] = "live"

(* Spec section 4.2: del-by-value frees exactly the constraints that are   *)
(* equal to the argument: same number of expressions and pairwise-equal    *)
(* expressions (sepol_class_del_constraint with sepol_constraint_equals).  *)
DelMatchesSpecEquality ==
  [][\A k \in Classes, kd \in Kinds, c \in ConsObjs :
       (DelEqual(k, kd, c) /\ ub' = "none") =>
         \A e \in ToSet(lists[k][kd]) :
            consSt[e] = "live" =>
              ((consSt'[e] = "released") <=> SpecConstraintEqual(c, e))
    ]_vars

(* Deleting a constraint by a pointer that get_constraints returned (the  *)
(* natural way to remove "this" constraint) never reads freed memory.     *)
NoUseAfterFree == ub # "use_after_free"
=============================================================================
