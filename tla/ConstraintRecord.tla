-------------------------- MODULE ConstraintRecord --------------------------
(***************************************************************************)
(* The owned constraint and constraint-expression records of libsepol's    *)
(* record layer (src/libsepol/src/class_record.c, lines 405-743).          *)
(*                                                                         *)
(* Records are heap objects reached through pointers, so the model keeps a *)
(* heap: a finite set of expression objects and of constraint objects,     *)
(* each "none" (never allocated), "live", or freed.  A constraint that has *)
(* been through sepol_constraint_free is "released": its expression array  *)
(* and expressions are freed but the struct itself is not (the function    *)
(* never frees it) and keeps its stale num_exprs and exprs pointer.        *)
(*                                                                         *)
(* An expression's fields (kind, attribute mask, operator, names) start   *)
(* zeroed and are set by the setters, with arguments drawn from the small  *)
(* sets ExprTypes, ExprAttrs, ExprOps and ExprNames.  The name list is the *)
(* string-set utility's ordered list of unique names (util.c is not in the *)
(* repository; its add appends a name not yet present, its del removes     *)
(* one).  A constraint's permission list is kept by the same utility and  *)
(* is modelled as a set; the class model's caller never sets one.          *)
(* Allocation failure is modelled where it changes ownership: a clone      *)
(* failing after copying i expressions (ConsCloneFail) frees that prefix   *)
(* through sepol_constraint_free.                                          *)
(*                                                                         *)
(* Reading or freeing freed memory is undefined behaviour; the model       *)
(* records the first one in ub and stops there (every action requires      *)
(* ub = "none").                                                           *)
(***************************************************************************)
EXTENDS Integers, Sequences, SequencesExt, FiniteSets

LOCAL INSTANCE Bitwise

CONSTANTS
  ExprObjs,   \* addresses an expression object may be allocated at
  ConsObjs,   \* addresses a constraint object may be allocated at
  ExprTypes,  \* kinds a caller passes to sepol_constraint_expr_set_type
  ExprAttrs,  \* attribute bits a caller passes to set_attr / unset_attr
  ExprOps,    \* operators a caller passes to set_op
  ExprNames,  \* names a caller passes to add_name / del_name
  ConsPermNames, \* permission names a caller passes to add_perm / del_perm
  NULL        \* the null pointer

ASSUME NULL \notin ExprObjs \cup ConsObjs
ASSUME ExprAttrs \subseteq 1..(2^11 - 1)

VARIABLES
  exprSt,     \* allocation state of each expression object
  exprVal,    \* fields of each expression object
  consSt,     \* allocation state of each constraint object
  consExprs,  \* exprs[0 .. num_exprs-1] of each constraint object
  consPerms,  \* perms[0 .. num_perms-1] of each constraint object
  inserted,   \* expression objects whose ownership passed to a constraint
  ub          \* first undefined behaviour met, or "none"

consVars == <<exprSt, exprVal, consSt, consExprs, consPerms, inserted, ub>>

UBKinds == {"none", "double_free", "use_after_free", "out_of_bounds"}

(* Constraint expression kinds, class_record.h lines 159-163. *)
SEPOL_CEXPR_TYPE_NOT   == 1
SEPOL_CEXPR_TYPE_AND   == 2
SEPOL_CEXPR_TYPE_OR    == 3
SEPOL_CEXPR_TYPE_ATTR  == 4
SEPOL_CEXPR_TYPE_NAMES == 5

(* The attribute bit and the operator the model's callers pass,           *)
(* class_record.h lines 172 and 193.                                        *)
SEPOL_CEXPR_ATTR_TYPE == 4
SEPOL_CEXPR_OP_EQ     == 1

-----------------------------------------------------------------------------
(* Equality, as the code computes it.                                      *)

(* strcmp(a, b) < 0: the position of the names in one fixed listing. *)
NameOrder == SetToSeq(ExprNames)
StrcmpLess(a, b) ==
  \E i, j \in DOMAIN NameOrder : i < j /\ NameOrder[i] = a /\ NameOrder[j] = b

(* Mutant: the name lists compared element-wise without sorting. *)
ExprEqualUnsorted(v1, v2) ==
  /\ v1.type = v2.type
  /\ v1.type \in {SEPOL_CEXPR_TYPE_ATTR, SEPOL_CEXPR_TYPE_NAMES} =>
        /\ v1.op = v2.op
        /\ v1.names = v2.names

(* sepol_constraint_expr_equals: the kinds must match and, for a leaf, the *)
(* operators, the name counts, and the two name copies after both are      *)
(* sorted (qsort with strcmp_qsort) compared element by element.  The      *)
(* names are model values; StrcmpLess fixes one total order on them.       *)
(* The attribute mask is not compared.                                     *)
ExprEqual(v1, v2) ==
  /\ v1.type = v2.type
  /\ v1.type \in {SEPOL_CEXPR_TYPE_ATTR, SEPOL_CEXPR_TYPE_NAMES} =>
        /\ v1.op = v2.op
        /\ Len(v1.names) = Len(v2.names)
        /\ SortSeq(v1.names, StrcmpLess) = SortSeq(v2.names, StrcmpLess)

(* sepol_constraint_equals: result is reset to 0, and the loop's early    *)
(* exit tests the pointer "result" instead of "*result", so it never       *)
(* fires: the outcome is the comparison of the last pair of expressions,   *)
(* and 0 when both lists are empty.                                        *)
ConstraintEqual(c1, c2) ==
  LET n == Len(consExprs[c1]) IN
  /\ n = Len(consExprs[c2])
  /\ n > 0
  /\ ExprEqual(exprVal[consExprs[c1][n]], exprVal[consExprs[c2][n]])

(* sepol_constraint_expr_equals copies both name lists (get_names, an     *)
(* allocation) once the kinds are equal leaves with equal operators.       *)
ExprCompareAllocates(v1, v2) ==
  /\ v1.type = v2.type
  /\ v1.type \in {SEPOL_CEXPR_TYPE_ATTR, SEPOL_CEXPR_TYPE_NAMES}
  /\ v1.op = v2.op

(* sepol_constraint_equals(c1, c2) can fail (STATUS_ERR) when the lengths  *)
(* agree and some pair of expressions reaches that allocation.             *)
EqualsMayFail(c1, c2) ==
  /\ Len(consExprs[c1]) = Len(consExprs[c2])
  /\ \E j \in 1..Len(consExprs[c1]) :
        ExprCompareAllocates(exprVal[consExprs[c1][j]], exprVal[consExprs[c2][j]])

(* The equality the spec (section 4.2) promises: equal lengths and         *)
(* pairwise-equal expressions.                                             *)
SpecConstraintEqual(c1, c2) ==
  /\ Len(consExprs[c1]) = Len(consExprs[c2])
  /\ \A i \in 1..Len(consExprs[c1]) :
        ExprEqual(exprVal[consExprs[c1][i]], exprVal[consExprs[c2][i]])

(* A comparison of c1 and c2 reads their expression arrays and objects     *)
(* when the lengths agree and are non-zero; it is a use after free when    *)
(* one of those is freed.  h is the heap (states and ub) at that moment.   *)
EqualsReadsFreed(h, c1, c2) ==
  /\ Len(consExprs[c1]) = Len(consExprs[c2])
  /\ Len(consExprs[c1]) > 0
  /\ \/ h.cons[c1] = "released"
     \/ h.cons[c2] = "released"
     \/ \E x \in ToSet(consExprs[c1]) \cup ToSet(consExprs[c2]) :
           h.expr[x] = "freed"

-----------------------------------------------------------------------------
(* Freeing.  A heap value h = [cons, expr, ub] threads the states through  *)
(* loops that free several objects.                                        *)

Heap == [cons |-> consSt, expr |-> exprSt, ub |-> ub]

(* Mutant: sepol_constraint_free that forgets its expressions. *)
ReleaseKeepExprs(h, c) ==
  IF h.ub # "none" THEN h
  ELSE [h EXCEPT !.cons[c] = "released"]

(* sepol_constraint_expr_free on each expression xs of constraint c, whose *)
(* struct stays (released).  An expression already freed through another   *)
(* constraint is freed twice.                                              *)
ReleaseExprs(h, c, xs) ==
  IF \E x \in ToSet(xs) : h.expr[x] = "freed"
    THEN [h EXCEPT !.ub = "double_free"]
    ELSE [h EXCEPT !.cons[c] = "released",
                   !.expr = [x \in ExprObjs |->
                               IF x \in ToSet(xs) THEN "freed" ELSE h.expr[x]]]

(* sepol_constraint_free(c).  A second call on a released constraint walks *)
(* the freed arrays again (num_perms and num_exprs are left as they were)  *)
(* and frees every element again.                                          *)
Release(h, c) ==
  IF h.ub # "none" THEN h
  ELSE IF h.cons[c] = "released" /\ (consExprs[c] # <<>> \/ consPerms[c] # {})
       THEN [h EXCEPT !.ub = "double_free"]
       ELSE ReleaseExprs(h, c, consExprs[c])

SetHeap(h) ==
  /\ consSt' = h.cons
  /\ exprSt' = h.expr
  /\ ub' = h.ub

-----------------------------------------------------------------------------
(* Insertion: the loop of sepol_constraint_insert_expr.  The array grows   *)
(* by one NULL slot, then every slot from index on swaps with the carried  *)
(* pointer, which starts as the new expression.  i is the code's 0-based   *)
(* loop counter; arr is 1-based.                                           *)

(* Mutant: the swap starts one slot late (i > index). *)
RECURSIVE InsertSwapLate(_, _, _, _)
InsertSwapLate(arr, i, carry, index) ==
  IF i >= Len(arr) THEN arr
  ELSE IF i > index
       THEN InsertSwapLate([arr EXCEPT ![i + 1] = carry], i + 1, arr[i + 1], index)
       ELSE InsertSwapLate(arr, i + 1, carry, index)

RECURSIVE InsertSwap(_, _, _, _)
InsertSwap(arr, i, carry, index) ==
  IF i >= Len(arr) THEN arr
  ELSE IF i >= index
       THEN InsertSwap([arr EXCEPT ![i + 1] = carry], i + 1, arr[i + 1], index)
       ELSE InsertSwap(arr, i + 1, carry, index)

InsertExpr(list, index, x) == InsertSwap(Append(list, NULL), 0, x, index)

-----------------------------------------------------------------------------
(* Operations.  Each takes the objects it is called on; which objects a    *)
(* caller may legitimately pass is decided by the composing Next.          *)

(* The zeroed expression of the memset in sepol_constraint_expr_create. *)
ExprZero == [type |-> 0, attr |-> 0, op |-> 0, names |-> <<>>]

(* The eleven SEPOL_CEXPR_ATTR_* bits, class_record.h lines 170-180.  A   *)
(* mask built from them never has a higher bit, so ~a and AttrBits - a     *)
(* agree on every bit attr & ~a can keep (TLC's integers stop at 2^31).    *)
AttrBits == 2^11 - 1

(* sepol_constraint_expr_create. *)
ExprCreate(x) ==
  /\ ub = "none"
  /\ exprSt[x] = "none"
  /\ exprSt' = [exprSt EXCEPT ![x] = "live"]
  /\ exprVal' = [exprVal EXCEPT ![x] = ExprZero]
  /\ UNCHANGED <<consSt, consExprs, consPerms, inserted, ub>>

(* A setter on expression x: field f becomes v. *)
ExprSet(x, f, v) ==
  /\ ub = "none"
  /\ exprVal' = [exprVal EXCEPT ![x][f] = v]
  /\ UNCHANGED <<exprSt, consSt, consExprs, consPerms, inserted, ub>>

ExprSetType(x, t)   == ExprSet(x, "type", t)
ExprSetAttr(x, a)   == ExprSet(x, "attr", exprVal[x].attr | a)
ExprUnsetAttr(x, a) == ExprSet(x, "attr", exprVal[x].attr & (AttrBits - a))
ExprClearAttr(x)    == ExprSet(x, "attr", 0)
ExprSetOp(x, o)     == ExprSet(x, "op", o)

(* sepol_constraint_expr_add_name / del_name through the string-set       *)
(* utility: add appends a name not already listed, del removes it.         *)
ExprAddName(x, n) ==
  ExprSet(x, "names", IF n \in ToSet(exprVal[x].names) THEN exprVal[x].names
                      ELSE Append(exprVal[x].names, n))
ExprDelName(x, n) ==
  ExprSet(x, "names", SelectSeq(exprVal[x].names, LAMBDA m : m # n))

(* The setters a caller may call on an expression x it owns. *)
ExprSetters(x) ==
  \/ \E t \in ExprTypes : ExprSetType(x, t)
  \/ \E a \in ExprAttrs : ExprSetAttr(x, a) \/ ExprUnsetAttr(x, a)
  \/ ExprClearAttr(x)
  \/ \E o \in ExprOps : ExprSetOp(x, o)
  \/ \E n \in ExprNames : ExprAddName(x, n) \/ ExprDelName(x, n)

(* sepol_constraint_expr_clone(x) into a fresh object y. *)
ExprClone(x, y) ==
  /\ ub = "none"
  /\ exprSt[y] = "none"
  /\ IF exprSt[x] = "freed"
       THEN /\ ub' = "use_after_free"
            /\ UNCHANGED <<exprSt, exprVal>>
       ELSE /\ exprSt' = [exprSt EXCEPT ![y] = "live"]
            /\ exprVal' = [exprVal EXCEPT ![y] = exprVal[x]]
            /\ UNCHANGED ub
  /\ UNCHANGED <<consSt, consExprs, consPerms, inserted>>

(* sepol_constraint_expr_free on an expression the caller owns. *)
ExprFree(x) ==
  /\ ub = "none"
  /\ exprSt[x] = "live"
  /\ exprSt' = [exprSt EXCEPT ![x] = "freed"]
  /\ UNCHANGED <<exprVal, consSt, consExprs, consPerms, inserted, ub>>

(* sepol_constraint_create: a zeroed constraint. *)
ConsCreate(c) ==
  /\ ub = "none"
  /\ consSt[c] = "none"
  /\ consSt' = [consSt EXCEPT ![c] = "live"]
  /\ consExprs' = [consExprs EXCEPT ![c] = <<>>]
  /\ consPerms' = [consPerms EXCEPT ![c] = {}]
  /\ UNCHANGED <<exprSt, exprVal, inserted, ub>>

(* sepol_constraint_insert_expr(c, index, x): ownership of x passes to c.  *)
(* On a released constraint with a non-empty array, reallocarray is given  *)
(* the freed array.                                                        *)
ConsInsertExpr(c, index, x) ==
  /\ ub = "none"
  /\ IF consSt[c] = "released" /\ consExprs[c] # <<>>
       THEN /\ ub' = "use_after_free"
            /\ UNCHANGED <<consExprs, inserted>>
       ELSE /\ consExprs' = [consExprs EXCEPT ![c] = InsertExpr(@, index, x)]
            /\ inserted' = inserted \cup {x}
            /\ UNCHANGED ub
  /\ UNCHANGED <<exprSt, exprVal, consSt, consPerms>>

(* sepol_constraint_remove_expr(c, index).  The loop starts at             *)
(* num_exprs - 1 (unsigned: UINT32_MAX when num_exprs = 0, above every     *)
(* index the model passes), runs while i > index and counts i upwards:     *)
(* when it runs at all its first access, exprs[num_exprs - 1] onwards to   *)
(* exprs[num_exprs], is past the array.  Otherwise nothing changes;        *)
(* num_exprs is never decremented.                                         *)
ConsRemoveExpr(c, index) ==
  /\ ub = "none"
  /\ LET n == Len(consExprs[c]) IN
       IF n = 0 \/ n - 1 > index
         THEN ub' = "out_of_bounds"
         ELSE UNCHANGED ub
  /\ UNCHANGED <<exprSt, exprVal, consSt, consExprs, consPerms, inserted>>

(* sepol_constraint_clone(c) into a fresh object d: add_perm for each      *)
(* permission (a copy of each string), then insert_expr(d, i, exprs[i])    *)
(* for each i, which stores the same expression pointers.                  *)
ConsClone(c, d) ==
  /\ ub = "none"
  /\ consSt[d] = "none"
  /\ IF consSt[c] = "released" /\ (consExprs[c] # <<>> \/ consPerms[c] # {})
       THEN /\ ub' = "use_after_free"
            /\ UNCHANGED <<consSt, consExprs, consPerms>>
       ELSE /\ consSt' = [consSt EXCEPT ![d] = "live"]
            /\ consExprs' = [consExprs EXCEPT ![d] = consExprs[c]]
            /\ consPerms' = [consPerms EXCEPT ![d] = consPerms[c]]
            /\ UNCHANGED ub
  /\ UNCHANGED <<exprSt, exprVal, inserted>>

(* sepol_constraint_clone(c) into d failing: an add_perm (i = 0) or the    *)
(* reallocarray of the (i+1)-th insert_expr fails, and the error path's sepol_constraint_free  *)
(* frees the i expressions d already shares with c.  The struct d is never *)
(* freed.                                                                  *)
ConsCloneFail(c, d, i) ==
  /\ ub = "none"
  /\ consSt[c] = "live"
  /\ consSt[d] = "none"
  /\ i \in 0..(Len(consExprs[c]) - 1)
  /\ consExprs' = [consExprs EXCEPT ![d] = SubSeq(consExprs[c], 1, i)]
  /\ SetHeap(ReleaseExprs(Heap, d, SubSeq(consExprs[c], 1, i)))
  /\ UNCHANGED <<exprVal, consPerms, inserted>>

(* sepol_constraint_add_perm / del_perm through the string-set utility.   *)
ConsAddPerm(c, p) ==
  /\ ub = "none"
  /\ consSt[c] = "live"
  /\ consPerms' = [consPerms EXCEPT ![c] = @ \cup {p}]
  /\ UNCHANGED <<exprSt, exprVal, consSt, consExprs, inserted, ub>>

ConsDelPerm(c, p) ==
  /\ ub = "none"
  /\ consSt[c] = "live"
  /\ consPerms' = [consPerms EXCEPT ![c] = @ \ {p}]
  /\ UNCHANGED <<exprSt, exprVal, consSt, consExprs, inserted, ub>>

(* sepol_constraint_free(c) on a constraint the caller owns. *)
ConsFree(c) ==
  /\ ub = "none"
  /\ SetHeap(Release(Heap, c))
  /\ UNCHANGED <<exprVal, consExprs, consPerms, inserted>>

-----------------------------------------------------------------------------
(* A caller that uses constraints on their own.                           *)

(* Expressions the caller still owns. *)
CallerExprs == {x \in ExprObjs : exprSt[x] = "live" /\ x \notin inserted}

(* Constraints the caller owns: every live one when no class takes them. *)
OwnConstraints == {c \in ConsObjs : consSt[c] = "live"}

(* Expressions reachable through sepol_constraint_get_exprs of a          *)
(* constraint in S (borrowed, const).                                      *)
ExprsOf(S) == UNION {ToSet(consExprs[c]) : c \in S}

ConsInit ==
  /\ exprSt = [x \in ExprObjs |-> "none"]
  /\ exprVal = [x \in ExprObjs |-> ExprZero]
  /\ consSt = [c \in ConsObjs |-> "none"]
  /\ consExprs = [c \in ConsObjs |-> <<>>]
  /\ consPerms = [c \in ConsObjs |-> {}]
  /\ inserted = {}
  /\ ub = "none"

ConsNext ==
  \/ \E x \in ExprObjs : ExprCreate(x)
  \/ \E x \in CallerExprs : ExprSetters(x)
  \/ \E x \in CallerExprs \cup ExprsOf(OwnConstraints), y \in ExprObjs :
        ExprClone(x, y)
  \/ \E x \in CallerExprs : ExprFree(x)
  \/ \E c \in ConsObjs : ConsCreate(c)
  \/ \E c \in OwnConstraints, x \in CallerExprs :
        \E index \in 0..Len(consExprs[c]) : ConsInsertExpr(c, index, x)
  \/ \E c \in OwnConstraints, index \in 0..Cardinality(ExprObjs) :
        ConsRemoveExpr(c, index)
  \/ \E c \in OwnConstraints, d \in ConsObjs : ConsClone(c, d)
  \/ \E c \in OwnConstraints, d \in ConsObjs,
        i \in 0..Cardinality(ExprObjs) : ConsCloneFail(c, d, i)
  \/ \E c \in OwnConstraints, p \in ConsPermNames :
        ConsAddPerm(c, p) \/ ConsDelPerm(c, p)
  \/ \E c \in OwnConstraints : ConsFree(c)

ConsSpec == ConsInit /\ [][ConsNext]_consVars

-----------------------------------------------------------------------------
(* Properties.                                                             *)

ConsTypeOK ==
  /\ exprSt \in [ExprObjs -> {"none", "live", "freed"}]
  /\ exprVal \in [ExprObjs -> [type : {0} \cup ExprTypes, attr : 0..AttrBits,
                                op : {0} \cup ExprOps, names : Seq(ExprNames)]]
  /\ consSt \in [ConsObjs -> {"none", "live", "released"}]
  /\ consExprs \in [ConsObjs -> Seq(ExprObjs)]
  /\ consPerms \in [ConsObjs -> SUBSET ConsPermNames]
  /\ inserted \subseteq ExprObjs
  /\ ub \in UBKinds

(* No expression leaks: until undefined behaviour, an expression that     *)
(* insert_expr has taken is either still held by a live constraint or has  *)
(* been freed.  Broken by a free path (sepol_constraint_free) that drops   *)
(* expressions it owns.                                                    *)
NoLeakedExpr ==
  ub = "none" => \A x \in inserted :
     exprSt[x] = "live" =>
        \E c \in ConsObjs : consSt[c] = "live" /\ x \in ToSet(consExprs[c])

(* sepol_constraint_insert_expr's swap loop puts the new expression at     *)
(* position index and shifts the later ones right, for every index from 0  *)
(* to num_exprs.                                                           *)
InsertExprIsInsertAt ==
  [][\A c \in ConsObjs, x \in ExprObjs, index \in 0..Cardinality(ExprObjs) :
       (/\ index <= Len(consExprs[c])
        /\ x \notin inserted
        /\ ConsInsertExpr(c, index, x)
        /\ ub' = "none")
         => consExprs'[c] = InsertAt(consExprs[c], index + 1, x)]_consVars

(* Spec section 4.2: remove-expression(index) removes the expression at    *)
(* index and shifts the later ones left (sepol_constraint_remove_expr).    *)
RemoveExprRemovesAt ==
  [][\A c \in ConsObjs, index \in 0..Cardinality(ExprObjs) :
       (index < Len(consExprs[c]) /\ ConsRemoveExpr(c, index))
         => /\ ub' = "none"
            /\ consExprs'[c] = RemoveAt(consExprs[c], index + 1)]_consVars

(* Spec section 3: records are independent deep copies, so freeing each   *)
(* record a caller owns exactly once never frees memory twice.  Cloning a  *)
(* constraint (sepol_constraint_clone) and freeing both copies must be     *)
(* safe.                                                                   *)
NoDoubleFree == ub # "double_free"

(* Spec sections 2 and 6: expression equality is order-insensitive on     *)
(* names.  Two live expressions compare equal under                        *)
(* sepol_constraint_expr_equals exactly when their kinds match and, for    *)
(* leaves, their operators and their sets of names match, although         *)
(* sepol_constraint_expr_add_name appends and so keeps the order in which  *)
(* names were added; only the qsort of both copies makes this hold.        *)
ExprEqualIgnoresNameOrder ==
  \A x, y \in ExprObjs :
     (exprSt[x] = "live" /\ exprSt[y] = "live") =>
        (ExprEqual(exprVal[x], exprVal[y]) <=>
           /\ exprVal[x].type = exprVal[y].type
           /\ exprVal[x].type \in {SEPOL_CEXPR_TYPE_ATTR, SEPOL_CEXPR_TYPE_NAMES} =>
                 /\ exprVal[x].op = exprVal[y].op
                 /\ ToSet(exprVal[x].names) = ToSet(exprVal[y].names))
=============================================================================
