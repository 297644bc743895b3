# TLA+ models of the libsepol record layer

These modules model the record layer of libsepol (`src/libsepol/src`). They
are checked with TLC. The record layer is the name-keyed, owned-record API
over libsepol's value-indexed policy database: the class, role and type
records, the constraint and expression records, and the query facades and
iterators that translate database entries into records.

## The system

| Part | Source | What it does |
|---|---|---|
| Constraint expressions and constraints | `class_record.c` 405-743 | Expressions are NOT/AND/OR/ATTR/NAMES nodes. A constraint owns an ordered expression list (postfix order) and a permission list. Operations: create, clone, free, insert-at, remove-at and equality. |
| Class record | `class_record.c` 1-403 | Holds the name, common, permissions, two owned constraint lists (constraints and validatetrans) and four defaults. Operations: add/del/get on each list, create, clone and free. |
| Type record | `type_record.c` | Holds the name, flavor, subtype list, flag mask, alias target and bounds. |
| Role record | `role_record.c` | Holds the name, types, bounds, flavor and subroles. |
| Query facades | `types.c`, `roles.c`, `classes.c` | `*_datum_to_record` translates a database datum into a fresh record. Also count, exists and query. |
| Iterators | `types.c`, `roles.c`, `classes.c` | The type and class iterators wrap a hashtab iterator. The role iterator walks an index over `role_val_to_struct`. |
| Keys, users, string lists | record files, `users.h`, `util.c` | A key is one name. Users have only a header here, and `util.c` is not in this tree. |

The parts interact like this:

- A caller gets a key and queries, or iterates over, the database.
- The translator builds a record by calling the record setters.
- The caller then owns the record: it may mutate, clone and free it independently of the database.
- Constraints pass between objects by pointer. `add_constraint` takes ownership, while `get_constraints` and `clone` hand out the same pointers. That ownership is where most of the problems below come from.

The library is single threaded. No operation waits or runs concurrently. The
hazards are therefore sequences of calls, error paths and boundaries, not
interleavings.

## Modules

| Module | Models | State and actions |
|---|---|---|
| `ConstraintRecord` | constraint and expression records | The state is a heap of expression and constraint objects, with each constraint's permission names (`ConsAddPerm`, `ConsDelPerm`; the class model's caller sets none). Expressions are none/live/freed. Constraints are none/live/released: `sepol_constraint_free` never frees the struct, so a released constraint keeps stale fields. `ub` holds the first undefined behaviour. Expressions start zeroed (`ExprZero`, the memset of `sepol_constraint_expr_create`) and are filled by the setters `ExprSetType`, `ExprSetAttr`, `ExprUnsetAttr`, `ExprClearAttr` (the mask kept to the eleven `SEPOL_CEXPR_ATTR_*` bits, with `|` and `&` of Bitwise), `ExprSetOp`, `ExprAddName` and `ExprDelName` (an ordered list of unique names). `ExprEqual` compares name lists as the code does after sorting them. In `ClassRecord` the caller builds an expression in the order `classes.c` does (`BuildExpr`: type, attribute bits, operator, names). Actions: `ExprCreate`, `ExprClone`, `ExprFree`, `ConsCreate`, `ConsInsertExpr`, `ConsRemoveExpr`, `ConsClone`, `ConsCloneFail` (an allocation fails after `i` expressions were copied, and the partial clone is released), `ConsFree`. `ConstraintEqual` is `sepol_constraint_equals` as coded. `SpecConstraintEqual` is the spec's equality. |
| `ClassRecord` | the class record's constraint lists | Extends the heap with classes and their two lists. Actions: add, del and clone of constraints and validatetrans, plus class create, clone and free. Failure paths: `ClassCloneFail` (an allocation of `class_clone` fails after a prefix of the lists was cloned, and that prefix is released) and `DelEqualFail` (`sepol_constraint_equals` fails on an allocation at slot `f` part-way through the backward scan of `del_constraint`, after the later slots were already deleted and compacted). Callers hold the pointers that `get_constraints` returns (`BorrowedCons`). |
| `ClassValue` | the class record's value fields | A heap of class records holding name, common, permission names and the four default fields. Actions: `ClassValCreate`, `ClassSetName` (a NULL name crashes in `strdup`), `ClassSetCommon` (NULL clears it), `ClassAddPerm`, `ClassDelPerm`, `ClassSetDefault`, `ClassValClone` (through `set_name`, so an unnamed class crashes) and `ClassValFree`. The old name and common are freed by their setters, so strings are values here. It is composed with `TypeRecord` and `RoleRecord` in `Records`. |
| `TypeRecord` | `type_record.c` | The state is a heap of type records and a heap of the strings they own (`strSt`, `strVal`): the name, bounds and alias_of fields and each subtype slot point to a strdup'd string. Actions: create, clone, free, every setter, flag set/unset and subtype add/del, plus the allocation failures that have a path of their own: `TypeCreateFail` (the unchecked malloc, then memset through NULL), `TypeCloneFail` (the new record is lost), `TypeSetAliasOfFail` and `TypeSetBoundsFail` (the field becomes NULL). `DelSubtypeScan` is the swap-with-last loop of `sepol_type_del_subtype` and frees each match it meets. |
| `Keys` | the key functions of `type_record.c`, `role_record.c`, `class_record.c` | Extends `TypeRecord` with a heap of keys, each holding a strdup'd name. Actions: the create of each kind, `TypeKeyExtract`, and the free of each kind. `RoleKeyFree` frees only the struct. A failed create frees the struct and changes nothing. |
| `RoleRecord` | `role_record.c` | A heap of role records with create, clone, free, the setters and the list add/del operations. The name lists are sets: `string_list_*` lives in `util.c`, which is not here, so the spec's set semantics are used. |
| `Records` | type, role and class records | Composes `TypeRecord`, `RoleRecord` and `ClassValue`, which share `ub`, to check the clone contract. |
| `TypeQuery`, `RoleQuery` | `types.c`, `roles.c` translators | Operators over a database value: `TypeDatumToRecord` (flavor switch, kernel-or-base bitmap choice, self-bit skip, flags, alias, bounds), `RoleDatumToRecord`, count, exists and query. |
| `Iterator` | the spec's iterator (section 4.7) | The abstract iterator, with `pending` keys and `Create`, `Yield`, `FailKeep`, `FailLose` (only when `MayLose`), `Exhausted` and `Destroy`. |
| `Iterators` | iterator create/next/destroy of `types.c`, `roles.c` and `classes.c` | A caller holds one type, one role and one class iterator over one database. Any translation may fail on an allocation, with at most `MaxFailures` failures. The type iterator refines `Iterator` with `MayLose = TRUE` and the role iterator with `MayLose = FALSE`, through `INSTANCE Iterator WITH ...`. The class iterator refines it with `MayLose = TRUE`: `sepol_class_iterate_next` advances the hashtab cursor before translating, so a failed step drops its class. |
| `ClassTranslation` | `classes.c` translators | Constant operators only: `ClassDatumToRecord` and the constraint and expression translators, as coded, with the permission mask decoded bit by bit (`PermBit`, the `1 << (value - 1)` of `add_perm_helper`), the allocation points of a translation (`FailPoints`) and the undefined behaviour it meets (`TranslationUB`). |
| `ClassQuery` | `classes.c` query | Extends `ClassTranslation`. `ClassQuery(key)` is a query with no allocation failure. `ClassQueryFail(key, f)` is a query with an allocation failure at each reachable point `f`, followed by that point's error path. |

Each `MC_*` module gives the constants. The constants are model values for the
object addresses and names, small explicit databases for the query and iterator
modules, and symmetry sets over the addresses.

## Runs

| Run | Expect | What it shows |
|---|---|---|
| `class_ownership` | pass | A class never drops a constraint it was given without passing it to `sepol_constraint_free` (`NoDroppedConstraint`; that function's own leak of the struct, class_record.c:523, is the model's "released" state and is not judged), and, until undefined behaviour, every expression `insert_expr` took is held by a live constraint or freed (`NoLeakedExpr`). Two expressions whose names were added in different orders compare equal (`ExprEqualIgnoresNameOrder`), which holds only because `sepol_constraint_expr_equals` sorts both name copies (the model's `ExprEqual` sorts them with `SortSeq` under `StrcmpLess`, the order of `strcmp_qsort`; the mutant that compares the unsorted lists breaks the property). `insert_expr` inserts at its index. `del_constraint` removes exactly what `sepol_constraint_equals` matches, despite its backward swap loop. When `sepol_constraint_equals` fails part-way through that loop, the list still holds exactly the constraints not deleted, compacted, and every deleted one was released (`DelFailureLeavesListConsistent`). These hold only up to the first undefined behaviour: a clone that fails part-way releases constraints or frees expressions the original still holds, shown by the violation runs `constraint_clone_double_free` and `class_clone_dangling`. (436,799 states) |
| `type_record` | pass | Records and keys own their strings: every string a field, a subtype slot or a key points to is live and pointed to once (`StringsOwnedOnce`). A string leaks only through `set_alias_of`, `set_bounds` or `sepol_role_key_free` (`NoOtherLeak`). `del_subtype` removes exactly the named subtype: its swap-with-last loop never re-examines the swapped-in slot, and only `add_subtype`'s duplicate check makes that safe. (242,528 states) |
| `iterators` | pass | Both iterators implement the abstract iterator: no key is returned twice, "none" comes only once no key is pending and stays, a failed role step never loses a role, and a failed type step may lose its key. The class iterator may lose a class only on a failed step. All three iterations end under weak fairness of `next`. Kernel-form queries are dual (attribute A lists T exactly when T lists A), and no type, attribute or alias lists itself or its own primary as a subtype (`NoSelfSubtype`; roles are not covered, and a role does list itself). Every constraint of a class record from the iterator names exactly the permissions whose bits its datum's mask holds, including bit 31 (`ConstraintPermsRoundTrip`). (98,260 states over 13 databases) |
| `constraint_clone_double_free` | violation | `sepol_constraint_clone` shares the expression pointers, so freeing both copies is a double free. |
| `remove_expr` | violation | `sepol_constraint_remove_expr` never shifts, and runs past the array. |
| `class_clone_dangling` | violation | After `class_clone` and a free of the original, the clone holds released constraints. |
| `del_equality` | violation | `del_constraint` frees constraints whose earlier expressions differ (`if (!result)` tests the pointer). |
| `del_aliased` | violation | `del_constraint`, given a pointer from `get_constraints`, reads its freed argument. |
| `record_clone` | violation | `sepol_type_clone` copies only the name and flags. The round trip loses the flavor. The same property also asks it of `sepol_role_clone` and of `sepol_class_clone`'s value fields. |
| `class_scenario` | violation | The spec's CLASS1 scenario returns no permissions (the common's are not copied) and a NAMES leaf with attribute 0. |
| `expr_order` | violation | A translated constraint holds its expressions reversed, because `index` is never incremented. |
| `query_crash` | violation | Querying a class without a common that has a constraint dereferences a NULL `comdatum`. |

For each property of a passing run, `PROJECT.json` lists a mutant: a plausible
bug in the mapped code that TLC then finds. Examples:

- `TypeIterNextWrap`: the cursor restarts at the end of the table.
- `RoleIterNextAdvanceOnError`: `idx++` happens before the translation succeeds.
- `RoleIterNextNoAdvance`: `idx` is never incremented.
- `SubtypeBitmapOneWay`: one bitmap is used for every flavor.
- `SubtypesWithSelf`: the own bit is not skipped.
- `AddSubtypeDup`: there is no duplicate check.
- `PermBitByValue`: the permission's bit is taken as its value, not `value - 1`.
- `ClassIterCreateNoInit`: the class cursor starts anywhere.
- `DelEqualFailNoCompact`: a failed compare leaves the list as it was before the scan.
- `TypeCloneShareName`: the clone takes the original's name pointer.
- `TypeFreeNoBounds`: `sepol_type_free` forgets `free(type->bounds)`.
- `ExprEqualUnsorted`: `sepol_constraint_expr_equals` compares the name lists without the two `qsort` calls.
- `DelScanNoSwap`, `InsertSwapLate` and `ReleaseKeepExprs`.

## Bounds and why they suffice

- **Heap models.** Two or three objects of each kind. Expressions are built by the setters from one kind (NAMES), one attribute bit, one operator and two names, so two expressions can hold the same names in either order, or differ only in their names. `class_ownership` has two expression objects, which keeps its run under two minutes; the violation runs have three. These are enough for a clone, a free of either copy, an aliasing borrow, and a delete that matches one constraint of two. Symmetry over the object addresses is sound because the actions never treat one address differently from another.
- **TypeRecord and Keys.** Two records, four string addresses, one key, two names, one flag and two flavors. Two names make `del_subtype` meet a list with a match that is not last. Four strings hold a named record with two subtypes and a key, or two named records and a key; a leaked string stays allocated, so the heap also runs out, which disables allocating steps as a failed allocation would. The other flags and flavor only widen values that play no part in ownership.
- **Iterators.**
  - Four type keys, including a kernel-form or base-form alias, and three roles.
  - Every subset of members for the attribute, with and without the attribute's own bit in the kernel maps, and the empty database (spec section 8). The bounds and permissive variants are tied to the members, so each occurs in both forms in 13 databases.
  - Two classes: one with a common and two constraints whose masks hold bits 0, 1 and 31, and one with neither. The 32nd permission is where `1 << (value - 1)` meets the sign bit.
  - `MaxFailures = 2`, so one iteration can fail twice, or fail once in each iterator.
- **ClassQuery.**
  - The spec's CLASS1 itself.
  - A two-leaf postfix constraint, the smallest in which order matters.
  - A class without a common.

## Fairness

`IterSpec` assumes weak fairness of `TypeIterNext`, `RoleIterNext` and `ClassIterNext`. A
caller iterates by calling `next` until it returns NULL, so `next` keeps being
taken while an iterator exists. Destroying the iterator early is also allowed,
and `IterationsTerminate` accepts that. A class translation that meets undefined behaviour, or fails anywhere but in `add_constraint` (whose error path crashes on a NULL argument, see `query_crash`), ends the process; those behaviours are prefixes of the modelled ones and are not steps of `ClassIterNext`. No other module states liveness: the
record operations are single calls with no waiting.

## Not modelled

- **Key reads.** `*_key_unpack` and the `compare` functions only read a name. Role and class `key_extract` are the create of the record's name; the role and class models keep names as values.
- **Leaks forbidden outright.** The leaks of `set_alias_of`/`set_bounds` and `sepol_role_key_free` are modelled and named by `NoOtherLeak` as the only ones. So is the lost record of a failed `type_clone`, and the crash of a failed `type_create` malloc. No checked property forbids them outright, because the code as written does each of them on its first chance. `sepol_role_set_bounds` has the same leak of the old bounds (role_record.c:129); it is a listed hazard, not visible in `RoleRecord`, whose strings are values. The arrays `sepol_class_free` and `sepol_constraint_expr_free` never free are listed as hazards: those models keep the lists as values.
- **Users.** Only the header is present.
- **`util.c` string lists.** They are used through their specified set semantics.
- **Allocation failure in the role and class setters.** Each returns an error before changing anything, so it is a stuttering step. The same holds for a failed `add_name` in `sepol_constraint_expr_clone`, whose error path frees the partial copy.
- **The class model's caller and the expression setters.** In `class_ownership` the caller builds expressions in `classes.c`'s order and never sets a constraint's permissions. With every setter order the run grows past three million states; the constraint-level runs use every order and the permission setters.
- **Cloning an unnamed class.** `ClassValClone` crashes as `sepol_class_clone` does, but `CloneRoundTrip`, like the spec's round trip, is stated for named records, so no run checks a property that forbids it.

## Plan for later work

- Give the role record and the class record's permission and name lists the string heap of `TypeRecord`.
- Add a NAMES leaf without a USER, ROLE or TYPE bit, for the uninitialised `val_to_name`.
