CONSTANTS
  TypeObjs = {t1, t2}
  StrObjs = {s1, s2, s3, s4}
  KeyObjs = {k1}
  TypeNames = {n1, n2}
  NULL = NULL
  Flags <- MCFlags
  Flavors <- MCFlavors
SYMMETRY MCSymmetry
SPECIFICATION KeysSpec
INVARIANT TypeOK
INVARIANT StringsOwnedOnce
PROPERTY DelSubtypeRemovesName
PROPERTY NoOtherLeak
CHECK_DEADLOCK FALSE
