CONSTANTS
  TypeObjs = {t1, t2}
  StrObjs = {s1, s2}
  TypeNames = {n1}
  RoleObjs = {r1, r2}
  RoleNames = {q1}
  ClassObjs = {k1, k2}
  ClassNames = {m1}
  PermNames = {p1}
  NULL = NULL
SPECIFICATION Spec
PROPERTY CloneRoundTrip
CHECK_DEADLOCK FALSE
