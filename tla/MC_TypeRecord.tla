---------------------------- MODULE MC_TypeRecord ----------------------------
(* Model-checking instance of Keys over TypeRecord: two record addresses,  *)
(* two names, so that a delete can meet another name in the last slot, and *)
(* four string addresses, enough for a named record with two subtypes and  *)
(* a key, or two named records and a key.  One flag and two flavors: the  *)
(* values of those fields play no part in the ownership of strings.      *)
EXTENDS Keys, TLC

MCFlags == {SEPOL_TYPE_FLAGS_PERMISSIVE}

MCFlavors == {SEPOL_TYPE_TYPE, SEPOL_TYPE_ALIAS}

MCSymmetry == Permutations(TypeObjs) \cup Permutations(TypeNames)
              \cup Permutations(StrObjs)
=============================================================================
