----------------------------- MODULE MC_Records -----------------------------
(* Model-checking instance of Records: two type, two role and two class   *)
(* addresses, one name of each kind.                                       *)
EXTENDS Records, TLC
=============================================================================
