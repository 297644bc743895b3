------------------------------ MODULE Iterator ------------------------------
(***************************************************************************)
(* What an iterator over one table promises (specification sections 4.7   *)
(* and 8): created -> next* -> exhausted.  Each next returns a record for  *)
(* a key not returned before, or fails; once every key is used up, next    *)
(* returns "none", again and again.  Destroying the iterator ends the      *)
(* iteration; a new one starts over.                                       *)
(*                                                                         *)
(* A failed next either leaves its key for the following call or, when     *)
(* MayLose holds, uses it up without returning it.                         *)
(***************************************************************************)
CONSTANT MayLose    \* whether a failed next may use up its key

VARIABLES
  keys,      \* the keys of the table (never changes)
  live,      \* whether an iterator exists
  pending,   \* keys the iterator has still to return
  result     \* what the last call returned: a key, "none", "error" or "fresh"

Create ==
  /\ ~live
  /\ live' = TRUE
  /\ pending' = keys
  /\ result' = "fresh"
  /\ UNCHANGED keys

Yield ==
  /\ live
  /\ \E k \in pending :
       /\ pending' = pending \ {k}
       /\ result' = k
  /\ UNCHANGED <<keys, live>>

FailKeep ==
  /\ live
  /\ pending # {}
  /\ result' = "error"
  /\ UNCHANGED <<keys, live, pending>>

FailLose ==
  /\ MayLose
  /\ live
  /\ \E k \in pending : pending' = pending \ {k}
  /\ result' = "error"
  /\ UNCHANGED <<keys, live>>

Exhausted ==
  /\ live
  /\ pending = {}
  /\ result' = "none"
  /\ UNCHANGED <<keys, live, pending>>

Destroy ==
  /\ live
  /\ live' = FALSE
  /\ pending' = {}
  /\ UNCHANGED <<keys, result>>

Init ==
  /\ live = FALSE
  /\ pending = {}
  /\ result = "none"

Next == Create \/ Yield \/ FailKeep \/ FailLose \/ Exhausted \/ Destroy

Spec == Init /\ [][Next]_<<keys, live, pending, result>>
=============================================================================
