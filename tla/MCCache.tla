------------------------------ MODULE MCCache ------------------------------
(* Model values for TwoLevelCache. *)
EXTENDS TwoLevelCache, TLC

CONSTANTS n1, n2, t1, t2, k1

\* Two threads in one node, or one in each.
MCHomes == {t1 :> n1 @@ t2 :> n1, t1 :> n1 @@ t2 :> n2}
=============================================================================
