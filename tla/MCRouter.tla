------------------------------ MODULE MCRouter ------------------------------
(***************************************************************************)
(* Three accounts in two pools that share one of them, a third pool that   *)
(* no account serves.  Requests of 0 and 2 tokens use up budgets of 2      *)
(* exactly and leave a token of the 3; one prefix ranks the shared account *)
(* first in both pools, the other in one.                                  *)
(***************************************************************************)
EXTENDS Router, TLC

CONSTANTS a1, a2, a3, shared, dedicated, unknown, f1, f2

MCMembers == (shared :> {a1, a2}) @@ (dedicated :> {a2, a3}) @@ (unknown :> {})

MCBudget == (a1 :> 2) @@ (a2 :> 3) @@ (a3 :> 2)

MCScore ==
    (f1 :> ((a1 :> 1) @@ (a2 :> 2) @@ (a3 :> 3))) @@
    (f2 :> ((a1 :> 3) @@ (a2 :> 1) @@ (a3 :> 2)))
=============================================================================
