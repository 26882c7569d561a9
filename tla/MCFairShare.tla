----------------------------- MODULE MCFairShare -----------------------------
(* Model-checking instances of FairShare: a tenant of weight 1 and one of      *)
(* weight 2.                                                                  *)
EXTENDS FairShare, TLC

CONSTANTS A, B

MCTenants == {A, B}
MCWeight  == (A :> 1) @@ (B :> 2)

=============================================================================
