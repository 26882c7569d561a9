----------------------------- MODULE MCNcclWorld -----------------------------
(* Model-checking instances of NcclWorld; the .cfg files give the constants. *)
EXTENDS NcclWorld

=============================================================================
