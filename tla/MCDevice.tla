------------------------------- MODULE MCDevice -------------------------------
(* Model-checking instances of Device; the .cfg files give the constants. *)
EXTENDS Device

=============================================================================
