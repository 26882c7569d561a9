------------------------------ MODULE MCBatching ------------------------------
(* The model-checking instance of Batching; MCBatching.cfg gives the constants. *)
EXTENDS Batching

=============================================================================
