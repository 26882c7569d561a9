---------------------------- MODULE MCCompletion ----------------------------
(* Model-checking instances of Completion; the .cfg files give the constants. *)
EXTENDS Completion

=============================================================================
