---------------------------- MODULE MCSharedState ----------------------------
(* The model-checking instance of SharedState; MCSharedState.cfg gives the    *)
(* constants.                                                                 *)
EXTENDS SharedState

=============================================================================
