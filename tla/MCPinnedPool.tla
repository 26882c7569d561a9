---------------------------- MODULE MCPinnedPool ----------------------------
(* Model-checking instances of PinnedPool; the .cfg files give the constants. *)
EXTENDS PinnedPool

=============================================================================
