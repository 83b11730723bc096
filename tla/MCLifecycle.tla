---------------------------- MODULE MCLifecycle ----------------------------
(***************************************************************************)
(* The model values and bounds of MCNode, for the node over several runs   *)
(* with wallet_tool beside it.                                             *)
(***************************************************************************)
EXTENDS MCNode, Lifecycle

=============================================================================
