----------------------------- MODULE MCProgress -----------------------------
(***************************************************************************)
(* The nodes of MCNode, and what is lost on the way.                       *)
(***************************************************************************)
EXTENDS MCNode, NodeProgress
=============================================================================
