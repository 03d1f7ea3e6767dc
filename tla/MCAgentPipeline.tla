------------------------- MODULE MCAgentPipeline -------------------------
(***************************************************************************)
(* Correctness properties of a pipeline session, and the instances TLC     *)
(* checks them on.                                                         *)
(***************************************************************************)
EXTENDS AgentPipeline, TLC

Symmetry == Permutations(Replies)
=============================================================================
