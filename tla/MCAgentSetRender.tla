-------------------------- MODULE MCAgentSetRender --------------------------
(***************************************************************************)
(* Instances of AgentSetRender for TLC.                                    *)
(***************************************************************************)
EXTENDS AgentSetRender, TLC

StartTagSymmetry == Permutations(Starts) \cup Permutations(Tags)

=============================================================================
