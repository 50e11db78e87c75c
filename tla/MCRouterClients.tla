-------------------------- MODULE MCRouterClients ---------------------------
(***************************************************************************)
(* Instances of RouterClients for TLC.                                     *)
(***************************************************************************)
EXTENDS RouterClients, TLC

PresetSymmetry == Permutations(Presets)

=============================================================================
