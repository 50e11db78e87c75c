------------------------------ MODULE MCStack ------------------------------
(***************************************************************************)
(* Instances of Stack for TLC.  Slots of one kind, engines and, where no   *)
(* configuration is singled out by Offering, configurations are alike.     *)
(***************************************************************************)
EXTENDS Stack, TLC

SlotSymmetry ==
    Permutations(Ups) \cup Permutations(Downs) \cup Permutations(Agents)

SlotEngineSymmetry == SlotSymmetry \cup Permutations(Engines)

=============================================================================
