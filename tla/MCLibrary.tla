------------------------------ MODULE MCLibrary ------------------------------
(***************************************************************************)
(* Instances of Library for TLC.                                           *)
(***************************************************************************)
EXTENDS Library, TLC

FetchSymmetry == Permutations(Fetches)

=============================================================================
