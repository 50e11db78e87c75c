--------------------------- MODULE MCLiveSampler ---------------------------
(***************************************************************************)
(* Instances of LiveSampler for TLC.                                       *)
(***************************************************************************)
EXTENDS LiveSampler, TLC

ThreadSymmetry == Permutations(Threads)

=============================================================================
