------------------------------ MODULE MCSkills ------------------------------
(***************************************************************************)
(* Instances of Skills for TLC.                                            *)
(***************************************************************************)
EXTENDS Skills, TLC

OneSkill == <<"review">>
TwoSkills == <<"review", "plan">>

=============================================================================
