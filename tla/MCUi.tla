-------------------------------- MODULE MCUi --------------------------------
(***************************************************************************)
(* An instance of Ui for TLC: every command in one checkout.               *)
(***************************************************************************)
EXTENDS Ui, TLC

CONSTANT Checkout1

OneCheckout == [p \in Procs |-> Checkout1]

Symmetric == Permutations(Procs) \cup Permutations(Sets) \cup Permutations(Ports)

=============================================================================
