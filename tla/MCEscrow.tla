------------------------------ MODULE MCEscrow ------------------------------
(* Instances of Escrow for TLC.                                             *)
EXTENDS Escrow, TLC

CONSTANTS r1, r2, w1, w2

WholeEscrow == {Wallets}
AnyScope == SUBSET Wallets \ {{}}

Symmetry == Permutations(Requests) \cup Permutations(Wallets)
=============================================================================
