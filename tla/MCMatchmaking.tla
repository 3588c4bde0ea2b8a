--------------------------- MODULE MCMatchmaking ---------------------------
(* Instances of Matchmaking for TLC.                                        *)
EXTENDS Matchmaking, TLC

CONSTANTS r1, r2, r3, p1, p2, p3

Symmetry == Permutations(Requests) \cup Permutations(Players)
=============================================================================
