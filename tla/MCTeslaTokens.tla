--------------------------- MODULE MCTeslaTokens ---------------------------
(* The requests of a user are alike. *)
EXTENDS TeslaTokens, TLC

Symmetry == Permutations(Requests)
=============================================================================
