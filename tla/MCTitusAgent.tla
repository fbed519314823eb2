----------------------------- MODULE MCTitusAgent -----------------------------
(* Small instances of TitusAgent for TLC. *)
EXTENDS TitusAgent, TLC

CONSTANTS c1, c2

Symmetry == Permutations({c1, c2})

=============================================================================
