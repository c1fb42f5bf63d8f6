------------------------------- MODULE MCInput -------------------------------
(* Small instances of Input for TLC: pages and positions are alike.          *)
EXTENDS Input, TLC

Symmetry == Permutations(Pages) \cup Permutations(Positions)
=============================================================================
