--------------------------- MODULE MCGameRegistry ---------------------------
(* GameRegistry on a small instance: symmetric names, maps and tokens.     *)
EXTENDS GameRegistry, TLC

Symmetry == Permutations(Names) \cup Permutations(Maps) \cup Permutations(Tokens)
=============================================================================
