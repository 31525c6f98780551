--------------------------- MODULE MCGameSession ----------------------------
(* GameSession on a small instance: symmetric dogs and offices.            *)
EXTENDS GameSession, TLC

Symmetry == Permutations(Dogs)
=============================================================================
