------------------------ MODULE MCCollisionDetector -------------------------
\* Two dogs that cross each other's ways, an item at the edge, where a dog is
\* stopped, and an office whose width reaches further.
EXTENDS CollisionDetector, TLC

Symmetry == Permutations(Dogs)
Place == [i \in Items |-> IF i = "loot" THEN [x |-> 0, y |-> 1] ELSE [x |-> 2, y |-> 2]]
Reach == [i \in Items |-> IF i = "loot" THEN 0 ELSE 1]
=============================================================================
