--------------------------- MODULE MCDogMovement ----------------------------
(* A small road network in units of 0.2: two collinear roads that meet, one *)
(* that crosses them where they meet, one parallel and near, not connected. *)
EXTENDS DogMovement

MCRoads == <<[x0 |-> 0, y0 |-> 0, x1 |-> 5, y1 |-> 0],
             [x0 |-> 5, y0 |-> 5, x1 |-> 5, y1 |-> -5],
             [x0 |-> 10, y0 |-> 0, x1 |-> 5, y1 |-> 0],
             [x0 |-> 0, y0 |-> 6, x1 |-> 0, y1 |-> 11]>>

\* Random spawns on the first road, its corners, the middle, and a point
\* that is on no road.
MCSpawns == {[x |-> -2, y |-> -2], [x |-> 0, y |-> 0], [x |-> 4, y |-> 1], [x |-> 20, y |-> 20]}
=============================================================================
