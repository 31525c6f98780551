--------------------------- MODULE MCActorTurning ---------------------------
(* ActorTurning on a small instance.                                       *)
EXTENDS ActorTurning
=============================================================================
