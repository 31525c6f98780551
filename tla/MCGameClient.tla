---------------------------- MODULE MCGameClient ----------------------------
(* GameClient on a small instance.                                         *)
EXTENDS GameClient
=============================================================================
