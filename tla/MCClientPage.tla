---------------------------- MODULE MCClientPage ----------------------------
(* ClientPage on a map like the second of data/config.json: two of its     *)
(* loot types share a file; and one more type.                             *)
EXTENDS ClientPage

MCFileOf == [key1 |-> "key.obj", key2 |-> "key.obj", wallet |-> "wallet.obj"]
MCLootTypes == DOMAIN MCFileOf
=============================================================================
