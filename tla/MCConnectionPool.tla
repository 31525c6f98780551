-------------------------- MODULE MCConnectionPool ---------------------------
(* More users than connections, so that some of them sleep; the instances  *)
(* are small enough to need no symmetry.                                   *)
EXTENDS ConnectionPool
=============================================================================
