--------------------------- MODULE MCServerRuntime ---------------------------
(* The process with a few threads, connections and both tickers; without   *)
(* symmetry, so that safety and liveness are checked together.             *)
EXTENDS ServerRuntime
=============================================================================
