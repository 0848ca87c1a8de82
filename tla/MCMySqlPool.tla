---------------------------- MODULE MCMySqlPool ----------------------------
(* Model values are enough: the connections and the threads come from the   *)
(* cfg. No symmetry, because the run checks liveness.                       *)
EXTENDS MySqlPool
=============================================================================
