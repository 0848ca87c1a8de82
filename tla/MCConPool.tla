----------------------------- MODULE MCConPool -----------------------------
(* Model values are enough: the connections and the threads come from the   *)
(* cfg. No symmetry, because the runs check liveness.                       *)
EXTENDS ConPool
=============================================================================
