--------------------------- MODULE MCLoginSession ---------------------------
EXTENDS LoginSession, TLC
Symmetry == Permutations(Server) \cup Permutations(Session)
=============================================================================
