--------------------------- MODULE MCFilterReload ---------------------------
(* Small instance of FilterReload for TLC.                                 *)
EXTENDS FilterReload, TLC
CONSTANTS r1, r2, q1
MCRequests == {r1, r2}
MCOneRequest == {r1}
MCQueries == {q1}
RequestSymmetry == Permutations(MCRequests)
=============================================================================
