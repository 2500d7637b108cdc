--------------------------- MODULE MCRefreshJobs ---------------------------
(* Small instance of RefreshJobs for TLC.                                  *)
EXTENDS RefreshJobs, TLC
CONSTANTS l1, l2, l3
MCLists == {l1, l2, l3}
ListSymmetry == Permutations(MCLists)
=============================================================================
