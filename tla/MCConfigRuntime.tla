-------------------------- MODULE MCConfigRuntime --------------------------
(* Small instance of ConfigRuntime for TLC.                                *)
EXTENDS ConfigRuntime, TLC
CONSTANTS r1, r2, q1, d1, d2, n1, n2
MCRequests == {r1, r2}
MCOneRequest == {r1}
MCOneReader == {q1}
MCDurations == {2, 3}
MCDns == {d1, d2}
MCResponses == {n1, n2}
(* Requests can be exchanged.                                               *)
Symmetry == Permutations(MCRequests)
=============================================================================
