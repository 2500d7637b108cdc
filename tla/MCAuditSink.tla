---------------------------- MODULE MCAuditSink ----------------------------
(* Small instance of AuditSink for TLC.                                    *)
EXTENDS AuditSink, TLC
CONSTANTS r1, r2
MCRecorders == {r1, r2}
RecorderSymmetry == Permutations(MCRecorders)
=============================================================================
