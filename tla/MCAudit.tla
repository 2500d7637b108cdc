------------------------------ MODULE MCAudit ------------------------------
(* The audit database and what is read from it, in a small instance.  The  *)
(* pages have one kind of rows for each of two clients, one unknown; the   *)
(* summaries have more various rows and a shorter time.  Base 2 gives a    *)
(* second four instants.                                                   *)
EXTENDS AuditDatabase, TLC
CONSTANTS c1, c2, h1, h2

OldTotals == [a \in {"allow", "block"} |-> IF a = "allow" THEN 2 ELSE 1]
OldSettings == [retention |-> 4, level |-> 1]
NewSettings == [retention |-> 4, level |-> 0]

PlainKinds == [client : {0, 1}, name : {1}, action : {"allow"}]

(* Requests, and the changes they meet, can be exchanged.                  *)
Symmetry == Permutations({c1, c2}) \cup Permutations({h1, h2})
=============================================================================
