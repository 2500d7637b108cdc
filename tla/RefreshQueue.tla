---------------------------- MODULE RefreshQueue ----------------------------
(***************************************************************************)
(* What the queue of list refreshes promises to its clients, with no       *)
(* process, worker, memory or disk: a durable record of jobs.  A request   *)
(* is accepted when its list has no unfinished job and there is room, an   *)
(* accepted job finishes once, and only finished jobs are ever forgotten,  *)
(* the oldest first and only when the record is full.                      *)
(***************************************************************************)
EXTENDS Naturals, FiniteSets

CONSTANTS Lists, MaxActive, MaxKept, MaxJobs

VARIABLES
    record,   \* a map from the identifiers on record to list and outcome
    last      \* the identifier last given

Accepted == {i \in DOMAIN record : record[i].outcome = "accepted"}
Finished == DOMAIN record \ Accepted

Init == record = [i \in {} |-> {}] /\ last = 0

(* What a full record drops to make room.                                  *)
Forgotten ==
    IF Cardinality(DOMAIN record) < MaxKept
    THEN {}
    ELSE {i \in Finished : \A k \in Finished : i <= k}

Accept(l) ==
    /\ \A i \in Accepted : record[i].list # l
    /\ Cardinality(Accepted) < MaxActive
    /\ last < MaxJobs
    /\ last' = last + 1
    /\ record' = [i \in (DOMAIN record \ Forgotten) \cup {last + 1} |->
                    IF i = last + 1
                    THEN [list |-> l, outcome |-> "accepted"]
                    ELSE record[i]]

Finish(i, outcome) ==
    /\ i \in Accepted
    /\ record' = [record EXCEPT ![i].outcome = outcome]
    /\ UNCHANGED last

Next ==
    \/ \E l \in Lists : Accept(l)
    \/ \E i \in Accepted, outcome \in {"succeeded", "failed"} : Finish(i, outcome)

Spec == Init /\ [][Next]_<<record, last>>
=============================================================================
