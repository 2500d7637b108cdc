---------------------------- MODULE AuditQueries ----------------------------
(***************************************************************************)
(* Reading the audit database: pages of the query log (QueryEvents in      *)
(* internal/audit/audit.go, queryAuditEventsPage in internal/admin/api.go) *)
(* and the analytics summary (QuerySummary and ProjectSummary in           *)
(* internal/audit/analytics.go).                                           *)
(*                                                                         *)
(* A client walks the pages of the log while rows are written and cleaned  *)
(* up.  The reads of one summary are taken for one here.                   *)
(***************************************************************************)
EXTENDS AuditTime, Integers, FiniteSets

CONSTANTS
    Clients, Names, \* numbers, in the order of the text; a client 0 is unknown
    Actions,        \* of allow and block
    Limits,         \* page sizes that are asked for
    maxQueriesLimit,
    Retention,
    TopLimit, BucketCount, BucketInterval,
    Start, MaxTime, \* bound the clock
    MaxEvents       \* bounds the rows

AuditQueriesAssumption ==
    /\ Clients \subseteq Nat /\ Names \subseteq Nat \ {0}
    /\ Limits \subseteq Nat \ {0} /\ maxQueriesLimit \in Nat \ {0}
    /\ BucketCount \in Nat \ {0}
    /\ BucketInterval \in Nat \ {0} /\ BucketInterval % Second = 0
    /\ Retention \in Nat /\ Start \in Nat
    /\ Start >= BucketCount * BucketInterval + Retention

VARIABLES
    now,
    rows,   \* audit_events
    lastId,
    walk,   \* the walk through the pages: filter, limit, next offset
    seen,   \* history: the rows it was shown
    there,  \* history: the rows that have been there since it began
    still   \* history: no row came or went since

vars == <<now, rows, lastId, walk, seen, there, still>>

NoWalk == [pc |-> "none"]

Init ==
    /\ now = Start
    /\ rows = {} /\ lastId = 0
    /\ walk = NoWalk
    /\ seen = <<>> /\ there = {} /\ still = TRUE

-----------------------------------------------------------------------------
(* The log.  Filters are ANDed; 0 stands for one that is not given.        *)
Matches(e, filter) ==
    /\ filter.client # 0 => e.client = filter.client
    /\ filter.from # 0 => ~Before(e.at, filter.from)

(* Mutant: the oldest rows come first.                                     *)
LaterAscending(e, f) == Before(e.at, f.at) \/ (e.at = f.at /\ e.id < f.id)

(* ORDER BY timestamp DESC, id DESC, the default.                          *)
Later(e, f) == Before(f.at, e.at) \/ (e.at = f.at /\ e.id > f.id)

Place(e, events) == 1 + Cardinality({f \in events : Later(f, e)})
Sorted(events) == [k \in 1..Cardinality(events) |-> CHOOSE e \in events : Place(e, events) = k]

QueryEvents(filter, offset, limit) ==
    LET sorted == Sorted({e \in rows : Matches(e, filter)})
    IN  SubSeq(sorted, offset + 1, (IF offset + limit < Len(sorted) THEN offset + limit ELSE Len(sorted)))

parseQueriesLimit(limit) == IF limit > maxQueriesLimit THEN maxQueriesLimit ELSE limit

(* One row more than asked for tells whether there is a next page.         *)
queryAuditEventsPage(filter, offset, limit) ==
    LET events == QueryEvents(filter, offset, limit + 1)
    IN  [events |-> SubSeq(events, 1, (IF Len(events) > limit THEN limit ELSE Len(events))),
         hasNext |-> Len(events) > limit,
         next |-> offset + limit]

Begin ==
    /\ walk.pc # "walking"
    /\ \E client \in Clients, from \in {0, now - Second}, limit \in Limits :
         walk' = [pc |-> "walking", offset |-> 0, limit |-> parseQueriesLimit(limit),
                  filter |-> [client |-> client, from |-> from]]
    /\ seen' = <<>>
    /\ there' = rows
    /\ still' = TRUE
    /\ UNCHANGED <<now, rows, lastId>>

Page ==
    /\ walk.pc = "walking"
    /\ LET page == queryAuditEventsPage(walk.filter, walk.offset, walk.limit)
       IN  /\ seen' = seen \o page.events
           /\ walk' = IF page.hasNext THEN [walk EXCEPT !.offset = page.next]
                      ELSE [walk EXCEPT !.pc = "done"]
    /\ UNCHANGED <<now, rows, lastId, there, still>>

(* Rows of the writer, recorded a little earlier; a cleanup.               *)
Insert ==
    /\ lastId < MaxEvents
    /\ lastId' = lastId + 1
    /\ \E client \in Clients, name \in Names, action \in Actions, at \in {now - 1, now} :
         rows' = rows \cup {[id |-> lastId', at |-> at, client |-> client, name |-> name, action |-> action]}
    /\ still' = FALSE
    /\ UNCHANGED <<now, walk, seen, there>>

Cleanup ==
    /\ rows' = {e \in rows : ~Before(e.at, now - Retention)}
    /\ rows' # rows
    /\ there' = there \cap rows'
    /\ still' = FALSE
    /\ UNCHANGED <<now, lastId, walk, seen>>

Tick == now < MaxTime /\ now' = now + 1 /\ UNCHANGED <<rows, lastId, walk, seen, there, still>>

Next == Begin \/ Page \/ Insert \/ Cleanup \/ Tick

Spec == Init /\ [][Next]_vars

-----------------------------------------------------------------------------
(* The summary, as of now.                                                 *)
Since == now - BucketCount * BucketInterval
Recent == {e \in rows : ~Before(e.at, Since)}

(* Counts by what a column has, the TopLimit highest, ties by text.        *)
namedTotals(events, column) ==
    LET names == {e[column] : e \in events} \ {0}
        Count(n) == Cardinality({e \in events : e[column] = n})
        Ahead(n, m) == Count(n) > Count(m) \/ (Count(n) = Count(m) /\ n < m)
    IN  [n \in {n \in names : Cardinality({m \in names : Ahead(m, n)}) < TopLimit} |-> Count(n)]

BucketEnd == (now \div BucketInterval) * BucketInterval + BucketInterval
BucketStart(i) == BucketEnd - (BucketCount - i + 1) * BucketInterval

inBucket(e, i) ==
    LET at == RFC3339Nano(e.at)
    IN  /\ ~TextBefore(at, bucketBoundaryLayout(BucketStart(i)))
        /\ TextBefore(at, bucketBoundaryLayout(BucketStart(i + 1)))

timeBuckets ==
    [i \in 1..BucketCount |->
        LET events == {e \in rows : inBucket(e, i)}
        IN  [total |-> Cardinality(events),
             allowed |-> Cardinality({e \in events : e.action = "allow"}),
             blocked |-> Cardinality({e \in events : e.action = "block"})]]

(* Only the top clients, and of these only those a bucket has rows of.     *)
clientTimeBuckets(topClients) ==
    [i \in 1..BucketCount |->
        LET events == {e \in rows : inBucket(e, i)}
            Of(c) == {e \in events : e.client = c}
        IN  [c \in {c \in DOMAIN topClients : Of(c) # {}} |-> Cardinality(Of(c))]]

QuerySummary ==
    LET blocked == {e \in Recent : e.action = "block"}
        topClients == namedTotals(Recent, "client")
    IN  [topQueried |-> namedTotals(Recent, "name"), topBlocked |-> namedTotals(blocked, "name"),
         topClients |-> topClients, topBlockedClients |-> namedTotals(blocked, "client"),
         buckets |-> timeBuckets, clientBuckets |-> clientTimeBuckets(topClients)]

(* Many names become none, with the sum of their counts: as many as there  *)
(* are when each name counts its own.                                      *)
SumOf(totals) == Cardinality(UNION {{n} \X (1..totals[n]) : n \in DOMAIN totals})
collapseNamedTotals(totals) == [n \in IF DOMAIN totals = {} THEN {} ELSE {0} |-> SumOf(totals)]

ProjectSummary(summary, level) ==
    LET hide(totals, from) == IF level >= from THEN collapseNamedTotals(totals) ELSE totals
    IN  [summary EXCEPT
           !.topClients = hide(@, 1), !.topBlockedClients = hide(@, 1),
           !.clientBuckets = [i \in DOMAIN @ |-> hide(@[i], 1)],
           !.topQueried = hide(@, 2), !.topBlocked = hide(@, 2)]

-----------------------------------------------------------------------------
(* A walk through the pages, newest first, shows every row that was there  *)
(* from its first page to its last: rows that come shift others to later   *)
(* pages, and rows go from the end.                                        *)
WalkMissesNothing ==
    walk.pc = "done" => \A e \in there : Matches(e, walk.filter) => \E k \in DOMAIN seen : seen[k] = e

(* A walk that nothing disturbed shows every row once, newest first.       *)
StillWalkIsExact ==
    walk.pc = "done" /\ still =>
        \A j, k \in DOMAIN seen : j < k => Later(seen[j], seen[k])

(* Each row is in the bucket of its time and in no other, at the bounds    *)
(* and with or without a fraction.                                         *)
BucketsPartition ==
    \A e \in rows, i \in 1..BucketCount :
        inBucket(e, i) <=> BucketStart(i) <= e.at /\ e.at < BucketStart(i + 1)

(* A level that hides clients leaves no client in any part of the summary, *)
(* one that hides names no name, and the counts stay.                      *)
HiddenEverywhere ==
    LET clients(s) == {s.topClients, s.topBlockedClients} \cup {s.clientBuckets[i] : i \in 1..BucketCount}
        names(s) == {s.topQueried, s.topBlocked}
        sums(parts) == {SumOf(p) : p \in parts}
        s0 == QuerySummary
        s1 == ProjectSummary(s0, 1)
        s2 == ProjectSummary(s0, 2)
    IN  /\ \A p \in clients(s1) \cup clients(s2) \cup names(s2) : DOMAIN p \subseteq {0}
        /\ names(s1) = names(s0)
        /\ sums(clients(s1)) = sums(clients(s0)) /\ sums(names(s2)) = sums(names(s0))
=============================================================================
