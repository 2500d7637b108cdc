--------------------------- MODULE AuditDatabase ---------------------------
(***************************************************************************)
(* The audit database (AuditStore) and what is read from it, beside each   *)
(* other and without shared state: the cache of the summary, and the pages *)
(* of the log and the summaries of rows that come and go.  A behaviour is  *)
(* one of one part, and the variables of the others stay as they are.      *)
(***************************************************************************)
EXTENDS AuditStore, Sequences

CONSTANTS Viewers, Changers, TTL, MaxCacheTime, MaxChanges, MaxCacheFaults, None
VARIABLES cacheNow, cleanups, level, value, expires, flight, generation,
          client, changer, changes, cacheFaults

Caching == INSTANCE SummaryCache WITH
    Clients <- Viewers, MaxTime <- MaxCacheTime, MaxFaults <- MaxCacheFaults,
    now <- cacheNow, rows <- cleanups, faults <- cacheFaults

CONSTANTS Clients, Names, Limits, maxQueriesLimit, Retention, TopLimit, BucketCount, BucketInterval,
          LogStart, MaxLogTime, MaxLogEvents
VARIABLES logNow, log, logId, walk, seen, there, still

Reading == INSTANCE AuditQueries WITH
    Start <- LogStart, MaxTime <- MaxLogTime, MaxEvents <- MaxLogEvents,
    now <- logNow, rows <- log, lastId <- logId

CONSTANTS PagedKinds,  \* what the rows of the pages are, apart from time and id
          MaxSumTime   \* bounds the clock of the summaries
VARIABLE part

ASSUME AuditDatabaseAssumption ==
    /\ Caching!SummaryCacheAssumption
    /\ Reading!AuditQueriesAssumption

-----------------------------------------------------------------------------
cacheVars == <<cacheNow, cleanups, level, value, expires, flight, generation,
               client, changer, changes, cacheFaults>>
queryVars == <<logNow, log, logId, walk, seen, there, still>>

DatabaseInit ==
    /\ part \in {"keeping", "caching", "paging", "summing"}
    /\ Init
    /\ Caching!Init
    /\ Reading!Init

DatabaseNext ==
    /\ UNCHANGED part
    /\ \/ part = "keeping" /\ Next /\ UNCHANGED <<cacheVars, queryVars>>
       \/ part = "caching" /\ Caching!Next /\ UNCHANGED <<vars, queryVars>>
       \/ /\ part = "paging" /\ Reading!Next /\ UNCHANGED <<vars, cacheVars>>
          /\ \A e \in log' : [client |-> e.client, name |-> e.name, action |-> e.action] \in PagedKinds
       \/ /\ part = "summing" /\ Reading!Next /\ UNCHANGED <<vars, cacheVars>>
          /\ UNCHANGED walk /\ logNow' <= MaxSumTime

DatabaseSpec == DatabaseInit /\ [][DatabaseNext]_<<part, vars, cacheVars, queryVars>>

-----------------------------------------------------------------------------
(* A summary is computed by one request at a time; it is none from before  *)
(* a cleanup that was over, none past its time, and none that shows what   *)
(* the privacy level of the moment hides.                                  *)
SummaryIsFresh ==
    part = "caching" => Caching!TypeOK /\ Caching!SummaryIsFresh

(* A walk through the pages misses no row that was there all the time, and *)
(* repeats none when nothing came or went; the buckets of a summary        *)
(* partition the rows, and what the privacy level hides is nowhere in it.  *)
QueriesAreExact ==
    /\ part = "paging" => Reading!WalkMissesNothing /\ Reading!StillWalkIsExact
    /\ part = "summing" => Reading!BucketsPartition /\ Reading!HiddenEverywhere
=============================================================================
