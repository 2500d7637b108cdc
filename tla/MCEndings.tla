------------------------------ MODULE MCEndings ------------------------------
(* What must come to an end, in small instances that share no state: list   *)
(* refreshes, reloads of the filters, records of audit events (with fair    *)
(* queries, and with a fair writer), the retention of rows, the wait for a  *)
(* summary, and the shutdown.  A behaviour is one of one part, and the      *)
(* variables of the others stay as they are; Shutdown, which the others     *)
(* stand beside, has its own names.  A retention of a quarter of a second   *)
(* keeps the clock short.                                                   *)
EXTENDS Shutdown
CONSTANTS l1, l2, r1, refresher, starter, nobody, q1, q2, c1, c2, c3, h1, None

VARIABLES part,
          db, process, jobs, queue, wake, cancelled, jobsPc, job, created, jobsFaults, stops, pending,
          table, pc, mu, gone, loaded, matcher, snapshot, decider, queries, edits, ends, faults,
          wants, acked, before, failed, skipped,
          recorder, closed, done, events, batch, writer, then, err, dropped, close, open, calls,
          sinkFaults, sent, written, gaveAway, asked,
          storeNow, storeRows, lastId, totals, settings, cleaner, put, started,
          restarts, storeFaults, saves, inserted, carried, chosen,
          now, rows, level, value, expires, flight, generation, client, changer, changes, cacheFaults

Refreshing == INSTANCE RefreshJobs WITH
    Lists <- {l1, l2}, MaxActive <- 2, MaxKept <- 2, MaxJobs <- 3, MaxFaults <- 1, MaxStops <- 1,
    pc <- jobsPc, faults <- jobsFaults

Reloading == INSTANCE FilterReload WITH
    Requests <- {r1}, Worker <- refresher, Loader <- starter, NoCaller <- nobody, Queries <- {},
    MaxEdits <- 2, MaxGone <- 1, MaxFaults <- 1, query <- queries

Recording == INSTANCE AuditSink WITH
    Recorders <- {q1, q2}, QueueSize <- 2, BatchSize <- 2, MaxRecords <- 3, MaxFaults <- 1,
    faults <- sinkFaults, lost <- gaveAway

Keeping == INSTANCE AuditStore WITH
    Base <- 2, Actions <- {"allow"}, LegacyTotals <- [a \in {"allow"} |-> 2],
    LegacySettings <- [retention |-> 1, level |-> 1], Default <- [retention |-> 1, level |-> 0],
    Retentions <- {0}, Levels <- {}, CleanupBatch <- 1, Start <- 8, MaxTime <- 10,
    MaxEvents <- 2, MaxSaves <- 1, MaxRestarts <- 1, MaxFaults <- 1,
    now <- storeNow, rows <- storeRows, faults <- storeFaults

Caching == INSTANCE SummaryCache WITH
    Clients <- {c1, c2, c3}, Changers <- {h1}, TTL <- 1, MaxTime <- 2, MaxChanges <- 0, MaxFaults <- 1,
    faults <- cacheFaults

-----------------------------------------------------------------------------
jobVars == <<db, process, jobs, queue, wake, cancelled, jobsPc, job, created, jobsFaults, stops, pending>>
reloadVars == <<table, pc, mu, gone, loaded, matcher, snapshot, decider, queries, edits, ends, faults,
                wants, acked, before, failed, skipped>>
sinkVars == <<recorder, closed, done, events, batch, writer, then, err, dropped, close, open, calls,
              sinkFaults, sent, written, gaveAway, asked>>
storeVars == <<storeNow, storeRows, lastId, totals, settings, cleaner, put, started,
               restarts, storeFaults, saves, inserted, carried, chosen>>
cacheVars == <<now, rows, level, value, expires, flight, generation, client, changer, changes, cacheFaults>>

MCInit ==
    /\ part \in {"refreshing", "reloading", "recording", "writing", "keeping", "caching", "ending"}
    /\ Refreshing!Init /\ Reloading!Init /\ Recording!Init
    /\ Keeping!Init /\ Caching!Init /\ Init

MCNext ==
    /\ UNCHANGED part
    /\ \/ /\ part = "refreshing" /\ Refreshing!Next
          /\ UNCHANGED <<reloadVars, sinkVars, storeVars, cacheVars, vars>>
       \/ /\ part = "reloading" /\ Reloading!Next
          /\ UNCHANGED <<jobVars, sinkVars, storeVars, cacheVars, vars>>
       \/ /\ part \in {"recording", "writing"} /\ Recording!Next
          /\ UNCHANGED <<jobVars, reloadVars, storeVars, cacheVars, vars>>
       \/ /\ part = "keeping" /\ Keeping!Next
          /\ UNCHANGED <<jobVars, reloadVars, sinkVars, cacheVars, vars>>
       \/ /\ part = "caching" /\ Caching!Next
          /\ UNCHANGED <<jobVars, reloadVars, sinkVars, storeVars, vars>>
       \/ /\ part = "ending" /\ Next
          /\ UNCHANGED <<jobVars, reloadVars, sinkVars, storeVars, cacheVars>>

(* The fairness of each component, as its module has and explains it, or    *)
(* less: with a bounded number of reloads the mutex need not be strongly    *)
(* fair, and an event settles whether or not the writer is told to stop.    *)
Fairness ==
    /\ WF_jobVars(part = "refreshing" /\ Refreshing!Worker)
    /\ WF_jobVars(part = "refreshing" /\ cancelled /\ Refreshing!Exit)
    /\ WF_jobVars(part = "refreshing" /\ Refreshing!Start)
    /\ \A c \in {r1, refresher, starter} :
        /\ WF_reloadVars(part = "reloading" /\ Reloading!Reload(c))
        /\ WF_reloadVars(part = "reloading" /\ Reloading!Lock(c))
    /\ \A q \in {q1, q2} : WF_sinkVars(part = "recording" /\ Recording!Record(q))
    /\ WF_sinkVars(part = "writing" /\ Recording!Writer)
    /\ SF_sinkVars(part = "writing" /\ Recording!Receive)
    /\ WF_storeVars(part = "keeping" /\ Keeping!Cleanup("background"))
    /\ \A c \in {c1, c2, c3} : WF_cacheVars(part = "caching" /\ Caching!Move(c))
    /\ WF_vars(part = "ending" /\ Deadline)
    /\ WF_vars(part = "ending" /\ Serve)

MCSpec ==
    /\ MCInit
    /\ [][MCNext]_<<part, jobVars, reloadVars, sinkVars, storeVars, cacheVars, vars>>
    /\ Fairness

-----------------------------------------------------------------------------
(* Every accepted refresh gets an outcome, through stops and crashes, and   *)
(* every reload returns, whoever else is reloading.                         *)
RefreshesEnd ==
    /\ part = "refreshing" => Refreshing!AcceptedJobFinishes
    /\ part = "reloading" => Reloading!ReloadReturns

(* A query never waits for the audit database, and the writer deals with    *)
(* every event it was given before it stops.                                *)
EventsEnd ==
    /\ part = "recording" => Recording!RecordReturns
    /\ part = "writing" => Recording!EventSettles

(* Rows past their retention are deleted, failed cleanups notwithstanding,  *)
(* and who waits for another's summary is answered, failures and clients    *)
(* that go away notwithstanding.                                            *)
AuditingGoesOn ==
    /\ part = "keeping" => Keeping!OverdueRowsGo
    /\ part = "caching" => Caching!WaitersAnswered
==============================================================================
