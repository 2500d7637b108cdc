---------------------------- MODULE RefreshJobs ----------------------------
(***************************************************************************)
(* The background queue of list refreshes (internal/admin/filter_jobs.go). *)
(*                                                                         *)
(* A mutex guards the map of jobs and the FIFO queue; one worker goroutine *)
(* takes the jobs one at a time; every change of a job is saved in a       *)
(* separate SQLite database before it is made in memory, and a new process *)
(* takes up the unfinished rows it finds there.  The process can be told   *)
(* to stop (Close, or the parent context), can crash between any two       *)
(* steps, and any write to the database can fail.                          *)
(*                                                                         *)
(* A failed write is either lost or ambiguous: save runs under a five      *)
(* second context, and the driver reports an expired context for a         *)
(* statement that has committed.                                           *)
(*                                                                         *)
(* Submit, update and the writes they make hold the mutex, so each is one  *)
(* step.  Job identifiers are random in the code; here they are numbers in *)
(* order of creation, which is also the order of CreatedAt and of rowid.   *)
(***************************************************************************)
EXTENDS Naturals, Sequences, FiniteSets

CONSTANTS
    Lists,      \* the filter lists a refresh can be asked for
    MaxActive,  \* unfinished jobs the queue admits (64 in the code)
    MaxKept,    \* job records kept (256 in the code)
    MaxJobs,    \* bound: jobs created in a behaviour
    MaxFaults,  \* bound: failed database writes in a behaviour
    MaxStops    \* bound: process exits in a behaviour

ASSUME RefreshJobsAssumption ==
    /\ MaxActive \in Nat \ {0}
    /\ MaxKept \in Nat
    /\ MaxActive <= MaxKept
    /\ MaxJobs \in Nat
    /\ MaxFaults \in Nat
    /\ MaxStops \in Nat

VARIABLES
    db,         \* rows of refresh_jobs: a map from identifier to job
    process,    \* "down", "up", or "unavailable" (NewRefreshJobs failed)
    jobs,       \* RefreshJobs.jobs, the map served to clients
    queue,      \* RefreshJobs.queue
    wake,       \* the one-slot wake channel holds a token
    cancelled,  \* ctx.Err() # nil
    pc,         \* where the worker goroutine is in run
    job,        \* the worker's own copy of the job it runs
    created,    \* identifiers handed out so far
    faults,     \* writes that have failed so far
    stops,      \* exits so far
    pending     \* history: accepted jobs never yet shown as finished

memory == <<jobs, queue, wake, cancelled, pc, job>>
vars == <<db, process, memory, created, faults, stops, pending>>

-----------------------------------------------------------------------------
JobIds == 1 .. MaxJobs

Job == [ id     : JobIds,
         list   : Lists,
         status : {"queued", "running", "succeeded", "failed"},
         phase  : {"queued", "refreshing", "reloading", "complete"} ]

NoJob == [id |-> 0]

Active(j) == j.status \in {"queued", "running"}

Queued(j) == [j EXCEPT !.status = "queued", !.phase = "queued"]

(* Mutant: stored under the last identifier given, not the job's own.      *)
PutUnderLast(m, j) ==
    [i \in DOMAIN m \cup {created} |-> IF i = created THEN j ELSE m[i]]

(* Maps whose domain is the set of identifiers present.                    *)
EmptyMap == [i \in {} |-> NoJob]
Put(m, j) == [i \in DOMAIN m \cup {j.id} |-> IF i = j.id THEN j ELSE m[i]]
Without(m, S) == [i \in DOMAIN m \ S |-> m[i]]

ActiveIn(m) == {i \in DOMAIN m : Active(m[i])}
InactiveIn(m) == DOMAIN m \ ActiveIn(m)

(* The identifiers in S by rowid: what the recovery loop appends.          *)
ByRowid(S) ==
    {s \in [1 .. Cardinality(S) -> S] :
        /\ \A a, b \in 1 .. Cardinality(S) : a < b => s[a] < s[b]
        /\ \A i \in S : \E a \in 1 .. Cardinality(S) : s[a] = i}

(* Mutant: the oldest record goes, finished or not.                        *)
EvictedOldest ==
    IF Cardinality(DOMAIN jobs) < MaxKept
    THEN {}
    ELSE {i \in DOMAIN jobs : \A k \in DOMAIN jobs : i <= k}

(* The record Submit drops: the oldest finished one, when the map is full. *)
Evicted ==
    IF Cardinality(DOMAIN jobs) < MaxKept
    THEN {}
    ELSE {i \in InactiveIn(jobs) : \A k \in InactiveIn(jobs) : i <= k}

Goto(label) == pc' = label

Fault == faults < MaxFaults /\ faults' = faults + 1

-----------------------------------------------------------------------------
Init ==
    /\ db = EmptyMap
    /\ process = "down"
    /\ jobs = EmptyMap
    /\ queue = <<>>
    /\ wake = FALSE
    /\ cancelled = FALSE
    /\ pc = "done"
    /\ job = NoJob
    /\ created = 0
    /\ faults = 0
    /\ stops = 0
    /\ pending = {}

(* Mutants: the rows found unfinished are not queued; every row is taken   *)
(* up again.                                                               *)
Recover(rows) ==
    /\ process = "down"
    /\ db' = [i \in DOMAIN db |-> IF i \in rows THEN Queued(db[i]) ELSE db[i]]
    /\ jobs' = db'
    /\ process' = "up"
    /\ cancelled' = FALSE
    /\ Goto("wait")
    /\ job' = NoJob
    /\ pending' = pending \ InactiveIn(db)
    /\ UNCHANGED <<created, faults, stops>>

StartWithoutQueue == Recover(ActiveIn(db)) /\ queue' = <<>> /\ wake' = TRUE
StartWithAll == Recover(DOMAIN db) /\ queue' \in ByRowid(DOMAIN db) /\ wake' = TRUE

(* NewRefreshJobs: unfinished rows go back to queued, in memory and on     *)
(* disk, and are queued by rowid; then the worker starts with a token.     *)
Start ==
    /\ process = "down"
    /\ db' = [i \in DOMAIN db |-> IF Active(db[i]) THEN Queued(db[i]) ELSE db[i]]
    /\ jobs' = db'
    /\ queue' \in ByRowid(ActiveIn(db))
    /\ process' = "up"
    /\ wake' = TRUE
    /\ cancelled' = FALSE
    /\ Goto("wait")
    /\ job' = NoJob
    /\ pending' = pending \ InactiveIn(db)
    /\ UNCHANGED <<created, faults, stops>>

(* NewRefreshJobs gives up at the first row it cannot read or save: the    *)
(* rows before it may be rewritten, and the service runs without jobs.     *)
StartFails ==
    /\ process = "down"
    /\ Fault
    /\ \E k \in 0 .. MaxJobs :
          db' = [i \in DOMAIN db |->
                   IF Active(db[i]) /\ i <= k THEN Queued(db[i]) ELSE db[i]]
    /\ process' = "unavailable"
    /\ UNCHANGED <<memory, created, stops, pending>>

-----------------------------------------------------------------------------
(* Submit and the three ways it ends that change something.                *)

Admits == process = "up" /\ ~cancelled

(* An unfinished job for the list answers the request.                     *)
SubmitReuses(l) ==
    /\ Admits
    /\ \E i \in ActiveIn(jobs) :
          /\ jobs[i].list = l
          /\ pending' = pending \cup {i}
    /\ UNCHANGED <<db, process, memory, created, faults, stops>>

(* Mutant: duplicates are let in.                                          *)
NeedsNewJobTwice(l) ==
    /\ Admits
    /\ Cardinality(ActiveIn(jobs)) < MaxActive
    /\ created < MaxJobs

(* The checks before a new job: no duplicate, and room in the queue.       *)
NeedsNewJob(l) ==
    /\ Admits
    /\ \A i \in ActiveIn(jobs) : jobs[i].list # l
    /\ Cardinality(ActiveIn(jobs)) < MaxActive
    /\ created < MaxJobs

NewJob(l) ==
    [id |-> created + 1, list |-> l, status |-> "queued", phase |-> "queued"]

(* Mutant: the evicted record is dropped from the map only.                *)
SubmitAcceptsKeepingRow(l) ==
    /\ NeedsNewJob(l)
    /\ created' = created + 1
    /\ db' = Put(db, NewJob(l))
    /\ jobs' = Put(Without(jobs, Evicted), NewJob(l))
    /\ queue' = Append(queue, created + 1)
    /\ wake' = TRUE
    /\ pending' = pending \cup {created + 1}
    /\ UNCHANGED <<process, cancelled, pc, job, faults, stops>>

SubmitAccepts(l) ==
    /\ NeedsNewJob(l)
    /\ created' = created + 1
    /\ db' = Put(Without(db, Evicted), NewJob(l))
    /\ jobs' = Put(Without(jobs, Evicted), NewJob(l))
    /\ queue' = Append(queue, created + 1)
    /\ wake' = TRUE
    /\ pending' = pending \cup {created + 1}
    /\ UNCHANGED <<process, cancelled, pc, job, faults, stops>>

(* The DELETE of the evicted record fails: the request is refused.         *)
SubmitCannotEvict(l) ==
    /\ NeedsNewJob(l)
    /\ Evicted # {}
    /\ Fault
    /\ db' \in {db, Without(db, Evicted)}
    /\ UNCHANGED <<process, memory, created, stops, pending>>

(* The eviction is done but the new row cannot be saved.                   *)
SubmitCannotSave(l) ==
    /\ NeedsNewJob(l)
    /\ Fault
    /\ created' = created + 1
    /\ jobs' = Without(jobs, Evicted)
    /\ db' \in {Without(db, Evicted), Put(Without(db, Evicted), NewJob(l))}
    /\ UNCHANGED <<process, queue, wake, cancelled, pc, job, stops, pending>>

Submit(l) ==
    \/ SubmitReuses(l)
    \/ SubmitAccepts(l)
    \/ SubmitCannotEvict(l)
    \/ SubmitCannotSave(l)

-----------------------------------------------------------------------------
(* update: save first, then the map; a failed save leaves the map alone.   *)
Updated(j) ==
    /\ db' = Put(db, j)
    /\ jobs' = Put(jobs, j)
    /\ pending' = IF Active(j) THEN pending ELSE pending \ {j.id}
    /\ UNCHANGED faults

(* Mutant: the map is changed whether or not the row could be saved.       *)
UpdateFailedShown(j) ==
    /\ Fault
    /\ db' \in {db, Put(db, j)}
    /\ jobs' = Put(jobs, j)
    /\ UNCHANGED pending

UpdateFailed(j) ==
    /\ Fault
    /\ db' \in {db, Put(db, j)}
    /\ UNCHANGED <<jobs, pending>>

At(label) == process = "up" /\ pc = label

(* The select of run: the end of the context, or a token.                  *)
WorkerWaits ==
    /\ At("wait")
    /\ \/ cancelled /\ Goto("done") /\ UNCHANGED wake
       \/ wake /\ wake' = FALSE /\ Goto("loop")
    /\ UNCHANGED <<db, process, jobs, queue, cancelled, job, created, faults, stops, pending>>

(* The head of the inner loop: leave it, or take the head of the queue.    *)
WorkerTakes ==
    /\ At("loop")
    /\ IF cancelled \/ queue = <<>>
       THEN Goto("wait") /\ UNCHANGED <<queue, job>>
       ELSE /\ Goto("begin")
            /\ queue' = Tail(queue)
            /\ job' = [jobs[Head(queue)] EXCEPT
                         !.status = "running", !.phase = "refreshing"]
    /\ UNCHANGED <<db, process, jobs, wake, cancelled, created, faults, stops, pending>>

WorkerBegins ==
    /\ At("begin")
    /\ \/ Updated(job) /\ Goto("refresh") /\ UNCHANGED job
       \/ UpdateFailed(job) /\ Goto("fail") /\ job' = [job EXCEPT !.status = "failed"]
    /\ UNCHANGED <<process, queue, wake, cancelled, created, stops>>

(* service.RefreshList returns.                                            *)
WorkerRefreshes ==
    /\ At("refresh")
    /\ \/ Goto("result") /\ job' = [job EXCEPT !.phase = "reloading"]
       \/ Goto("erred") /\ UNCHANGED job
    /\ UNCHANGED <<db, process, jobs, queue, wake, cancelled, created, faults, stops, pending>>

WorkerSavesResult ==
    /\ At("result")
    /\ \/ Updated(job) /\ Goto("reload")
       \/ UpdateFailed(job) /\ Goto("erred")
    /\ UNCHANGED <<process, queue, wake, cancelled, job, created, stops>>

(* reloader.Reload returns.                                                *)
WorkerReloads ==
    /\ At("reload")
    /\ Goto("ready") \/ Goto("erred")
    /\ UNCHANGED <<db, process, jobs, queue, wake, cancelled, job, created, faults, stops, pending>>

(* The check of the context after the work.  A stop puts the job back, as  *)
(* far as the database allows, and ends the worker, whatever the outcome.  *)
WorkerStops ==
    /\ At("ready") \/ At("erred")
    /\ cancelled
    /\ Updated(Queued(job)) \/ UpdateFailed(Queued(job))
    /\ Goto("done")
    /\ job' = NoJob
    /\ UNCHANGED <<process, queue, wake, cancelled, created, stops>>

WorkerConcludes ==
    /\ ~cancelled
    /\ \/ /\ At("ready")
          /\ Goto("finish")
          /\ job' = [job EXCEPT !.status = "succeeded", !.phase = "complete"]
       \/ /\ At("erred")
          /\ Goto("fail")
          /\ job' = [job EXCEPT !.status = "failed"]
    /\ UNCHANGED <<db, process, jobs, queue, wake, cancelled, created, faults, stops, pending>>

(* Mutant: one job for each token.                                         *)
WorkerFinishesOne ==
    /\ At("finish")
    /\ \/ Updated(job) /\ Goto("wait") /\ job' = NoJob
       \/ UpdateFailed(job) /\ Goto("fail") /\ job' = [job EXCEPT !.status = "failed"]
    /\ UNCHANGED <<process, queue, wake, cancelled, created, stops>>

WorkerFinishes ==
    /\ At("finish")
    /\ \/ Updated(job) /\ Goto("loop") /\ job' = NoJob
       \/ UpdateFailed(job) /\ Goto("fail") /\ job' = [job EXCEPT !.status = "failed"]
    /\ UNCHANGED <<process, queue, wake, cancelled, created, stops>>

(* fail: the update, and if it cannot be saved the map alone, under a      *)
(* second acquisition of the mutex.                                        *)
WorkerFails ==
    /\ At("fail")
    /\ \/ Updated(job) /\ Goto("loop") /\ job' = NoJob
       \/ UpdateFailed(job) /\ Goto("failMemory") /\ UNCHANGED job
    /\ UNCHANGED <<process, queue, wake, cancelled, created, stops>>

WorkerFailsInMemory ==
    /\ At("failMemory")
    /\ jobs' = Put(jobs, job)
    /\ pending' = pending \ {job.id}
    /\ Goto("loop")
    /\ job' = NoJob
    /\ UNCHANGED <<db, process, queue, wake, cancelled, created, faults, stops>>

Worker ==
    \/ WorkerWaits
    \/ WorkerTakes
    \/ WorkerBegins
    \/ WorkerRefreshes
    \/ WorkerSavesResult
    \/ WorkerReloads
    \/ WorkerStops
    \/ WorkerConcludes
    \/ WorkerFinishes
    \/ WorkerFails
    \/ WorkerFailsInMemory

-----------------------------------------------------------------------------
(* Close, or the end of the parent context.                                *)
Cancel ==
    /\ process = "up"
    /\ ~cancelled
    /\ stops < MaxStops
    /\ cancelled' = TRUE
    /\ UNCHANGED <<db, process, jobs, queue, wake, pc, job, created, faults, stops, pending>>

(* The process ends: after a stop, with the worker still at work when      *)
(* Close has timed out, or by a crash at any moment.                       *)
Exit ==
    /\ process # "down"
    /\ stops < MaxStops
    /\ stops' = stops + 1
    /\ process' = "down"
    /\ jobs' = EmptyMap
    /\ queue' = <<>>
    /\ wake' = FALSE
    /\ cancelled' = FALSE
    /\ pc' = "done"
    /\ job' = NoJob
    /\ UNCHANGED <<db, created, faults, pending>>

Next ==
    \/ Start
    \/ StartFails
    \/ \E l \in Lists : Submit(l)
    \/ Worker
    \/ Cancel
    \/ Exit

Spec == Init /\ [][Next]_vars

(* The worker is a goroutine the runtime schedules, and the calls it makes *)
(* return: the HTTP client has a timeout, files are finite, the reload     *)
(* lock is held only by reloads.  A process told to stop does exit (Serve  *)
(* bounds its shutdown), and one that is down is started again.            *)
Fairness ==
    /\ WF_vars(Worker)
    /\ WF_vars(cancelled /\ Exit)
    /\ WF_vars(Start)

FairSpec == Spec /\ Fairness

-----------------------------------------------------------------------------
IsJobMap(m, last) ==
    /\ DOMAIN m \subseteq 1 .. last
    /\ \A i \in DOMAIN m : m[i] \in Job /\ m[i].id = i
    /\ m = [i \in DOMAIN m |-> m[i]]

(* The worker holds a copy of a job from the moment it takes it from the   *)
(* queue until its last write about it.                                    *)
Holding == pc \notin {"wait", "loop", "done"}

TypeOK ==
    /\ IsJobMap(db, created)
    /\ IsJobMap(jobs, created)
    /\ process \in {"down", "up", "unavailable"}
    /\ queue \in Seq(JobIds)
    /\ wake \in BOOLEAN
    /\ cancelled \in BOOLEAN
    /\ pc \in {"wait", "loop", "begin", "refresh", "result", "reload", "ready",
               "erred", "finish", "fail", "failMemory", "done"}
    /\ job \in Job \cup {NoJob}
    /\ created \in 0 .. MaxJobs
    /\ faults \in 0 .. MaxFaults
    /\ stops \in 0 .. MaxStops
    /\ pending \subseteq 1 .. created

(* Every unfinished job of a running process is in the queue, once, or in  *)
(* the worker's hands: none is stranded where nothing will finish it, and  *)
(* none is run twice at a time.  A stop may leave the worker's job behind  *)
(* for the next process.                                                   *)
NoJobStranded ==
    /\ \A a, b \in 1 .. Len(queue) : a < b => queue[a] < queue[b]
    /\ \A a \in 1 .. Len(queue) : queue[a] # job.id
    /\ process = "up" =>
          \A i \in ActiveIn(jobs) :
             \/ \E a \in 1 .. Len(queue) : queue[a] = i
             \/ i = job.id
             \/ cancelled

(* The worker never sleeps on a queue that has work: the signal that Submit *)
(* sends between the worker's look at the queue and its wait is not lost.  *)
NoLostWakeup == At("wait") /\ queue # <<>> => wake \/ cancelled

(* What a client was told is accepted survives failed writes, crashes and  *)
(* evictions until its outcome can be read: its row is on disk and a       *)
(* running process lists it as unfinished.                                 *)
AcceptedNotLost ==
    \A i \in pending :
        /\ i \in DOMAIN db
        /\ process = "up" => i \in ActiveIn(jobs)

(* A success shown to a client is on disk, so no restart takes it back;    *)
(* only the eviction may have removed the row first.                       *)
SuccessIsDurable ==
    \A i \in DOMAIN jobs :
        jobs[i].status = "succeeded" =>
            i \notin DOMAIN db \/ db[i].status = "succeeded"

(* Until a write fails, the map served to clients is the table on disk.    *)
MemoryMatchesDisk == faults = 0 /\ process = "up" => jobs = db

(* A finished row is never taken up again, whatever fails or restarts.     *)
FinishedRowStaysFinished ==
    [][\A i \in InactiveIn(db) : i \notin ActiveIn(db')]_vars

(* Every accepted job gets an outcome a client can read, through stops and *)
(* crashes, unless a restart finds the job database unusable.              *)
AcceptedJobFinishes ==
    \A i \in JobIds :
        i \in pending ~> (i \notin pending \/ process = "unavailable")

(* Until a write fails, the table on disk behaves as the abstract queue:   *)
(* crashes, restarts and the worker's steps are invisible in it, its two   *)
(* limits and its deduplication hold, a recovered job is still the         *)
(* accepted one, and no job finishes twice.                                *)
Outcome(j) == IF Active(j) THEN "accepted" ELSE j.status
Record == [i \in DOMAIN db |-> [list |-> db[i].list, outcome |-> Outcome(db[i])]]

Queue == INSTANCE RefreshQueue WITH record <- Record, last <- created

ImplementsQueue == Queue!Init /\ [][faults' = 0 => Queue!Next]_<<Record, created>>
=============================================================================
