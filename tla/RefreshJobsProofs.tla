------------------------- MODULE RefreshJobsProofs -------------------------
(***************************************************************************)
(* Proofs about the refresh job queue, for all lists, limits and bounds.   *)
(***************************************************************************)
EXTENDS RefreshJobs, FiniteSetTheorems, TLAPS

-----------------------------------------------------------------------------
(* Facts about the maps of jobs.                                           *)

(* Put stores one job and leaves the others.                               *)
LEMMA PutFacts ==
    ASSUME NEW m, NEW j
    PROVE  /\ DOMAIN Put(m, j) = DOMAIN m \cup {j.id}
           /\ Put(m, j)[j.id] = j
           /\ \A i \in DOMAIN m \ {j.id} : Put(m, j)[i] = m[i]
           /\ Put(m, j) = [i \in DOMAIN Put(m, j) |-> Put(m, j)[i]]
BY DEF Put

(* Put adds a job to the active ones or removes it, by its own status.     *)
LEMMA PutActive ==
    ASSUME NEW m, NEW j
    PROVE  /\ Active(j) => ActiveIn(Put(m, j)) = ActiveIn(m) \cup {j.id}
           /\ ~Active(j) => ActiveIn(Put(m, j)) = ActiveIn(m) \ {j.id}
<1> DEFINE p == Put(m, j)
<1>1. /\ DOMAIN p = DOMAIN m \cup {j.id}
      /\ p[j.id] = j
      /\ \A i \in DOMAIN m \ {j.id} : p[i] = m[i]
  BY PutFacts
<1> HIDE DEF p
<1>2. \A i : i \in ActiveIn(p) <=> i \in DOMAIN p /\ Active(p[i])
  BY DEF ActiveIn
<1>3. \A i : i \in ActiveIn(m) <=> i \in DOMAIN m /\ Active(m[i])
  BY DEF ActiveIn
<1>4. QED  BY <1>1, <1>2, <1>3 DEF p

(* Without keeps exactly the jobs that are not named.                      *)
LEMMA WithoutFacts ==
    ASSUME NEW m, NEW S
    PROVE  /\ DOMAIN Without(m, S) = DOMAIN m \ S
           /\ \A i \in DOMAIN m \ S : Without(m, S)[i] = m[i]
           /\ Without(m, S) = [i \in DOMAIN Without(m, S) |-> Without(m, S)[i]]
BY DEF Without

(* Dropping jobs drops the active ones among them.                         *)
LEMMA WithoutActive ==
    ASSUME NEW m, NEW S
    PROVE  ActiveIn(Without(m, S)) = ActiveIn(m) \ S
<1> DEFINE p == Without(m, S)
<1>1. /\ DOMAIN p = DOMAIN m \ S
      /\ \A i \in DOMAIN m \ S : p[i] = m[i]
  BY WithoutFacts
<1> HIDE DEF p
<1>2. \A i : i \in ActiveIn(p) <=> i \in DOMAIN p /\ Active(p[i])
  BY DEF ActiveIn
<1>3. \A i : i \in ActiveIn(m) <=> i \in DOMAIN m /\ Active(m[i])
  BY DEF ActiveIn
<1>4. QED  BY <1>1, <1>2, <1>3 DEF p

(* Submit evicts finished jobs only.                                       *)
LEMMA EvictedInactive == Evicted \subseteq InactiveIn(jobs)
BY DEF Evicted

(* Requeueing a job keeps its identity and makes it active.                *)
LEMMA QueuedFacts ==
    ASSUME NEW j \in Job
    PROVE  /\ Queued(j) \in Job
           /\ Queued(j).id = j.id
           /\ Queued(j).list = j.list
           /\ Active(Queued(j))
BY DEF Job, Queued, Active

(* A map of jobs stays one when a job is stored or jobs are dropped.       *)
LEMMA PutTyped ==
    ASSUME NEW m, NEW j \in Job, NEW n \in Nat, NEW last \in Nat,
           IsJobMap(m, n), n <= last, j.id \in 1 .. last
    PROVE  IsJobMap(Put(m, j), last)
<1> DEFINE p == Put(m, j)
<1>1. /\ DOMAIN p = DOMAIN m \cup {j.id}
      /\ p[j.id] = j
      /\ \A i \in DOMAIN m \ {j.id} : p[i] = m[i]
      /\ p = [i \in DOMAIN p |-> p[i]]
  BY PutFacts
<1> HIDE DEF p
<1>2. DOMAIN p \subseteq 1 .. last  BY <1>1 DEF IsJobMap
<1>3. \A i \in DOMAIN p : p[i] \in Job /\ p[i].id = i  BY <1>1 DEF IsJobMap
<1>4. IsJobMap(p, last)  BY <1>1, <1>2, <1>3 DEF IsJobMap
<1>5. QED  BY <1>4 DEF p

(* Storing a new version of a job that is there already.                   *)
LEMMA PutAgain ==
    ASSUME NEW m, NEW n \in Nat, IsJobMap(m, n), NEW j \in Job, j.id \in DOMAIN m
    PROVE  /\ IsJobMap(Put(m, j), n)
           /\ DOMAIN Put(m, j) = DOMAIN m
           /\ Put(m, j)[j.id] = j
           /\ \A i \in DOMAIN m \ {j.id} : Put(m, j)[i] = m[i]
           /\ Active(j) => ActiveIn(Put(m, j)) = ActiveIn(m) \cup {j.id}
           /\ ~Active(j) => ActiveIn(Put(m, j)) = ActiveIn(m) \ {j.id}
<1>1. j.id \in 1 .. n  BY DEF IsJobMap
<1>2. IsJobMap(Put(m, j), n)  BY <1>1, PutTyped
<1>3. DOMAIN Put(m, j) = DOMAIN m \cup {j.id}  BY PutFacts
<1>4. DOMAIN m \cup {j.id} = DOMAIN m  OBVIOUS
<1>5. /\ Put(m, j)[j.id] = j
      /\ \A i \in DOMAIN m \ {j.id} : Put(m, j)[i] = m[i]
  BY PutFacts
<1>6. QED  BY <1>2, <1>3, <1>4, <1>5, PutActive

(* Dropping jobs leaves a map of jobs (the delete of an evicted record).   *)
LEMMA WithoutTyped ==
    ASSUME NEW m, NEW S, NEW n \in Nat, IsJobMap(m, n)
    PROVE  IsJobMap(Without(m, S), n)
<1> DEFINE p == Without(m, S)
<1>1. /\ DOMAIN p = DOMAIN m \ S
      /\ \A i \in DOMAIN m \ S : p[i] = m[i]
      /\ p = [i \in DOMAIN p |-> p[i]]
  BY WithoutFacts
<1> HIDE DEF p
<1>2. IsJobMap(p, n)  BY <1>1 DEF IsJobMap
<1>3. QED  BY <1>2 DEF p

-----------------------------------------------------------------------------
(* The inductive invariant: what the code relies on at each point of the   *)
(* worker's loop.                                                          *)

IdleWhenNotUp ==
    process # "up" =>
        /\ jobs = EmptyMap
        /\ queue = <<>>
        /\ pc = "done"
        /\ job = NoJob

(* A queued job is unfinished in memory and on disk, and is not the one    *)
(* the worker holds; the queue is in order of acceptance.                  *)
QueueInv ==
    /\ \A a \in 1 .. Len(queue) :
          /\ queue[a] \in ActiveIn(jobs)
          /\ queue[a] \in ActiveIn(db)
          /\ queue[a] # job.id
    /\ \A a, b \in 1 .. Len(queue) : a < b => queue[a] < queue[b]

(* While the worker holds a job, clients see it unfinished; until the      *)
(* worker decides its outcome it is unfinished on disk too.                *)
HeldInv ==
    /\ Holding => /\ job \in Job
                  /\ job.id \in ActiveIn(jobs)
                  /\ jobs[job.id].list = job.list
    /\ ~Holding => job = NoJob
    /\ pc \in {"begin", "refresh", "result", "reload", "ready", "erred"} =>
          Active(job) /\ job.id \in ActiveIn(db)
    /\ pc = "finish" => job.status = "succeeded"
    /\ pc \in {"fail", "failMemory"} => job.status = "failed"
    /\ pc = "failMemory" => faults > 0

NoneStranded ==
    process = "up" =>
       \A i \in ActiveIn(jobs) :
          \/ \E a \in 1 .. Len(queue) : queue[a] = i
          \/ i = job.id
          \/ cancelled

ActiveOnDisk == ActiveIn(jobs) \subseteq DOMAIN db

IInv ==
    /\ TypeOK
    /\ IdleWhenNotUp
    /\ QueueInv
    /\ HeldInv
    /\ NoneStranded
    /\ ActiveOnDisk
    /\ NoLostWakeup
    /\ AcceptedNotLost
    /\ SuccessIsDurable
    /\ MemoryMatchesDisk

-----------------------------------------------------------------------------
(* The initial state and each action keep the invariant.                   *)

(* The invariant holds before the first process starts.                    *)
LEMMA InitInv == Init => IInv
<1> SUFFICES ASSUME Init PROVE IInv  OBVIOUS
<1>1. TypeOK
  <2>1. IsJobMap(EmptyMap, 0)  BY DEF IsJobMap, EmptyMap
  <2>2. created \in 0 .. MaxJobs /\ faults \in 0 .. MaxFaults /\ stops \in 0 .. MaxStops
    BY RefreshJobsAssumption DEF Init
  <2>3. queue \in Seq(JobIds)  BY DEF Init
  <2>4. pending \subseteq 1 .. created  BY DEF Init
  <2>5. QED  BY <2>1, <2>2, <2>3, <2>4 DEF Init, TypeOK
<1>2. ActiveIn(jobs) = {}  BY DEF Init, EmptyMap, ActiveIn
<1>3. /\ IdleWhenNotUp
      /\ QueueInv
      /\ HeldInv
      /\ NoneStranded
  BY <1>2 DEF Init, IdleWhenNotUp, QueueInv, HeldInv, NoneStranded, Holding, NoJob
<1>4. /\ ActiveOnDisk
      /\ NoLostWakeup
      /\ AcceptedNotLost
      /\ SuccessIsDurable
      /\ MemoryMatchesDisk
  BY <1>2 DEF Init, EmptyMap, ActiveOnDisk, NoLostWakeup, At, AcceptedNotLost,
              SuccessIsDurable, MemoryMatchesDisk
<1>5. QED  BY <1>1, <1>3, <1>4 DEF IInv

(* The worker's steps that touch neither the table nor the map.            *)
LEMMA QuietTyped ==
    ASSUME IInv, WorkerWaits \/ WorkerTakes \/ WorkerRefreshes \/ WorkerReloads
                 \/ WorkerConcludes
    PROVE  TypeOK'
<1> USE DEF TypeOK, At, Goto
<1>0. TypeOK  BY DEF IInv
<1>1. CASE WorkerWaits  BY <1>0, <1>1 DEF WorkerWaits
<1>2. CASE WorkerTakes
  <2>1. CASE cancelled \/ queue = <<>>  BY <1>0, <1>2, <2>1 DEF WorkerTakes
  <2>2. CASE ~(cancelled \/ queue = <<>>)
    <3>1. Head(queue) = queue[1] /\ 1 \in 1 .. Len(queue)  BY <1>0, <2>2
    <3>2. jobs[Head(queue)] \in Job
      BY <1>0, <3>1 DEF IInv, QueueInv, ActiveIn, IsJobMap
    <3>3. job' \in Job  BY <1>2, <2>2, <3>2 DEF WorkerTakes, Job
    <3>4. queue' \in Seq(JobIds)  BY <1>0, <1>2, <2>2 DEF WorkerTakes
    <3>5. QED  BY <1>0, <1>2, <2>2, <3>3, <3>4 DEF WorkerTakes
  <2>3. QED  BY <2>1, <2>2
<1>3. CASE WorkerRefreshes
  <2>1. job \in Job  BY <1>3 DEF IInv, HeldInv, Holding, WorkerRefreshes
  <2>2. job' \in Job  BY <1>3, <2>1 DEF WorkerRefreshes, Job
  <2>3. QED  BY <1>0, <1>3, <2>2 DEF WorkerRefreshes
<1>4. CASE WorkerReloads  BY <1>0, <1>4 DEF WorkerReloads
<1>5. CASE WorkerConcludes
  <2>1. job \in Job  BY <1>5 DEF IInv, HeldInv, Holding, WorkerConcludes
  <2>2. job' \in Job  BY <1>5, <2>1 DEF WorkerConcludes, Job
  <2>3. QED  BY <1>0, <1>5, <2>2 DEF WorkerConcludes
<1>6. QED  BY <1>1, <1>2, <1>3, <1>4, <1>5

(* What else those steps must keep: they move the head of the queue to the *)
(* worker's hands, or change the worker's place and the outcome it plans.  *)
LEMMA QuietInv ==
    ASSUME IInv, WorkerWaits \/ WorkerTakes \/ WorkerRefreshes \/ WorkerReloads
                 \/ WorkerConcludes
    PROVE  IInv'
<1> USE DEF At, Goto
<1>0. TypeOK /\ TypeOK'  BY QuietTyped DEF IInv
<1>1. UNCHANGED <<db, process, jobs, cancelled, created, faults, stops, pending>>
      /\ process = "up"
  BY DEF WorkerWaits, WorkerTakes, WorkerRefreshes, WorkerReloads, WorkerConcludes
<1>2. /\ ActiveOnDisk'
      /\ AcceptedNotLost'
      /\ SuccessIsDurable'
      /\ MemoryMatchesDisk'
      /\ IdleWhenNotUp'
  BY <1>1 DEF IInv, ActiveOnDisk, AcceptedNotLost, SuccessIsDurable, MemoryMatchesDisk,
              ActiveIn, IdleWhenNotUp
<1>3. CASE WorkerTakes /\ ~(cancelled \/ queue = <<>>)
  <2>1. queue # <<>> /\ queue \in Seq(JobIds)  BY <1>0, <1>3 DEF TypeOK
  <2>2. /\ Head(queue) = queue[1] /\ Len(queue) \in Nat \ {0}
        /\ Len(queue') = Len(queue) - 1
        /\ \A a \in 1 .. Len(queue') : queue'[a] = queue[a + 1]
    BY <1>3, <2>1 DEF WorkerTakes
  <2>3. /\ jobs[queue[1]] \in Job
        /\ jobs[queue[1]].id = queue[1]
    BY <1>0, <2>2 DEF TypeOK, IInv, QueueInv, ActiveIn, IsJobMap
  <2>4. job' \in Job /\ job'.id = queue[1] /\ job'.list = jobs[queue[1]].list
        /\ job'.status = "running"
    <3> DEFINE h == jobs[queue[1]]
    <3>1. job' = [h EXCEPT !.status = "running", !.phase = "refreshing"]
      BY <1>3, <2>2 DEF WorkerTakes
    <3>2. h \in Job /\ h.id = queue[1]  BY <2>3
    <3> HIDE DEF h
    <3>3. job' \in Job /\ job'.id = h.id /\ job'.list = h.list /\ job'.status = "running"
      BY <3>1, <3>2 DEF Job
    <3>4. QED  BY <3>2, <3>3 DEF h
  <2>5. QueueInv'
    <3>1. \A a \in 1 .. Len(queue) : queue[a] \in Nat
      BY <2>1, RefreshJobsAssumption DEF JobIds
    <3>2. \A a \in 1 .. Len(queue') : a + 1 \in 1 .. Len(queue)  BY <2>2
    <3>3. \A a \in 1 .. Len(queue') : queue'[a] \in ActiveIn(jobs) /\ queue'[a] \in ActiveIn(db)
      BY <2>2, <3>2 DEF IInv, QueueInv
    <3>4. \A a \in 1 .. Len(queue') : queue[1] < queue'[a]
      BY <2>2, <3>2 DEF IInv, QueueInv
    <3>5. \A a, b \in 1 .. Len(queue') : a < b => queue'[a] < queue'[b]
      <4> SUFFICES ASSUME NEW a \in 1 .. Len(queue'), NEW b \in 1 .. Len(queue'), a < b
                   PROVE  queue'[a] < queue'[b]
        OBVIOUS
      <4>1. a + 1 < b + 1  OBVIOUS
      <4>2. QED  BY <2>2, <3>2, <4>1 DEF IInv, QueueInv
    <3>6. \A a \in 1 .. Len(queue') : queue'[a] # queue[1]
      BY <2>2, <3>1, <3>2, <3>4
    <3>7. ActiveIn(jobs)' = ActiveIn(jobs) /\ ActiveIn(db)' = ActiveIn(db)
      BY <1>1 DEF ActiveIn
    <3>8. QED  BY <2>4, <3>3, <3>5, <3>6, <3>7 DEF QueueInv
  <2>6. HeldInv'
    <3>1. job'.id \in ActiveIn(jobs) /\ job'.id \in ActiveIn(db)
      BY <2>2, <2>4 DEF IInv, QueueInv
    <3>2. pc' = "begin"  BY <1>3 DEF WorkerTakes
    <3>3. QED  BY <1>1, <2>4, <3>1, <3>2 DEF HeldInv, Holding, Active, ActiveIn
  <2>7. NoneStranded'
    <3>1. job = NoJob  BY <1>3 DEF IInv, HeldInv, Holding, WorkerTakes
    <3>2. SUFFICES ASSUME NEW i \in ActiveIn(jobs)
                   PROVE  \/ \E a \in 1 .. Len(queue') : queue'[a] = i
                          \/ i = job'.id
                          \/ cancelled
      BY <1>1 DEF NoneStranded, ActiveIn
    <3>3. CASE i = job.id
      <4>1. i \in 1 .. created  BY <1>0 DEF TypeOK, IsJobMap, ActiveIn
      <4>2. QED  BY <1>0, <3>1, <3>3, <4>1 DEF NoJob, TypeOK
    <3>4. CASE \E a \in 1 .. Len(queue) : queue[a] = i
      <4>1. PICK a \in 1 .. Len(queue) : queue[a] = i  BY <3>4
      <4>2. CASE a = 1  BY <2>4, <4>1, <4>2
      <4>3. CASE a # 1
        <5>1. a - 1 \in 1 .. Len(queue') /\ queue'[a - 1] = i
          BY <2>2, <4>1, <4>3
        <5>2. QED  BY <5>1
      <4>4. QED  BY <4>2, <4>3
    <3>5. QED  BY <1>1, <3>3, <3>4 DEF IInv, NoneStranded
  <2>8. NoLostWakeup'  BY <1>3 DEF WorkerTakes, NoLostWakeup
  <2>9. QED  BY <1>0, <1>2, <2>5, <2>6, <2>7, <2>8 DEF IInv
<1>4. CASE ~(WorkerTakes /\ ~(cancelled \/ queue = <<>>))
  <2>1. queue' = queue /\ job'.id = job.id /\ job'.list = job.list
    <3>1. CASE WorkerWaits  BY <3>1 DEF WorkerWaits
    <3>2. CASE WorkerTakes  BY <1>4, <3>2 DEF WorkerTakes
    <3>3. CASE WorkerRefreshes \/ WorkerConcludes
      <4>1. job \in Job
        BY <3>3 DEF IInv, HeldInv, Holding, WorkerRefreshes, WorkerConcludes
      <4>2. QED  BY <3>3, <4>1 DEF WorkerRefreshes, WorkerConcludes, Job
    <3>4. CASE WorkerReloads  BY <3>4 DEF WorkerReloads
    <3>5. QED  BY <3>1, <3>2, <3>3, <3>4
  <2>2. QueueInv' /\ NoneStranded'
    BY <1>1, <2>1 DEF IInv, QueueInv, NoneStranded, ActiveIn
  <2>3. NoLostWakeup'
    BY <1>1, <1>4, <2>1
       DEF IInv, NoLostWakeup, WorkerWaits, WorkerTakes, WorkerRefreshes, WorkerReloads,
           WorkerConcludes
  <2>4. HeldInv'
    <3>1. ActiveIn(jobs)' = ActiveIn(jobs) /\ ActiveIn(db)' = ActiveIn(db)
      BY <1>1 DEF ActiveIn
    <3>2. CASE WorkerWaits
      BY <1>1, <3>1, <3>2 DEF WorkerWaits, IInv, HeldInv, Holding
    <3>3. CASE WorkerTakes
      BY <1>1, <1>4, <3>1, <3>3 DEF WorkerTakes, IInv, HeldInv, Holding
    <3>4. CASE WorkerRefreshes
      <4>1. job \in Job /\ Active(job)
        BY <3>4 DEF WorkerRefreshes, IInv, HeldInv, Holding
      <4>2. job' \in Job /\ Active(job')
        BY <3>4, <4>1 DEF WorkerRefreshes, Job, Active
      <4>3. QED
        BY <1>1, <2>1, <3>1, <3>4, <4>2 DEF WorkerRefreshes, IInv, HeldInv, Holding, Active
    <3>5. CASE WorkerReloads
      BY <1>1, <3>1, <3>5 DEF WorkerReloads, IInv, HeldInv, Holding, Active
    <3>6. CASE WorkerConcludes
      <4>1. job \in Job  BY <3>6 DEF WorkerConcludes, IInv, HeldInv, Holding
      <4>2. /\ job' \in Job
            /\ pc' = "finish" => job'.status = "succeeded"
            /\ pc' = "fail" => job'.status = "failed"
        BY <3>6, <4>1 DEF WorkerConcludes, Job
      <4>3. pc' \in {"finish", "fail"} /\ Holding  BY <3>6 DEF WorkerConcludes, Holding
      <4>4. job'.id \in ActiveIn(jobs)' /\ jobs'[job'.id].list = job'.list
        BY <1>1, <2>1, <3>1, <4>3 DEF IInv, HeldInv
      <4>5. QED  BY <4>2, <4>3, <4>4 DEF HeldInv, Holding
    <3>7. QED  BY <3>2, <3>3, <3>4, <3>5, <3>6
  <2>5. QED  BY <1>0, <1>2, <2>2, <2>3, <2>4 DEF IInv
<1>5. QED  BY <1>3, <1>4

(* A save about the job the worker holds, done or failed, keeps every part *)
(* of the invariant that does not speak of the worker's own state.         *)
LEMMA UpdateInv ==
    ASSUME IInv, process = "up", Holding,
           NEW j \in Job, j.id = job.id, j.list = job.list,
           Updated(j) \/ UpdateFailed(j),
           UNCHANGED <<process, queue, wake, cancelled, created, stops>>
    PROVE  /\ IsJobMap(db', created)
           /\ IsJobMap(jobs', created)
           /\ faults' \in 0 .. MaxFaults
           /\ pending' \subseteq 1 .. created
           /\ \A a \in 1 .. Len(queue) :
                 queue[a] \in ActiveIn(jobs)' /\ queue[a] \in ActiveIn(db)'
           /\ \A i \in ActiveIn(jobs)' :
                 \/ \E a \in 1 .. Len(queue) : queue[a] = i
                 \/ i = job.id
                 \/ cancelled
           /\ ActiveOnDisk'
           /\ AcceptedNotLost'
           /\ SuccessIsDurable'
           /\ MemoryMatchesDisk'
           /\ Updated(j) /\ Active(j) => /\ job.id \in ActiveIn(jobs)'
                                        /\ jobs'[job.id].list = job.list
                                        /\ job.id \in ActiveIn(db)'
           /\ UpdateFailed(j) => /\ jobs' = jobs
                                 /\ faults' > 0
                                 /\ job.id \in ActiveIn(jobs)'
                                 /\ jobs'[job.id].list = job.list
                                 /\ Active(j) /\ job.id \in ActiveIn(db)
                                       => job.id \in ActiveIn(db)'
<1>0. TypeOK /\ created \in Nat /\ faults \in Nat
  BY RefreshJobsAssumption DEF IInv, TypeOK
<1>1. /\ job.id \in ActiveIn(jobs)
      /\ jobs[job.id].list = job.list
      /\ job.id \in DOMAIN jobs
      /\ job.id \in DOMAIN db
      /\ job.id \in 1 .. created
  BY <1>0 DEF IInv, HeldInv, ActiveOnDisk, ActiveIn, TypeOK, IsJobMap
<1>2. \A a \in 1 .. Len(queue) :
         queue[a] \in ActiveIn(jobs) /\ queue[a] \in ActiveIn(db) /\ queue[a] # job.id
  BY DEF IInv, QueueInv
<1> DEFINE d == Put(db, j)
           m == Put(jobs, j)
<1>3. /\ IsJobMap(d, created)
      /\ DOMAIN d = DOMAIN db
      /\ d[job.id] = j
      /\ \A i \in DOMAIN db \ {job.id} : d[i] = db[i]
      /\ Active(j) => ActiveIn(d) = ActiveIn(db) \cup {job.id}
      /\ ~Active(j) => ActiveIn(d) = ActiveIn(db) \ {job.id}
  <2>1. IsJobMap(db, created) /\ j.id \in DOMAIN db  BY <1>0, <1>1 DEF TypeOK
  <2>2. QED  BY <1>0, <2>1, PutAgain
<1>4. /\ IsJobMap(m, created)
      /\ DOMAIN m = DOMAIN jobs
      /\ m[job.id] = j
      /\ \A i \in DOMAIN jobs \ {job.id} : m[i] = jobs[i]
      /\ Active(j) => ActiveIn(m) = ActiveIn(jobs) \cup {job.id}
      /\ ~Active(j) => ActiveIn(m) = ActiveIn(jobs) \ {job.id}
  <2>1. IsJobMap(jobs, created) /\ j.id \in DOMAIN jobs  BY <1>0, <1>1 DEF TypeOK
  <2>2. QED  BY <1>0, <2>1, PutAgain
<1>5. Updated(j) => db' = d /\ jobs' = m  BY DEF Updated
<1>6. UpdateFailed(j) => (db' = db \/ db' = d) /\ jobs' = jobs  BY DEF UpdateFailed
<1> HIDE DEF d, m
<1>7. CASE Updated(j)
  <2>1. db' = d /\ jobs' = m /\ faults' = faults
        /\ pending' = IF Active(j) THEN pending ELSE pending \ {job.id}
    BY <1>5, <1>7 DEF Updated
  <2>2. /\ ActiveIn(db)' = ActiveIn(d)
        /\ ActiveIn(jobs)' = ActiveIn(m)
    BY <2>1 DEF ActiveIn
  <2>3. faults' \in 0 .. MaxFaults /\ pending' \subseteq 1 .. created
    BY <1>0, <2>1 DEF TypeOK
  <2>4. \A a \in 1 .. Len(queue) :
           queue[a] \in ActiveIn(jobs)' /\ queue[a] \in ActiveIn(db)'
    BY <1>2, <1>3, <1>4, <2>2
  <2>5. \A i \in ActiveIn(jobs)' :
           (\E a \in 1 .. Len(queue) : queue[a] = i) \/ i = job.id \/ cancelled
    BY <1>4, <2>2 DEF IInv, NoneStranded
  <2>6. ActiveOnDisk'
    BY <1>1, <1>3, <1>4, <2>1, <2>2 DEF IInv, ActiveOnDisk
  <2>7. AcceptedNotLost'
    BY <1>1, <1>3, <1>4, <2>1, <2>2 DEF IInv, AcceptedNotLost
  <2>8. SuccessIsDurable'
    BY <1>3, <1>4, <2>1 DEF IInv, SuccessIsDurable
  <2>9. MemoryMatchesDisk'
    <3>1. jobs = db => m = d  BY DEF m, d
    <3>2. QED  BY <2>1, <3>1 DEF IInv, MemoryMatchesDisk
  <2>10. Active(j) => /\ job.id \in ActiveIn(jobs)'
                     /\ jobs'[job.id].list = job.list
                     /\ job.id \in ActiveIn(db)'
    BY <1>3, <1>4, <2>1, <2>2
  <2>11. ~UpdateFailed(j)
    BY <1>0, <2>1 DEF UpdateFailed, Fault
  <2>12. QED
    BY <1>3, <1>4, <2>1, <2>3, <2>4, <2>5, <2>6, <2>7, <2>8, <2>9, <2>10, <2>11
<1>8. CASE UpdateFailed(j)
  <2>1. (db' = db \/ db' = d) /\ jobs' = jobs /\ pending' = pending
        /\ faults' = faults + 1 /\ faults < MaxFaults
    BY <1>6, <1>8 DEF UpdateFailed, Fault
  <2>2. /\ db' = db => ActiveIn(db)' = ActiveIn(db)
        /\ db' = d => ActiveIn(db)' = ActiveIn(d)
        /\ ActiveIn(jobs)' = ActiveIn(jobs)
    BY <2>1 DEF ActiveIn
  <2>3. faults' \in 0 .. MaxFaults /\ faults' > 0 /\ pending' \subseteq 1 .. created
    BY <1>0, <2>1, RefreshJobsAssumption DEF TypeOK
  <2>4. \A a \in 1 .. Len(queue) :
           queue[a] \in ActiveIn(jobs)' /\ queue[a] \in ActiveIn(db)'
    BY <1>2, <1>3, <2>1, <2>2
  <2>5. \A i \in ActiveIn(jobs)' :
           (\E a \in 1 .. Len(queue) : queue[a] = i) \/ i = job.id \/ cancelled
    BY <2>2 DEF IInv, NoneStranded
  <2>6. ActiveOnDisk'
    BY <1>3, <2>1, <2>2 DEF IInv, ActiveOnDisk
  <2>7. AcceptedNotLost'
    BY <1>3, <2>1, <2>2 DEF IInv, AcceptedNotLost
  <2>8. SuccessIsDurable'
    <3>1. jobs[job.id].status # "succeeded"  BY <1>1 DEF ActiveIn, Active
    <3>2. QED  BY <1>3, <2>1, <3>1 DEF IInv, SuccessIsDurable
  <2>9. MemoryMatchesDisk'
    BY <2>3 DEF MemoryMatchesDisk
  <2>10. Active(j) /\ job.id \in ActiveIn(db) => job.id \in ActiveIn(db)'
    BY <1>3, <2>1, <2>2
  <2>11. ~Updated(j)  BY <1>0, <2>1 DEF Updated
  <2>12. IsJobMap(db', created) /\ IsJobMap(jobs', created)
    BY <1>0, <1>3, <2>1 DEF TypeOK
  <2>13. QED
    BY <1>1, <2>1, <2>2, <2>3, <2>4, <2>5, <2>6, <2>7, <2>8, <2>9, <2>10, <2>11, <2>12
<1>9. QED  BY <1>7, <1>8

(* After a save the queue is as it was, so the parts about it follow.      *)
LEMMA SavingInv ==
    ASSUME IInv,
           WorkerBegins \/ WorkerSavesResult \/ WorkerStops \/ WorkerFinishes \/ WorkerFails
    PROVE  IInv'
<1> USE DEF At, Goto
<1>1. /\ UNCHANGED <<process, queue, wake, cancelled, created, stops>>
      /\ process = "up"
      /\ Holding
      /\ job \in Job
  BY DEF WorkerBegins, WorkerSavesResult, WorkerStops, WorkerFinishes, WorkerFails,
         IInv, HeldInv, Holding
<1>2. PICK j \in Job : /\ j.id = job.id
                       /\ j.list = job.list
                       /\ Updated(j) \/ UpdateFailed(j)
                       /\ j = IF WorkerStops THEN Queued(job) ELSE job
  <2>1. CASE WorkerStops
    <3>1. Queued(job) \in Job /\ Queued(job).id = job.id /\ Queued(job).list = job.list
      BY <1>1, QueuedFacts
    <3>2. QED  BY <2>1, <3>1 DEF WorkerStops
  <2>2. CASE ~WorkerStops
    BY <1>1, <2>2 DEF WorkerBegins, WorkerSavesResult, WorkerFinishes, WorkerFails
  <2>3. QED  BY <2>1, <2>2
<1>3. /\ IsJobMap(db', created)
      /\ IsJobMap(jobs', created)
      /\ faults' \in 0 .. MaxFaults
      /\ pending' \subseteq 1 .. created
      /\ \A a \in 1 .. Len(queue) :
            queue[a] \in ActiveIn(jobs)' /\ queue[a] \in ActiveIn(db)'
      /\ \A i \in ActiveIn(jobs)' :
            \/ \E a \in 1 .. Len(queue) : queue[a] = i
            \/ i = job.id
            \/ cancelled
  BY <1>1, <1>2, UpdateInv
<1>4. ActiveOnDisk' /\ AcceptedNotLost' /\ SuccessIsDurable' /\ MemoryMatchesDisk'
  BY <1>1, <1>2, UpdateInv
<1>5. /\ Updated(j) /\ Active(j) => /\ job.id \in ActiveIn(jobs)'
                                   /\ jobs'[job.id].list = job.list
                                   /\ job.id \in ActiveIn(db)'
      /\ UpdateFailed(j) => /\ jobs' = jobs
                            /\ faults' > 0
                            /\ job.id \in ActiveIn(jobs)'
                            /\ jobs'[job.id].list = job.list
                            /\ Active(j) /\ job.id \in ActiveIn(db)
                                  => job.id \in ActiveIn(db)'
  BY <1>1, <1>2, UpdateInv
<1>6. IdleWhenNotUp'  BY <1>1 DEF IdleWhenNotUp
<1>7. /\ pc' \in {"refresh", "reload", "erred", "fail", "failMemory", "loop", "done"}
      /\ \/ job' = NoJob
         \/ job' = job
         \/ job' = [job EXCEPT !.status = "failed"]
  BY DEF WorkerBegins, WorkerSavesResult, WorkerStops, WorkerFinishes, WorkerFails
<1>8. \/ job' = NoJob
      \/ job' \in Job /\ job'.id = job.id /\ job'.list = job.list
  BY <1>1, <1>7 DEF Job
<1>9. TypeOK'
  BY <1>1, <1>3, <1>7, <1>8 DEF IInv, TypeOK
<1>10. QueueInv'
  <2>1. \A a \in 1 .. Len(queue) : queue[a] # job'.id
    <3>1. \A a \in 1 .. Len(queue) : queue[a] \in Nat /\ queue[a] # 0
      BY <1>3, RefreshJobsAssumption DEF IInv, TypeOK, JobIds
    <3>2. QED  BY <1>8, <3>1 DEF IInv, QueueInv, NoJob
  <2>2. QED  BY <1>1, <1>3, <2>1 DEF IInv, QueueInv
<1>11. NoLostWakeup'  BY <1>7 DEF NoLostWakeup
<1>12. HeldInv' /\ NoneStranded'
  <2>1. CASE WorkerBegins
    <3>1. j = job  BY <1>2, <2>1 DEF WorkerBegins, WorkerStops
    <3>2. Active(job) /\ job.id \in ActiveIn(db)
      BY <2>1 DEF WorkerBegins, IInv, HeldInv
    <3>3. job' # NoJob /\ job'.id = job.id
      BY <1>1, <1>8, <2>1 DEF WorkerBegins, Job, NoJob
    <3>4. CASE Updated(job) /\ pc' = "refresh" /\ job' = job
      BY <1>1, <1>3, <1>5, <3>1, <3>2, <3>4 DEF HeldInv, Holding, NoneStranded
    <3>5. CASE UpdateFailed(job) /\ pc' = "fail" /\ job' = [job EXCEPT !.status = "failed"]
      <4>1. job' \in Job /\ job'.status = "failed" /\ job'.list = job.list /\ job'.id = job.id
        BY <1>1, <3>5 DEF Job
      <4>2. QED
        BY <1>1, <1>3, <1>5, <3>1, <3>5, <4>1 DEF HeldInv, Holding, NoneStranded
    <3>6. QED  BY <2>1, <3>4, <3>5 DEF WorkerBegins
  <2>2. CASE WorkerSavesResult
    <3>1. j = job  BY <1>2, <2>2 DEF WorkerSavesResult, WorkerStops
    <3>2. Active(job) /\ job.id \in ActiveIn(db)
      BY <2>2 DEF WorkerSavesResult, IInv, HeldInv
    <3>3. job' = job  BY <2>2 DEF WorkerSavesResult
    <3>4. /\ job.id \in ActiveIn(jobs)'
          /\ jobs'[job.id].list = job.list
          /\ job.id \in ActiveIn(db)'
      BY <1>2, <1>5, <3>1, <3>2
    <3>5. pc' \in {"reload", "erred"}  BY <2>2 DEF WorkerSavesResult
    <3>6. QED
      BY <1>1, <1>3, <3>2, <3>3, <3>4, <3>5 DEF HeldInv, Holding, NoneStranded
  <2>3. CASE WorkerStops
    BY <1>1, <2>3 DEF WorkerStops, HeldInv, Holding, NoneStranded
  <2>4. CASE WorkerFinishes \/ WorkerFails
    <3>1. j = job  BY <1>2, <2>4 DEF WorkerFinishes, WorkerFails, WorkerStops
    <3>2. ~Active(job)
      BY <2>4 DEF WorkerFinishes, WorkerFails, IInv, HeldInv, Active
    <3>3. CASE Updated(job) /\ pc' = "loop" /\ job' = NoJob
      <4>1. job.id \notin ActiveIn(jobs)'
        <5>1. jobs' = Put(jobs, job)  BY <3>3 DEF Updated
        <5>2. ActiveIn(Put(jobs, job)) = ActiveIn(jobs) \ {job.id}
          BY <3>2, PutActive
        <5>3. QED  BY <5>1, <5>2 DEF ActiveIn
      <4>2. QED
        BY <1>1, <1>3, <3>3, <4>1 DEF HeldInv, Holding, NoneStranded
    <3>4. CASE /\ UpdateFailed(job)
               /\ \/ pc' = "fail" /\ job' = [job EXCEPT !.status = "failed"]
                  \/ pc' = "failMemory" /\ job' = job /\ pc = "fail"
      <4>1. job' \in Job /\ job'.status = "failed" /\ job'.list = job.list /\ job'.id = job.id
        BY <1>1, <3>4 DEF Job, IInv, HeldInv
      <4>2. QED
        BY <1>1, <1>3, <1>5, <3>1, <3>4, <4>1 DEF HeldInv, Holding, NoneStranded
    <3>5. QED  BY <2>4, <3>3, <3>4 DEF WorkerFinishes, WorkerFails
  <2>5. QED  BY <2>1, <2>2, <2>3, <2>4
<1>13. QED  BY <1>4, <1>6, <1>9, <1>10, <1>11, <1>12 DEF IInv

(* The failure that reaches the map alone.                                 *)
LEMMA FailInMemoryInv == ASSUME IInv, WorkerFailsInMemory PROVE IInv'
<1> USE DEF At, Goto
<1>1. /\ UNCHANGED <<db, process, queue, wake, cancelled, created, faults, stops>>
      /\ process = "up" /\ pc = "failMemory" /\ pc' = "loop" /\ job' = NoJob
      /\ jobs' = Put(jobs, job) /\ pending' = pending \ {job.id}
  BY DEF WorkerFailsInMemory
<1>2. /\ job \in Job /\ job.id \in ActiveIn(jobs) /\ ~Active(job) /\ faults > 0
      /\ job.status = "failed"
  BY <1>1 DEF IInv, HeldInv, Holding, Active
<1>3. TypeOK /\ created \in Nat  BY RefreshJobsAssumption DEF IInv, TypeOK
<1>4. IsJobMap(jobs, created) /\ job.id \in DOMAIN jobs
  BY <1>2, <1>3 DEF TypeOK, ActiveIn
<1>5. /\ IsJobMap(jobs', created)
      /\ DOMAIN jobs' = DOMAIN jobs
      /\ jobs'[job.id] = job
      /\ \A i \in DOMAIN jobs \ {job.id} : jobs'[i] = jobs[i]
      /\ ActiveIn(jobs') = ActiveIn(jobs) \ {job.id}
  BY <1>1, <1>2, <1>3, <1>4, PutAgain
<1>6. ActiveIn(jobs)' = ActiveIn(jobs') /\ ActiveIn(db)' = ActiveIn(db)
  BY <1>1 DEF ActiveIn
<1>7. TypeOK'  BY <1>1, <1>3, <1>5 DEF TypeOK
<1>8. QueueInv'
  <2>1. \A a \in 1 .. Len(queue) : queue[a] \in Nat /\ queue[a] # 0
    BY <1>3, RefreshJobsAssumption DEF TypeOK, JobIds
  <2>2. QED  BY <1>1, <1>5, <1>6, <2>1 DEF IInv, QueueInv, NoJob
<1>9. HeldInv'  BY <1>1 DEF HeldInv, Holding
<1>10. NoneStranded'  BY <1>1, <1>5, <1>6 DEF IInv, NoneStranded
<1>11. ActiveOnDisk' /\ AcceptedNotLost'
  BY <1>1, <1>5, <1>6 DEF IInv, ActiveOnDisk, AcceptedNotLost
<1>12. SuccessIsDurable'  BY <1>1, <1>2, <1>5 DEF IInv, SuccessIsDurable
<1>13. IdleWhenNotUp' /\ NoLostWakeup' /\ MemoryMatchesDisk'
  BY <1>1, <1>2 DEF IdleWhenNotUp, NoLostWakeup, MemoryMatchesDisk
<1>14. QED
  BY <1>7, <1>8, <1>9, <1>10, <1>11, <1>12, <1>13 DEF IInv

(* A new process: what it finds unfinished it queues, by rowid.            *)
LEMMA StartInv == ASSUME IInv, Start PROVE IInv'
<1> DEFINE n == Cardinality(ActiveIn(db))
<1>1. /\ UNCHANGED <<created, faults, stops>>
      /\ process' = "up" /\ wake' = TRUE /\ cancelled' = FALSE /\ pc' = "wait"
      /\ job' = NoJob /\ jobs' = db'
      /\ pending' = pending \ InactiveIn(db)
      /\ db' = [i \in DOMAIN db |-> IF Active(db[i]) THEN Queued(db[i]) ELSE db[i]]
  BY DEF Start, Goto
<1>2. TypeOK /\ created \in Nat  BY RefreshJobsAssumption DEF IInv, TypeOK
<1>3. /\ DOMAIN db' = DOMAIN db
      /\ \A i \in DOMAIN db : db'[i] = IF Active(db[i]) THEN Queued(db[i]) ELSE db[i]
      /\ db' = [i \in DOMAIN db' |-> db'[i]]
  BY <1>1
<1>4. /\ DOMAIN db \subseteq 1 .. created
      /\ \A i \in DOMAIN db : db[i] \in Job /\ db[i].id = i
  BY <1>2 DEF TypeOK, IsJobMap
<1>5. \A i \in DOMAIN db :
         db'[i] \in Job /\ db'[i].id = i /\ (Active(db'[i]) <=> Active(db[i]))
  <2> SUFFICES ASSUME NEW i \in DOMAIN db
               PROVE  db'[i] \in Job /\ db'[i].id = i /\ (Active(db'[i]) <=> Active(db[i]))
    OBVIOUS
  <2>1. PICK j : j = db[i]  OBVIOUS
  <2>2. j \in Job /\ j.id = i /\ db'[i] = IF Active(j) THEN Queued(j) ELSE j
    BY <1>3, <1>4, <2>1
  <2>3. QED  BY <2>1, <2>2, QueuedFacts
<1>6. IsJobMap(db', created)  BY <1>3, <1>4, <1>5 DEF IsJobMap
<1>7. ActiveIn(db)' = ActiveIn(db) /\ ActiveIn(jobs)' = ActiveIn(db)
  <2>1. \A i : i \in ActiveIn(db)' <=> i \in DOMAIN db' /\ Active(db'[i])  BY DEF ActiveIn
  <2>2. \A i : i \in ActiveIn(db) <=> i \in DOMAIN db /\ Active(db[i])  BY DEF ActiveIn
  <2>3. ActiveIn(jobs)' = ActiveIn(db)'  BY <1>1 DEF ActiveIn
  <2>4. QED  BY <1>3, <1>5, <2>1, <2>2, <2>3
<1>8. n \in Nat
  <2>1. IsFiniteSet(1 .. created)  BY <1>2, FS_Interval
  <2>2. ActiveIn(db) \subseteq 1 .. created  BY <1>4 DEF ActiveIn
  <2>3. QED  BY <2>1, <2>2, FS_Subset, FS_CardinalityType
<1>9. /\ queue' \in [1 .. n -> ActiveIn(db)]
      /\ \A a, b \in 1 .. n : a < b => queue'[a] < queue'[b]
      /\ \A i \in ActiveIn(db) : \E a \in 1 .. n : queue'[a] = i
  BY DEF Start, ByRowid
<1> HIDE DEF n
<1>10. Len(queue') = n  BY <1>8, <1>9
<1>11. ActiveIn(db) \subseteq JobIds
  BY <1>2, <1>4, RefreshJobsAssumption DEF ActiveIn, JobIds, TypeOK
<1>12. queue' \in Seq(JobIds)  BY <1>8, <1>9, <1>11
<1>13. TypeOK'
  BY <1>1, <1>2, <1>6, <1>12 DEF TypeOK
<1>14. QueueInv'
  <2>1. \A a \in 1 .. Len(queue') : queue'[a] \in ActiveIn(db)  BY <1>9, <1>10
  <2>2. \A a \in 1 .. Len(queue') : queue'[a] # 0
    BY <2>1, <1>11, RefreshJobsAssumption DEF JobIds
  <2>3. QED  BY <1>1, <1>7, <1>9, <1>10, <2>1, <2>2 DEF QueueInv, NoJob
<1>15. HeldInv' /\ IdleWhenNotUp'
  BY <1>1 DEF HeldInv, Holding, IdleWhenNotUp
<1>16. NoneStranded'  BY <1>1, <1>7, <1>9, <1>10 DEF NoneStranded
<1>17. ActiveOnDisk'  BY <1>1, <1>7, <1>3 DEF ActiveOnDisk, ActiveIn
<1>18. NoLostWakeup'  BY <1>1 DEF NoLostWakeup
<1>19. AcceptedNotLost'
  <2>1. \A i \in pending' : i \in DOMAIN db /\ i \in ActiveIn(db)
    BY <1>1 DEF IInv, AcceptedNotLost, InactiveIn
  <2>2. QED  BY <1>3, <1>7, <2>1 DEF AcceptedNotLost
<1>20. SuccessIsDurable' /\ MemoryMatchesDisk'
  BY <1>1 DEF SuccessIsDurable, MemoryMatchesDisk
<1>21. QED
  BY <1>13, <1>14, <1>15, <1>16, <1>17, <1>18, <1>19, <1>20 DEF IInv

(* A start that fails may rewrite rows, never drop or finish one.          *)
LEMMA StartFailsInv == ASSUME IInv, StartFails PROVE IInv'
<1>1. /\ UNCHANGED <<memory, created, stops, pending>>
      /\ process = "down" /\ process' = "unavailable"
      /\ faults < MaxFaults /\ faults' = faults + 1
  BY DEF StartFails, Fault
<1>2. PICK k \in 0 .. MaxJobs :
         db' = [i \in DOMAIN db |->
                  IF Active(db[i]) /\ i <= k THEN Queued(db[i]) ELSE db[i]]
  BY DEF StartFails
<1>3. TypeOK /\ created \in Nat  BY RefreshJobsAssumption DEF IInv, TypeOK
<1>4. /\ DOMAIN db' = DOMAIN db
      /\ \A i \in DOMAIN db : db'[i] = IF Active(db[i]) /\ i <= k THEN Queued(db[i]) ELSE db[i]
      /\ db' = [i \in DOMAIN db' |-> db'[i]]
  BY <1>2
<1>5. /\ DOMAIN db \subseteq 1 .. created
      /\ \A i \in DOMAIN db : db[i] \in Job /\ db[i].id = i
  BY <1>3 DEF TypeOK, IsJobMap
<1>6. \A i \in DOMAIN db : db'[i] \in Job /\ db'[i].id = i
  <2> SUFFICES ASSUME NEW i \in DOMAIN db PROVE db'[i] \in Job /\ db'[i].id = i
    OBVIOUS
  <2>1. PICK j : j = db[i]  OBVIOUS
  <2>2. j \in Job /\ j.id = i /\ db'[i] = IF Active(j) /\ i <= k THEN Queued(j) ELSE j
    BY <1>4, <1>5, <2>1
  <2>3. QED  BY <2>2, QueuedFacts
<1>7. IsJobMap(db', created)  BY <1>4, <1>5, <1>6 DEF IsJobMap
<1>8. faults' \in 0 .. MaxFaults /\ faults' # 0
  BY <1>1, <1>3, RefreshJobsAssumption DEF TypeOK
<1>9. TypeOK'  BY <1>1, <1>3, <1>7, <1>8 DEF TypeOK, memory
<1>10. jobs' = EmptyMap /\ queue' = <<>> /\ pc' = "done" /\ job' = NoJob
  BY <1>1 DEF IInv, IdleWhenNotUp, memory
<1>11. ActiveIn(jobs)' = {}  BY <1>10 DEF ActiveIn, EmptyMap
<1>12. QueueInv' /\ HeldInv' /\ IdleWhenNotUp' /\ NoneStranded' /\ NoLostWakeup'
  BY <1>1, <1>10, <1>11
     DEF QueueInv, HeldInv, Holding, IdleWhenNotUp, NoneStranded, NoLostWakeup, At
<1>13. ActiveOnDisk' /\ AcceptedNotLost' /\ MemoryMatchesDisk'
  BY <1>1, <1>4, <1>8, <1>11 DEF IInv, ActiveOnDisk, AcceptedNotLost, MemoryMatchesDisk
<1>14. SuccessIsDurable'  BY <1>10 DEF SuccessIsDurable, EmptyMap
<1>15. QED  BY <1>9, <1>12, <1>13, <1>14 DEF IInv

-----------------------------------------------------------------------------
(* Requests and the end of the process.                                    *)

(* The record a request creates is a queued job with a fresh identifier.   *)
LEMMA NewJobFacts ==
    ASSUME TypeOK, created < MaxJobs, NEW l \in Lists
    PROVE  /\ NewJob(l) \in Job
           /\ NewJob(l).id = created + 1
           /\ NewJob(l).status = "queued"
           /\ Active(NewJob(l))
           /\ created \in Nat
           /\ created + 1 \in JobIds
           /\ created + 1 \notin DOMAIN db
           /\ created + 1 \notin DOMAIN jobs
<1>1. created \in Nat /\ created + 1 \in JobIds
  BY RefreshJobsAssumption DEF TypeOK, JobIds
<1>2. created + 1 \notin 1 .. created  BY <1>1
<1>3. QED  BY <1>1, <1>2 DEF NewJob, Job, Active, TypeOK, IsJobMap

(* The eviction spares every unfinished job of the map, so the queued jobs *)
(* and the worker's.                                                       *)
LEMMA EvictionSpares ==
    ASSUME IInv
    PROVE  /\ Evicted \cap ActiveIn(jobs) = {}
           /\ \A a \in 1 .. Len(queue) : queue[a] \notin Evicted
           /\ Holding => job.id \notin Evicted
           /\ IsJobMap(Without(db, Evicted), created)
           /\ IsJobMap(Without(jobs, Evicted), created)
<1>1. Evicted \cap ActiveIn(jobs) = {}  BY EvictedInactive DEF InactiveIn
<1>2. \A a \in 1 .. Len(queue) : queue[a] \notin Evicted  BY <1>1 DEF IInv, QueueInv
<1>3. Holding => job.id \notin Evicted  BY <1>1 DEF IInv, HeldInv
<1>4. created \in Nat /\ IsJobMap(db, created) /\ IsJobMap(jobs, created)
  BY RefreshJobsAssumption DEF IInv, TypeOK
<1>5. QED  BY <1>1, <1>2, <1>3, <1>4, WithoutTyped

(* Answering with an unfinished job changes only what is promised.         *)
LEMMA SubmitReusesInv ==
    ASSUME IInv, NEW l \in Lists, SubmitReuses(l) PROVE IInv'
<1>1. PICK i \in ActiveIn(jobs) : pending' = pending \cup {i}  BY DEF SubmitReuses
<1>2. UNCHANGED <<db, process, memory, created, faults, stops>>  BY DEF SubmitReuses
<1>3. TypeOK'
  <2>1. i \in 1 .. created  BY DEF IInv, TypeOK, IsJobMap, ActiveIn
  <2>2. QED  BY <1>1, <1>2, <2>1 DEF IInv, TypeOK, memory
<1>4. AcceptedNotLost'
  BY <1>1, <1>2 DEF IInv, AcceptedNotLost, ActiveOnDisk, ActiveIn, memory
<1>5. /\ IdleWhenNotUp'
      /\ QueueInv'
      /\ HeldInv'
      /\ NoneStranded'
  BY <1>2
     DEF IInv, IdleWhenNotUp, QueueInv, HeldInv, Holding, NoneStranded, ActiveIn, memory
<1>6. ActiveOnDisk' /\ NoLostWakeup' /\ SuccessIsDurable' /\ MemoryMatchesDisk'
  BY <1>2
     DEF IInv, ActiveOnDisk, NoLostWakeup, At, SuccessIsDurable, MemoryMatchesDisk,
         ActiveIn, memory
<1>7. QED  BY <1>3, <1>4, <1>5, <1>6 DEF IInv

(* Accepting a job: eviction, row, map, queue and token.                   *)
LEMMA SubmitAcceptsInv ==
    ASSUME IInv, NEW l \in Lists, SubmitAccepts(l) PROVE IInv'
<1> DEFINE c == created + 1
<1> DEFINE new == NewJob(l)
<1> DEFINE d1 == Without(db, Evicted)
<1> DEFINE m1 == Without(jobs, Evicted)
<1>1. /\ UNCHANGED <<process, cancelled, pc, job, faults, stops>>
      /\ process = "up" /\ created < MaxJobs
      /\ created' = c /\ wake' = TRUE /\ queue' = Append(queue, c)
      /\ pending' = pending \cup {c}
      /\ db' = Put(d1, new) /\ jobs' = Put(m1, new)
  BY DEF SubmitAccepts, NeedsNewJob, Admits
<1>2. /\ new \in Job /\ new.id = c /\ new.status = "queued" /\ Active(new)
      /\ created \in Nat /\ c \in JobIds
      /\ c \notin DOMAIN db /\ c \notin DOMAIN jobs
  BY <1>1, NewJobFacts DEF IInv
<1>3. /\ Evicted \cap ActiveIn(jobs) = {}
      /\ \A a \in 1 .. Len(queue) : queue[a] \notin Evicted
      /\ Holding => job.id \notin Evicted
      /\ IsJobMap(d1, created)
      /\ IsJobMap(m1, created)
  BY EvictionSpares
<1>4. /\ DOMAIN d1 = DOMAIN db \ Evicted
      /\ \A i \in DOMAIN db \ Evicted : d1[i] = db[i]
      /\ ActiveIn(d1) = ActiveIn(db) \ Evicted
      /\ DOMAIN m1 = DOMAIN jobs \ Evicted
      /\ \A i \in DOMAIN jobs \ Evicted : m1[i] = jobs[i]
      /\ ActiveIn(m1) = ActiveIn(jobs) \ Evicted
  BY WithoutFacts, WithoutActive
<1>5. jobs = db => m1 = d1  OBVIOUS
<1> HIDE DEF new, d1, m1
<1>6. /\ DOMAIN db' = (DOMAIN db \ Evicted) \cup {c}
      /\ db'[c] = new
      /\ \A i \in DOMAIN db \ Evicted : db'[i] = db[i]
      /\ ActiveIn(db)' = (ActiveIn(db) \ Evicted) \cup {c}
  <2>1. /\ DOMAIN Put(d1, new) = DOMAIN d1 \cup {c}
        /\ Put(d1, new)[c] = new
        /\ \A i \in DOMAIN d1 \ {c} : Put(d1, new)[i] = d1[i]
    <3>1. /\ DOMAIN Put(d1, new) = DOMAIN d1 \cup {new.id}
          /\ Put(d1, new)[new.id] = new
          /\ \A i \in DOMAIN d1 \ {new.id} : Put(d1, new)[i] = d1[i]
      BY PutFacts
    <3>2. QED  BY <1>2, <3>1
  <2>2. ActiveIn(Put(d1, new)) = ActiveIn(d1) \cup {c}  BY <1>2, PutActive
  <2>3. ActiveIn(db)' = ActiveIn(db')  BY DEF ActiveIn
  <2>4. QED  BY <1>1, <1>2, <1>4, <2>1, <2>2, <2>3
<1>7. /\ DOMAIN jobs' = (DOMAIN jobs \ Evicted) \cup {c}
      /\ jobs'[c] = new
      /\ \A i \in DOMAIN jobs \ Evicted : jobs'[i] = jobs[i]
      /\ ActiveIn(jobs)' = ActiveIn(jobs) \cup {c}
  <2>1. /\ DOMAIN Put(m1, new) = DOMAIN m1 \cup {c}
        /\ Put(m1, new)[c] = new
        /\ \A i \in DOMAIN m1 \ {c} : Put(m1, new)[i] = m1[i]
    <3>1. /\ DOMAIN Put(m1, new) = DOMAIN m1 \cup {new.id}
          /\ Put(m1, new)[new.id] = new
          /\ \A i \in DOMAIN m1 \ {new.id} : Put(m1, new)[i] = m1[i]
      BY PutFacts
    <3>2. QED  BY <1>2, <3>1
  <2>2. ActiveIn(Put(m1, new)) = ActiveIn(m1) \cup {c}  BY <1>2, PutActive
  <2>3. ActiveIn(jobs)' = ActiveIn(jobs')  BY DEF ActiveIn
  <2>4. QED  BY <1>1, <1>2, <1>3, <1>4, <2>1, <2>2, <2>3
<1>8. queue \in Seq(JobIds) /\ queue' \in Seq(JobIds)
  BY <1>1, <1>2 DEF IInv, TypeOK
<1>9. /\ Len(queue) \in Nat /\ Len(queue') = Len(queue) + 1
      /\ \A a \in 1 .. Len(queue) : queue'[a] = queue[a]
      /\ queue'[Len(queue) + 1] = c
  BY <1>1, <1>2, <1>8
<1>10. TypeOK'
  <2>1. IsJobMap(db', c) /\ IsJobMap(jobs', c)
    BY <1>1, <1>2, <1>3, PutTyped
  <2>2. created' \in 0 .. MaxJobs
    BY <1>1, <1>2, RefreshJobsAssumption DEF JobIds
  <2>3. pending' \subseteq 1 .. created'
    BY <1>1, <1>2 DEF IInv, TypeOK
  <2>4. QED  BY <1>1, <1>8, <2>1, <2>2, <2>3 DEF IInv, TypeOK
<1>11. \A a \in 1 .. Len(queue) : queue[a] < c /\ queue[a] # job.id
  <2>1. \A a \in 1 .. Len(queue) : queue[a] \in 1 .. created
    BY DEF IInv, QueueInv, TypeOK, IsJobMap, ActiveIn
  <2>2. QED  BY <1>2, <2>1 DEF IInv, QueueInv
<1>12. job.id # c
  <2>1. CASE Holding  BY <1>2, <2>1 DEF IInv, HeldInv, ActiveIn
  <2>2. CASE ~Holding  BY <1>2, <2>2 DEF IInv, HeldInv, NoJob
  <2>3. QED  BY <2>1, <2>2
<1>13. QueueInv'
  <2>1. \A a \in 1 .. Len(queue') :
           /\ queue'[a] \in ActiveIn(jobs)'
           /\ queue'[a] \in ActiveIn(db)'
           /\ queue'[a] # job.id
    <3> SUFFICES ASSUME NEW a \in 1 .. Len(queue')
                 PROVE  /\ queue'[a] \in ActiveIn(jobs)'
                        /\ queue'[a] \in ActiveIn(db)'
                        /\ queue'[a] # job.id
      OBVIOUS
    <3>1. CASE a \in 1 .. Len(queue)
      BY <1>3, <1>6, <1>7, <1>9, <1>11, <3>1 DEF IInv, QueueInv
    <3>2. CASE a = Len(queue) + 1  BY <1>6, <1>7, <1>9, <1>12, <3>2
    <3>3. QED  BY <1>9, <3>1, <3>2
  <2>2. \A a, b \in 1 .. Len(queue') : a < b => queue'[a] < queue'[b]
    <3> SUFFICES ASSUME NEW a \in 1 .. Len(queue'), NEW b \in 1 .. Len(queue'), a < b
                 PROVE  queue'[a] < queue'[b]
      OBVIOUS
    <3>1. a \in 1 .. Len(queue)  BY <1>9
    <3>2. CASE b \in 1 .. Len(queue)  BY <1>9, <3>1, <3>2 DEF IInv, QueueInv
    <3>3. CASE b = Len(queue) + 1  BY <1>9, <1>11, <3>1, <3>3
    <3>4. QED  BY <1>9, <3>2, <3>3
  <2>3. QED  BY <1>1, <2>1, <2>2 DEF QueueInv
<1>14. HeldInv'
  <2>1. Holding => jobs'[job.id] = jobs[job.id]
    BY <1>3, <1>7 DEF IInv, HeldInv, ActiveIn
  <2>2. pc \in {"begin", "refresh", "result", "reload", "ready", "erred"} => Holding
    BY DEF Holding
  <2>3. QED  BY <1>1, <1>3, <1>6, <1>7, <2>1, <2>2 DEF IInv, HeldInv, Holding
<1>15. NoneStranded'
  <2> SUFFICES ASSUME NEW i \in ActiveIn(jobs)'
               PROVE  \/ \E a \in 1 .. Len(queue') : queue'[a] = i
                      \/ i = job.id
                      \/ cancelled
    BY <1>1 DEF NoneStranded
  <2>1. CASE i = c
    <3>1. Len(queue) + 1 \in 1 .. Len(queue')  BY <1>9
    <3>2. QED  BY <1>9, <2>1, <3>1
  <2>2. CASE i \in ActiveIn(jobs)
    <3>1. CASE \E a \in 1 .. Len(queue) : queue[a] = i
      <4>1. \A a \in 1 .. Len(queue) : a \in 1 .. Len(queue')  BY <1>9
      <4>2. QED  BY <1>9, <3>1, <4>1
    <3>2. QED  BY <1>1, <2>2, <3>1 DEF IInv, NoneStranded
  <2>3. QED  BY <1>7, <2>1, <2>2
<1>16. ActiveOnDisk'  BY <1>3, <1>6, <1>7 DEF IInv, ActiveOnDisk
<1>17. AcceptedNotLost'
  BY <1>1, <1>3, <1>6, <1>7 DEF IInv, AcceptedNotLost
<1>18. SuccessIsDurable'
  BY <1>2, <1>6, <1>7 DEF IInv, SuccessIsDurable
<1>19. MemoryMatchesDisk'
  BY <1>1, <1>5 DEF IInv, MemoryMatchesDisk
<1>20. NoLostWakeup' /\ IdleWhenNotUp'
  BY <1>1 DEF NoLostWakeup, IdleWhenNotUp
<1>21. QED
  BY <1>10, <1>13, <1>14, <1>15, <1>16, <1>17, <1>18, <1>19, <1>20 DEF IInv

(* Requests refused on a failed write: at most the evicted record is gone, *)
(* and a row of the new job may be left on disk, which nobody was told of. *)
LEMMA SubmitRefusesInv ==
    ASSUME IInv, NEW l \in Lists, SubmitCannotEvict(l) \/ SubmitCannotSave(l)
    PROVE  IInv'
<1> DEFINE c == created + 1
<1> DEFINE new == NewJob(l)
<1> DEFINE d1 == Without(db, Evicted)
<1> DEFINE m1 == Without(jobs, Evicted)
<1>1. /\ UNCHANGED <<process, queue, wake, cancelled, pc, job, stops, pending>>
      /\ process = "up" /\ created < MaxJobs
      /\ faults < MaxFaults /\ faults' = faults + 1
      /\ created' \in {created, c}
      /\ jobs' \in {jobs, m1}
      /\ \/ db' \in {db, d1}
         \/ created' = c /\ db' = Put(d1, new)
  BY DEF SubmitCannotEvict, SubmitCannotSave, NeedsNewJob, Admits, Fault, memory
<1>2. /\ new \in Job /\ new.id = c /\ Active(new)
      /\ created \in Nat /\ c \in JobIds
      /\ c \notin DOMAIN db
  BY <1>1, NewJobFacts DEF IInv
<1>3. /\ Evicted \cap ActiveIn(jobs) = {}
      /\ \A a \in 1 .. Len(queue) : queue[a] \notin Evicted
      /\ Holding => job.id \notin Evicted
      /\ IsJobMap(d1, created)
      /\ IsJobMap(m1, created)
  BY EvictionSpares
<1>4. /\ DOMAIN d1 = DOMAIN db \ Evicted
      /\ \A i \in DOMAIN db \ Evicted : d1[i] = db[i]
      /\ ActiveIn(d1) = ActiveIn(db) \ Evicted
      /\ DOMAIN m1 = DOMAIN jobs \ Evicted
      /\ \A i \in DOMAIN jobs \ Evicted : m1[i] = jobs[i]
      /\ ActiveIn(m1) = ActiveIn(jobs) \ Evicted
  BY WithoutFacts, WithoutActive
<1>5. /\ DOMAIN Put(d1, new) = DOMAIN d1 \cup {new.id}
      /\ \A i \in DOMAIN d1 \ {new.id} : Put(d1, new)[i] = d1[i]
      /\ ActiveIn(Put(d1, new)) = ActiveIn(d1) \cup {new.id}
  <2>1. Active(new)  BY <1>2
  <2> HIDE DEF new, d1
  <2>2. /\ DOMAIN Put(d1, new) = DOMAIN d1 \cup {new.id}
        /\ \A i \in DOMAIN d1 \ {new.id} : Put(d1, new)[i] = d1[i]
    BY PutFacts
  <2>3. ActiveIn(Put(d1, new)) = ActiveIn(d1) \cup {new.id}  BY <2>1, PutActive
  <2>4. QED  BY <2>2, <2>3
<1>6. IsJobMap(Put(d1, new), c)  BY <1>2, <1>3, PutTyped
<1> HIDE DEF new, d1, m1
<1>7. TypeOK /\ ActiveIn(db)' = ActiveIn(db') /\ ActiveIn(jobs)' = ActiveIn(jobs')
  BY DEF IInv, ActiveIn
<1>8. /\ DOMAIN db \ Evicted \subseteq DOMAIN db'
      /\ DOMAIN db' \subseteq DOMAIN db \cup {c}
      /\ \A i \in DOMAIN db \ Evicted : db'[i] = db[i]
      /\ \A i \in DOMAIN db : i \in DOMAIN db' => db'[i] = db[i]
      /\ ActiveIn(db) \ Evicted \subseteq ActiveIn(db')
  <2>1. CASE db' = db  BY <2>1
  <2>2. CASE db' = d1  BY <1>4, <2>2
  <2>3. CASE db' = Put(d1, new)  BY <1>2, <1>4, <1>5, <2>3
  <2>4. QED  BY <1>1, <2>1, <2>2, <2>3
<1>9. /\ ActiveIn(jobs') = ActiveIn(jobs)
      /\ DOMAIN jobs' \subseteq DOMAIN jobs
      /\ \A i \in DOMAIN jobs' : jobs'[i] = jobs[i]
  BY <1>1, <1>3, <1>4
<1>10. TypeOK'
  <2>1. IsJobMap(db', created')
    <3>1. \A m : IsJobMap(m, created) => IsJobMap(m, c)  BY <1>2 DEF IsJobMap
    <3>2. QED  BY <1>1, <1>3, <1>6, <1>7, <3>1 DEF TypeOK
  <2>2. IsJobMap(jobs', created')
    <3>1. \A m : IsJobMap(m, created) => IsJobMap(m, c)  BY <1>2 DEF IsJobMap
    <3>2. QED  BY <1>1, <1>3, <1>7, <3>1 DEF TypeOK
  <2>3. created' \in 0 .. MaxJobs /\ faults' \in 0 .. MaxFaults
        /\ pending' \subseteq 1 .. created'
    BY <1>1, <1>2, <1>7, RefreshJobsAssumption DEF TypeOK, JobIds
  <2>4. QED  BY <1>1, <1>7, <2>1, <2>2, <2>3 DEF TypeOK
<1>11. QueueInv'  BY <1>1, <1>3, <1>7, <1>8, <1>9 DEF IInv, QueueInv
<1>12. HeldInv'
  <2>1. pc \in {"begin", "refresh", "result", "reload", "ready", "erred"} => Holding
    BY DEF Holding
  <2>2. Holding => jobs'[job.id] = jobs[job.id]  BY <1>9 DEF IInv, HeldInv, ActiveIn
  <2>3. faults' > 0  BY <1>1, <1>7, RefreshJobsAssumption DEF TypeOK
  <2>4. QED
    BY <1>1, <1>3, <1>7, <1>8, <1>9, <2>1, <2>2, <2>3 DEF IInv, HeldInv, Holding
<1>13. NoneStranded'  BY <1>1, <1>7, <1>9 DEF IInv, NoneStranded
<1>14. ActiveOnDisk'  BY <1>3, <1>7, <1>8, <1>9 DEF IInv, ActiveOnDisk
<1>15. AcceptedNotLost'
  BY <1>1, <1>3, <1>7, <1>8, <1>9 DEF IInv, AcceptedNotLost
<1>16. SuccessIsDurable'
  <2> SUFFICES ASSUME NEW i \in DOMAIN jobs', jobs'[i].status = "succeeded",
                      i \in DOMAIN db'
               PROVE  db'[i].status = "succeeded"
    BY DEF SuccessIsDurable
  <2>1. i \in DOMAIN jobs /\ jobs[i].status = "succeeded"  BY <1>9
  <2>2. i \in 1 .. created  BY <1>7, <2>1 DEF TypeOK, IsJobMap
  <2>3. i \in DOMAIN db  BY <1>2, <1>8, <2>2
  <2>4. QED  BY <1>8, <2>1, <2>3 DEF IInv, SuccessIsDurable
<1>17. MemoryMatchesDisk'
  BY <1>1, <1>7, RefreshJobsAssumption DEF TypeOK, MemoryMatchesDisk
<1>18. NoLostWakeup' /\ IdleWhenNotUp'
  BY <1>1 DEF IInv, NoLostWakeup, At, IdleWhenNotUp
<1>19. QED
  BY <1>10, <1>11, <1>12, <1>13, <1>14, <1>15, <1>16, <1>17, <1>18 DEF IInv

(* Close cancels the context and touches nothing else.                     *)
LEMMA CancelInv == ASSUME IInv, Cancel PROVE IInv'
<1>1. /\ UNCHANGED <<db, process, jobs, queue, wake, pc, job, created, faults, stops, pending>>
      /\ process = "up" /\ cancelled' = TRUE
  BY DEF Cancel
<1>2. ActiveIn(db)' = ActiveIn(db) /\ ActiveIn(jobs)' = ActiveIn(jobs)
  BY <1>1 DEF ActiveIn
<1>3. TypeOK' /\ IdleWhenNotUp'  BY <1>1 DEF IInv, TypeOK, IdleWhenNotUp
<1>4. QueueInv' /\ HeldInv' /\ NoneStranded'
  BY <1>1, <1>2 DEF IInv, QueueInv, HeldInv, Holding, NoneStranded
<1>5. ActiveOnDisk' /\ NoLostWakeup' /\ AcceptedNotLost' /\ SuccessIsDurable'
      /\ MemoryMatchesDisk'
  BY <1>1, <1>2
     DEF IInv, ActiveOnDisk, NoLostWakeup, AcceptedNotLost, SuccessIsDurable,
         MemoryMatchesDisk
<1>6. QED  BY <1>3, <1>4, <1>5 DEF IInv

(* The end of the process leaves the table and the promises.               *)
LEMMA ExitInv == ASSUME IInv, Exit PROVE IInv'
<1>1. /\ UNCHANGED <<db, created, faults, pending>>
      /\ process' = "down" /\ jobs' = EmptyMap /\ queue' = <<>> /\ wake' = FALSE
      /\ cancelled' = FALSE /\ pc' = "done" /\ job' = NoJob
      /\ stops' = stops + 1 /\ stops < MaxStops
  BY DEF Exit
<1>2. ActiveIn(jobs)' = {}  BY <1>1 DEF ActiveIn, EmptyMap
<1>3. TypeOK'
  <2>1. IsJobMap(EmptyMap, created)  BY DEF IsJobMap, EmptyMap
  <2>2. stops' \in 0 .. MaxStops  BY <1>1, RefreshJobsAssumption DEF IInv, TypeOK
  <2>3. queue' \in Seq(JobIds)  BY <1>1
  <2>4. QED  BY <1>1, <2>1, <2>2, <2>3 DEF IInv, TypeOK
<1>4. IdleWhenNotUp' /\ QueueInv' /\ HeldInv' /\ NoneStranded'
  BY <1>1 DEF IdleWhenNotUp, QueueInv, HeldInv, Holding, NoneStranded
<1>5. ActiveOnDisk' /\ NoLostWakeup' /\ AcceptedNotLost' /\ MemoryMatchesDisk'
  BY <1>1, <1>2
     DEF IInv, ActiveOnDisk, NoLostWakeup, At, AcceptedNotLost, MemoryMatchesDisk
<1>6. SuccessIsDurable'  BY <1>1 DEF SuccessIsDurable, EmptyMap
<1>7. QED  BY <1>3, <1>4, <1>5, <1>6 DEF IInv

(* A step of nothing.                                                      *)
LEMMA StutterInv == ASSUME IInv, UNCHANGED vars PROVE IInv'
<1>1. ActiveIn(db)' = ActiveIn(db) /\ ActiveIn(jobs)' = ActiveIn(jobs)
  BY DEF ActiveIn, vars, memory
<1>2. TypeOK' /\ IdleWhenNotUp' /\ QueueInv' /\ HeldInv' /\ NoneStranded'
  BY <1>1
     DEF IInv, vars, memory, TypeOK, IdleWhenNotUp, QueueInv, HeldInv, Holding, NoneStranded
<1>3. ActiveOnDisk' /\ NoLostWakeup' /\ AcceptedNotLost' /\ SuccessIsDurable'
      /\ MemoryMatchesDisk'
  BY <1>1
     DEF IInv, vars, memory, ActiveOnDisk, NoLostWakeup, At, AcceptedNotLost,
         SuccessIsDurable, MemoryMatchesDisk
<1>4. QED  BY <1>2, <1>3 DEF IInv

(* Every step of the queue keeps the invariant: one case for each action.  *)
LEMMA NextInv == IInv /\ [Next]_vars => IInv'
<1> SUFFICES ASSUME IInv, [Next]_vars PROVE IInv'  OBVIOUS
<1>1. CASE Start  BY <1>1, StartInv
<1>2. CASE StartFails  BY <1>2, StartFailsInv
<1>3. ASSUME NEW l \in Lists, Submit(l) PROVE IInv'
  BY <1>3, SubmitReusesInv, SubmitAcceptsInv, SubmitRefusesInv DEF Submit
<1>4. CASE Worker  BY <1>4, QuietInv, SavingInv, FailInMemoryInv DEF Worker
<1>5. CASE Cancel  BY <1>5, CancelInv
<1>6. CASE Exit  BY <1>6, ExitInv
<1>7. CASE UNCHANGED vars  BY <1>7, StutterInv
<1>8. QED  BY <1>1, <1>2, <1>3, <1>4, <1>5, <1>6, <1>7 DEF Next

-----------------------------------------------------------------------------
(* The invariant holds in every reachable state.                           *)
THEOREM InductiveInvariant == Spec => []IInv
BY InitInv, NextInv, PTL DEF Spec

(* Every variable keeps its type: the maps are keyed by the identifiers    *)
(* they store, and nothing refers to a job that was never created.         *)
THEOREM TypeCorrect == Spec => []TypeOK
<1>1. IInv => TypeOK  BY DEF IInv
<1>2. QED  BY <1>1, InductiveInvariant, PTL

(* No unfinished job of a running process is left where neither the queue  *)
(* nor the worker holds it (run, Submit, NewRefreshJobs).                  *)
THEOREM NothingStranded == Spec => []NoJobStranded
<1>1. IInv => NoJobStranded
  BY DEF IInv, QueueInv, NoneStranded, NoJobStranded
<1>2. QED  BY <1>1, InductiveInvariant, PTL

(* The one-slot wake channel never loses the signal of a new job.          *)
THEOREM WakeupsKept == Spec => []NoLostWakeup
<1>1. IInv => NoLostWakeup  BY DEF IInv
<1>2. QED  BY <1>1, InductiveInvariant, PTL

(* A job a client was told is accepted stays on disk and unfinished until  *)
(* its outcome is shown, whatever fails, stops or is evicted.              *)
THEOREM AcceptanceKept == Spec => []AcceptedNotLost
<1>1. IInv => AcceptedNotLost  BY DEF IInv
<1>2. QED  BY <1>1, InductiveInvariant, PTL

(* No restart takes back a success that a client has seen.                 *)
THEOREM SuccessKept == Spec => []SuccessIsDurable
<1>1. IInv => SuccessIsDurable  BY DEF IInv
<1>2. QED  BY <1>1, InductiveInvariant, PTL

(* The map and the table are the same until a write fails.                 *)
THEOREM MemoryIsTheTable == Spec => []MemoryMatchesDisk
<1>1. IInv => MemoryMatchesDisk  BY DEF IInv
<1>2. QED  BY <1>1, InductiveInvariant, PTL

-----------------------------------------------------------------------------
(* A step makes a row unfinished only if it was so already or is new.      *)

(* No request makes a finished row unfinished: Submit writes a new         *)
(* identifier only.                                                        *)
LEMMA UnfinishedBySubmit ==
    ASSUME IInv, NEW l \in Lists, Submit(l)
    PROVE  ActiveIn(db') \subseteq ActiveIn(db) \cup {created + 1}
<1>1. CASE SubmitReuses(l)  BY <1>1 DEF SubmitReuses
<1>2. CASE NeedsNewJob(l) /\ db' \in {db, Without(db, Evicted),
                                     Put(Without(db, Evicted), NewJob(l))}
  <2>1. ActiveIn(Without(db, Evicted)) \subseteq ActiveIn(db)  BY WithoutActive
  <2>2. Active(NewJob(l)) /\ NewJob(l).id = created + 1
    BY <1>2, NewJobFacts DEF IInv, NeedsNewJob
  <2>3. ActiveIn(Put(Without(db, Evicted), NewJob(l)))
           = ActiveIn(Without(db, Evicted)) \cup {NewJob(l).id}
    BY <2>2, PutActive
  <2>4. QED  BY <1>2, <2>1, <2>2, <2>3
<1>3. QED
  BY <1>1, <1>2 DEF Submit, SubmitAccepts, SubmitCannotEvict, SubmitCannotSave

(* Nor does the recovery, which rewrites unfinished rows only.             *)
LEMMA UnfinishedByStart ==
    ASSUME IInv, Start \/ StartFails PROVE ActiveIn(db') \subseteq ActiveIn(db)
<1>1. PICK k : db' = [i \in DOMAIN db |->
                        IF Active(db[i]) /\ k[i] THEN Queued(db[i]) ELSE db[i]]
  <2>1. CASE Start
    <3>1. db' = [i \in DOMAIN db |->
                   IF Active(db[i]) /\ [n \in DOMAIN db |-> TRUE][i]
                   THEN Queued(db[i]) ELSE db[i]]
      BY <2>1 DEF Start
    <3>2. QED  BY <3>1
  <2>2. CASE StartFails
    <3>1. PICK n \in 0 .. MaxJobs :
             db' = [i \in DOMAIN db |->
                      IF Active(db[i]) /\ i <= n THEN Queued(db[i]) ELSE db[i]]
      BY <2>2 DEF StartFails
    <3>2. db' = [i \in DOMAIN db |->
                   IF Active(db[i]) /\ [m \in DOMAIN db |-> m <= n][i]
                   THEN Queued(db[i]) ELSE db[i]]
      BY <3>1
    <3>3. QED  BY <3>2
  <2>3. QED  BY <2>1, <2>2
<1>2. \A i \in DOMAIN db : ~Active(db[i]) => db'[i] = db[i]  BY <1>1
<1>3. DOMAIN db' = DOMAIN db  BY <1>1
<1>4. QED  BY <1>2, <1>3 DEF ActiveIn

(* Nor does the worker: what it holds is unfinished on disk, or it writes  *)
(* an outcome.                                                             *)
LEMMA UnfinishedByWorker ==
    ASSUME IInv, Worker PROVE ActiveIn(db') \subseteq ActiveIn(db)
<1>1. ASSUME NEW j, Updated(j) \/ UpdateFailed(j), Active(j) => j.id \in ActiveIn(db)
      PROVE  ActiveIn(db') \subseteq ActiveIn(db)
  <2>1. db' = db \/ db' = Put(db, j)  BY <1>1 DEF Updated, UpdateFailed
  <2>2. ActiveIn(Put(db, j)) \subseteq ActiveIn(db)  BY <1>1, PutActive
  <2>3. QED  BY <2>1, <2>2
<1>2. CASE WorkerBegins \/ WorkerSavesResult
  BY <1>1, <1>2 DEF WorkerBegins, WorkerSavesResult, At, IInv, HeldInv
<1>3. CASE WorkerStops
  <2>1. job \in Job /\ job.id \in ActiveIn(db)
    BY <1>3 DEF WorkerStops, At, IInv, HeldInv, Holding
  <2>2. Queued(job).id = job.id  BY <2>1, QueuedFacts
  <2>3. QED  BY <1>1, <1>3, <2>1, <2>2 DEF WorkerStops
<1>4. CASE WorkerFinishes \/ WorkerFails
  <2>1. ~Active(job)
    BY <1>4 DEF WorkerFinishes, WorkerFails, At, IInv, HeldInv, Active
  <2>2. QED  BY <1>1, <1>4, <2>1 DEF WorkerFinishes, WorkerFails
<1>5. CASE db' = db  BY <1>5
<1>6. QED
  BY <1>2, <1>3, <1>4, <1>5
     DEF Worker, WorkerWaits, WorkerTakes, WorkerRefreshes, WorkerReloads,
         WorkerConcludes, WorkerFailsInMemory

(* A finished row is never taken up again: not by a recovery, not by a     *)
(* worker told to stop after it had decided, not by a write that failed.   *)
THEOREM FinishedForGood == Spec => FinishedRowStaysFinished
<1>1. IInv /\ [Next]_vars
        => \A i \in InactiveIn(db) : i \notin ActiveIn(db')
  <2> SUFFICES ASSUME IInv, [Next]_vars, NEW i \in InactiveIn(db)
               PROVE  i \notin ActiveIn(db')
    OBVIOUS
  <2>1. i # created + 1
    <3>1. created \in Nat /\ i \in 1 .. created
      BY RefreshJobsAssumption DEF IInv, TypeOK, IsJobMap, InactiveIn
    <3>2. QED  BY <3>1
  <2>2. ActiveIn(db') \subseteq ActiveIn(db) \cup {created + 1}
    BY UnfinishedBySubmit, UnfinishedByStart, UnfinishedByWorker
       DEF Next, Cancel, Exit, vars
  <2>3. QED  BY <2>1, <2>2 DEF InactiveIn
<1>2. QED  BY <1>1, InductiveInvariant, PTL DEF Spec, FinishedRowStaysFinished

-----------------------------------------------------------------------------
(* The table on disk implements RefreshQueue: until a write fails, every    *)
(* step is Accept, Finish or invisible in what Record reads.                *)

LEMMA RecordFacts ==
    /\ DOMAIN Record = DOMAIN db
    /\ \A i \in DOMAIN db : Record[i] = [list |-> db[i].list, outcome |-> Outcome(db[i])]
BY DEF Record

(* Unfinished rows are the accepted jobs, the others the finished ones.    *)
LEMMA RecordSplit ==
    ASSUME IsJobMap(db, created)
    PROVE  Queue!Accepted = ActiveIn(db) /\ Queue!Finished = InactiveIn(db)
<1>1. \A i \in DOMAIN db : Record[i].outcome = "accepted" <=> Active(db[i])
  BY RecordFacts DEF IsJobMap, Job, Outcome, Active
<1>2. QED  BY <1>1, RecordFacts DEF Queue!Accepted, Queue!Finished, ActiveIn, InactiveIn

(* A rewrite of rows that keeps lists and outcomes cannot be seen.         *)
LEMMA SameRecord ==
    ASSUME DOMAIN db' = DOMAIN db,
           \A i \in DOMAIN db : db'[i].list = db[i].list /\ Outcome(db'[i]) = Outcome(db[i])
    PROVE  Record' = Record
BY DEF Record

(* A recovery puts unfinished rows back to queued, which is accepted still. *)
LEMMA StartUnseen == ASSUME IInv, Start PROVE Record' = Record
<1>1. db' = [i \in DOMAIN db |-> IF Active(db[i]) THEN Queued(db[i]) ELSE db[i]]
  BY DEF Start
<1>2. \A i \in DOMAIN db : db[i] \in Job  BY DEF IInv, TypeOK, IsJobMap
<1>3. \A i \in DOMAIN db :
        Active(db[i]) => Queued(db[i]).list = db[i].list /\ Active(Queued(db[i]))
  BY <1>2, QueuedFacts
<1>4. QED  BY <1>1, <1>3, SameRecord DEF Outcome

(* The two modules count alike.                                            *)
LEMMA SameCount == ASSUME NEW S PROVE Queue!Cardinality(S) = Cardinality(S)
BY DEF Queue!Cardinality, Cardinality, Queue!IsFiniteSet, IsFiniteSet

(* An accepted request is Accept: as long as memory and disk are equal, the *)
(* map that Submit counts in and evicts from is the record.                *)
LEMMA SubmitIsAccept ==
    ASSUME IInv, NEW l \in Lists, SubmitAccepts(l), faults = 0
    PROVE  Queue!Accept(l)
<1>1. jobs = db  BY DEF IInv, MemoryMatchesDisk, SubmitAccepts, NeedsNewJob, Admits
<1>2. Queue!Accepted = ActiveIn(jobs) /\ Queue!Finished = InactiveIn(jobs)
  BY <1>1, RecordSplit DEF IInv, TypeOK
<1>3. Queue!Forgotten = Evicted
  <2>1. DOMAIN Record = DOMAIN jobs  BY <1>1, RecordFacts
  <2>2. Queue!Cardinality(DOMAIN Record) = Cardinality(DOMAIN jobs)  BY <2>1, SameCount
  <2>3. QED  BY <1>2, <2>2, Zenon DEF Queue!Forgotten, Evicted
<1>4. \A i \in Queue!Accepted : Record[i].list # l
  BY <1>1, <1>2, RecordFacts DEF SubmitAccepts, NeedsNewJob, ActiveIn
<1>5. Queue!Cardinality(Queue!Accepted) < MaxActive /\ created < MaxJobs /\ created' = created + 1
  BY <1>2, SameCount DEF SubmitAccepts, NeedsNewJob
<1>6. /\ DOMAIN db' = (DOMAIN db \ Evicted) \cup {created + 1}
      /\ db'[created + 1] = NewJob(l)
      /\ \A i \in (DOMAIN db \ Evicted) \ {created + 1} : db'[i] = db[i]
  <2> DEFINE kept == Without(db, Evicted)
  <2>1. DOMAIN kept = DOMAIN db \ Evicted /\ \A i \in DOMAIN db \ Evicted : kept[i] = db[i]
    BY WithoutFacts
  <2>2. db' = Put(kept, NewJob(l)) /\ NewJob(l).id = created + 1
    BY DEF SubmitAccepts, NewJob
  <2> HIDE DEF kept
  <2>3. /\ DOMAIN db' = DOMAIN kept \cup {created + 1}
        /\ db'[created + 1] = NewJob(l)
        /\ \A i \in DOMAIN kept \ {created + 1} : db'[i] = kept[i]
    <3>1. PICK j : j = NewJob(l)  OBVIOUS
    <3>2. /\ DOMAIN Put(kept, j) = DOMAIN kept \cup {j.id}
          /\ Put(kept, j)[j.id] = j
          /\ \A i \in DOMAIN kept \ {j.id} : Put(kept, j)[i] = kept[i]
      BY PutFacts
    <3>3. QED  BY <2>2, <3>1, <3>2
  <2>4. QED  BY <2>1, <2>3
<1>7. NewJob(l).list = l /\ Outcome(NewJob(l)) = "accepted"
  BY DEF NewJob, Outcome, Active
<1>8. Record' = [i \in DOMAIN db' |-> [list |-> db'[i].list, outcome |-> Outcome(db'[i])]]
  BY DEF Record
<1>9. Record' = [i \in (DOMAIN Record \ Queue!Forgotten) \cup {created + 1} |->
                   IF i = created + 1
                   THEN [list |-> l, outcome |-> "accepted"]
                   ELSE Record[i]]
  BY <1>3, <1>6, <1>7, <1>8, RecordFacts
<1>10. QED  BY <1>4, <1>5, <1>9 DEF Queue!Accept

(* A save of an unfinished job cannot be seen, that of an outcome is Finish. *)
LEMMA SaveIsFinish ==
    ASSUME IInv, NEW j \in Job, j.id \in ActiveIn(db), db[j.id].list = j.list,
           Updated(j), UNCHANGED created
    PROVE  UNCHANGED <<Record, created>> \/ Queue!Next
<1>1. /\ DOMAIN db' = DOMAIN db
      /\ db'[j.id] = j
      /\ \A i \in DOMAIN db \ {j.id} : db'[i] = db[i]
  BY PutAgain, RefreshJobsAssumption DEF Updated, IInv, TypeOK, ActiveIn
<1>2. CASE Active(j)
  <2>1. Outcome(j) = Outcome(db[j.id])  BY <1>2 DEF Outcome, ActiveIn
  <2>2. Record' = Record  BY <1>1, <2>1, SameRecord
  <2>3. QED  BY <2>2
<1>3. CASE ~Active(j)
  <2>1. j.id \in Queue!Accepted  BY RecordSplit DEF IInv, TypeOK
  <2>2. Outcome(j) = j.status /\ j.status \in {"succeeded", "failed"}
    BY <1>3 DEF Outcome, Active, Job
  <2>3. Record' = [i \in DOMAIN db' |-> [list |-> db'[i].list, outcome |-> Outcome(db'[i])]]
    BY DEF Record
  <2>4. Record' = [Record EXCEPT ![j.id].outcome = j.status]
    <3>1. [Record EXCEPT ![j.id].outcome = j.status]
             = [i \in DOMAIN Record |->
                  IF i = j.id THEN [Record[i] EXCEPT !.outcome = j.status] ELSE Record[i]]
      OBVIOUS
    <3>2. \A i \in DOMAIN db \ {j.id} : [list |-> db'[i].list, outcome |-> Outcome(db'[i])] = Record[i]
      BY <1>1, RecordFacts
    <3>3. [list |-> db'[j.id].list, outcome |-> Outcome(db'[j.id])]
             = [Record[j.id] EXCEPT !.outcome = j.status]
      BY <1>1, <2>2, RecordFacts DEF ActiveIn
    <3>4. QED  BY <1>1, <2>3, <3>1, <3>2, <3>3, RecordFacts
  <2>5. Queue!Finish(j.id, j.status)  BY <2>1, <2>4 DEF Queue!Finish
  <2>6. QED  BY <2>1, <2>2, <2>5 DEF Queue!Next
<1>4. QED  BY <1>2, <1>3

(* What the worker holds is the row on disk until its outcome is there.    *)
LEMMA WorkerImplements ==
    ASSUME IInv, Worker, faults' = 0
    PROVE  UNCHANGED <<Record, created>> \/ Queue!Next
<1>1. faults = 0 /\ \A j : ~UpdateFailed(j)
  BY DEF IInv, TypeOK, Worker, WorkerWaits, WorkerTakes, WorkerBegins, WorkerRefreshes,
         WorkerSavesResult, WorkerReloads, WorkerStops, WorkerConcludes, WorkerFinishes,
         WorkerFails, WorkerFailsInMemory, UpdateFailed, Updated, Fault
<1>2. CASE WorkerBegins \/ WorkerSavesResult \/ WorkerStops \/ WorkerFinishes \/ WorkerFails
  <2>1. process = "up" /\ Holding /\ UNCHANGED created
    BY <1>2 DEF WorkerBegins, WorkerSavesResult, WorkerStops, WorkerFinishes, WorkerFails,
                At, Holding
  <2>2. /\ job \in Job /\ job.id \in ActiveIn(jobs) /\ jobs[job.id].list = job.list
        /\ jobs = db
    BY <1>1, <2>1 DEF IInv, HeldInv, MemoryMatchesDisk
  <2>3. CASE WorkerStops
    <3>1. Queued(job) \in Job /\ Queued(job).id = job.id /\ Queued(job).list = job.list
      BY <2>2, QueuedFacts
    <3>2. Updated(Queued(job))  BY <1>1, <2>3 DEF WorkerStops
    <3>3. QED  BY <2>1, <2>2, <3>1, <3>2, SaveIsFinish
  <2>4. CASE ~WorkerStops
    <3>1. Updated(job)
      BY <1>1, <1>2, <2>4 DEF WorkerBegins, WorkerSavesResult, WorkerFinishes, WorkerFails
    <3>2. QED  BY <2>1, <2>2, <3>1, SaveIsFinish
  <2>5. QED  BY <2>3, <2>4
<1>3. CASE WorkerFailsInMemory
  BY <1>1, <1>3 DEF WorkerFailsInMemory, At, IInv, HeldInv, TypeOK
<1>4. CASE UNCHANGED <<db, created>>
  BY <1>4 DEF Record
<1>5. QED
  BY <1>2, <1>3, <1>4
     DEF Worker, WorkerWaits, WorkerTakes, WorkerRefreshes, WorkerReloads, WorkerConcludes

LEMMA StepImplements ==
    ASSUME IInv, [Next]_vars, faults' = 0
    PROVE  UNCHANGED <<Record, created>> \/ Queue!Next
<1>1. CASE Start
  BY <1>1, StartUnseen DEF Start
<1>2. CASE StartFails
  BY <1>2 DEF StartFails, Fault, IInv, TypeOK
<1>3. ASSUME NEW l \in Lists, Submit(l)
      PROVE  UNCHANGED <<Record, created>> \/ Queue!Next
  <2>1. CASE SubmitReuses(l)
    BY <2>1 DEF SubmitReuses, Record
  <2>2. CASE SubmitAccepts(l)
    <3>1. faults = 0  BY <2>2 DEF SubmitAccepts
    <3>2. QED  BY <2>2, <3>1, SubmitIsAccept DEF Queue!Next
  <2>3. CASE SubmitCannotEvict(l) \/ SubmitCannotSave(l)
    BY <2>3 DEF SubmitCannotEvict, SubmitCannotSave, Fault, IInv, TypeOK
  <2>4. QED  BY <1>3, <2>1, <2>2, <2>3 DEF Submit
<1>4. CASE Worker
  BY <1>4, WorkerImplements
<1>5. CASE Cancel \/ Exit \/ UNCHANGED vars
  BY <1>5 DEF Cancel, Exit, vars, Record
<1>6. QED  BY <1>1, <1>2, <1>3, <1>4, <1>5 DEF Next

(* The queue keeps its promises: its two limits, one unfinished job per    *)
(* list, the eviction of the oldest finished record only and of none while *)
(* there is room, one outcome per job, over crashes and restarts.          *)
THEOREM QueueImplemented == Spec => ImplementsQueue
<1>1. Init => Queue!Init
  BY DEF Init, Queue!Init, Record, EmptyMap
<1>2. IInv /\ [Next]_vars => [faults' = 0 => Queue!Next]_<<Record, created>>
  BY StepImplements
<1>3. QED  BY <1>1, <1>2, InductiveInvariant, PTL DEF Spec, ImplementsQueue
=============================================================================
