----------------------------- MODULE Migrations -----------------------------
(***************************************************************************)
(* The migrations of the audit database (internal/storage/storage.go), by  *)
(* processes that may start at the same time on a file of an older         *)
(* release, crash between any two steps and start again, and that insert,  *)
(* clean up and change the retention once they run.                        *)
(*                                                                         *)
(* A transaction of SQLite reads the file as it was at its first read.     *)
(* Its first write takes the one write lock, and fails when the file has   *)
(* been written since that read.                                           *)
(***************************************************************************)
EXTENDS Integers, Sequences

CONSTANTS
    Processes,
    Default,    \* defaultAuditRetentionNS
    MaxOld,     \* bounds the rows and counters of the older file
    MaxEvents,  \* bounds the events
    MaxCrashes, \* bounds the crashes and stops
    None

MigrationsAssumption ==
    /\ Default \in Nat \ {0} /\ MaxOld \in Nat /\ MaxEvents \in Nat /\ MaxCrashes \in Nat
    /\ None \notin Nat /\ None \notin Processes

VARIABLES
    db,       \* the file
    writer,   \* who holds its write lock
    pc, k,    \* of a process: where it is, and at which migration
    work,     \* of a process: what its transaction has written
    stale,    \* of a process: whether the file was written since it read
    crashes,
    events,   \* history: the events ever recorded in the file
    chosen    \* history: the retention last chosen under this release

vars == <<db, writer, pc, k, work, stale, crashes, events, chosen>>

auditMigrations == <<1, 6, 8, 9, 10, 12, 13>>
Versions == {auditMigrations[i] : i \in DOMAIN auditMigrations}
Oldest(n) == {auditMigrations[i] : i \in 1..n}

-----------------------------------------------------------------------------
(* What a migration finds missing, or there already, makes it fail: only   *)
(* ADD COLUMN has no IF NOT EXISTS.                                        *)
Needs(v) ==
    CASE v \in {8, 9, 10} -> {"audit_events"}
      [] v = 12 -> {"audit_events", "upstream_columns"}
      [] v = 13 -> {"audit_settings"}
      [] OTHER -> {}

Fails(v, d) == ~(Needs(v) \subseteq d.objects) \/ (v = 10 /\ "upstream_columns" \in d.objects)

With(d, object) == [d EXCEPT !.objects = @ \cup {object}]

CreateSettings(d) ==
    IF d.retention = None THEN [With(d, "audit_settings") EXCEPT !.retention = Default] ELSE d

CreateActionTotals(d) == [With(d, "audit_action_totals") EXCEPT !.totals = d.rows]

BoundRetention(d) == IF d.retention = 0 THEN [d EXCEPT !.retention = Default] ELSE d

Apply(v, d) ==
    CASE v = 1 -> With(d, "audit_events")
      [] v = 6 -> CreateSettings(d)
      [] v = 8 -> With(d, "query_indexes")
      [] v = 9 -> CreateActionTotals(d)
      [] v = 10 -> With(d, "upstream_columns")
      [] v = 12 -> With(d, "summary_indexes")
      [] v = 13 -> BoundRetention(d)

Done(v) ==
    CASE v = 1 -> {"audit_events"}
      [] v = 6 -> {"audit_settings"}
      [] v = 8 -> {"query_indexes"}
      [] v = 9 -> {"audit_action_totals"}
      [] v = 10 -> {"upstream_columns"}
      [] v = 12 -> {"summary_indexes"}
      [] OTHER -> {}

(* A file of the release that stopped at migration n, with what it held.   *)
Files ==
    {[applied |-> Oldest(n), objects |-> UNION {Done(v) : v \in Oldest(n)},
      rows |-> r, totals |-> IF 9 \in Oldest(n) THEN e ELSE 0,
      retention |-> IF 6 \in Oldest(n) THEN x ELSE None] :
         n \in 0..Len(auditMigrations), r \in 0..MaxOld, e \in 0..MaxOld, x \in {0, Default}}

Init ==
    /\ db \in {f \in Files : f.rows > 0 => 1 \in f.applied}
    /\ events = IF 9 \in db.applied THEN db.totals ELSE db.rows
    /\ db.rows <= events
    /\ writer = None
    /\ pc = [p \in Processes |-> "off"] /\ k = [p \in Processes |-> 1]
    /\ work = [p \in Processes |-> None]
    /\ stale = [p \in Processes |-> FALSE]
    /\ crashes = 0
    /\ chosen = None

-----------------------------------------------------------------------------
At(p) == auditMigrations[k[p]]

(* The file is written in one piece, under the write lock.                 *)
Write(d) ==
    /\ db' = d
    /\ stale' = [p \in Processes |-> TRUE]

Start(p) ==
    /\ pc[p] = "off"
    /\ pc' = [pc EXCEPT ![p] = "check"] /\ k' = [k EXCEPT ![p] = 1]
    /\ UNCHANGED <<db, writer, work, stale, crashes, events, chosen>>

Onwards(p) ==
    /\ pc' = [pc EXCEPT ![p] = IF k[p] = Len(auditMigrations) THEN "running" ELSE "check"]
    /\ k' = [k EXCEPT ![p] = IF @ = Len(auditMigrations) THEN @ ELSE @ + 1]

(* The open fails, and the process serves without auditing.                *)
Fail(p) ==
    /\ pc' = [pc EXCEPT ![p] = "failed"]
    /\ work' = [work EXCEPT ![p] = None]
    /\ UNCHANGED <<db, k, stale, crashes, events, chosen>>

(* The transaction begins with the question whether the marker is there.   *)
checkMigration(p) ==
    /\ pc[p] = "check"
    /\ stale' = [stale EXCEPT ![p] = FALSE]
    /\ IF At(p) \in db.applied
       THEN Onwards(p)
       ELSE pc' = [pc EXCEPT ![p] = "write"] /\ UNCHANGED k
    /\ UNCHANGED <<db, writer, work, crashes, events, chosen>>

(* The statements, up to the marker, or an error that rolls them back.     *)
writeMigration(p) ==
    /\ pc[p] = "write"
    /\ \/ /\ writer = None /\ ~stale[p] /\ ~Fails(At(p), db)
          /\ writer' = p
          /\ work' = [work EXCEPT ![p] = Apply(At(p), db)]
          /\ pc' = [pc EXCEPT ![p] = "commit"]
          /\ UNCHANGED <<db, k, stale, crashes, events, chosen>>
       \/ /\ writer # None \/ stale[p] \/ Fails(At(p), db)
          /\ Fail(p)
          /\ UNCHANGED writer

(* Mutant: the marker has a transaction of its own.                        *)
commitTwice(p) ==
    /\ pc[p] = "commit"
    /\ writer' = None
    /\ work' = [work EXCEPT ![p] = None]
    /\ \/ Write([work[p] EXCEPT !.applied = @ \cup {At(p)}]) /\ Onwards(p)
       \/ Write(work[p]) /\ pc' = [pc EXCEPT ![p] = "off"] /\ UNCHANGED k
    /\ UNCHANGED <<crashes, events, chosen>>

(* Statements and marker reach the file together.                          *)
commitMigration(p) ==
    /\ pc[p] = "commit"
    /\ Write([work[p] EXCEPT !.applied = @ \cup {At(p)}])
    /\ Onwards(p)
    /\ writer' = None
    /\ work' = [work EXCEPT ![p] = None]
    /\ UNCHANGED <<crashes, events, chosen>>

(* A crash, or a stop of a process that runs.                              *)
Crash(p) ==
    /\ pc[p] # "off"
    /\ crashes < MaxCrashes
    /\ crashes' = crashes + 1
    /\ pc' = [pc EXCEPT ![p] = "off"]
    /\ work' = [work EXCEPT ![p] = None]
    /\ writer' = IF writer = p THEN None ELSE writer
    /\ UNCHANGED <<db, k, stale, events, chosen>>

-----------------------------------------------------------------------------
Unlocked(p) == pc[p] = "running" /\ writer = None

Insert(p) ==
    /\ Unlocked(p)
    /\ events < MaxEvents
    /\ events' = events + 1
    /\ Write([db EXCEPT !.rows = @ + 1, !.totals = @ + 1])
    /\ UNCHANGED <<writer, pc, k, work, crashes, chosen>>

Cleanup(p) ==
    /\ Unlocked(p)
    /\ db.retention # 0 /\ db.rows > 0
    /\ Write([db EXCEPT !.rows = @ - 1])
    /\ UNCHANGED <<writer, pc, k, work, crashes, events, chosen>>

Choose(p) ==
    /\ Unlocked(p)
    /\ \E x \in {0, Default} : Write([db EXCEPT !.retention = x]) /\ chosen' = x
    /\ UNCHANGED <<writer, pc, k, work, crashes, events>>

Migrate(p) == checkMigration(p) \/ writeMigration(p) \/ commitMigration(p)

Next ==
    \E p \in Processes :
        \/ Start(p) \/ Migrate(p) \/ Crash(p)
        \/ Insert(p) \/ Cleanup(p) \/ Choose(p)

Spec == Init /\ [][Next]_vars

-----------------------------------------------------------------------------
Objects == UNION {Done(v) : v \in Versions}

Stored == [applied : SUBSET Versions, objects : SUBSET Objects, rows : Nat, totals : Nat,
           retention : {None, 0, Default}]

TypeOK ==
    /\ db \in Stored /\ writer \in Processes \cup {None}
    /\ pc \in [Processes -> {"off", "check", "write", "commit", "running", "failed"}]
    /\ k \in [Processes -> DOMAIN auditMigrations]
    /\ work \in [Processes -> Stored \cup {None}] /\ stale \in [Processes -> BOOLEAN]
    /\ crashes \in Nat /\ events \in Nat /\ chosen \in {None, 0, Default}

(* A migration that is recorded is there, with all that came before it,    *)
(* and one that is not recorded has left nothing (applyMigration).         *)
RecordedIsDone ==
    /\ \E n \in 0..Len(auditMigrations) : db.applied = Oldest(n)
    /\ db.objects = UNION {Done(v) : v \in db.applied}
    /\ 6 \in db.applied <=> db.retention # None

(* The counters have every event ever recorded, also those cleaned up      *)
(* since: the backfill of version 9 never runs a second time.              *)
TotalsSurvive == 9 \in db.applied => db.totals = events

(* Retention switched off under this release stays off: version 13 is for  *)
(* the files of older ones.                                                *)
ChosenRetentionStands == chosen # None => db.retention = chosen

(* Only a file that another process writes meanwhile fails to open: no     *)
(* crash leaves one that cannot be migrated on.                            *)
AloneNeverFails ==
    \A p \in Processes :
        pc[p] = "write" /\ Fails(At(p), db) => stale[p]

(* An upgrade that is interrupted anywhere, or done by two processes,      *)
(* loses nothing and can go on.                                            *)
UpgradesKeepData ==
    /\ RecordedIsDone /\ AloneNeverFails
    /\ TotalsSurvive /\ ChosenRetentionStands
=============================================================================
