----------------------------- MODULE AuditStore -----------------------------
(***************************************************************************)
(* What the audit database keeps (internal/audit/analytics.go and the      *)
(* writer of audit.go): detailed rows that age out, counters by action     *)
(* that do not, and the settings; and what a start copies from the         *)
(* database of an older version (CopyLegacyMetadata).                      *)
(*                                                                         *)
(* Handlers and the writer run concurrently, a statement or a transaction  *)
(* at a time.                                                              *)
(***************************************************************************)
EXTENDS AuditTime, Integers, FiniteSets

CONSTANTS
    Actions,
    LegacyTotals,     \* the counters of the older database
    LegacySettings,   \* and its settings
    Default,          \* the settings of a new database
    Retentions,       \* what the API sets: seconds, 0 to keep rows for ever
    Levels,
    CleanupBatch,     \* 5000 in the code
    Start, MaxTime,   \* bound the clock
    MaxEvents,        \* bounds the events
    MaxSaves,         \* bounds the changes of settings
    MaxRestarts,      \* bounds the restarts
    MaxFaults         \* bounds the failures of statements

(* The clock starts more than the longest retention after its origin.      *)
Settings == [retention : 0..Start, level : Int]

ASSUME AuditStoreAssumption ==
    /\ LegacyTotals \in [Actions -> Nat]
    /\ Start \in Nat \ {0} /\ MaxTime \in Nat
    /\ Retentions \subseteq 0..Start /\ Levels \subseteq Int
    /\ Default \in Settings /\ LegacySettings \in Settings
    /\ CleanupBatch \in Nat \ {0}

Cleaners == {"background", "manual"}

VARIABLES
    now,
    rows,     \* audit_events
    lastId,   \* the last id given to a row
    totals,   \* audit_action_totals; no row is 0
    settings, \* audit_settings, and whether updated_at is set
    cleaner,  \* the cleanups under way
    put,      \* a PUT of settings under way: what it read
    started,  \* an auditing process has been started
    restarts, faults, saves,
    inserted, \* history: the events ever inserted, by action
    carried,  \* history: how often the legacy counters were copied
    chosen    \* history: the settings last saved by a user

tables == <<rows, totals, settings>>
bounds == <<restarts, faults, saves>>
history == <<inserted, carried, chosen>>
vars == <<now, tables, lastId, cleaner, put, started, bounds, history>>

NoSettings == [retention |-> 0, level |-> -1]
Idle == [pc |-> "idle"]

Init ==
    /\ now = Start
    /\ rows = {} /\ lastId = 0
    /\ totals = [a \in Actions |-> 0]
    /\ settings = [value |-> Default, dated |-> FALSE]
    /\ cleaner = [c \in Cleaners |-> Idle]
    /\ put = NoSettings
    /\ started = FALSE
    /\ restarts = 0 /\ faults = 0 /\ saves = 0
    /\ inserted = [a \in Actions |-> 0]
    /\ carried = 0
    /\ chosen = NoSettings

Fault == faults < MaxFaults /\ faults' = faults + 1

-----------------------------------------------------------------------------
(* The settings are copied unless the row was ever saved.                  *)
copyLegacySettings ==
    settings' = IF settings.dated THEN settings ELSE [value |-> LegacySettings, dated |-> TRUE]

(* Mutant: the counters are added at every start.                          *)
copyLegacyActionTotalsAgain ==
    /\ totals' = [a \in Actions |-> totals[a] + LegacyTotals[a]]
    /\ carried' = 1

(* The counters are copied into an empty table only, in one transaction.   *)
copyLegacyActionTotals ==
    IF \E a \in Actions : totals[a] > 0
    THEN UNCHANGED <<totals, carried>>
    ELSE totals' = LegacyTotals /\ carried' = carried + 1

(* A start.  An error ends the copy, not the start: auditing goes on.      *)
Restart ==
    /\ restarts < MaxRestarts
    /\ restarts' = restarts + 1
    /\ cleaner' = [c \in Cleaners |-> Idle]
    /\ put' = NoSettings
    /\ started' = TRUE
    /\ \/ copyLegacySettings /\ copyLegacyActionTotals /\ UNCHANGED faults
       \/ /\ Fault
          /\ \/ UNCHANGED settings
             \/ copyLegacySettings
          /\ UNCHANGED <<totals, carried>>
    /\ UNCHANGED <<now, rows, lastId, saves, inserted, chosen>>

-----------------------------------------------------------------------------
Count(batch, a) == Cardinality({k \in DOMAIN batch : batch[k].action = a})

incrementActionTotals(batch) == totals' = [a \in Actions |-> totals[a] + Count(batch, a)]

(* insertBatch: events, recorded a little earlier, and their counters, in  *)
(* one transaction.  One that fails leaves no trace here.                  *)
insertBatch(batch) ==
    /\ started
    /\ lastId + Len(batch) <= MaxEvents
    /\ lastId' = lastId + Len(batch)
    /\ rows' = rows \cup {[id |-> lastId + k, at |-> batch[k].at] : k \in DOMAIN batch}
    /\ incrementActionTotals(batch)
    /\ inserted' = [a \in Actions |-> inserted[a] + Count(batch, a)]
    /\ UNCHANGED <<now, settings, cleaner, put, started, bounds, carried, chosen>>

Batches ==
    LET Events == [action : Actions, at : {now - 1, now}]
    IN  {<<e>> : e \in Events} \cup {<<e, f>> : e, f \in Events}

-----------------------------------------------------------------------------
(* A cleanup: the settings are read, then rows deleted by them, the oldest *)
(* first; by the writer one batch an hour, by the API all there is.        *)
Begin(c) ==
    /\ started
    /\ cleaner[c].pc = "idle"
    /\ cleaner' = [cleaner EXCEPT ![c] =
          [pc |-> "delete", retention |-> settings.value.retention, at |-> now]]
    /\ UNCHANGED <<now, tables, lastId, put, started, bounds, history>>

Cutoff(c) == cleaner[c].at - cleaner[c].retention

Older(e, f) == Before(e.at, f.at) \/ (e.at = f.at /\ e.id < f.id)

(* The first rows before the cutoff, as text.                              *)
Expired(c) ==
    LET old == {e \in rows : Before(e.at, Cutoff(c))}
    IN  {e \in old : Cardinality({f \in old : Older(f, e)}) < CleanupBatch}

(* Mutant: no retention deletes everything instead of nothing.             *)
cleanupOlderThanNothing(c) ==
    /\ cleaner[c].pc = "delete"
    /\ rows' = rows \ Expired(c)
    /\ cleaner' = [cleaner EXCEPT ![c] =
          IF c = "manual" /\ Cardinality(Expired(c)) = CleanupBatch THEN @ ELSE Idle]
    /\ UNCHANGED <<now, totals, settings, lastId, put, started, bounds, history>>

cleanupOlderThan(c) ==
    /\ cleaner[c].pc = "delete"
    /\ IF cleaner[c].retention <= 0
       THEN cleaner' = [cleaner EXCEPT ![c] = Idle] /\ UNCHANGED rows
       ELSE /\ rows' = rows \ Expired(c)
            /\ cleaner' = [cleaner EXCEPT ![c] =
                  IF c = "manual" /\ Cardinality(Expired(c)) = CleanupBatch THEN @ ELSE Idle]
    /\ UNCHANGED <<now, totals, settings, lastId, put, started, bounds, history>>

(* Mutant: a failed cleanup is the last.                                   *)
CleanupFailsForGood(c) ==
    /\ cleaner[c].pc = "delete"
    /\ Fault
    /\ cleaner' = [cleaner EXCEPT ![c].pc = "failed"]
    /\ UNCHANGED <<now, tables, lastId, put, started, restarts, saves, history>>

CleanupFails(c) ==
    /\ cleaner[c].pc = "delete"
    /\ Fault
    /\ cleaner' = [cleaner EXCEPT ![c] = Idle]
    /\ UNCHANGED <<now, tables, lastId, put, started, restarts, saves, history>>

-----------------------------------------------------------------------------
(* PUT of the settings: the handler reads them, decodes the body, writes   *)
(* back what it read with the fields of the body.                          *)
ReadSettings ==
    /\ started
    /\ put = NoSettings
    /\ saves < MaxSaves
    /\ put' = settings.value
    /\ UNCHANGED <<now, tables, lastId, cleaner, started, bounds, history>>

SetSettings ==
    /\ put # NoSettings
    /\ \E value \in {[put EXCEPT !.retention = r] : r \in Retentions}
                   \cup {[put EXCEPT !.level = l] : l \in Levels} :
          /\ settings' = [value |-> value, dated |-> TRUE]
          /\ chosen' = value
    /\ put' = NoSettings
    /\ saves' = saves + 1
    /\ UNCHANGED <<now, rows, totals, lastId, cleaner, started, restarts, faults, inserted, carried>>

Tick == now < MaxTime /\ now' = now + 1 /\ UNCHANGED <<tables, lastId, cleaner, put, started, bounds, history>>

Cleanup(c) == Begin(c) \/ cleanupOlderThan(c) \/ CleanupFails(c)

Next ==
    \/ Restart \/ Tick \/ ReadSettings \/ SetSettings
    \/ \E batch \in Batches : insertBatch(batch)
    \/ \E c \in Cleaners : Cleanup(c)

Spec == Init /\ [][Next]_vars

(* The writer's ticker comes round, and its statements return.             *)
CleanupFair == Spec /\ WF_vars(Cleanup("background"))

-----------------------------------------------------------------------------
TypeOK ==
    /\ now \in Nat /\ now >= Start
    /\ rows \subseteq [id : Nat, at : Nat] /\ lastId \in Nat
    /\ totals \in [Actions -> Nat]
    /\ settings \in [value : Settings, dated : BOOLEAN]
    /\ cleaner \in [Cleaners ->
          {Idle} \cup [pc : {"delete"}, retention : 0..Start, at : {t \in Nat : t >= Start}]]
    /\ put \in Settings
    /\ started \in BOOLEAN
    /\ restarts \in Nat /\ faults \in Nat /\ saves \in Nat
    /\ inserted \in [Actions -> Nat] /\ carried \in Nat
    /\ chosen \in Settings

(* The counters count every event ever inserted, whatever became of its    *)
(* row, and those of the older database once: at most, when a start failed *)
(* to copy them, for later ones no longer do when events came first.  To   *)
(* copy a table without rows again changes nothing.                        *)
TotalsCountEverything ==
    /\ (\E a \in Actions : LegacyTotals[a] > 0) => carried <= 1
    /\ started /\ faults = 0 => carried >= 1
    /\ \A a \in Actions : totals[a] = inserted[a] + carried * LegacyTotals[a]

(* What a user saved stays, over restarts and the copy of older settings.  *)
ChosenSettingsStand == chosen # NoSettings => settings.value = chosen

(* What the database has counted, and what a user has chosen, stay.        *)
StoreKeepsCount == TotalsCountEverything /\ ChosenSettingsStand

(* A cleanup deletes a row only if it is not younger, in whole seconds,    *)
(* than the retention it read, and none when that is 0.                    *)
CleanupKeepsYoung ==
    [][\A e \in rows \ rows' : \E c \in Cleaners :
         /\ cleaner[c].pc = "delete"
         /\ cleaner[c].retention > 0
         /\ SecondOf(e.at) <= SecondOf(Cutoff(c))]_vars

(* A row whose time is over, by seconds, goes, failed cleanups and a full  *)
(* batch notwithstanding.                                                  *)
OverdueRow(id) ==
    /\ settings.value.retention > 0
    /\ \E e \in rows :
          e.id = id /\ SecondOf(e.at) < SecondOf(now - settings.value.retention)

OverdueRowsGo == \A id \in 1..MaxEvents : OverdueRow(id) ~> ~OverdueRow(id)
=============================================================================
