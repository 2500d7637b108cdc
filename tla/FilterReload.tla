---------------------------- MODULE FilterReload ----------------------------
(***************************************************************************)
(* Applying the filter tables to the DNS runtime.                          *)
(*                                                                         *)
(* Admin requests, the refresh worker and the startup loader all call      *)
(* runtimeBlocklistReloader.Reload (internal/app/app.go): under one mutex  *)
(* it reads the list entries and installs a new matcher, then reads the    *)
(* rules and the clients and installs a new rule snapshot, then installs   *)
(* the decider.  DNS queries read the three pointers without the mutex.    *)
(*                                                                         *)
(* The contents of the tables are abstracted to version numbers, one for   *)
(* each part that Reload reads separately.  The clients and their groups   *)
(* are read by a sequence of statements; their version stands for the      *)
(* first of them, the oldest content any of them can return.               *)
(***************************************************************************)
EXTENDS Naturals

CONSTANTS
    Requests,   \* connections of admin clients
    Worker,     \* the refresh job worker
    Loader,     \* the "filtering" loader of startPlugin
    Queries,    \* DNS queries answered at the same time
    NoCaller,
    MaxEdits,   \* bound: committed edits in a behaviour
    MaxGone,    \* bound: contexts that end in a behaviour
    MaxFaults   \* bound: reads and saves that fail in a behaviour

Callers == Requests \cup {Worker, Loader}

ASSUME FilterReloadAssumption ==
    /\ Worker \notin Requests
    /\ Loader \notin Requests \cup {Worker}
    /\ NoCaller \notin Callers
    /\ MaxEdits \in Nat
    /\ MaxGone \in Nat
    /\ MaxFaults \in Nat

VARIABLES
    table,      \* the committed version of each part
    pc,         \* where each caller is
    mu,         \* who holds runtimeBlocklistReloader.mu
    gone,       \* the callers whose context has ended
    loaded,     \* what each caller has read for its reload
    matcher,    \* Manager.current: the version of the entries it matches
    snapshot,   \* RuleDecider.current: the versions of rules and clients
    decider,    \* what the runtime decides with
    query,      \* the DNS queries in flight
    edits,      \* edits committed so far
    ends,       \* contexts ended so far
    faults,     \* reads and saves failed so far
    wants,      \* history: what was committed when each caller called Reload
    acked,      \* history: what successful reloads have promised
    before,     \* history: the matcher when the present reload began
    failed,     \* history: a reload has failed
    skipped     \* history: the parts edited without a reload since the last call of one

served == <<matcher, snapshot, decider>>
bounds == <<edits, ends, faults>>
vars == <<table, pc, mu, gone, loaded, served, query, bounds, wants, acked,
          before, failed, skipped>>

-----------------------------------------------------------------------------
Parts == {"entries", "rules", "clients"}
Versions == [Parts -> 0 .. MaxEdits]
Zero == [p \in Parts |-> 0]

Covers(v, w) == \A p \in Parts : w[p] <= v[p]
Latest(v, w) == [p \in Parts |-> IF v[p] < w[p] THEN w[p] ELSE v[p]]

Goto(c, label) == pc' = [pc EXCEPT ![c] = label]
At(c, label) == pc[c] = label

NoQuery == [at |-> "none", floor |-> Zero, used |-> Zero]

Init ==
    /\ table = Zero
    /\ pc = [c \in Callers |-> IF c = Loader THEN "waiting" ELSE "idle"]
    /\ mu = NoCaller
    /\ gone = {}
    /\ loaded = [c \in Callers |-> Zero]
    /\ matcher = 0
    /\ snapshot = [p \in {"rules", "clients"} |-> 0]
    /\ decider = "AllowAll"
    /\ query = [q \in Queries |-> NoQuery]
    /\ edits = 0
    /\ ends = 0
    /\ faults = 0
    /\ wants = [c \in Callers |-> Zero]
    /\ acked = Zero
    /\ before = 0
    /\ failed = FALSE
    /\ skipped = {}

(* The worker's edit is ReplaceListEntries.                                *)
Commit(c, p) ==
    /\ At(c, "idle")
    /\ c # Loader
    /\ c = Worker => p = "entries"
    /\ c \notin gone
    /\ edits < MaxEdits
    /\ edits' = edits + 1
    /\ table' = [table EXCEPT ![p] = @ + 1]

(* A handler commits its edit and calls Reload with the request's context. *)
Edit(c, p) ==
    /\ Commit(c, p)
    /\ wants' = [wants EXCEPT ![c] = table']
    /\ skipped' = {}
    /\ Goto(c, "waiting")
    /\ UNCHANGED <<mu, gone, loaded, served, query, ends, faults, acked, before, failed>>

(* The edit is committed, but reading the row back fails, or, for the      *)
(* worker, saving the job's next phase: the caller reports an error and    *)
(* calls no Reload.                                                        *)
EditReportsError(c, p) ==
    /\ Commit(c, p)
    /\ faults < MaxFaults
    /\ faults' = faults + 1
    /\ skipped' = skipped \cup {p}
    /\ UNCHANGED <<pc, mu, gone, loaded, served, query, ends, wants, acked, before, failed>>

(* A client disconnects, or the process is told to stop, in the middle of  *)
(* a request.  Another connection takes the place of a client's.           *)
End(c) ==
    /\ ~At(c, "idle")
    /\ c \notin gone
    /\ ends < MaxGone
    /\ ends' = ends + 1
    /\ gone' = gone \cup {c}
    /\ UNCHANGED <<table, pc, mu, loaded, served, query, edits, faults, wants,
                   acked, before, failed, skipped>>

Left(c) == IF c \in Requests THEN gone \ {c} ELSE gone

-----------------------------------------------------------------------------
(* Mutant: an error path without the Unlock.                               *)
FailLocked(c) ==
    /\ Goto(c, "idle")
    /\ gone' = Left(c)
    /\ loaded' = [loaded EXCEPT ![c] = Zero]
    /\ failed' = TRUE
    /\ UNCHANGED <<table, mu, served, query, edits, ends, wants, acked, before, skipped>>

(* Reload returns an error, and its deferred Unlock runs.                  *)
Fail(c) ==
    /\ Goto(c, "idle")
    /\ mu' = NoCaller
    /\ gone' = Left(c)
    /\ loaded' = [loaded EXCEPT ![c] = Zero]
    /\ failed' = TRUE
    /\ UNCHANGED <<table, served, query, edits, ends, wants, acked, before, skipped>>

(* Every read looks at the context first, and can fail by itself.          *)
ReadFails(c) ==
    /\ \/ c \in gone /\ UNCHANGED faults
       \/ faults < MaxFaults /\ faults' = faults + 1
    /\ Fail(c)

Read(c, p) ==
    /\ c \notin gone
    /\ loaded' = [loaded EXCEPT ![c][p] = table[p]]
    /\ UNCHANGED <<table, mu, gone, served, query, bounds, wants, acked, before, failed, skipped>>

(* Mutants: no mutex; a reload under way answers the callers that wait.    *)
LockFree(c) ==
    /\ At(c, "waiting")
    /\ mu' = c
    /\ before' = matcher
    /\ Goto(c, "locked")
    /\ UNCHANGED <<table, gone, loaded, served, query, bounds, wants, acked, failed, skipped>>

LockOrJoin(c) ==
    /\ At(c, "waiting")
    /\ IF mu = NoCaller
       THEN mu' = c /\ before' = matcher /\ Goto(c, "locked") /\ UNCHANGED acked
       ELSE Goto(c, "idle") /\ acked' = Latest(acked, wants[c]) /\ UNCHANGED <<mu, before>>
    /\ UNCHANGED <<table, gone, loaded, served, query, bounds, wants, failed, skipped>>

Lock(c) ==
    /\ At(c, "waiting")
    /\ mu = NoCaller
    /\ mu' = c
    /\ before' = matcher
    /\ Goto(c, "locked")
    /\ UNCHANGED <<table, gone, loaded, served, query, bounds, wants, acked, failed, skipped>>

(* ctx.Err() under the mutex, then manager.Reload up to its store.         *)
ReadEntries(c) ==
    /\ At(c, "locked")
    /\ \/ Read(c, "entries") /\ Goto(c, "store")
       \/ ReadFails(c)

StoreMatcher(c) ==
    /\ At(c, "store")
    /\ matcher' = loaded[c]["entries"]
    /\ Goto(c, "rules")
    /\ UNCHANGED <<table, mu, gone, loaded, snapshot, decider, query, bounds,
                   wants, acked, before, failed, skipped>>

(* RuleDecider.Reload: the rules, then the clients, then one store.        *)
ReadRules(c) ==
    /\ At(c, "rules")
    /\ \/ Read(c, "rules") /\ Goto(c, "clients")
       \/ ReadFails(c)

ReadClients(c) ==
    /\ At(c, "clients")
    /\ \/ Read(c, "clients") /\ Goto(c, "snapshot")
       \/ ReadFails(c)

(* Mutant: the client memberships are read and then left out.              *)
StoreRulesOnly(c) ==
    /\ At(c, "snapshot")
    /\ snapshot' = [snapshot EXCEPT !["rules"] = loaded[c]["rules"]]
    /\ Goto(c, "decider")
    /\ UNCHANGED <<table, mu, gone, loaded, matcher, decider, query, bounds,
                   wants, acked, before, failed, skipped>>

StoreSnapshot(c) ==
    /\ At(c, "snapshot")
    /\ snapshot' = [p \in {"rules", "clients"} |-> loaded[c][p]]
    /\ Goto(c, "decider")
    /\ UNCHANGED <<table, mu, gone, loaded, matcher, decider, query, bounds,
                   wants, acked, before, failed, skipped>>

(* Mutant: the decider is never installed.                                 *)
SucceedQuietly(c) ==
    /\ At(c, "decider")
    /\ mu' = NoCaller
    /\ Goto(c, "idle")
    /\ gone' = Left(c)
    /\ loaded' = [loaded EXCEPT ![c] = Zero]
    /\ acked' = Latest(acked, wants[c])
    /\ UNCHANGED <<table, served, query, bounds, wants, before, failed, skipped>>

(* SetDecider, the deferred Unlock, and the answer to the caller.          *)
Succeed(c) ==
    /\ At(c, "decider")
    /\ decider' = "rules"
    /\ mu' = NoCaller
    /\ Goto(c, "idle")
    /\ gone' = Left(c)
    /\ loaded' = [loaded EXCEPT ![c] = Zero]
    /\ acked' = Latest(acked, wants[c])
    /\ UNCHANGED <<table, matcher, snapshot, query, bounds, wants, before, failed, skipped>>

Reload(c) ==
    \/ Lock(c)
    \/ ReadEntries(c)
    \/ StoreMatcher(c)
    \/ ReadRules(c)
    \/ ReadClients(c)
    \/ StoreSnapshot(c)
    \/ Succeed(c)

-----------------------------------------------------------------------------
(* A query: the runtime's decider, then RuleDecider.Decide loads its       *)
(* snapshot and the matcher it falls back to.  Without a decider it is     *)
(* forwarded.  floor is what had been promised when the query arrived.  A  *)
(* query that a custom rule decides never looks at the matcher.            *)

Ask(q) ==
    /\ query[q].at = "none"
    /\ query' = [query EXCEPT ![q] =
                   [at    |-> IF decider = "rules" THEN "snapshot" ELSE "answered",
                    floor |-> acked,
                    used  |-> Zero]]

LoadSnapshot(q) ==
    /\ query[q].at = "snapshot"
    /\ query' = [query EXCEPT ![q].at = "matcher",
                              ![q].used["rules"] = snapshot["rules"],
                              ![q].used["clients"] = snapshot["clients"]]

LoadMatcher(q) ==
    /\ query[q].at = "matcher"
    /\ query' = [query EXCEPT ![q].at = "answered", ![q].used["entries"] = matcher]

Answer(q) ==
    /\ query[q].at = "answered"
    /\ query' = [query EXCEPT ![q] = NoQuery]

Query(q) ==
    /\ Ask(q) \/ LoadSnapshot(q) \/ LoadMatcher(q) \/ Answer(q)
    /\ UNCHANGED <<table, pc, mu, gone, loaded, served, bounds, wants, acked,
                   before, failed, skipped>>

Next ==
    \/ \E c \in Callers : Reload(c) \/ End(c)
    \/ \E c \in Callers, p \in Parts : Edit(c, p) \/ EditReportsError(c, p)
    \/ \E q \in Queries : Query(q)

Spec == Init /\ [][Next]_vars

(* Callers are goroutines the runtime schedules and their reads return;    *)
(* sync.Mutex hands itself to the longest waiter when one starves.         *)
FairSpec ==
    /\ Spec
    /\ \A c \in Callers : WF_vars(Reload(c)) /\ SF_vars(Lock(c))

-----------------------------------------------------------------------------
InService ==
    [p \in Parts |-> IF p = "entries" THEN matcher ELSE snapshot[p]]

TypeOK ==
    /\ table \in Versions
    /\ pc \in [Callers -> {"idle", "waiting", "locked", "store", "rules", "clients",
                           "snapshot", "decider"}]
    /\ mu \in Callers \cup {NoCaller}
    /\ gone \subseteq Callers
    /\ loaded \in [Callers -> Versions]
    /\ matcher \in 0 .. MaxEdits
    /\ snapshot \in [{"rules", "clients"} -> 0 .. MaxEdits]
    /\ decider \in {"AllowAll", "rules"}
    /\ query \in [Queries -> [at    : {"none", "snapshot", "matcher", "answered"},
                              floor : Versions,
                              used  : Versions]]
    /\ edits \in 0 .. MaxEdits
    /\ ends \in 0 .. MaxGone
    /\ faults \in 0 .. MaxFaults
    /\ wants \in [Callers -> Versions]
    /\ acked \in Versions
    /\ before \in 0 .. MaxEdits
    /\ failed \in BOOLEAN
    /\ skipped \subseteq Parts

(* A caller whose Reload returned nil finds its edit, and every edit       *)
(* committed before it, in service for good: "a job succeeds only after    *)
(* the new matcher is active", and overlapping reloads do not undo it.     *)
SuccessIsActive ==
    /\ Covers(InService, acked)
    /\ acked # Zero => decider = "rules"

(* A query that arrives after an edit was acknowledged is decided with it, *)
(* although it loads the three pointers while reloads replace them.        *)
QueryIsCurrent ==
    \A q \in Queries :
        query[q].at = "answered" => Covers(query[q].used, query[q].floor)

(* When no reload has failed and none is under way, the runtime decides by *)
(* exactly what is committed.  What an edit that was answered by an error  *)
(* before its reload has changed may be missing, until somebody calls      *)
(* Reload again: that brings it into service with everything else.         *)
QuietRuntimeIsCurrent ==
    ~failed /\ (\A c \in Callers : At(c, "idle")) =>
        /\ \A p \in Parts \ skipped : InService[p] = table[p]
        /\ decider = "rules"

(* No reload, successful or not, puts back an older version of any part.   *)
NeverBackwards == [][Covers(InService', InService)]_vars

(* Every call of Reload returns, whoever else is reloading.                *)
ReloadReturns == \A c \in Callers : ~At(c, "idle") ~> At(c, "idle")

(* README.md:21-23: "Ready plugins are installed atomically; reloads keep  *)
(* the previous working matcher active until the replacement is ready."    *)
(* The code installs the matcher before it reads the rules and clients, so *)
(* a reload that fails on those has installed half of the filtering plugin *)
(* and its caller is told that the reload failed.                          *)
FailedReloadKeepsMatcher ==
    [][\A c \in Callers : mu = c /\ Fail(c) => matcher = before]_vars
=============================================================================
