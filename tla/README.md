# Verification of corehole

TLA+ models of corehole, a DNS filter built on CoreDNS (Go), the TLC
configurations that check them and TLAPS proofs about them. Paths are relative
to the repository's root (`internal/...`) unless they name a module here.

## 1. The system

One process, `corehole serve` (`internal/app/app.go`), runs a CoreDNS instance
with a filtering plugin, an admin HTTP server, and background goroutines. State
lives in four SQLite databases (main, audit, jobs, sessions) and in a runtime of
atomic pointers that DNS queries read without locks.

| Component | State | Operations | Interacts with |
| --- | --- | --- | --- |
| Refresh job queue, `admin/filter_jobs.go` | map of jobs, FIFO queue, one-slot wake channel, worker goroutine, `refresh_jobs` table | Submit, Get, List, recovery, worker loop, Close | filter service (`RefreshList`), filter reload |
| Filter runtime reload, `app.runtimeBlocklistReloader`, `blocklist.Manager`, `filter.RuleDecider` | mutex; pointers to matcher, rule snapshot, decider; reload metadata | Reload; Decide | called by handlers, worker, startup loader; read by queries |
| Configuration and pause, `config/store.go`, `app.blockingRuntimeController`, `admin.configStoreManager`, `coreplugin.Runtime` | the one `app_config` row; pause, response mode | pause, resume, `PUT /api/config`, expiry, startup | CoreDNS reload, DNS queries |
| CoreDNS server, `coredns/server.go` | Caddy instance under a mutex | Start, Reload, Stop | configuration updates, shutdown |
| Filter repository and service, `internal/filter` | lists, entries, rules, clients, groups | CRUD, `RefreshList`, import transaction | job worker, handlers, reload |
| Decision, `filter/runtime.go`, `filter/service.go`, `blocklist/matcher.go` | immutable snapshots | Decide (runtime), Decide (preview API) | DNS plugin |
| Local DNS, `internal/localdns` | records table, resolver pointer | CRUD, reload, Resolve with CNAME chains | handlers, startup loader, queries |
| Audit sink, `audit/audit.go` | channel of 1024, batch of 100, drop counter, closed flag | Record, writer loop, Close, retention cleanup | DNS plugin, shutdown |
| Analytics, `audit/analytics.go`, `audit/summary_cache.go` | settings row, one cached summary with generation | queries, cleanup, cache get and invalidate | admin API |
| Sessions, users, API keys, `admin/session.go`, `store.go`, `api_key*.go` | sessions cached in memory over a table; users; keys | Create, Valid, Delete, legacy copy; first admin; key create, use, revoke | every authenticated request |
| Storage, `storage/storage.go` | databases, `schema_migrations` | open, migrate, close | everything persistent |
| DNS plugin, `internal/coreplugin` | the runtime's pointers | ServeDNS: pause, decision, local answer, audit | CoreDNS chain |
| Corefile, DNSSEC plugin, config validation, logging, console | none, or per query | pure functions, I/O | - |

Startup opens the databases, publishes fail-open defaults (`AllowAll`), starts
the job worker, then both listeners, then the two loaders ("filtering" and
"local_dns"). Shutdown cancels loaders and worker, then stops the admin and DNS
servers, all under one ten second deadline (`app.go:231-256`). The service
manager restarts the process when it fails (`docs/systemd.md`).

What is hard here:

* concurrency without one lock over it: the worker against requests; reloads
  against each other and against queries; read-change-write of a single row;
  load-then-clear of an expired pause; caches filled after a delete;
* failure in the middle: a save that fails, or that is reported failed after it
  has committed; a reload that stops half way; a client that disconnects after
  its edit is committed; a crash between two writes;
* bounds: the queue's two limits, the audit channel, the CNAME chain, 64-bit
  durations, the text form of times.

`PROJECT.json` lists each of these under "hazards" at its line, with the
properties that cover it. What makes each component correct is stated in
section 3.

## 2. Modules

| Module | What it is | Models |
| --- | --- | --- |
| `RefreshJobs` | detailed specification | `admin/filter_jobs.go`, with process start, stop and crash |
| `RefreshQueue` | abstract specification | what that queue promises: a durable record of jobs |
| `FilterReload` | detailed specification | `Reload`, its four kinds of callers, and the queries reading its pointers |
| `FilterTables` | operators | `filter/repository.go`: each statement or transaction, from tables to tables |
| `Blocklist` | operators | `internal/blocklist`: what a line of a file means, what a matcher decides |
| `FilterDecision` | operators, over the two above | the runtime's decision (`filter/runtime.go`) and the preview's (`Service.Decide`) |
| `FilterStore` | detailed specification, over `FilterDecision` | the handlers of `filter_api.go`, `RefreshList`, and what is in service after their reloads |
| `ConfigRuntime` | detailed specification | `app_config`, pause, configuration update, CoreDNS reload, restart, as interleaved steps |
| `Settings` | operators | configuration values: decoding, defaults, `Validate`, `applyConfigUpdate`, the CoreDNS server block |
| `Configuration` | detailed specification, over `Settings` | file, row, accepted updates, what of the process follows them, starts and what refuses them |
| `PauseRequest` | detailed specification | the times of a pause through their four formats, in arithmetic that wraps |
| `LocalRecords` | operators | `localdns/record.go` and `resolver.go`: what is saved, chains of aliases |
| `LocalDNS` | detailed specification, over `LocalRecords` | `customdns_api.go`, its reloads without a lock, the startup loader |
| `ServeDNS` | detailed specification | `Handler.ServeDNS`, one load of the runtime at a time, and the audit event |
| `DnssecUpstream` | detailed specification | `dnssec_upstream.go` behind the CoreDNS cache |
| `AuditSink` | detailed specification | `SQLiteSink`: `Record`, the writer, `Close`, and the database closed after it |
| `AuditTime` | operators | RFC3339Nano and its order as text |
| `AuditStore` | detailed specification, over `AuditTime` | rows, counters, settings, cleanups, `CopyLegacyMetadata` |
| `AuditQueries` | detailed specification, over `AuditTime` | pages of the log; the summary, its buckets and its privacy projection |
| `SummaryCache` | detailed specification | `summary_cache.go` with the handlers around it |
| `Sessions` | detailed specification | `session.go`: table, cache, lookups, logouts, the import of older sessions |
| `Accounts` | detailed specification | the first administrator; API keys found, used and revoked |
| `Migrations` | detailed specification | the audit database's migrations by processes that may crash |
| `Shutdown` | detailed specification | the end of `Serve`, and what may be under way or hang |
| `Answering` | composition | `LocalDNS`, `ServeDNS`, `DnssecUpstream` and `PauseRequest`: between a client and its answer |
| `Administration` | composition | `Sessions`, `Configuration`, `Accounts` and `Migrations`: what the administration keeps |
| `AuditDatabase` | composition | `AuditStore`, `SummaryCache` and `AuditQueries`: the audit database and its readers |
| `RefreshJobsProofs` | theorems | about `RefreshJobs`, and that it implements `RefreshQueue` |
| `FilterReloadProofs` | theorems | about `FilterReload` |
| `FilterStoreProofs` | theorems | about `FilterStore`, with `FilterDecision`, `FilterTables`, `Blocklist` |
| `ConfigRuntimeProofs` | theorems | about `ConfigRuntime`; about the four parts of `Answering` |
| `AuditSinkProofs` | theorems | about `AuditSink` |
| `AuditStoreProofs` | theorems | about `AuditStore`; about the readers in `AuditDatabase` |
| `AdministrationProofs` | theorems | about the four parts of `Administration` |
| `ShutdownProofs` | theorems | about `Shutdown` |
| `MCRefreshJobs`, `MCFilterReload`, `MCFilterStore`, `MCConfigRuntime`, `MCAuditSink` | instances | finite constants and symmetry sets of one module |
| `MCAnswering`, `MCAdministration`, `MCAudit` | instances | finite constants of a composition |
| `MCEndings` | instance | six components whose waits must end, side by side |

Definitions named in "Mutant" comments are wrong versions of a neighbouring
definition. Nothing refers to them: each is there to be put in place of the
definition it spoils, to see the property it is meant for fail (`PROJECT.json`
"mutants").

A composition puts components side by side that share no state. `Administration`
extends `Sessions`, `AuditDatabase` extends `AuditStore`, and both instantiate the
others; `Answering` instantiates all of its components. The variable `part` is chosen
in the initial state and says whose actions the behaviour has; the variables of the
others keep their initial values. One run so explores each component from its own
initial states, and one specification (`AnsweringSpec`, `AdministrationSpec`,
`DatabaseSpec`) is both what TLC checks and what the theorems are about. A property of
an instance is asked under its `part = ...`; one of the extended module is stated as it
stands. Nothing is claimed of an interleaving of the parts; where components do
interact, they are in one module (`FilterStore` with its tables, matcher and
decisions; `LocalDNS` with its resolver; `DnssecUpstream` with the cache;
`Shutdown` with everything that is closed). `LocalDNS` is in two parts of `Answering`:
"edits", whose table starts empty, and "chains", whose table is any of `ChainTables` and
is only loaded and looked up in. `AuditQueries` is in two parts of `AuditDatabase`:
"paging", with few kinds of rows, and "summing", with a shorter time. `MCEndings` is
made in the same way, for liveness.

A proof module extends the component or the composition it is about.

### RefreshJobs

| Code | Model |
| --- | --- |
| `RefreshJobs.jobs`, `queue`, `wake`, `ctx` | `jobs`, `queue`, `wake`, `cancelled` |
| rows of `refresh_jobs` | `db`, the only variable that outlives `Exit` |
| the worker's program counter and its local `job` | `pc`, `job` |
| `NewRefreshJobs` | `Start`; `StartFails` when a row cannot be read or saved |
| `Submit` | `SubmitReuses`, `SubmitAccepts`, `SubmitCannotEvict`, `SubmitCannotSave`; its refusals (stopped, full) change nothing |
| `run` | `Worker...`, one action from each database write or external call to the next |
| `update`, `save` | `Updated`, `UpdateFailed`: a failed write is lost or has committed all the same |
| `fail` | `WorkerFails`, then `WorkerFailsInMemory` under its own acquisition of the mutex |
| `Close`, end of the parent context | `Cancel` |
| end of `Serve`, a crash | `Exit`, possible at every point |

`Submit` and `update` hold the mutex over their database calls, so each is one
step and crashes fall before or after its last write. A crash between the
eviction's DELETE and the INSERT of the new row is covered: `SubmitCannotEvict`
followed by `Exit` leaves the same table, and that job was not acknowledged.
`RefreshList` and `Reload` are single steps that end either way; what they do is
`FilterStore`'s and `FilterReload`'s subject. Identifiers are numbers in order of
creation, which is the order of `CreatedAt` and of the rowid the recovery reads
by. Error texts, timestamps and `Result` are left out. `pending` is a history
variable: the jobs answered with 202 whose outcome has never been readable.

`RefreshQueue` has no process, worker, memory or disk: `Accept` and `Finish` on a
record that survives everything. `RefreshJobs` maps to it by reading the table
(`Record`): queued and running are both "accepted".

### FilterReload

Table contents become version numbers, one for each part that is read by its
own statement: entries, rules, clients. `Edit` is a handler's (or the import
transaction's) commit followed by its call of `Reload`. `EditReportsError` is a commit
whose caller calls none: the read of the row that follows an INSERT or UPDATE fails
(`repository.go:97`, `filter_api.go:227`), or the job cannot be saved after its import
(`filter_jobs.go:230`). The history variable `skipped` has the parts so edited since the
last call of a reload. After the call of `Reload` come the mutex, the
read of the entries, the store of the matcher, the reads of rules and clients,
the store of the snapshot, and `SetDecider` with the answer. Any read can fail,
by itself or because the caller's context has ended (`End`: a disconnected
client, a stopping process). `RuleDecider.Reload` reads each client's groups by
further statements after the list of clients; the version of "clients" stands
for the first of them, the oldest content any of them can return, which is what
the properties bound. `Query` loads decider, snapshot and matcher in three steps.
The manager's own `reloadMu` never contends, since only `Reload` calls it under
`mu`.

### FilterStore, FilterDecision, FilterTables, Blocklist

`db` is the content of the tables: functions from row id to row for lists, rules,
clients and groups, a set of entry rows, and sets of pairs for the three mapping
tables. Each repository method is an operator of `FilterTables` from one content
to the next, `AUTOINCREMENT` and the cascades by hand of the delete methods
included. `FilterStore` has one action per handler. PUT is two, because the handlers
read the row before the body: `put` is what was read. A refresh is two too
(`RefreshBegins`, then the import or the failure), with the edits of others in
between. `reload` is "due" after an edit whose handler goes on to reload, and "owed"
after one that ends in an error before (`SaveAndReload`: the read of the row fails) or
whose reload failed; from both it comes to "done" only by a reload that succeeds.
`served` is what the last reload took from the tables, by the code's own queries, and
from the files that the YAML configuration names (`Files`), which the manager reads
before the tables.

An address is a machine's, and whether it arrives in its IPv6 form; `String` and
`Unmap` are netip's. A client's row has the text that was typed, in any form: the code
trims it and checks that it is an address, and keeps it. So the runtime finds a client
only if its text is the one that netip prints of the unmapped address.

A name is the sequence of its labels. The precedence of rules, the scopes by
client group, suffixes and exceptions are the code's; regular expressions are
patterns that match a given set of names (`Language`). Names, comments, URLs and
the refresh's display metadata are left out.

### ConfigRuntime

The row is a function from three fields (pause, DNS settings, blocking
response) to values. `Pause`, `Resume` and `Update` have the same shape and are
one set of actions: load the row, change some fields of the copy, reload CoreDNS
if its settings changed, save the whole copy, change the runtime, answer.
Times are ticks, `Second` of them to a second: the runtime keeps a pause to the
tick, the row keeps it truncated (`Truncated`, RFC3339). `LoadPause` and
`ClearPause` are the two steps of `Runtime.BlockingPause` on an expired pause; any
query, status request, or the `Status` call that ends `Pause` is a reader.
`Restart` is a crash at any point followed by `Serve`'s initialisation, which is
over before anything is served. Two history variables say what the properties leave
out: `disturbed`, the fields changed since the start by requests that overlapped from
their load to their answer or whose save failed, and `cleared`, that a reader has
cleared the last pause before its end. `acked` is what clients were told. The clock
starts a second after zero, which Go keeps for "no end".

### Settings, Configuration

A payload (YAML file, JSON row) and a request are functions on the keys they
have, so a missing key differs from a zero; `Over` lays one over another. The files
and older rows a system starts with have known keys only, and need not be valid: that
is `ConfigurationAssumption`. `Settings` has defaults, decoding and encoding, the
deprecated keys, `Validate` field by field, `applyConfigUpdate`, and the plugins of the
generated server block. A file and a row decode differently (`FromFile`, `FromRow`): JSON
leaves in the elements of a list what the default list had there.

`Configuration` runs them: `Initialize` takes the row, or saves the file as the row
before anything has tried it; `Start` goes on with that, and `StartFails` ends with the row
saved, because a port is taken or because CoreDNS or the console's listener refuses
what it is given. What these refuse and `Validate` does not is the constant `Unusable`,
any set of texts. `Update` loads, changes, validates, reloads CoreDNS if the listen
address stays (which refuses what it would refuse at a start), and saves. `told`
records whether an answer since the start had `restart_required`; `untried`, a history
variable, what of the saved row no start and no reload has tried.

### PauseRequest

The end of a pause is a duration added to the clock, then an instant in memory, a text
without fraction in the row, and remaining whole seconds in the answer. `Duration` wraps
a product as 64 bits do, at `Half` (2^63 nanoseconds in the code). `promised` is what was
asked for, in arithmetic without bounds, and whether the product wrapped. Requests come
one at a time.

### LocalRecords, LocalDNS

`LocalDNS` has the statement of a handler, then the two steps of its reload: the
read of the enabled records and the store of the resolver, under no lock. The
write and the read back of one row are one step. `overlaps` is a history
variable: a reload has read while an older one was still to store.
`LocalRecords` has validation by type, the order in which records are found, and
`Resolve`: the walk along aliases to a depth, stopped at a repeated name.

### ServeDNS

`runtime` is the record of the atomic pointers. A query loads the resolver, the
pause, the decider, the blocking response and, after its answer, the cache flag,
each in a step of its own, while `Store` replaces one part at a time. The rest of
the plugin chain returns an answer, an error, or a code it has written itself.

### DnssecUpstream

Queries differ in DO, CD and AD; an upstream answer in its signatures and whether
it was validated. The CoreDNS cache (external) keeps what the plugin wrote, by
type, DO and CD. `Resign` changes how the zone is signed between queries.

### AuditSink

`Check` and `Send` are the two steps of `Record` (a query can look at the closed
flag before `Close` and send after it). The writer is at its `select`, in a
flush, in a cleanup, in the last drain, or stopped; `then` is where it goes after
the flush. A flush is one transaction and ends inserted or, after any error,
given up; once the database is closed every statement fails. `AskClose`,
`SignalClose`, `ReturnClose` and `CloseDatabase` are `Serve`'s two deferred calls.
Events are the numbers of their arrival in the channel. `written`, `lost` and
`asked` are history variables: the events inserted, the events of failed
batches (the code does not count these), and how many events the channel had
taken when `Close` set the flag. What a cleanup deletes is `AuditStore`'s subject.

### AuditTime, AuditStore, AuditQueries, SummaryCache

Times are stored and compared as text, so `AuditTime` has the text: a second has
`Base` * `Base` instants, written as two digits of fraction without trailing zeros.
`AuditStore` has the batch and its counters in one transaction, the cleanup in its
two steps (settings, then deletes by batch), PUT of the settings in its two, and
at each start the copy from an older database, which can fail after either half.
`AuditQueries` walks the pages by offset while rows come and go, and computes the
summary: top lists, buckets by their boundary texts, and the projection by privacy
level. `SummaryCache` knows a summary by what its reads had seen; who finds
another computing waits for it, and a leader can fail or go away.

### Sessions, Accounts

A lookup is the cache under the mutex, the row, then the cache again; a logout is
the cache, then the row. The history variable `disturbed` has the sessions whose logout
was for nothing: while it was between cache and row (`Ends`) some handler had the row it
had read and had not cached it yet (`Holds`), or its DELETE failed. Requests that overlap
in any other way, two lookups for one, or a lookup that is over or has read nothing when
the logout is between the two, disturb nothing. The older version's sessions expire a
`TTL` after this one is installed (`InstalledAt`); their import compares times as texts, by
`AuditTime`.

In `Accounts` each statement is a step and the handlers interleave.

### Migrations, Shutdown

A migration is the transaction that reads its marker, applies its statements and
inserts the marker. SQLite is modelled as its documentation has it: the
transaction reads the file as it was at its first read, and its first write fails
if the file has been written since. Files start at every older version.

`Shutdown` is `Serve` from the signal, the failure of the admin server or a failed
start to its return: the phases under one deadline, then the deferred closes in
their order. What the phases wait for may finish or hang; and the admin server's
`Shutdown` and the DNS server's `Stop` may return an error in time (`app.go:242-247`,
`server.go:72-76`), which ends `Serve` at once, with the DNS server perhaps still up
(`stopFailed`). CoreDNS's `Stop` is taken to wait for the queries under way unless it
reports an error.

## 3. Runs

All bounds are constants in guards: `MaxJobs`, `MaxFaults`, `MaxStops`, `MaxEdits`,
`MaxRows`, `MaxGone`, `MaxTime`, `MaxRestarts`, `MaxStarts`, `MaxCrashes`, `MaxRecords`,
`MaxEvents`, `MaxSaves`, `MaxUpdates`, `MaxChanges`, `MaxDisturbed` (fields disturbed since
a start), `MaxOld` (rows and counters in an older audit database), and in the
compositions the same with the name of their component (`MaxReadFaults`, `MaxCacheTime`).

| Run (cfg) | Question | Instance |
| --- | --- | --- |
| `refresh_jobs` (`RefreshJobs.cfg`) | Is any job lost, stranded, run twice at once, revived, or reported falsely? Is the table an implementation of `RefreshQueue`? | 3 lists, 2 unfinished jobs, 3 records, 4 jobs, 2 failed writes, 2 exits; lists are symmetric |
| `filter_reload` (`FilterReload.cfg`) | Can overlapping reloads undo, or a query miss, an acknowledged edit? | 2 requests, worker, loader, 1 query, 3 edits, 1 failed read or save, 1 ended context; requests are symmetric |
| `filter_reload_failed` (`FilterReloadFailed.cfg`) | Does a failed reload leave the filter as it was? No | 1 request, worker, loader, 1 failed read |
| `filter_store` (`FilterStore.cfg`) | Does what is served follow the tables after every kind of edit, and what a refresh or a PUT finds changed? | 3 edits of any handler, each of which may miss its reload, over 3 sets of tables, 2 rows of a kind, 6 names, 2 machines, one of them also in the IPv6 form, client rows in both forms, allow, deny and regex patterns, a bundled entry, a file, 3 downloads |
| `config_runtime` (`ConfigRuntime.cfg`) | Do row, runtime and answers agree in the fields that overlapping and failing requests leave alone? What can end a pause early? | 2 requests, 1 reader, 2 settings and 2 responses, 2 times, 1 failed save, 1 restart, 2 disturbed fields; requests are symmetric |
| `pause_served` (`PauseServed.cfg`) | Is an acknowledged pause served? Not always | 1 request, 1 reader, 6 times |
| `pause_saved` (`PauseSaved.cfg`) | Is an acknowledged pause saved? Not always | 2 requests |
| `audit_sink` (`AuditSink.cfg`) | Where can an event be, and what does `Close` promise? | 2 queries at a time, channel of 3, batch of 2, 7 calls, 2 failed statements; queries are symmetric |
| `answering` (`Answering.cfg`) | Is a query answered by what was configured, and its event true? | `MCAnswering`: 2 requests, loader, 3 edits of records, 1 failed read; every table of aliases over 4 hosts (6 rows at most) at a depth of 3; 1 query beside 3 stores; DNSSEC with a cache of 2; pauses of 4 ticks a second over 14 ticks and 2 restarts, durations that wrap at 64 ticks and requests on both sides of it |
| `administration` (`Administration.cfg`) | Does what was accepted or revoked stay so, over restarts? | `MCAdministration`: 2 updates of 33 kinds over 4 files and 5 rows, 2 of the texts unusable; 2 sessions, one from an older version, with a term of 2 ticks of which 4 are a second, 2 handlers, 2 restarts; 2 keys, 3 handlers, 5 starts; 2 processes, 3 crashes, files of every version |
| `audit` (`Audit.cfg`) | Are counters, settings, summaries and pages right? | `MCAudit`: 2 events, 2 starts, 1 saved setting, 1 failed statement; 2 clients and 2 changes of the cache; pages over 3 events of 2 kinds while the clock goes from 12 to 16; summaries of 3 events of 12 kinds in 2 buckets until 14; clients and changes are symmetric |
| `endings` (`Endings.cfg`) | Does everything that is waited for end? | `MCEndings`: 3 jobs, 3 callers of Reload, 3 records, 2 events, 3 clients of the cache, one shutdown |

Why the bounds are enough. For jobs, the code compares counts with the two
limits, which 2 and 3 reach with a job to spare on each side (a fourth job
evicts; a third list is refused at two unfinished); two exits give a crash
during the recovery from a crash; two failed writes are the longest chain the
code reacts to (an update fails, then the update that reports it). Eviction, a
refused request and a wakeup race all occur within four jobs. For reloads, the
mutex admits one caller, so two waiting callers and a third kind of edit show
every order; three edits let every part change once or one part change three
times. For the filter tables, a group that is made, mapped and deleted takes three
edits, and the initial tables have a client in a group and lists with entries
already. For the configuration row, two requests overlap in every pair of fields and at
every step, with the third field left to show that it is unharmed; of the two times at
two ticks a second, a pause of one tick set at the first is truncated and expires at
the second, and one set at the second is in force to the end; a restart has requests
before, at and after it. For accepted updates, two let the second meet what the first
left, by every pair of keys. For the audit sink, seven calls fill channel and
batch with two to spare, and a channel longer than a batch makes the last drain
flush in its middle. Four hosts and a depth of three give chains that end within
the limit, at it, past it, and in a loop of any length. Two processes suffice for
the write lock, three crashes for a crash at each of a process, its successor and
the other. Two events with a cleanup batch of one leave a row for the next cleanup;
three events give pages of one row a first, a middle and a last. With a base of 2
the texts of times have every length of fraction. Where the endings are checked the
instances are smaller, as liveness costs more: a retention of a quarter of a second
keeps the clock short, and one bounded fault shows the recovery from it.

Deadlock is not checked: an unavailable queue, an idle process, and a behaviour
at its bounds may all stop.

What the properties say is at each of them, in its module. In short:

* `NoJobStranded`, `NoLostWakeup`, `AcceptedNotLost`, `SuccessIsDurable`,
  `MemoryMatchesDisk`, `FinishedRowStaysFinished` and `ImplementsQueue` for the queue.
  A *success* is durable through failed writes. A *failure* is not: when it cannot
  be saved, the map alone says "failed" and a restart runs the job again. The
  refinement, with the two limits and the rule of one job per list in it, is about
  the behaviour up to the first failed write.
* `SuccessIsActive` (the repository's "a job succeeds only after the new matcher is
  active", for good), `NeverBackwards`, `QueryIsCurrent`, `QuietRuntimeIsCurrent` for
  reloads.
* `DecisionsFollowTables` (with the rule the decision names), `MappingsRefer`,
  `PreviewAgrees`, `NothingResurrected` for the filter tables. The preview does not
  know the bundled list and the configured files and does not unmap addresses, so the
  agreement is about names that these do not match and addresses that are not mapped.
* `QuietRuntimeMatchesConfig` (in which blocking is never paused by more than the row
  says, nor by less but for the race of the second finding) and `AcknowledgedIsSaved`
  for the configuration, for each field that is not disturbed. A field that a failed
  save was to change is disturbed because CoreDNS was reloaded before the save: the
  two differ until a restart.
* `EveryEventAccounted`, `CloseMeansWritten`, `DrainedBeforeStop` for the audit sink. A
  query that passed the closed flag before `Close` set it can leave its event in the
  channel of a stopped writer, neither stored nor counted; `DrainedBeforeStop` bounds
  these by one per such query.
* The composed runs: `CustomRecordsServed`, `ChainsAnswer`, `QueriesAnswered`,
  `DNSSECKeptApart`, `PauseLasts`; `AcceptedStarts`, `ProcessFollowsConfig`, `SessionsHold`,
  `AccountsHold`, `UpgradesKeepData`; `StoreKeepsCount`, `SummaryIsFresh`, `QueriesAreExact`,
  `CleanupKeepsYoung`; and for the endings `RefreshesEnd`, `EventsEnd`, `AuditingGoesOn`,
  `ShutdownEnds`, `ShutdownOrdered`. Each is a conjunction of named properties of the
  modules it is about.

### Findings

* A reload that fails on the rules or clients has already replaced the matcher
  (`app.go:324` before `app.go:332`): half of the filtering plugin is new, half
  old, and the caller is told the reload failed. The repository's README says
  plugins are installed atomically (lines 21-23).
* `Runtime.BlockingPause` can clear a pause newer than the one it found expired
  (`corehole.go:300-301`).
* `PUT /api/config` can write a pause away that was saved after it loaded the
  row (`api.go:759-775`). The README promises the opposite of both (lines
  155-156).

### Known limits of what is checked

Where the code does less than its documents say, the properties above are stated
so that they leave the case out. The cases, each reached by the modules' actions:

* Two reloads of the local records that overlap can install the older read last
  (`app.go:434` and `438`, no lock): an edit answered with success is not served
  until the next. `QuietRuntimeIsCurrent` of `LocalDNS` has `~overlaps`.
* A lookup that read a session's row before a logout deleted it caches the session
  after (`session.go:175`), and a failed DELETE leaves the row to be found
  (`session.go:212`). `SettledLogoutsHold` is about all other logouts, whatever
  overlaps them; README.md:254 says a logout deletes the session. The import of older
  sessions compares texts (`session.go:226`) and may leave one behind in its last second,
  which `SessionsOutliveRestarts` leaves out (`Spent`).
* The plugin takes AD out of an answer to a client that asked for neither AD nor DO
  (`dnssec_upstream.go:72`), and the cache in front of it, whose key has DO and CD only,
  gives that answer to clients that ask with AD and not DO; `docs/configuration.md:50`
  says that validated AD status is preserved for clients that request it.
  `ADForThoseWhoAsk` of `DnssecUpstream`, a part of `DNSSECKeptApart`, says that AD is
  lost in this way only.
* TTLs of 0 are taken for absent (`config.go:614`): with both at 0 and a `cache_ttl` the
  server block still has a cache, against `docs/configuration.md:28`.
* An update of `logging` that reloads CoreDNS is answered without `restart_required`
  (`api.go:1006`), against `docs/configuration.md:235-237`; a change of `blocking.bundled` is
  never reported, though the manager took the flag when it was made (`app.go:111`).
  `NothingSilentlyPending` leaves both out.
* An edit of the filter tables whose row cannot be read back, and an import whose job
  cannot be saved, are committed and call no reload: the client is told of an error, and
  the change is in service when somebody else reloads. `QuietRuntimeIsCurrent` leaves
  out the parts so changed (`skipped`), and `DecisionsFollowTables` waits for that reload.
* A client's address is kept as it was typed (`types.go:206-223`): one saved as
  `2001:DB8::1` or as a mapped IPv4 address is never found by a query (`runtime.go:71`),
  and a mapped address has other groups in the preview than in the runtime
  (`service.go:335`). `DecisionsFollowTables` says who gets what in these terms;
  `PreviewAgrees` leaves out mapped addresses.
* `Validate` accepts what CoreDNS or a listener refuses. An update that leaves
  `dns.listen` alone is tried by a reload before it is saved; a changed `dns.listen`, what
  is sent with it, `admin.listen`, and the row that the first start saves are not, and a bad
  one keeps the program from starting. `docs/configuration.md:318-325` says that such
  errors remain after validation. `SavedWasTried` says that there are no others.
* When the admin or the DNS server reports an error as it stops, the loaders are not
  waited for and the DNS server may go on over closed databases (`app.go:242-247`). The
  parts of `ShutdownOrdered` about queries and loaders leave these endings out, as they do
  those after a failed admin server.
* When the copy of the older audit counters fails, the start goes on (`app.go:90`); the
  next one finds counters and does not copy them (`analytics.go:238`). README.md:293 says
  they are copied forward.
* The cutoff of a cleanup is a text without trailing zeros (`analytics.go:382`): rows of
  the cutoff's own second can go up to a second early. `CleanupKeepsYoung` is in whole
  seconds.
* `duration_seconds` is multiplied in 64 bits without a limit (`api.go:523`): a large value
  wraps, to an end in the past perhaps. Of such a pause `PauseLasts` says only that it is
  never longer than was asked for; the instance has some.

## 4. Fairness

* `RefreshJobs`: weak fairness of the worker, a goroutine whose calls return (the
  list download has a client timeout, database writes have contexts, the reload
  mutex is held by reloads only, see `RefreshesEnd`); of `cancelled /\ Exit`,
  because `Serve` bounds its shutdown; of `Start`, because the service manager
  restarts the process. A restart that cannot use the jobs database serves
  without a queue (`process = "unavailable"`); the liveness property excepts it,
  as nothing retries until the next restart.
* `FilterReload`: weak fairness of each caller's steps and strong fairness of its
  `Lock`: Go's `sync.Mutex` hands itself over to a waiter that starves. In
  `MCEndings` the bounded number of reloads makes weak fairness of `Lock` enough.
* `AuditSink`: for `RecordReturns` only the queries are fair, the writer may hang for
  ever. For `EventSettles` the writer is: weakly as a goroutine whose statements
  return, and strongly in `Receive`, because Go's `select` picks among the ready
  cases at random and so cannot pass one over for ever. (`WriterFair` has `Stop` too,
  which the property does not need.)
* `AuditStore`: weak fairness of the background cleanup, which the writer's ticker
  begins again every hour. `SummaryCache`: weak fairness of each handler's steps.
* `Shutdown`: weak fairness of the deadline, a timer, and of `Serve`'s own steps. What
  it waits for is not fair: a handler, a query, a loader and the worker may hang.
* The other modules have no liveness property.

## 5. Proofs

Eight modules prove theorems about the specifications, for every value of their
constants that satisfies the `...Assumption` of the module (its bounds are numbers,
the values it sets apart are apart, and what its comments say of the rest). TLC
evaluates each of these assumptions in the instances of section 3. Every invariant and
action property that a passing run checks is a theorem, of the specification that the
run checks or of one it implies. Hardly any of the properties is inductive as it
stands. Each follows from an inductive invariant, whose preservation has one lemma per
action or family of actions, and one lemma that puts them together.

### The job queue: `RefreshJobsProofs`

| Theorem | Property |
| --- | --- |
| `InductiveInvariant` | `IInv` |
| `TypeCorrect` | `TypeOK` |
| `NothingStranded` | `NoJobStranded` |
| `WakeupsKept` | `NoLostWakeup` |
| `AcceptanceKept` | `AcceptedNotLost` |
| `SuccessKept` | `SuccessIsDurable` |
| `MemoryIsTheTable` | `MemoryMatchesDisk` |
| `FinishedForGood` | `FinishedRowStaysFinished` |
| `QueueImplemented` | `ImplementsQueue` |

The assumption: the limits are numbers, at least one unfinished job is admitted, and
no more than are kept. That a finished row is never revived, for one, depends on what
the worker holds: until it decides an outcome, the job it writes about must be
unfinished on disk, and once it has decided (an ambiguous write may have stored the
outcome already) it only writes outcomes. So `IInv` adds to the properties `HeldInv`
(for each place of the worker, what its copy of the job says and what the map and the
row may be), `QueueInv` (the queue is ascending, and names only jobs that are
unfinished in memory and on disk and are not the worker's own), and `NoneStranded`,
`ActiveOnDisk`, `IdleWhenNotUp`.

`QueueImplemented` is the step simulation: until a write fails, memory and disk are
equal (`MemoryMatchesDisk`), so what `Submit` counts in the map and evicts from it is
what the abstract queue counts and evicts; the save of an outcome is `Finish`; a
recovery, which puts running rows back to queued, cannot be seen. Like the property
it is about behaviours up to the first failed write.

### Reloads: `FilterReloadProofs`

| Theorem | Property |
| --- | --- |
| `InductiveInvariant`, `TypeCorrect` | `IInv`, `TypeOK` |
| `SuccessStaysActive` | `SuccessIsActive` |
| `QueriesAreCurrent` | `QueryIsCurrent` |
| `QuietRuntimeServesTables` | `QuietRuntimeIsCurrent` |
| `ReloadsNeverGoBack` | `NeverBackwards` |

The heart is `HolderInv`: what the holder of the mutex has read is as new as what is
in service and as what it was called for. It holds because reads happen inside the
mutex (`MutexInv`) and nothing is newer than the tables (`TableInv`). `QueryInv` ties a
query between its three loads to the versions it was owed when it arrived;
`CarriedInv` says that, unless a reload has failed, somebody will bring whatever is
not in service, or it was edited by a request that ended in an error (`skipped`).

### The filter tables: `FilterStoreProofs`

| Theorem | Property |
| --- | --- |
| `InductiveInvariant`, `TypeCorrect` | `IInv`, `TypeOK` |
| `NothingDangles` | `MappingsRefer` |
| `DeletedForGood` | `NothingResurrected` |
| `QueriesFollowTables` | `DecisionsFollowTables` |
| `PreviewFollowsRuntime` | `PreviewAgrees` |

`Whole` (types and referential integrity) is preserved by each operator of
`FilterTables`, for any tables; `ServedInv` says that once the reload an edit owes has
succeeded, what is in service is what the queries of the reload return on the
tables. Given both, the runtime's decision and the policy are compared by a chain of
lemmas, one for each stage (scopes, rules by kind and order, the matcher and its
exceptions). The preview is compared with the runtime in the same way.

### The configuration row: `ConfigRuntimeProofs`, first part

| Theorem | Property |
| --- | --- |
| `InductiveInvariant`, `TypeCorrect` | `IInv`, `TypeOK` |
| `AnswersAreSaved` | `AcknowledgedIsSaved` |
| `RuntimeFollowsRow` | `QuietRuntimeMatchesConfig` |

For any number of requests, overlapping and failing as they may. What makes it hold
without a lock is that whoever loads the row while others hold a copy of it disturbs
the fields of all of them (`OverlapInv`), so that a copy still has the row's value in
every other field (`CopyInv`) and putting it back changes nothing there. `WroteInv` says
what a request has reloaded or saved of an undisturbed field; `RuntimeInv` and
`KeptInv` are the properties, of the fields nobody has saved and not yet applied.
`KeptInv` needs that truncation takes no pause below the first second
(`TruncatedOnce`), where its end would read as "no end".

### Answers: `ConfigRuntimeProofs`, the parts of `Answering`

| Theorem (of `AnsweringSpec`) | Property |
| --- | --- |
| `RecordsServed` | `CustomRecordsServed` |
| `ChainsFollowed` | `ChainsAnswer` |
| `QueriesServed` | `QueriesAnswered` |
| `SignaturesKeptApart` | `DNSSECKeptApart` |
| `PausesLast` | `PauseLasts` |

* `LocalDNS` has no mutex. `RecordsInv`: as long as no read has failed and no reloads have
  overlapped, one caller at most has read and not stored, and what is saved will be
  read, or has been read and will be stored, or is in service.
* `ChainsFollowed`: what is loaded has one row for an id (`RowsInv`), so the order in which
  records are found is total and each has its place in it. `Walked` says what the walk
  is after each of its turns: a chain of distinct aliases from the name asked for
  (`IsChain`), and where it stands, on the way or at an end (`DeadEnd`). That it holds
  after every turn, and that the answer has the addresses of the nearest name, is by
  the least number of turns or hops at which the claim fails.
* A query loads the parts of the runtime at different times. `ServingInv` says for
  each place in `ServeDNS` which of the runtimes there were during the query it has
  already met (one whose resolver has no answer, one that is not paused, ...), and at
  the end in which of three ways it was answered and audited.
* `SigningInv`: every answer in the cache fits every client with its key.
* `PausesLast` is about every request, also one whose duration wraps when it is
  multiplied by a second: the product that wraps is less than the one that was meant, so
  the end is never late. `PauseInv`: the runtime has the pause as asked (or, wrapped, an
  earlier one), or its saved form after a restart, or none once the saved form is over.

### The audit log: `AuditSinkProofs`, `AuditStoreProofs`

| Theorem | Property |
| --- | --- |
| `InductiveInvariant`, `TypeCorrect` (both) | `IInv`, `TypeOK` |
| `EventsAccounted` | `EveryEventAccounted` |
| `CloseNilMeansWritten` | `CloseMeansWritten` |
| `StopsDrained` | `DrainedBeforeStop` |
| `CountAndChoiceStand` | `StoreKeepsCount` |
| `YoungRowsStay` | `CleanupKeepsYoung` |
| `StoreBesideReaders` | `DatabaseSpec` implies `Spec` |
| `CacheStaysFresh`, `SummariesStayFresh` (of `DatabaseSpec`) | `SummaryIsFresh` |
| `ReadersAreExact`, `ReadersSeeTheLog` (of `DatabaseSpec`) | `QueriesAreExact` |

For the sink: batch and channel together are the last events taken, in order
(`OrderInv`), every call is counted where it ended (`CountInv`), and what enters the
channel after the writer's last look comes from queries that had seen the flag
unset, one each (`LateInv`). A program has finitely many queries at a time
(`RecordersFinite`). For the store: counters are raised in the transaction of the
insert, and what was copied from an older database is there once or not at all
(`NewInv`, `DatedInv`). `CleanupKeepsYoung` rests on `EarlierTextEarlierSecond`: the
order of two times as texts says nothing about their fractions, but decides their
seconds.

For the cache: `FlightInv` (one computes), `ValueInv` and `RequestInv` (whoever has the
current generation has read what the last cleanup left).

For the pages: the order of the texts with the ids is total on the rows
(`BeforeIsSooner` and the lemmas after it), so the log has one sorting and a row's place
in it is one more than the number of rows before it. An insert never lowers a place and a
cleanup takes the rows at the end, which changes none of those that stay; so whatever
was there from the first page on has been shown or is past the offset (`MissInv`), and
of an undisturbed log the pages so far are the beginning (`StillInv`). The buckets rest
on `BoundaryText`: against the text of a whole second with all its zeros, a time
compares as text as it does as a number. `HiddenEverywhere` compares the sums of a
projection with those of the summary, row by row.

### Administration: `AdministrationProofs`, `ShutdownProofs`

| Theorem | Property |
| --- | --- |
| `InductiveInvariant` (of `AdministrationSpec`) | `AdministrationInv` |
| `SessionsStayTrue` | `SessionsHold` |
| `AccountsStayTrue` | `AccountsHold`, inductive with its types |
| `UpgradesLoseNothing` | `UpgradesKeepData` |
| `AcceptedRestarts` | `AcceptedStarts` |
| `ConfigurationHolds` | `ProcessFollowsConfig` |
| `InductiveInvariant`, `TypeCorrect` (of `Shutdown`) | `IInv`, `TypeOK` |
| `ClosesInOrder` | `ShutdownOrdered` |

* `SessionsInv`: row and cached copy have the expiry the client was told (`TablesInv`),
  what a handler has found is true of its session (`RequestInv`), and of a session that is
  not disturbed nobody holds a row while its logout is between cache and row or is over,
  and then neither cache nor table has it (`LogoutInv`). `EarlierSecondEarlierText`: the
  order of texts decides between seconds, so what the import leaves behind is in its last.
* `UpgradeInv`: a process at a migration has all before it recorded, and what it
  would commit is made from the file as it is, because the writer that has been
  overtaken fails at its first write.
* For `Shutdown`: what each phase has waited for, unless a server has stopped with an
  error (`PhaseInv`, `WorkerInv`, `InstanceInv`), and that after a signal only what
  outlived its deadline, or such an error, can be lost (`LostInv`).
* `ConfigurationInv`: the row is whole, valid and reads back as what was accepted
  (`Encode` and `FromRow` are a round trip on whole configurations, the deprecated TTL
  included), and the process agrees with it in every part, unless a restart has been
  asked for or something failed; CoreDNS has taken the server block of the row, or
  `untried` says that nothing has tried it. `AcceptedRestarts` adds what the server block makes of
  an accepted configuration: which resolvers are used and at which place, and that a
  forwarder forces TCP on those that asked for it.

### Only model-checked

* The endings (`RefreshesEnd`, `EventsEnd`, `AuditingGoesOn`, `ShutdownEnds`): liveness
  under fairness is out of the prover's reach.
* The runs that expect a violation: a counterexample is their proof.

What a recursive function computes is proved where a property needs it (`Resolve`'s
walk), from its defining equation and the least number at which a claim would fail.
No module here has a RECURSIVE operator: chains, walks and texts are recursive
functions, folds or bounded sequences.

## 6. Plan

Done: the modules of section 2, which have an action for every operation that
changes state, and the proofs of section 5.

What could come next:

1. The dashboard, and the filters and sort fields of the log that `AuditQueries` leaves
   out.
2. A field that is disturbed stays so until the next start. A request that then runs
   alone settles pause and response again, but not the DNS settings, which are not
   reloaded when the row has them already.
3. A summary reads a dozen statements without a transaction: what its parts may
   disagree about.

## 7. Not modelled

* The text of things: YAML and JSON syntax, SQL, the Corefile's layout, log lines,
  the console's HTML, HTTP routing. Functions of one input without a protocol.
* `internal/logging`: formatting, and a level that is set once.
* Storage: DSNs, connection pools, file permissions, and the main, jobs and sessions
  databases' schemas, whose every statement is IF NOT EXISTS. SQLite is taken to be
  serializable for each statement and transaction, and durable once committed.
* Configuration: storage paths, TLS server names, the syntax of addresses.
* Password and key hashing; the in-memory stores that only tests use.
* Audit: most filters and sort fields of the log, client suggestions, the dashboard,
  and `RebuildTotals`, which nothing calls.
* CoreDNS and its plugins, and the DNS library: outside the repository. What is assumed
  of them: a `Reload` replaces the instance or fails and leaves it, a start and a reload
  refuse the same server blocks, `Stop` waits for the queries under way or reports an error, the cache keeps answers by type, DO and CD, the resolver behind
  `forward` validates.
