----------------------------- MODULE AuditSink -----------------------------
(***************************************************************************)
(* The audit sink (SQLiteSink in internal/audit/audit.go).                 *)
(*                                                                         *)
(* DNS queries call Record, which puts an event in a bounded channel or    *)
(* counts it as dropped; one writer goroutine moves events from the        *)
(* channel to a batch and the batch to the database, when it is full, at   *)
(* every tick, before a retention cleanup, and when it is told to stop.    *)
(* Close sets the closed flag, closes the done channel and waits, for a    *)
(* bounded time; Serve then closes the database, writer or no writer.      *)
(*                                                                         *)
(* Events are numbered in the order the channel takes them.  The rows a    *)
(* cleanup deletes are not modelled: written is what was ever inserted,    *)
(* which is what the all-time totals, updated in the same transaction,     *)
(* count.                                                                  *)
(***************************************************************************)
EXTENDS Naturals, Sequences, FiniteSets

CONSTANTS
    Recorders,   \* DNS queries answered at the same time
    QueueSize,   \* 1024 in the code
    BatchSize,   \* 100 in the code
    MaxRecords,  \* bound: calls of Record
    MaxFaults    \* bound: database statements that fail while it is open

ASSUME AuditSinkAssumption ==
    /\ QueueSize \in Nat \ {0}
    /\ BatchSize \in Nat \ {0}
    /\ MaxRecords \in Nat
    /\ MaxFaults \in Nat

(* Each recorder is a goroutine, and there are finitely many of them.      *)
ASSUME RecordersFinite == IsFiniteSet(Recorders)

VARIABLES
    recorder,  \* where each recorder is in Record
    closed,    \* the atomic flag
    done,      \* the done channel is closed
    events,    \* the channel
    batch,     \* the writer's batch
    writer,    \* where the writer is
    then,      \* where it goes after the flush it is at
    err,       \* the last error is set
    dropped,   \* the counter
    close,     \* where Serve's call of Close is, and what it returned
    open,      \* the database is open
    calls,     \* calls of Record so far
    faults,    \* failed statements so far
    sent,      \* events the channel has taken so far
    written,   \* history: events inserted
    lost,      \* history: events of batches that could not be inserted
    asked      \* history: events taken when Close was called

outside == <<close, open, closed, done, asked>>
counts == <<calls, sent, dropped>>
vars == <<recorder, outside, events, batch, writer, then, err, counts, faults,
          written, lost>>

-----------------------------------------------------------------------------
Items(s) == {s[k] : k \in 1 .. Len(s)}

Init ==
    /\ recorder = [r \in Recorders |-> "idle"]
    /\ closed = FALSE
    /\ done = FALSE
    /\ events = <<>>
    /\ batch = <<>>
    /\ writer = "select"
    /\ then = "select"
    /\ err = FALSE
    /\ dropped = 0
    /\ close = "uncalled"
    /\ open = TRUE
    /\ calls = 0
    /\ faults = 0
    /\ sent = 0
    /\ written = {}
    /\ lost = {}
    /\ asked = 0

-----------------------------------------------------------------------------
(* Record looks at the flag first: an event that comes too late is dropped. *)
Check(r) ==
    /\ recorder[r] = "idle"
    /\ calls < MaxRecords
    /\ calls' = calls + 1
    /\ IF closed
       THEN dropped' = dropped + 1 /\ UNCHANGED recorder
       ELSE recorder' = [recorder EXCEPT ![r] = "send"] /\ UNCHANGED dropped
    /\ UNCHANGED <<outside, events, batch, writer, then, err, faults, sent,
                   written, lost>>

(* Mutants: a full channel is waited for; a dropped event is not counted.  *)
SendWaits(r) ==
    /\ recorder[r] = "send"
    /\ Len(events) < QueueSize
    /\ recorder' = [recorder EXCEPT ![r] = "idle"]
    /\ sent' = sent + 1
    /\ events' = Append(events, sent + 1)
    /\ UNCHANGED <<outside, batch, writer, then, err, calls, dropped, faults,
                   written, lost>>

SendUncounted(r) ==
    /\ recorder[r] = "send"
    /\ recorder' = [recorder EXCEPT ![r] = "idle"]
    /\ IF Len(events) < QueueSize
       THEN sent' = sent + 1 /\ events' = Append(events, sent + 1)
       ELSE UNCHANGED <<sent, events>>
    /\ UNCHANGED <<outside, batch, writer, then, err, calls, dropped, faults,
                   written, lost>>

(* The select with a default: the channel takes the event or it is dropped. *)
Send(r) ==
    /\ recorder[r] = "send"
    /\ recorder' = [recorder EXCEPT ![r] = "idle"]
    /\ IF Len(events) < QueueSize
       THEN sent' = sent + 1 /\ events' = Append(events, sent + 1) /\ UNCHANGED dropped
       ELSE dropped' = dropped + 1 /\ UNCHANGED <<sent, events>>
    /\ UNCHANGED <<outside, batch, writer, then, err, calls, faults, written, lost>>

Record(r) == Check(r) \/ Send(r)

-----------------------------------------------------------------------------
(* The writer.  A flush of an empty batch does nothing, so it is skipped.  *)

At(label) == writer = label
Goto(label) == writer' = label /\ UNCHANGED then
FlushThen(label) ==
    IF batch = <<>> THEN Goto(label) ELSE writer' = "flush" /\ then' = label

(* One event from the channel, in the loop or in the last drain.           *)
Receive ==
    /\ At("select") \/ At("drain")
    /\ events # <<>>
    /\ batch' = Append(batch, Head(events))
    /\ events' = Tail(events)
    /\ IF Len(batch') >= BatchSize
       THEN writer' = "flush" /\ then' = writer
       ELSE UNCHANGED <<writer, then>>
    /\ UNCHANGED <<recorder, outside, err, counts, faults, written, lost>>

(* The flush ticker, the cleanup ticker, the done channel.                 *)
Tick ==
    /\ At("select")
    /\ FlushThen("select")
    /\ UNCHANGED <<recorder, outside, events, batch, err, counts, faults, written, lost>>

CleanupTick ==
    /\ At("select")
    /\ FlushThen("cleanup")
    /\ UNCHANGED <<recorder, outside, events, batch, err, counts, faults, written, lost>>

(* Mutant: the batch in hand is flushed and the channel forgotten.         *)
StopUndrained ==
    /\ At("select")
    /\ done
    /\ FlushThen("stopped")
    /\ UNCHANGED <<recorder, outside, events, batch, err, counts, faults, written, lost>>

Stop ==
    /\ At("select")
    /\ done
    /\ Goto("drain")
    /\ UNCHANGED <<recorder, outside, events, batch, err, counts, faults, written, lost>>

(* The default of the last select: the channel is empty.                   *)
Drained ==
    /\ At("drain")
    /\ events = <<>>
    /\ FlushThen("stopped")
    /\ UNCHANGED <<recorder, outside, events, batch, err, counts, faults, written, lost>>

(* A statement fails when the database is closed, or by itself.            *)
Failure ==
    \/ ~open /\ UNCHANGED faults
    \/ faults < MaxFaults /\ faults' = faults + 1

(* Mutant: an error is not kept.                                           *)
FlushQuietly ==
    /\ At("flush")
    /\ writer' = then
    /\ batch' = <<>>
    /\ \/ open /\ written' = written \cup Items(batch) /\ UNCHANGED <<faults, lost>>
       \/ Failure /\ lost' = lost \cup Items(batch) /\ UNCHANGED written
    /\ UNCHANGED <<recorder, outside, events, then, err, counts>>

(* insertBatch, one transaction: all of the batch is inserted, or none and *)
(* the batch is given up.                                                  *)
Flush ==
    /\ At("flush")
    /\ writer' = then
    /\ batch' = <<>>
    /\ \/ open /\ written' = written \cup Items(batch) /\ UNCHANGED <<faults, lost, err>>
       \/ Failure /\ lost' = lost \cup Items(batch) /\ err' = TRUE /\ UNCHANGED written
    /\ UNCHANGED <<recorder, outside, events, then, counts>>

Cleanup ==
    /\ At("cleanup")
    /\ Goto("select")
    /\ \/ open /\ UNCHANGED <<faults, err>>
       \/ Failure /\ err' = TRUE
    /\ UNCHANGED <<recorder, outside, events, batch, counts, written, lost>>

Writer ==
    \/ Receive
    \/ Tick
    \/ CleanupTick
    \/ Stop
    \/ Drained
    \/ Flush
    \/ Cleanup

-----------------------------------------------------------------------------
(* Serve's deferred calls: Close sets the flag, closes the channel, waits  *)
(* for the writer or five seconds; then the database is closed.            *)

AskClose ==
    /\ close = "uncalled"
    /\ closed' = TRUE
    /\ asked' = sent
    /\ close' = "flagged"
    /\ UNCHANGED <<done, open>>

SignalClose ==
    /\ close = "flagged"
    /\ done' = TRUE
    /\ close' = "waiting"
    /\ UNCHANGED <<closed, asked, open>>

ReturnClose ==
    /\ close = "waiting"
    /\ \/ At("stopped") /\ close' = (IF err THEN "error" ELSE "nil")
       \/ close' = "timeout"
    /\ UNCHANGED <<closed, asked, done, open>>

CloseDatabase ==
    /\ close \in {"nil", "error", "timeout"}
    /\ open
    /\ open' = FALSE
    /\ UNCHANGED <<closed, asked, done, close>>

Shutdown ==
    /\ AskClose \/ SignalClose \/ ReturnClose \/ CloseDatabase
    /\ UNCHANGED <<recorder, events, batch, writer, then, err, counts, faults,
                   written, lost>>

Next ==
    \/ \E r \in Recorders : Record(r)
    \/ Writer
    \/ Shutdown

Spec == Init /\ [][Next]_vars

(* Only the queries move; the writer may hang in the database for ever.    *)
RecordersFair == Spec /\ \A r \in Recorders : WF_vars(Record(r))

(* The writer runs and its statements return.  Its select picks among the  *)
(* ready cases at random, so one that is ready again and again is taken.   *)
WriterFair == Spec /\ WF_vars(Writer) /\ SF_vars(Receive) /\ SF_vars(Stop)

-----------------------------------------------------------------------------
TypeOK ==
    /\ recorder \in [Recorders -> {"idle", "send"}]
    /\ closed \in BOOLEAN
    /\ done \in BOOLEAN
    /\ events \in Seq(1 .. sent) /\ Len(events) <= QueueSize
    /\ batch \in Seq(1 .. sent) /\ Len(batch) <= BatchSize
    /\ writer \in {"select", "flush", "cleanup", "drain", "stopped"}
    /\ then \in {"select", "cleanup", "drain", "stopped"}
    /\ err \in BOOLEAN
    /\ calls \in 0 .. MaxRecords
    /\ sent \in Nat
    /\ dropped \in Nat
    /\ close \in {"uncalled", "flagged", "waiting", "nil", "error", "timeout"}
    /\ open \in BOOLEAN
    /\ faults \in 0 .. MaxFaults
    /\ written \subseteq 1 .. sent
    /\ lost \subseteq 1 .. sent
    /\ asked \in 0 .. sent

(* Every recorded event is in one place: under way in Record, counted as   *)
(* dropped, in the channel, in the batch, inserted once, or in a batch     *)
(* that failed; and the channel and the batch keep the order of arrival.   *)
EveryEventAccounted ==
    LET held == batch \o events
        gone == sent - Len(held)
    IN  /\ calls = sent + dropped + Cardinality({r \in Recorders : recorder[r] = "send"})
        /\ \A k \in 1 .. Len(held) : held[k] = gone + k
        /\ written \cup lost = 1 .. gone
        /\ written \cap lost = {}

(* When Close returns nil, every event taken before it was called is in    *)
(* the database.                                                           *)
CloseMeansWritten == close = "nil" => 1 .. asked \subseteq written

(* The writer leaves nothing in the channel when it stops but the events   *)
(* of queries that looked at the flag before Close set it, at most one     *)
(* each; these are neither written nor counted as dropped.                 *)
DrainedBeforeStop ==
    At("stopped") =>
        /\ \A k \in 1 .. Len(events) : events[k] > asked
        /\ Len(events) <= Cardinality(Recorders)

(* A DNS query never waits for the audit database: Record returns whatever *)
(* the writer does (TestSQLiteSinkRecordDropsInsteadOfBlockingWhenQueueIs- *)
(* Full tries one call of it).                                             *)
RecordReturns == \A r \in Recorders : recorder[r] = "send" ~> recorder[r] = "idle"

(* A taken event is dealt with, unless the writer has stopped before.      *)
EventSettles ==
    \A e \in 1 .. MaxRecords :
        e <= sent ~> (e \in written \cup lost \/ At("stopped"))
=============================================================================
