---------------------------- MODULE SummaryCache ----------------------------
(***************************************************************************)
(* The cache of the default analytics summary (summaryCache of             *)
(* internal/audit/summary_cache.go) with what fills and what invalidates   *)
(* it: GET of the summary, which reads the privacy level after the summary *)
(* (handleAnalyticsSummary), PUT of the settings, and retention cleanups.  *)
(*                                                                         *)
(* A summary is known by the cleanups that its reads had seen, the privacy *)
(* level of that time and the time it was stored.                          *)
(***************************************************************************)
EXTENDS Integers, FiniteSets

CONSTANTS
    Clients,   \* requests for the summary that run at the same time
    Changers,  \* cleanups and changes of settings
    TTL,       \* summaryCacheTTL
    MaxTime,   \* bounds the clock
    MaxChanges,\* bounds the cleanups and changes
    MaxFaults, \* bounds the failures and the clients that go away
    None

SummaryCacheAssumption ==
    /\ TTL \in Nat \ {0} /\ MaxTime \in Nat /\ MaxChanges \in Nat /\ MaxFaults \in Nat
    /\ None \notin Clients

VARIABLES
    now,
    rows,       \* how many cleanups have deleted rows
    level,      \* how many changes of the privacy level were saved
    value, expires, flight, generation, \* summaryCache; flight is who computes
    client, changer,
    changes, faults

cache == <<value, expires, flight, generation>>
vars == <<now, rows, level, cache, client, changer, changes, faults>>

NoSummary == [rows |-> 0, level |-> 0, at |-> 0]
Idle == [pc |-> "idle"]
Expired == 0

Init ==
    /\ now = 1
    /\ rows = 0 /\ level = 0
    /\ value = NoSummary /\ expires = Expired /\ flight = None /\ generation = 0
    /\ client = [c \in Clients |-> Idle]
    /\ changer = [h \in Changers |-> Idle]
    /\ changes = 0 /\ faults = 0

Fault == faults < MaxFaults /\ faults' = faults + 1
Settled(h) == changer[h].pc = "idle"

(* What the cleanups and changes that were over had done, as a request     *)
(* comes in: the ones under way may or may not show in it.                 *)
Known(kind, total) ==
    total - Cardinality({h \in Changers : ~Settled(h) /\ changer[h].kind = kind /\ changer[h].pc = "saved"})

Arrive(c) ==
    /\ client[c].pc \in {"idle", "answered", "failed"}
    /\ client' = [client EXCEPT ![c] =
         [pc |-> "get", at |-> now, rows |-> Known("cleanup", rows), level |-> level,
          summary |-> NoSummary, generation |-> 0, shown |-> 0]]
    /\ UNCHANGED <<now, rows, level, cache, changer, changes, faults>>

(* Under the mutex: the value, if it is fresh; or the wait for the one who *)
(* computes it; or its computation.                                        *)
Get(c) ==
    /\ client[c].pc = "get"
    /\ \/ /\ now < expires
          /\ client' = [client EXCEPT ![c].pc = "have", ![c].summary = value]
          /\ UNCHANGED flight
       \/ /\ now >= expires /\ flight # None
          /\ client' = [client EXCEPT ![c].pc = "wait"]
          /\ UNCHANGED flight
       \/ /\ now >= expires /\ flight = None
          /\ flight' = c
          /\ client' = [client EXCEPT ![c].pc = "load", ![c].generation = generation]
    /\ UNCHANGED <<now, rows, level, value, expires, generation, changer, changes, faults>>

(* The mutex was let go: the database is read while it changes.            *)
Load(c) ==
    /\ client[c].pc = "load"
    /\ client' = [client EXCEPT ![c].pc = "loaded", ![c].summary = [rows |-> rows, level |-> level, at |-> now]]
    /\ UNCHANGED <<now, rows, level, cache, changer, changes, faults>>

(* Mutant: what was computed is kept whatever happened meanwhile.          *)
StoreAnyway(c) ==
    /\ client[c].pc = "loaded"
    /\ value' = [client[c].summary EXCEPT !.at = now]
    /\ expires' = now + TTL
    /\ flight' = None
    /\ client' = [client EXCEPT ![c].pc = "have"]
    /\ UNCHANGED <<now, rows, level, generation, changer, changes, faults>>

Store(c) ==
    /\ client[c].pc = "loaded"
    /\ IF client[c].generation = generation
       THEN value' = [client[c].summary EXCEPT !.at = now] /\ expires' = now + TTL
       ELSE UNCHANGED <<value, expires>>
    /\ flight' = None
    /\ client' = [client EXCEPT ![c].pc = "have"]
    /\ UNCHANGED <<now, rows, level, generation, changer, changes, faults>>

(* The database fails, or the client that computes goes away: only it is   *)
(* told, and nothing is cached.                                            *)
LoadFails(c) ==
    /\ client[c].pc = "load"
    /\ Fault
    /\ flight' = None
    /\ client' = [client EXCEPT ![c].pc = "failed"]
    /\ UNCHANGED <<now, rows, level, value, expires, generation, changer, changes>>

(* The done channel was closed: the one that computed is through.  Or the  *)
(* one that waits goes away.                                               *)
Wake(c) ==
    /\ client[c].pc = "wait"
    /\ flight = None
    /\ client' = [client EXCEPT ![c].pc = "get"]
    /\ UNCHANGED <<now, rows, level, cache, changer, changes, faults>>

GoAway(c) ==
    /\ client[c].pc = "wait"
    /\ Fault
    /\ client' = [client EXCEPT ![c].pc = "failed"]
    /\ UNCHANGED <<now, rows, level, cache, changer, changes>>

(* The settings are read, and the answer projected by them.                *)
Project(c) ==
    /\ client[c].pc = "have"
    /\ client' = [client EXCEPT ![c].pc = "answered", ![c].shown = level]
    /\ UNCHANGED <<now, rows, level, cache, changer, changes, faults>>

-----------------------------------------------------------------------------
(* A cleanup that deletes rows, or a change of settings: the statement,    *)
(* then invalidate.                                                        *)
Change(h, kind) ==
    /\ Settled(h)
    /\ changes < MaxChanges
    /\ changes' = changes + 1
    /\ changer' = [changer EXCEPT ![h] = [pc |-> "saved", kind |-> kind]]
    /\ rows' = IF kind = "cleanup" THEN rows + 1 ELSE rows
    /\ level' = IF kind = "settings" THEN level + 1 ELSE level
    /\ UNCHANGED <<now, cache, client, faults>>

invalidate(h) ==
    /\ changer[h].pc = "saved"
    /\ generation' = generation + 1
    /\ expires' = Expired
    /\ value' = NoSummary
    /\ changer' = [changer EXCEPT ![h] = Idle]
    /\ UNCHANGED <<now, rows, level, flight, client, changes, faults>>

Tick == now < MaxTime /\ now' = now + 1 /\ UNCHANGED <<rows, level, cache, client, changer, changes, faults>>

Move(c) == Get(c) \/ Load(c) \/ LoadFails(c) \/ Store(c) \/ Wake(c) \/ Project(c)

Next ==
    \/ Tick
    \/ \E c \in Clients : Arrive(c) \/ Move(c) \/ GoAway(c)
    \/ \E h \in Changers : invalidate(h) \/ \E kind \in {"cleanup", "settings"} : Change(h, kind)

Spec == Init /\ [][Next]_vars

(* Every handler under way runs on; the database answers, or fails.        *)
HandlersFair == Spec /\ \A c \in Clients : WF_vars(Move(c))

-----------------------------------------------------------------------------
Summaries == [rows : Nat, level : Nat, at : Nat]
Handlers ==
    [pc : {"get", "wait", "load", "loaded", "have", "answered", "failed"},
     at : Nat, rows : Int, level : Nat, summary : Summaries, generation : Nat, shown : Nat]

TypeOK ==
    /\ now \in Nat /\ rows \in Nat /\ level \in Nat
    /\ value \in Summaries /\ expires \in Nat /\ flight \in Clients \cup {None} /\ generation \in Nat
    /\ client \in [Clients -> {Idle} \cup Handlers]
    /\ changer \in [Changers -> {Idle} \cup [pc : {"saved"}, kind : {"cleanup", "settings"}]]
    /\ changes \in Nat /\ faults \in Nat

(* A summary is computed by one request at a time.                         *)
OneComputation == Cardinality({c \in Clients : client[c].pc \in {"load", "loaded"}}) <= 1

(* A request that comes after a cleanup has returned gets no summary from  *)
(* before it, a computation under way when it returned included.           *)
NothingFromBeforeCleanup ==
    \A c \in Clients : client[c].pc \in {"have", "answered"} => client[c].summary.rows >= client[c].rows

(* A summary in an answer was stored less than the TTL before the request  *)
(* came, or after; a new one starts a new term, an answer does not.        *)
AnswersAreRecent ==
    \A c \in Clients : client[c].pc \in {"have", "answered"} => client[c].summary.at + TTL > client[c].at

(* The privacy level of an answer is at least as new as the request.       *)
PrivacyIsFresh ==
    \A c \in Clients : client[c].pc = "answered" => client[c].shown >= client[c].level

(* A cached summary is as good as a new one for those who are given it.    *)
SummaryIsFresh ==
    /\ OneComputation /\ NothingFromBeforeCleanup
    /\ AnswersAreRecent /\ PrivacyIsFresh

(* Who waits for another's computation is answered in the end, also when   *)
(* that one fails or its client goes away.                                 *)
WaitersAnswered == \A c \in Clients : client[c].pc = "wait" ~> client[c].pc \in {"answered", "failed"}
=============================================================================
