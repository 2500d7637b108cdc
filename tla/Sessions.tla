------------------------------ MODULE Sessions ------------------------------
(***************************************************************************)
(* Browser sessions (internal/admin/session.go, the handlers of server.go  *)
(* and the start of app.go): a table of the session database, and a cache  *)
(* of it in memory under a mutex that no database call is made under.      *)
(* Handlers run concurrently; the process may stop between any two steps.  *)
(*                                                                         *)
(* A session is created in one step here, row and cache: nobody knows its  *)
(* token before both are written.                                          *)
(***************************************************************************)
EXTENDS Naturals, FiniteSets

CONSTANTS
    Tokens,
    Requests,     \* handlers that run at the same time
    Legacy,       \* the sessions the main database has from an older version
    TTL,
    InstalledAt,        \* when this version is installed
    Base,         \* of the digits of a second, see AuditTime
    MaxTime,      \* bounds the clock
    MaxRestarts,  \* bounds the restarts
    MaxFaults,    \* bounds the failures of the session database
    NoTime

ASSUME SessionsAssumption ==
    /\ Legacy \subseteq Tokens
    /\ TTL \in Nat \ {0} /\ InstalledAt \in Nat /\ Base \in Nat \ {0, 1}
    /\ MaxTime \in Nat /\ MaxRestarts \in Nat /\ MaxFaults \in Nat
    /\ NoTime \notin Nat

VARIABLES
    now,
    rows,      \* admin_sessions of the session database: token -> expiry
    imported,  \* its legacy_imported marker
    cache,     \* SQLiteSessionStore.sessions
    available, \* no UnavailableSessionStore took its place
    req,       \* the handlers
    restarts, faults,
    issued,    \* history: the expiry a client was told
    leaving,   \* history: the sessions a logout was asked for
    ended,     \* history: those whose logout was answered 204
    disturbed  \* history: those whose row some handler had read, or that failed

store == <<rows, imported, cache, available>>
vars == <<now, rows, imported, cache, available, req, restarts, faults, issued, leaving, ended, disturbed>>

Idle == [pc |-> "idle"]
Busy == {"arrived", "missed", "found", "expired", "dropped"}
Active(r) == req[r].pc \in Busy \/ (req[r].pc = "accepted" /\ req[r].kind = "logout")

Stamp == INSTANCE AuditTime

LegacyRows == [t \in Tokens |-> IF t \in Legacy THEN InstalledAt + TTL ELSE NoTime]

(* The legacy rows that expire later, as texts; INSERT OR IGNORE.          *)
WithLegacy ==
    [t \in Tokens |-> IF rows[t] = NoTime /\ t \in Legacy /\ Stamp!Before(now, LegacyRows[t])
                      THEN LegacyRows[t] ELSE rows[t]]

(* Mutant: the marker is not looked at.                                    *)
CopyLegacySessionsAgain == rows' = WithLegacy /\ imported' = TRUE

(* Unexpired rows and the marker that they were copied, in a transaction.  *)
CopyLegacySessions ==
    IF imported THEN UNCHANGED <<rows, imported>> ELSE rows' = WithLegacy /\ imported' = TRUE

(* The older version stopped; this one has not started yet.                *)
Init ==
    /\ now = InstalledAt
    /\ rows = [t \in Tokens |-> NoTime]
    /\ imported = FALSE
    /\ cache = [t \in Tokens |-> NoTime]
    /\ available = FALSE
    /\ req = [r \in Requests |-> Idle]
    /\ restarts = 0 /\ faults = 0
    /\ issued = LegacyRows
    /\ leaving = {} /\ ended = {} /\ disturbed = {}

Fault == faults < MaxFaults /\ faults' = faults + 1

(* The process stops, at any point, and starts: what it had in memory is   *)
(* gone, and a failed import leaves it without session storage.            *)
Restart ==
    /\ restarts < MaxRestarts
    /\ restarts' = restarts + 1
    /\ cache' = [t \in Tokens |-> NoTime]
    /\ req' = [r \in Requests |-> Idle]
    /\ \/ CopyLegacySessions /\ available' = TRUE /\ UNCHANGED faults
       \/ Fault /\ available' = FALSE /\ UNCHANGED <<rows, imported>>
    /\ UNCHANGED <<now, issued, leaving, ended, disturbed>>

Tick == now < MaxTime /\ now' = now + 1 /\ UNCHANGED <<store, req, restarts, faults, issued, leaving, ended, disturbed>>

-----------------------------------------------------------------------------
(* Login and setup, once the password is found right.                      *)
Create(t) ==
    /\ available
    /\ issued[t] = NoTime
    /\ \/ /\ rows' = [rows EXCEPT ![t] = now + TTL]
          /\ cache' = [cache EXCEPT ![t] = now + TTL]
          /\ issued' = [issued EXCEPT ![t] = now + TTL]
          /\ UNCHANGED faults
       \/ Fault /\ UNCHANGED <<rows, cache, issued>>
    /\ UNCHANGED <<now, imported, available, req, restarts, leaving, ended, disturbed>>

(* A request with a session cookie: one of the API, or logout.             *)
Arrive(r, t, kind) ==
    /\ restarts > 0
    /\ ~Active(r)
    /\ issued[t] # NoTime
    /\ req' = [req EXCEPT ![r] =
         [pc |-> "arrived", kind |-> kind, token |-> t, at |-> now, expires |-> NoTime,
          excused |-> ~available]]
    /\ leaving' = IF kind = "logout" THEN leaving \cup {t} ELSE leaving
    /\ UNCHANGED <<now, store, restarts, faults, issued, ended, disturbed>>

Goes(r, pc) == req' = [req EXCEPT ![r].pc = pc]

(* Every live session of the cache, when the request arrived.              *)
Live(at) == [t \in Tokens |-> IF cache[t] # NoTime /\ cache[t] > at THEN cache[t] ELSE NoTime]

validCached(r) ==
    /\ req[r].pc = "arrived"
    /\ IF ~available THEN Goes(r, "refused") /\ UNCHANGED cache
       ELSE /\ cache' = Live(req[r].at)
            /\ Goes(r, IF cache'[req[r].token] # NoTime THEN "accepted" ELSE "missed")
    /\ UNCHANGED <<now, rows, imported, available, restarts, faults, issued, leaving, ended, disturbed>>

(* A handler has read the row of t and has not put it into the cache; a    *)
(* logout has taken t from the cache and has not deleted the row.          *)
Holds(r, t) == req[r].pc = "found" /\ req[r].token = t
Ends(r, t) == req[r].pc = "dropped" /\ req[r].kind = "logout" /\ req[r].token = t

(* The row is read without the mutex.                                      *)
ReadRow(r) ==
    LET t == req[r].token
        expires == rows[t]
    IN  /\ req[r].pc = "missed"
        /\ \/ expires = NoTime /\ Goes(r, "refused") /\ UNCHANGED disturbed
           \/ expires # NoTime /\ expires <= req[r].at /\ Goes(r, "expired") /\ UNCHANGED disturbed
           \/ /\ expires # NoTime /\ expires > req[r].at
              /\ req' = [req EXCEPT ![r].pc = "found", ![r].expires = expires]
              /\ disturbed' = disturbed \cup {u \in {t} : \E q \in Requests : Ends(q, u)}
        /\ UNCHANGED <<now, store, restarts, faults, issued, leaving, ended>>

ReadFails(r) ==
    /\ req[r].pc = "missed"
    /\ Fault
    /\ req' = [req EXCEPT ![r].pc = "refused", ![r].excused = TRUE]
    /\ UNCHANGED <<now, store, restarts, issued, leaving, ended, disturbed>>

Remember(r) ==
    /\ req[r].pc = "found"
    /\ cache' = [cache EXCEPT ![req[r].token] = req[r].expires]
    /\ Goes(r, "accepted")
    /\ UNCHANGED <<now, rows, imported, available, restarts, faults, issued, leaving, ended, disturbed>>

(* Delete, of an expired session or by logout: the cache, then the row; an *)
(* error of the database is ignored.                                       *)
DropCached(r) ==
    /\ \/ req[r].pc = "expired"
       \/ req[r].pc = "accepted" /\ req[r].kind = "logout"
    /\ cache' = [cache EXCEPT ![req[r].token] = NoTime]
    /\ Goes(r, "dropped")
    /\ disturbed' = disturbed \cup
         {u \in {req[r].token} : req[r].kind = "logout" /\ \E q \in Requests : Holds(q, u)}
    /\ UNCHANGED <<now, rows, imported, available, restarts, faults, issued, leaving, ended>>

DeleteRow(r) ==
    LET t == req[r].token
    IN  /\ req[r].pc = "dropped"
        /\ \/ rows' = [rows EXCEPT ![t] = NoTime] /\ UNCHANGED <<faults, disturbed>>
           \/ /\ Fault /\ UNCHANGED rows
              /\ disturbed' = IF req[r].kind = "logout" THEN disturbed \cup {t} ELSE disturbed
        /\ ended' = IF req[r].kind = "logout" THEN ended \cup {t} ELSE ended
        /\ Goes(r, IF req[r].kind = "logout" THEN "done" ELSE "refused")
        /\ UNCHANGED <<now, imported, cache, available, restarts, issued, leaving>>

Step(r) ==
    \/ \E t \in Tokens, kind \in {"use", "logout"} : Arrive(r, t, kind)
    \/ validCached(r) \/ ReadRow(r) \/ ReadFails(r) \/ Remember(r)
    \/ DropCached(r) \/ DeleteRow(r)

Next == Restart \/ Tick \/ (\E t \in Tokens : Create(t)) \/ (\E r \in Requests : Step(r))

Spec == Init /\ [][Next]_vars

-----------------------------------------------------------------------------
Times == Nat \cup {NoTime}

TypeOK ==
    /\ now \in Nat
    /\ rows \in [Tokens -> Times] /\ cache \in [Tokens -> Times] /\ issued \in [Tokens -> Times]
    /\ imported \in BOOLEAN /\ available \in BOOLEAN
    /\ req \in [Requests -> {Idle} \cup
          [pc : Busy \cup {"accepted", "refused", "done"}, kind : {"use", "logout"}, token : Tokens,
           at : Nat, expires : Times, excused : BOOLEAN]]
    /\ restarts \in Nat /\ faults \in Nat
    /\ leaving \subseteq Tokens /\ ended \subseteq Tokens /\ disturbed \subseteq Tokens

(* A request is let in only within the time its session was given, be it   *)
(* by the cache, by the row or by one that was imported.                   *)
AcceptedInTime ==
    \A r \in Requests : req[r].pc = "accepted" => req[r].at < issued[req[r].token]

(* The session's time is over; of one that is moved to the new database,   *)
(* the last second, in which the texts are not in the order of the times.  *)
Spent(t) ==
    \/ now >= issued[t]
    \/ t \in Legacy /\ Stamp!SecondOf(now) >= Stamp!SecondOf(issued[t])

(* A session nobody ended is good until it expires, over restarts and the  *)
(* move to a database of its own.                                          *)
SessionsOutliveRestarts ==
    \A r \in Requests :
        req[r].pc = "refused" => req[r].excused \/ req[r].token \in leaving \/ Spent(req[r].token)

(* A logout is for good, whatever requests overlap it, and no restart and  *)
(* no import brings the session back: except if its DELETE failed, or if   *)
(* some handler held the row that it had read while the logout was between *)
(* the cache and the row, and so puts the session back into the cache.     *)
SettledLogoutsHold ==
    \A t \in ended \ disturbed : rows[t] = NoTime /\ cache[t] = NoTime

(* A session is good for its time, and over when it is ended.              *)
SessionsHold == AcceptedInTime /\ SessionsOutliveRestarts /\ SettledLogoutsHold
=============================================================================
