--------------------------- MODULE ConfigRuntime ---------------------------
(***************************************************************************)
(* The persisted configuration and the DNS runtime that follows it.        *)
(*                                                                         *)
(* Pausing, resuming and PUT /api/config each load the one app_config row, *)
(* change some fields of their copy, save the whole row and then change    *)
(* the runtime (blockingRuntimeController in internal/app/app.go,          *)
(* configStoreManager.Update in internal/admin/api.go).  No lock spans     *)
(* these steps.  Every DNS query and status request looks at the pause     *)
(* with Runtime.BlockingPause, which clears one that has expired in a      *)
(* second atomic step (internal/coreplugin/corehole.go).                   *)
(*                                                                         *)
(* The row is a function from fields to values; the DNS settings and the   *)
(* blocking response are opaque values.  Time is counted in ticks, several *)
(* to the second the saved form of a pause is truncated to.                *)
(***************************************************************************)
EXTENDS Naturals, FiniteSets

CONSTANTS
    Requests,     \* admin requests in flight at a time
    Readers,      \* DNS queries and status requests that look at the pause
    Durations,    \* the pause lengths asked for, in ticks
    DnsSettings,
    Responses,
    DefaultDns,
    DefaultResponse,
    Second,       \* ticks in a second
    MaxTime,      \* bound: the last tick
    MaxFaults,    \* bound: failed saves
    MaxRestarts,  \* bound: restarts of the process
    MaxDisturbed  \* bound: fields disturbed since a start

ASSUME ConfigRuntimeAssumption ==
    /\ Durations \subseteq Nat \ {0}
    /\ DefaultDns \in DnsSettings
    /\ DefaultResponse \in Responses
    /\ Second \in Nat \ {0}
    /\ MaxTime \in Nat /\ MaxTime >= Second
    /\ MaxFaults \in Nat
    /\ MaxRestarts \in Nat
    /\ MaxDisturbed \in Nat

VARIABLES
    now,         \* the time; the second 0 is kept for Go's zero time
    config,      \* the app_config row
    pause,       \* Runtime.blockingPause
    response,    \* Runtime.mode
    server,      \* the DNS settings the CoreDNS instance runs with
    pc,          \* where each request is
    change,      \* the fields each request asks to change
    copy,        \* each request's copy of the row
    reader,      \* where each reader of the pause is
    faults,      \* saves that have failed so far
    restarts,    \* restarts so far
    acked,       \* history: the last value of each field a client was
                 \* told of, or the saved one where a restart left it open
    disturbed,   \* history: the fields changed since the start by requests
                 \* that overlapped from their load to their answer, or
                 \* whose save failed
    cleared      \* history: the last pause was cleared before its end

runtime == <<pause, response, server>>
requests == <<pc, change, copy>>
vars == <<now, config, runtime, requests, reader, faults, restarts, acked, disturbed, cleared>>

-----------------------------------------------------------------------------
Fields == {"pause", "dns", "response"}

Off == [enabled |-> FALSE, until |-> 0]
Paused(until) == [enabled |-> TRUE, until |-> until]

Nothing == [f \in {} |-> 0]

(* The row after a request's change; RFC3339 drops the part of a second.   *)
Truncated(t) == t - (t % Second)
Saved(p) == [p EXCEPT !.until = Truncated(@)]
Persistable(c) == [f \in DOMAIN c |-> IF f = "pause" THEN Saved(c[f]) ELSE c[f]]
Merged(c, row) == [f \in Fields |-> IF f \in DOMAIN c THEN c[f] ELSE row[f]]

(* Mutant: a pause for good, whose end is the zero time, has expired.      *)
ExpiredAtZero(p) == p.enabled /\ p.until <= now

Expired(p) == p.enabled /\ p.until # 0 /\ p.until <= now

Default == [pause |-> Off, dns |-> DefaultDns, response |-> DefaultResponse]

InFlight == {r \in Requests : pc[r] # "idle"}
Touching(f) == {r \in InFlight : f \in DOMAIN change[r]}

(* A field nobody is about to change, and that since the start no request  *)
(* has changed whose save failed or that overlapped with another.          *)
Quiet(f) == f \notin disturbed /\ Touching(f) = {}

Working == {r \in Requests : pc[r] \in {"reload", "save", "apply"}}

At(r, label) == pc[r] = label
Answered(r) ==
    /\ pc' = [pc EXCEPT ![r] = "idle"]
    /\ change' = [change EXCEPT ![r] = Nothing]
    /\ copy' = [copy EXCEPT ![r] = Default]
Goto(r, label) == pc' = [pc EXCEPT ![r] = label]

Init ==
    /\ now = Second
    /\ config = Default
    /\ pause = Off
    /\ response = DefaultResponse
    /\ server = DefaultDns
    /\ pc = [r \in Requests |-> "idle"]
    /\ change = [r \in Requests |-> Nothing]
    /\ copy = [r \in Requests |-> Default]
    /\ reader = [q \in Readers |-> "idle"]
    /\ faults = 0
    /\ restarts = 0
    /\ acked = Default
    /\ disturbed = {}
    /\ cleared = FALSE

-----------------------------------------------------------------------------
(* What a request may ask: a pause for a while or for good, the end of the *)
(* pause, other DNS settings, another blocking response.                   *)
Changes ==
    [{"pause"} -> {Off, Paused(0)} \cup {Paused(now + d) : d \in Durations}]
        \cup [{"dns"} -> DnsSettings]
        \cup [{"response"} -> Responses]

Begin(r, c) ==
    /\ At(r, "idle")
    /\ change' = [change EXCEPT ![r] = c]
    /\ Goto(r, "load")
    /\ UNCHANGED <<now, config, runtime, copy, reader, faults, restarts, acked, disturbed, cleared>>

Disturbs(fields) ==
    /\ disturbed' = disturbed \cup fields
    /\ Cardinality(disturbed') <= MaxDisturbed

(* Whoever loads the row meets the requests that have loaded it before.    *)
Meets(r) ==
    Disturbs(IF Working = {} THEN {} ELSE UNION {DOMAIN change[s] : s \in Working \cup {r}})

(* Mutants: the change is made to the defaults; DNS is never reloaded.     *)
LoadDefaults(r) ==
    /\ At(r, "load")
    /\ copy' = [copy EXCEPT ![r] = Merged(Persistable(change[r]), Default)]
    /\ Goto(r, IF copy'[r]["dns"] # config["dns"] THEN "reload" ELSE "save")
    /\ Meets(r)
    /\ UNCHANGED <<now, config, runtime, change, reader, faults, restarts, acked, cleared>>

LoadOnly(r) ==
    /\ At(r, "load")
    /\ copy' = [copy EXCEPT ![r] = Merged(Persistable(change[r]), config)]
    /\ Goto(r, "save")
    /\ Meets(r)
    /\ UNCHANGED <<now, config, runtime, change, reader, faults, restarts, acked, cleared>>

(* Load and change the copy; only changed DNS settings are reloaded.       *)
Load(r) ==
    /\ At(r, "load")
    /\ copy' = [copy EXCEPT ![r] = Merged(Persistable(change[r]), config)]
    /\ Goto(r, IF copy'[r]["dns"] # config["dns"] THEN "reload" ELSE "save")
    /\ Meets(r)
    /\ UNCHANGED <<now, config, runtime, change, reader, faults, restarts, acked, cleared>>

(* The row cannot be read, or CoreDNS refuses the settings and keeps the   *)
(* instance it has: an error that changes nothing.                         *)
Refuse(r) ==
    /\ At(r, "load") \/ At(r, "reload")
    /\ Answered(r)
    /\ UNCHANGED <<now, config, runtime, reader, faults, restarts, acked, disturbed, cleared>>

ReloadServer(r) ==
    /\ At(r, "reload")
    /\ server' = copy[r]["dns"]
    /\ Goto(r, "save")
    /\ UNCHANGED <<now, config, pause, response, change, copy, reader, faults,
                   restarts, acked, disturbed, cleared>>

Save(r) ==
    /\ At(r, "save")
    /\ config' = copy[r]
    /\ Goto(r, "apply")
    /\ UNCHANGED <<now, runtime, change, copy, reader, faults, restarts, acked, disturbed, cleared>>

(* The statement fails, or the end of the request's context is reported    *)
(* for one that has committed.                                             *)
SaveFails(r) ==
    /\ At(r, "save")
    /\ faults < MaxFaults
    /\ faults' = faults + 1
    /\ config' \in {config, copy[r]}
    /\ Disturbs(DOMAIN change[r])
    /\ Answered(r)
    /\ UNCHANGED <<now, runtime, reader, restarts, acked, cleared>>

(* PauseBlocking and ResumeBlocking take the time as it was asked for;     *)
(* ApplyRuntimeConfig takes the response of the request's copy, changed or *)
(* not.  Then the client is answered: Pause and Resume call Status, whose  *)
(* look at the pause is that of one of the Readers.                        *)
Apply(r) ==
    /\ At(r, "apply")
    /\ IF "pause" \in DOMAIN change[r]
       THEN pause' = change[r]["pause"] /\ UNCHANGED response
       ELSE response' = copy[r]["response"] /\ UNCHANGED pause
    /\ acked' = Merged(Persistable(change[r]), acked)
    /\ cleared' = (cleared /\ "pause" \notin DOMAIN change[r])
    /\ Answered(r)
    /\ UNCHANGED <<now, config, server, reader, faults, restarts, disturbed>>

-----------------------------------------------------------------------------
(* Runtime.BlockingPause: load, and for an expired pause ResumeBlocking.   *)
LoadPause(q) ==
    /\ reader[q] = "idle"
    /\ Expired(pause)
    /\ reader' = [reader EXCEPT ![q] = "expired"]
    /\ UNCHANGED <<now, config, runtime, requests, faults, restarts, acked, disturbed, cleared>>

ClearPause(q) ==
    /\ reader[q] = "expired"
    /\ reader' = [reader EXCEPT ![q] = "idle"]
    /\ pause' = Off
    /\ cleared' = (cleared \/ (pause.enabled /\ ~Expired(pause)))
    /\ UNCHANGED <<now, config, response, server, requests, faults, restarts, acked, disturbed>>

(* The process ends anywhere and starts again: applyBlockingPause and the  *)
(* other settings are taken from the row before anything is served.  What  *)
(* was open or disturbed is settled by what the row has.                   *)
Restart ==
    /\ restarts < MaxRestarts
    /\ restarts' = restarts + 1
    /\ pause' = IF Expired(config["pause"]) THEN Off ELSE config["pause"]
    /\ response' = config["response"]
    /\ server' = config["dns"]
    /\ pc' = [r \in Requests |-> "idle"]
    /\ change' = [r \in Requests |-> Nothing]
    /\ copy' = [r \in Requests |-> Default]
    /\ reader' = [q \in Readers |-> "idle"]
    /\ acked' = [f \in Fields |-> IF Quiet(f) THEN acked[f] ELSE config[f]]
    /\ disturbed' = {}
    /\ cleared' = FALSE
    /\ UNCHANGED <<now, config, faults>>

Tick ==
    /\ now < MaxTime
    /\ now' = now + 1
    /\ UNCHANGED <<config, runtime, requests, reader, faults, restarts, acked, disturbed, cleared>>

Step(r) ==
    \/ \E c \in Changes : Begin(r, c)
    \/ Load(r)
    \/ Refuse(r)
    \/ ReloadServer(r)
    \/ Save(r)
    \/ SaveFails(r)
    \/ Apply(r)

Next ==
    \/ \E r \in Requests : Step(r)
    \/ \E q \in Readers : LoadPause(q) \/ ClearPause(q)
    \/ Restart
    \/ Tick

Spec == Init /\ [][Next]_vars

-----------------------------------------------------------------------------
Pauses == [enabled : BOOLEAN, until : {0} \cup {t \in Nat : t >= Second}]
IsRow(c) ==
    /\ DOMAIN c = Fields
    /\ c["pause"] \in Pauses
    /\ c["dns"] \in DnsSettings
    /\ c["response"] \in Responses

TypeOK ==
    /\ now \in Second .. MaxTime
    /\ IsRow(config) /\ IsRow(acked)
    /\ pause \in Pauses
    /\ response \in Responses
    /\ server \in DnsSettings
    /\ pc \in [Requests -> {"idle", "load", "reload", "save", "apply"}]
    /\ \A r \in Requests : DOMAIN change[r] \subseteq Fields /\ IsRow(copy[r])
    /\ reader \in [Readers -> {"idle", "expired"}]
    /\ faults \in 0 .. MaxFaults
    /\ restarts \in 0 .. MaxRestarts
    /\ disturbed \subseteq Fields
    /\ cleared \in BOOLEAN

(* A pause that has more than a second to go.                              *)
InForce(p) == p.enabled /\ (p.until = 0 \/ p.until > now)

(* The runtime follows the row in every quiet field, whatever requests for *)
(* others do or leave half done, crashes included: CoreDNS and the         *)
(* blocking response exactly; blocking is never paused by more than the    *)
(* row says (a client is never let through by a pause that was resumed, or *)
(* that a restart would not bring back); and nothing ends a pause early    *)
(* but a reader that saw the one before it expired.                        *)
QuietRuntimeMatchesConfig ==
    /\ Quiet("dns") => server = config["dns"]
    /\ Quiet("response") => response = config["response"]
    /\ Quiet("pause") /\ pause.enabled => Saved(pause) = config["pause"]
    /\ Quiet("pause") /\ InForce(config["pause"]) /\ ~cleared => pause.enabled

(* What the last answered request set is in the row, so that a restart     *)
(* keeps it, whatever requests for other fields overlap or fail.           *)
AcknowledgedIsSaved == \A f \in Fields : Quiet(f) => config[f] = acked[f]

AcknowledgedPauseInForce == InForce(acked["pause"]) /\ Touching("pause") = {}

(* README.md:154-156: "A pause takes effect immediately and is persisted   *)
(* in SQLite, so it survives restarts until the duration expires or        *)
(* blocking is resumed."  A reader that saw the previous pause expired     *)
(* clears the new one.                                                     *)
AcknowledgedPauseIsServed == AcknowledgedPauseInForce => pause.enabled

(* The same sentence: a PUT /api/config that loaded the row before the     *)
(* pause was saved writes its own copy back over it.                       *)
AcknowledgedPauseIsSaved == AcknowledgedPauseInForce => config["pause"].enabled
=============================================================================
