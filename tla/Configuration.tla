--------------------------- MODULE Configuration ---------------------------
(***************************************************************************)
(* The configuration's life: a file that bootstraps the row of app_config, *)
(* PUT /api/config, which changes the row and what of the process can be   *)
(* changed while it runs, and restarts, which start from the row.          *)
(*                                                                         *)
(* Requests come one at a time here; ConfigRuntime has them overlap.       *)
(***************************************************************************)
EXTENDS Settings

CONSTANTS
    Files,      \* what an operator may have in the file; absent like empty
    OldRows,    \* rows that an older version may have left
    Updates,    \* bodies of PUT /api/config
    Unusable,   \* texts that Validate accepts, and CoreDNS or a listener does not
    MaxUpdates, \* bound: updates accepted
    MaxFaults,  \* bound: reloads and saves that fail
    Down

ConfigurationAssumption ==
    /\ MaxUpdates \in Nat /\ MaxFaults \in Nat
    /\ \A payload \in Files \cup OldRows \cup Updates : IsPayload(payload)

VARIABLES
    file,     \* the YAML file
    row,      \* the payload in app_config, if there is one
    running,  \* what the process works with
    granted,  \* history: the configuration last accepted, if any was
    untried,  \* history: what of the row nothing has tried: "dns", "admin"
    told,     \* history: restart_required has been answered since the start
    updates,  \* updates accepted so far
    faults    \* failures so far

vars == <<file, row, running, granted, untried, told, updates, faults>>

Saved == FromRow(CHOOSE payload \in row : TRUE)

Init ==
    /\ file \in Files
    /\ row \in {{}} \cup {{old} : old \in OldRows}
    /\ running = Down
    /\ granted = {}
    /\ untried = {"dns", "admin"}
    /\ told = FALSE
    /\ updates = 0
    /\ faults = 0

-----------------------------------------------------------------------------
(* What Serve hands to the parts of a process that it starts with cfg.     *)
Uses(cfg) ==
    [dns |-> Corefile(cfg), cacheFlag |-> CacheEnabled(cfg), response |-> cfg.response,
     bundled |-> cfg.bundled, lists |-> cfg.lists, admin |-> cfg.admin,
     connections |-> cfg.connections,
     level |-> EffectiveLevel(cfg), format |-> EffectiveFormat(cfg)]

(* The listener of the console, and CoreDNS with the server block it gets. *)
CoreDNSTakes(server) ==
    /\ server.listen \notin Unusable
    /\ \A k \in DOMAIN server.forwards :
        /\ server.forwards[k].from \notin Unusable
        /\ \A j \in DOMAIN server.forwards[k].targets :
            server.forwards[k].targets[j].address \notin Unusable
    /\ \A k \in DOMAIN server.rewrites :
        server.rewrites[k].from \notin Unusable /\ server.rewrites[k].to \notin Unusable

Starts(cfg) == cfg.admin \notin Unusable /\ CoreDNSTakes(Corefile(cfg))

(* InitializeStoreWithSource: the row, or else the file, saved as the row  *)
(* before anything has tried it.                                           *)
Active == IF row = {} THEN FromFile(file) ELSE Saved

Initialize ==
    /\ running = Down
    /\ Validate(FromFile(file)) /\ Validate(Active)
    /\ row' = IF row = {} THEN {Encode(Active)} ELSE row
    /\ granted' = IF granted = {} THEN {Active} ELSE granted

Start ==
    /\ Initialize
    /\ Starts(Active)
    /\ running' = Uses(Active)
    /\ untried' = {} /\ told' = FALSE
    /\ UNCHANGED <<file, updates, faults>>

(* What is asked for is refused, or its port is taken: the process ends,   *)
(* with the row saved.                                                     *)
StartFails ==
    /\ Initialize
    /\ IF Starts(Active) THEN faults < MaxFaults /\ faults' = faults + 1 ELSE UNCHANGED faults
    /\ UNCHANGED <<file, running, untried, told, updates>>

Stop ==
    /\ running # Down
    /\ running' = Down
    /\ UNCHANGED <<file, row, granted, untried, told, updates, faults>>

EditFile ==
    /\ running = Down
    /\ file' \in Files
    /\ UNCHANGED <<row, running, granted, untried, told, updates, faults>>

-----------------------------------------------------------------------------
coreDNSLoggingChanged(current, next) ==
    \/ EffectiveLevel(current) # EffectiveLevel(next)
    \/ EffectiveLevel(current) = "debug" /\ EffectiveFormat(current) # EffectiveFormat(next)

DNSKeys == {"listen", "resolvers", "cacheTTL", "success", "denial", "capacity", "dnssec",
            "conditional", "rewrites"}
Changed(current, next) == {key \in DOMAIN current : current[key] # next[key]}
DNSChanged(current, next) ==
    Changed(current, next) \cap DNSKeys # {} \/ coreDNSLoggingChanged(current, next)

shouldReloadDNSImmediately(current, next) ==
    current.listen = next.listen /\ DNSChanged(current, next)

restartRequired(current, next, dnsReloaded) ==
    \/ DNSChanged(current, next) /\ ~dnsReloaded
    \/ Changed(current, next) \cap {"connections", "admin", "lists"} # {}

(* Mutant: the runtime is not told of the cache.                           *)
ReloadDNSOnly(next) == [running EXCEPT !.dns = Corefile(next)]

ReloadDNS(next) ==
    [running EXCEPT !.dns = Corefile(next), !.cacheFlag = CacheEnabled(next)]

Reloaded(next) ==
    IF shouldReloadDNSImmediately(Saved, next) THEN ReloadDNS(next) ELSE running

(* The runtime and the log follow what has been saved.                     *)
Applied(next, process) ==
    [process EXCEPT !.response = next.response,
                    !.level = EffectiveLevel(next), !.format = EffectiveFormat(next)]

(* What can be reloaded CoreDNS tries before it is saved.                  *)
Tried(next) == shouldReloadDNSImmediately(Saved, next)
Accepted(next) == Validate(next) /\ (Tried(next) => CoreDNSTakes(Corefile(next)))

(* Without a reload only another listen address makes another block.       *)
LeftUntried(next) ==
    (IF Tried(next) THEN untried \ {"dns"}
     ELSE IF next.listen # Saved.listen THEN untried \cup {"dns"} ELSE untried)
    \cup (IF next.admin # Saved.admin THEN {"admin"} ELSE {})

Update ==
    /\ running # Down
    /\ updates < MaxUpdates
    /\ updates' = updates + 1
    /\ \E req \in Updates :
        LET next == applyConfigUpdate(Saved, req) IN
        /\ Accepted(next)
        /\ row' = {Encode(next)}
        /\ granted' = {next}
        /\ untried' = LeftUntried(next)
        /\ running' = Applied(next, Reloaded(next))
        /\ told' = (told \/ restartRequired(Saved, next, Tried(next)))
    /\ UNCHANGED <<file, faults>>

(* The row could not be saved, after CoreDNS has taken the settings.       *)
UpdateNotSaved ==
    /\ running # Down
    /\ faults < MaxFaults
    /\ faults' = faults + 1
    /\ \E req \in Updates :
        LET next == applyConfigUpdate(Saved, req) IN
        /\ Accepted(next)
        /\ running' = Reloaded(next)
    /\ UNCHANGED <<file, row, granted, untried, told, updates>>

Next == Start \/ StartFails \/ Stop \/ EditFile \/ Update \/ UpdateNotSaved

Spec == Init /\ [][Next]_vars

-----------------------------------------------------------------------------
(* Whatever sequence of partial updates has been accepted, the row is one  *)
(* that Validate accepts, with a cache that has lifetimes and room.        *)
SavedIsValid ==
    granted # {} =>
        /\ Validate(Saved)
        /\ LET cached == Corefile(Saved).cache IN \A k \in DOMAIN cached : cached[k] > 0

(* Its forwards have targets, and TCP is forced on exactly the resolvers   *)
(* that asked for it.                                                      *)
SavedForwards ==
    granted # {} =>
        LET forwards == Corefile(Saved).forwards IN
        /\ \A k \in DOMAIN forwards : forwards[k].targets # <<>>
        /\ \A k \in DOMAIN Saved.resolvers :
            Saved.resolvers[k].enabled =>
                (Saved.resolvers[k].protocol = "tcp" <=> forwards[Len(forwards)].forceTCP)

(* CoreDNS refuses more than Validate does.  It refuses a row at a start   *)
(* only for what nothing could try: a row that no start has used yet, the  *)
(* listen address and what was sent with it, the address of the console.   *)
SavedWasTried ==
    granted # {} =>
        /\ "dns" \notin untried => CoreDNSTakes(Corefile(Saved))
        /\ "admin" \notin untried => Saved.admin \notin Unusable

SavedConfigStarts == SavedIsValid /\ SavedForwards /\ SavedWasTried

(* A restart changes nothing that nobody was told of: what the process     *)
(* works with is what a start would give it, or an update since the start  *)
(* has been answered with restart_required.  Only blocking.bundled, that   *)
(* the manager is made with, waits for a restart nobody is told of.        *)
NothingSilentlyPending ==
    running # Down /\ faults = 0 /\ ~told =>
        \A part \in DOMAIN running \ {"bundled"} : running[part] = Uses(Saved)[part]

(* The cache status of audit events rests on a flag beside CoreDNS: it     *)
(* says whether the running server block has a cache, saved or not.        *)
CacheFlagIsTrue ==
    running # Down => (running.cacheFlag <=> running.dns.cache # <<>>)

(* "enabled" and "mode" of DNSSEC can each be sent alone, whatever was     *)
(* there before: the other comes along and the request is not refused.     *)
DNSSECKeysAreIndependent ==
    row # {} =>
        /\ \A on \in BOOLEAN :
            ValidDNSSEC(dnssecUpdateToConfig(Saved.dnssec, [k \in {"enabled"} |-> on]))
        /\ \A mode \in {"off", "upstream"} :
            ValidDNSSEC(dnssecUpdateToConfig(Saved.dnssec, [k \in {"mode"} |-> mode]))

(* What the next start reads is what was accepted: no value is lost, or    *)
(* replaced by a default, on its way through the row.                      *)
AcceptedIsLoaded == granted # {} => granted = {Saved}
=============================================================================
