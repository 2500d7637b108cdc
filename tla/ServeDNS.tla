------------------------------ MODULE ServeDNS ------------------------------
(***************************************************************************)
(* The DNS plugin (internal/coreplugin/corehole.go): queries on their way  *)
(* through Handler.ServeDNS while admin requests and loaders store the     *)
(* parts of the Runtime one by one.                                        *)
(*                                                                         *)
(* Each part is an atomic value that a query loads when it gets there.     *)
(* The local resolver, the decider and the rest of the plugin chain are    *)
(* seen from here by what they say of the one name that is asked for.      *)
(***************************************************************************)
EXTENDS Naturals, Sequences, FiniteSets

CONSTANTS
    Queries,
    MaxChanges  \* bound: stores into the runtime during a behaviour

ServeDNSAssumption == MaxChanges \in Nat

QTypes == {"A", "AAAA", "other"}
Runtimes == [local    : {"none", "match", "failing"},
             decider  : {"allow", "block"},
             paused   : BOOLEAN,
             response : {"nxdomain", "null-ip", "refused"},
             cache    : BOOLEAN]

VARIABLES
    runtime,   \* what is stored in Runtime
    query,     \* each query
    wrote,     \* the responses each query's client has been sent
    events,    \* the audit events recorded for each query
    seen,      \* history: the runtimes there have been during each query
    changes    \* stores so far

vars == <<runtime, query, wrote, events, seen, changes>>

NoQuery == [at |-> "none", type |-> "A", failed |-> FALSE, upstream |-> "", error |-> FALSE,
            rcode |-> "", reason |-> ""]

(* Serve stores these before the listeners start.                          *)
Init ==
    /\ runtime \in {r \in Runtimes : r.local = "none" /\ r.decider = "allow"}
    /\ query = [q \in Queries |-> NoQuery]
    /\ wrote = [q \in Queries |-> <<>>]
    /\ events = [q \in Queries |-> <<>>]
    /\ seen = [q \in Queries |-> {}]
    /\ changes = 0

(* One of the stores: SetLocalResolver, SetDecider, PauseBlocking and      *)
(* ResumeBlocking, SetBlockingResponse, SetCacheEnabled.                   *)
Store ==
    /\ changes < MaxChanges
    /\ changes' = changes + 1
    /\ \E other \in Runtimes, part \in DOMAIN runtime :
        /\ other = [runtime EXCEPT ![part] = other[part]]
        /\ runtime' = other
    /\ seen' = [q \in Queries |-> IF query[q].at = "none" THEN {} ELSE seen[q] \cup {runtime'}]
    /\ UNCHANGED <<query, wrote, events>>

Become(q, record) == query' = [query EXCEPT ![q] = record]

(* Another query takes the place of one that is done.                      *)
Ask(q) ==
    /\ query[q].at \in {"none", "done"}
    /\ \E type \in QTypes : Become(q, [NoQuery EXCEPT !.at = "local", !.type = type])
    /\ wrote' = [wrote EXCEPT ![q] = <<>>]
    /\ events' = [events EXCEPT ![q] = <<>>]
    /\ seen' = [seen EXCEPT ![q] = {runtime}]
    /\ UNCHANGED <<runtime, changes>>

-----------------------------------------------------------------------------
Record(q, action, reason, rcode, cacheStatus) ==
    events' = [events EXCEPT ![q] = Append(@,
        [action |-> action, reason |-> reason, rcode |-> rcode, cacheStatus |-> cacheStatus])]

Write(q, rcode, answer) ==
    wrote' = [wrote EXCEPT ![q] = Append(@, [rcode |-> rcode, answer |-> answer])]

(* ResolveLocal: an answer ends the query, a failure is remembered.        *)
Answered(q) ==
    /\ query[q].at = "local"
    /\ runtime.local = "match"
    /\ Write(q, "NOERROR", "local")
    /\ Record(q, "allow", "local_dns_match", "NOERROR", "bypass")
    /\ Become(q, [query[q] EXCEPT !.at = "done"])
    /\ UNCHANGED <<runtime, seen, changes>>

NotLocal(q) ==
    /\ query[q].at = "local"
    /\ runtime.local # "match"
    /\ Become(q, [query[q] EXCEPT !.at = "pause", !.failed = runtime.local = "failing"])
    /\ UNCHANGED <<runtime, wrote, events, seen, changes>>

(* Runtime.Decide loads the pause, and only without one the decider.       *)
LoadPause(q) ==
    /\ query[q].at = "pause"
    /\ Become(q, IF runtime.paused
                 THEN [query[q] EXCEPT !.at = "forward", !.reason = "blocking_paused"]
                 ELSE [query[q] EXCEPT !.at = "decider"])
    /\ UNCHANGED <<runtime, wrote, events, seen, changes>>

LoadDecider(q) ==
    /\ query[q].at = "decider"
    /\ Become(q, [query[q] EXCEPT
        !.at = IF runtime.decider = "block" THEN "block" ELSE "forward",
        !.reason = IF runtime.decider = "block" THEN "deny_match" ELSE "no_match"])
    /\ UNCHANGED <<runtime, wrote, events, seen, changes>>

(* writeBlockedResponse: only the address types have a null answer.        *)
Blocked(mode, type) ==
    CASE mode = "refused" -> [rcode |-> "REFUSED", answer |-> "empty"]
      [] mode = "null-ip" /\ type # "other" -> [rcode |-> "NOERROR", answer |-> "null"]
      [] OTHER -> [rcode |-> "NXDOMAIN", answer |-> "empty"]

Noted(q) == [why |-> query[q].reason, localFailed |-> query[q].failed]

Block(q) ==
    /\ query[q].at = "block"
    /\ LET response == Blocked(runtime.response, query[q].type) IN
        /\ Write(q, response.rcode, response.answer)
        /\ Record(q, "block", Noted(q), response.rcode, "bypass")
    /\ Become(q, [query[q] EXCEPT !.at = "done"])
    /\ UNCHANGED <<runtime, seen, changes>>

(* The rest of the chain.  The cache or an upstream answers, and the chain *)
(* returns success whatever the answer's code is; or it fails, and CoreDNS *)
(* makes a response of that after the plugin returns.                      *)
Forward(q) ==
    /\ query[q].at = "forward"
    /\ \/ \E upstream \in {"", "upstream"}, rcode \in {"NOERROR", "NXDOMAIN"} :
            /\ Write(q, rcode, "forwarded")
            /\ Become(q, [query[q] EXCEPT !.at = "record", !.upstream = upstream,
                                          !.rcode = "NOERROR"])
       \/ \E upstream \in {"", "upstream"} :
            /\ Write(q, "SERVFAIL", "empty")
            /\ Become(q, [query[q] EXCEPT !.at = "record", !.upstream = upstream,
                                          !.rcode = "SERVFAIL", !.error = TRUE])
    /\ UNCHANGED <<runtime, events, seen, changes>>

(* Mutant: what no upstream has answered was in the cache.                 *)
cacheStatusByUpstream(enabled, upstream, error) ==
    CASE ~enabled -> "disabled"
      [] enabled /\ upstream # "" -> "miss"
      [] OTHER -> "hit"

cacheStatus(enabled, upstream, error) ==
    CASE ~enabled -> "disabled"
      [] enabled /\ upstream # "" -> "miss"
      [] enabled /\ upstream = "" /\ ~error -> "hit"
      [] OTHER -> "unknown"

RecordForwarded(q) ==
    /\ query[q].at = "record"
    /\ Record(q, "allow", Noted(q), query[q].rcode,
              cacheStatus(runtime.cache, query[q].upstream, query[q].error))
    /\ Become(q, [query[q] EXCEPT !.at = "done"])
    /\ UNCHANGED <<runtime, wrote, seen, changes>>

Serve(q) ==
    \/ Answered(q) \/ NotLocal(q) \/ LoadPause(q) \/ LoadDecider(q)
    \/ Block(q) \/ Forward(q) \/ RecordForwarded(q)

Next == Store \/ \E q \in Queries : Ask(q) \/ Serve(q)

Spec == Init /\ [][Next]_vars

-----------------------------------------------------------------------------
QueryStates ==
    [at : {"none", "local", "pause", "decider", "block", "forward", "record", "done"},
     type : QTypes, failed : BOOLEAN, upstream : {"", "upstream"}, error : BOOLEAN,
     rcode : {"", "NOERROR", "SERVFAIL"},
     reason : {"", "blocking_paused", "deny_match", "no_match"}]

Responses == [rcode : {"NOERROR", "NXDOMAIN", "REFUSED", "SERVFAIL"},
              answer : {"local", "empty", "null", "forwarded"}]

TypeOK ==
    /\ runtime \in Runtimes /\ changes \in 0 .. MaxChanges
    /\ query \in [Queries -> QueryStates]
    /\ wrote \in [Queries -> Seq(Responses)]
    /\ seen \in [Queries -> SUBSET Runtimes]

Done(q) == query[q].at = "done"
Event(q) == events[q][1]
Response(q) == wrote[q][1]

(* Every query that is over has been answered once and audited once, and   *)
(* the event tells whether the client was blocked, with which code, and    *)
(* whether forwarding failed, whatever was stored in the runtime meanwhile.*)
EventTellsResponse ==
    \A q \in Queries : Done(q) =>
        /\ Len(wrote[q]) = 1
        /\ Len(events[q]) = 1
        /\ Response(q).answer # "forwarded" => Event(q).rcode = Response(q).rcode
        /\ Response(q).answer = "forwarded" => Event(q).rcode # "SERVFAIL"
        /\ Event(q).action = "block" <=> Response(q).answer \in {"null", "empty"}
                                         /\ Response(q).rcode # "SERVFAIL"

(* What the documents promise of one runtime: local records first, then    *)
(* the pause, then the decider, and a local resolver that fails does not   *)
(* keep a query from the rest.                                             *)
Expected(r, type) ==
    IF r.local = "match" THEN {[rcode |-> "NOERROR", answer |-> "local"]}
    ELSE IF r.paused \/ r.decider = "allow"
    THEN {[rcode |-> "NOERROR", answer |-> "forwarded"],
          [rcode |-> "NXDOMAIN", answer |-> "forwarded"],
          [rcode |-> "SERVFAIL", answer |-> "empty"]}
    ELSE CASE r.response = "nxdomain" -> {[rcode |-> "NXDOMAIN", answer |-> "empty"]}
           [] r.response = "refused" -> {[rcode |-> "REFUSED", answer |-> "empty"]}
           [] r.response = "null-ip" ->
                IF type \in {"A", "AAAA"} THEN {[rcode |-> "NOERROR", answer |-> "null"]}
                ELSE {[rcode |-> "NXDOMAIN", answer |-> "empty"]}

(* A query during which nothing was stored is answered as documented.      *)
SteadyAnswer ==
    \A q \in Queries : Done(q) /\ Cardinality(seen[q]) = 1 =>
        \A r \in seen[q] : Response(q) \in Expected(r, query[q].type)

(* Whatever is stored while a query runs, it is blocked only for a decider *)
(* that said so, in a mode that was set, at a time without a pause and     *)
(* without a local record; and it escapes the decider only if allowed at   *)
(* some time during it.                                                    *)
AnswerFromItsTime ==
    \A q \in Queries : Done(q) =>
        LET blocked == Event(q).action = "block"
            fromLocal == ~blocked /\ Response(q).answer = "local"
        IN
        /\ blocked => /\ \E r \in seen[q] : ~r.paused
                      /\ \E r \in seen[q] : r.decider = "block"
        /\ fromLocal => \E r \in seen[q] : r.local = "match"
        /\ ~fromLocal => \E r \in seen[q] : r.local # "match"
        /\ ~blocked /\ ~fromLocal => \E r \in seen[q] : r.paused \/ r.decider = "allow"

(* The cache status of an event was true of some time during the query.    *)
CacheStatusHonest ==
    \A q \in Queries : Done(q) =>
        LET status == Event(q).cacheStatus IN
        /\ status = "disabled" => \E r \in seen[q] : ~r.cache
        /\ status \in {"hit", "miss"} => \E r \in seen[q] : r.cache
        /\ status = "hit" => query[q].upstream = "" /\ Response(q).answer = "forwarded"

(* A query is answered once, from what there was during it, and the audit  *)
(* event tells how.                                                        *)
QueriesAnswered ==
    /\ EventTellsResponse /\ AnswerFromItsTime
    /\ SteadyAnswer /\ CacheStatusHonest
=============================================================================
