------------------------------ MODULE LocalDNS ------------------------------
(***************************************************************************)
(* The custom DNS records: the table, the requests that edit it            *)
(* (customdns_api.go), and the reloads that install what it says in the    *)
(* runtime (localDNSRuntimeReloader in app.go).                            *)
(*                                                                         *)
(* Reloads read the table and store a resolver in two steps and under no   *)
(* lock, the startup loader's like the others.                             *)
(***************************************************************************)
EXTENDS LocalRecords

CONSTANTS
    Requests,      \* admin requests handled at the same time
    Loader,        \* the "local_dns" loader of startPlugin
    Inputs,        \* bodies of requests
    InitialTables, \* what an earlier run may have left
    MaxRows,       \* bound: rows ever created
    MaxEdits,      \* bound: committed edits
    MaxFaults      \* bound: reads that fail, or contexts that have ended

Callers == Requests \cup {Loader}

SavedRows == [id : 1 .. MaxRows, name : Domains, type : Types, value : Names \cup IPv4 \cup IPv6,
              ttl : 1 .. MaxTTL, enabled : BOOLEAN]

(* What is saved can be served: a value of the record's type, a time to    *)
(* live in range, and PTR records only where they are looked up.           *)
Servable(rows) ==
    \A id \in DOMAIN rows :
        /\ rows[id] \in SavedRows /\ rows[id].id = id
        /\ rows[id].value \in ValuesOf(rows[id].type)
        /\ rows[id].type = "PTR" => rows[id].name \in PtrNames

LocalDNSAssumption ==
    /\ Loader \notin Requests
    /\ MaxRows \in Nat /\ MaxEdits \in Nat /\ MaxFaults \in Nat
    /\ Inputs \subseteq [name : Nat, type : STRING, value : Nat, ttl : Nat, enabled : BOOLEAN]
    /\ \A rows \in InitialTables : Servable(rows) /\ \E n \in 0 .. MaxRows : DOMAIN rows = 1 .. n

VARIABLES
    table,     \* the rows, by id
    nextId,    \* AUTOINCREMENT
    resolver,  \* the rows the runtime answers from; none at first
    pc,        \* where each caller is
    own,       \* the row each caller has written
    loaded,    \* what each caller has read for its reload
    edits,     \* edits committed so far
    faults,    \* reads failed so far
    overlaps   \* history: a table was read while an older one was to be stored

vars == <<table, nextId, resolver, pc, own, loaded, edits, faults, overlaps>>

Rows == {table[id] : id \in DOMAIN table}
ListEnabled == {r \in Rows : r.enabled}

Init ==
    /\ table \in InitialTables
    /\ nextId = Cardinality(DOMAIN table) + 1
    /\ resolver = {}
    /\ pc = [c \in Callers |-> IF c = Loader THEN "reload" ELSE "idle"]
    /\ own = [c \in Callers |-> 0]
    /\ loaded = [c \in Callers |-> {}]
    /\ edits = 0
    /\ faults = 0
    /\ overlaps = FALSE

Goto(c, label) == pc' = [pc EXCEPT ![c] = label]

-----------------------------------------------------------------------------
Commit(c, rows, id, label) ==
    /\ c \in Requests
    /\ pc[c] = "idle"
    /\ edits < MaxEdits
    /\ edits' = edits + 1
    /\ table' = rows
    /\ own' = [own EXCEPT ![c] = id]
    /\ Goto(c, label)
    /\ UNCHANGED <<resolver, loaded, faults, overlaps>>

Row(id, input) ==
    [id |-> id, name |-> input.name, type |-> input.type, value |-> input.value,
     ttl |-> NewRecord(input).ttl, enabled |-> input.enabled]

(* An INSERT or UPDATE, after which the row is read back for the answer.   *)
Create(c) ==
    /\ nextId <= MaxRows
    /\ nextId' = nextId + 1
    /\ \E input \in Inputs :
        /\ Valid(input)
        /\ Commit(c, [id \in DOMAIN table \cup {nextId} |->
                        IF id = nextId THEN Row(id, input) ELSE table[id]], nextId, "get")

Update(c) ==
    /\ UNCHANGED nextId
    /\ \E id \in DOMAIN table, input \in Inputs :
        /\ Valid(input)
        /\ Commit(c, [table EXCEPT ![id] = Row(id, input)], id, "get")

(* Mutant: the handler answers without a reload.                           *)
DeleteQuietly(c) ==
    /\ UNCHANGED nextId
    /\ \E id \in DOMAIN table :
        Commit(c, [i \in DOMAIN table \ {id} |-> table[i]], id, "idle")

Delete(c) ==
    /\ UNCHANGED nextId
    /\ \E id \in DOMAIN table :
        Commit(c, [i \in DOMAIN table \ {id} |-> table[i]], id, "reload")

(* The row is read back for the answer.  When another request has deleted  *)
(* it by now, the answer is an error and there is no reload.               *)
Get(c) ==
    /\ pc[c] = "get"
    /\ Goto(c, IF own[c] \in DOMAIN table THEN "reload" ELSE "idle")
    /\ UNCHANGED <<table, nextId, resolver, own, loaded, edits, faults, overlaps>>

-----------------------------------------------------------------------------
ReadRecords(c) ==
    /\ pc[c] = "reload"
    /\ loaded' = [loaded EXCEPT ![c] = ListEnabled]
    /\ overlaps' = (overlaps \/ \E d \in Callers : pc[d] = "store")
    /\ Goto(c, "store")
    /\ UNCHANGED <<table, nextId, resolver, own, edits, faults>>

Install(c) ==
    /\ pc[c] = "store"
    /\ resolver' = loaded[c]
    /\ loaded' = [loaded EXCEPT ![c] = {}]
    /\ Goto(c, "idle")
    /\ UNCHANGED <<table, nextId, own, edits, faults, overlaps>>

(* The Get or the ListEnabled fails: the request's client has gone, or the *)
(* database is busy.  The edit stays, the runtime is not told.             *)
ReadFails(c) ==
    /\ pc[c] \in {"get", "reload"}
    /\ faults < MaxFaults
    /\ faults' = faults + 1
    /\ Goto(c, "idle")
    /\ UNCHANGED <<table, nextId, resolver, own, loaded, edits, overlaps>>

Next ==
    \E c \in Callers :
        \/ Create(c) \/ Update(c) \/ Delete(c) \/ Get(c)
        \/ ReadRecords(c) \/ Install(c) \/ ReadFails(c)

Spec == Init /\ [][Next]_vars

-----------------------------------------------------------------------------
TypeOK ==
    /\ Servable(table)
    /\ nextId \in 1 .. MaxRows + 1 /\ \A id \in DOMAIN table : id < nextId
    /\ resolver \subseteq SavedRows
    /\ pc \in [Callers -> {"idle", "get", "reload", "store"}]
    /\ own \in [Callers -> 0 .. MaxRows]
    /\ \A c \in Callers : loaded[c] \subseteq SavedRows
    /\ edits \in 0 .. MaxEdits
    /\ faults \in 0 .. MaxFaults

Quiet == \A c \in Callers : pc[c] = "idle"

(* Between requests the runtime answers by exactly the enabled records,    *)
(* unless a read has failed or two reloads have overlapped: those store in *)
(* any order, so that an edit answered with success may not be in effect.  *)
QuietRuntimeIsCurrent ==
    Quiet /\ faults = 0 /\ ~overlaps => resolver = ListEnabled

-----------------------------------------------------------------------------
(* The name that stands where an alias points, as a set of at most one.    *)
Target(name) ==
    LET aliases == {r \in resolver : r.name = name /\ r.type = "CNAME"}
    IN  {r.value : r \in {x \in aliases : \A y \in aliases : x.value <= y.value}}

After(name) ==
    LET hops[k \in 0 .. maxCNAMEChain] ==
            IF k = 0 THEN {name} ELSE UNION {Target(n) : n \in hops[k - 1]}
    IN  hops

Holds(name, type) == {r \in resolver : r.name = name /\ r.type = type}
Asked(name, type) == Resolve(resolver, [name |-> name, type |-> type, class |-> "INET"])

(* An answer is a chain: it starts at the name asked for, each alias leads *)
(* to the next owner, nothing is in it twice, and it ends with the records *)
(* asked for, or where the aliases end, or start over, or exceed the bound.*)
AnswersAreChains ==
    \A name \in Domains, type \in {"A", "AAAA"} :
        LET answer == Asked(name, type)
            last == answer[Len(answer)]
        IN  answer # <<>> =>
            /\ answer[1].name = name
            /\ \A k \in 1 .. Len(answer) - 1 :
                IF answer[k].type = "CNAME"
                THEN answer[k + 1].name = answer[k].value
                ELSE answer[k + 1].name = answer[k].name
            /\ \A j, k \in 1 .. Len(answer) : answer[j] = answer[k] => j = k
            /\ Cardinality({k \in 1 .. Len(answer) : answer[k].type = "CNAME"}) <= maxCNAMEChain
            /\ \/ last.type = type
               \/ Holds(last.value, type) = {} /\ Target(last.value) = {}
               \/ \E k \in 1 .. Len(answer) : answer[k].name = last.value
               \/ Len(answer) = maxCNAMEChain

(* An address within the reach of the chain is always found, with every    *)
(* other of its name, although aliases loop, fork and dangle elsewhere.    *)
AddressesInReach ==
    \A name \in Domains, type \in {"A", "AAAA"} :
        LET found(k) == \E n \in After(name)[k] : Holds(n, type) # {}
            reach == {k \in 0 .. maxCNAMEChain - 1 : found(k)}
            nearest == CHOOSE k \in reach : \A j \in reach : k <= j
            answer == Asked(name, type)
        IN  reach # {} =>
                {answer[k] : k \in 1 .. Len(answer)} \cap {r \in resolver : r.type = type}
                    = UNION {Holds(n, type) : n \in After(name)[nearest]}
=============================================================================
