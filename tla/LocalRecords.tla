---------------------------- MODULE LocalRecords ----------------------------
(***************************************************************************)
(* Local DNS records: what is saved of a request (internal/localdns        *)
(* record.go) and what a query is answered with (resolver.go).             *)
(*                                                                         *)
(* Names and the values of address records are numbers, in the order of    *)
(* their texts: the order in which the table is read.                      *)
(***************************************************************************)
EXTENDS Naturals, Sequences, FiniteSets

CONSTANTS
    Names,         \* domain names, and texts that a request may have instead
    Malformed,     \* those that validDomainName refuses
    PtrNames,      \* those under in-addr.arpa or ip6.arpa
    IPv4, IPv6,    \* addresses
    DefaultTTL, MaxTTL,
    maxCNAMEChain

LocalRecordsAssumption ==
    /\ Names \cup IPv4 \cup IPv6 \subseteq Nat
    /\ Malformed \subseteq Names
    /\ PtrNames \subseteq Names
    /\ MaxTTL \in Nat
    /\ DefaultTTL \in 1 .. MaxTTL
    /\ maxCNAMEChain \in Nat \ {0}

Types == {"A", "AAAA", "CNAME", "PTR"}
Domains == Names \ Malformed

ValuesOf(type) ==
    CASE type = "A" -> IPv4
      [] type = "AAAA" -> IPv6
      [] type \in {"CNAME", "PTR"} -> Domains

(* The requests that NormalizeInput accepts, and what it makes of them.    *)
Valid(input) ==
    /\ input.type \in Types
    /\ input.name \in Domains
    /\ input.value \in ValuesOf(input.type)
    /\ input.type = "PTR" => input.name \in PtrNames
    /\ input.ttl <= MaxTTL

NewRecord(input) == [input EXCEPT !.ttl = IF @ = 0 THEN DefaultTTL ELSE @]

-----------------------------------------------------------------------------
(* ORDER BY name, type, value, id; within one name the types stand in the  *)
(* order of their texts.                                                   *)
Rank == [A |-> 1, AAAA |-> 2, CNAME |-> 3, PTR |-> 4]
Before(r, s) ==
    \/ Rank[r.type] < Rank[s.type]
    \/ r.type = s.type /\ r.value < s.value
    \/ r.type = s.type /\ r.value = s.value /\ r.id < s.id

Place(r, rows) == 1 + Cardinality({s \in rows : Before(s, r)})
Ordered(rows) == [k \in 1 .. Cardinality(rows) |-> CHOOSE r \in rows : Place(r, rows) = k]

RecordsOf(rows, name) == {r \in rows : r.enabled /\ r.name = name}

recordMatchesQuestion(r, qtype) == qtype = "ANY" \/ r.type = qtype
FollowsAliases == {"A", "AAAA", "ANY"}

Direct(rows, qtype, name) == {r \in RecordsOf(rows, name) : recordMatchesQuestion(r, qtype)}
Aliases(rows, name) == {r \in RecordsOf(rows, name) : r.type = "CNAME"}
FirstAlias(rows, name) == Ordered(Aliases(rows, name))[1]

Ended(walk) == [walk EXCEPT !.done = TRUE]
EndedWith(walk, records) == [walk EXCEPT !.answer = @ \o Ordered(records), !.done = TRUE]

(* Mutant: a name met again is walked again.                               *)
StepForgetful(rows, qtype, walk) ==
    LET direct == Direct(rows, qtype, walk.at)
        alias == FirstAlias(rows, walk.at)
    IN  IF walk.done THEN walk
        ELSE IF direct # {} THEN EndedWith(walk, direct)
        ELSE IF qtype \notin FollowsAliases \/ Aliases(rows, walk.at) = {} THEN Ended(walk)
        ELSE [walk EXCEPT !.answer = Append(@, alias), !.at = alias.value]

(* One turn of the loop in answerName: the records that match end it, the  *)
(* first alias leads on, a name that has been seen ends it too.            *)
Step(rows, qtype, walk) ==
    LET direct == Direct(rows, qtype, walk.at)
        alias == FirstAlias(rows, walk.at)
    IN  IF walk.done \/ walk.at \in walk.seen THEN Ended(walk)
        ELSE IF direct # {} THEN EndedWith(walk, direct)
        ELSE IF qtype \notin FollowsAliases \/ Aliases(rows, walk.at) = {} THEN Ended(walk)
        ELSE [walk EXCEPT !.answer = Append(@, alias),
                          !.at = alias.value,
                          !.seen = @ \cup {walk.at}]

(* The loop is cut after maxCNAMEChain turns.                              *)
answerName(rows, qtype, name) ==
    LET walk[depth \in 0 .. maxCNAMEChain] ==
            IF depth = 0
            THEN [at |-> name, seen |-> {}, answer |-> <<>>, done |-> FALSE]
            ELSE Step(rows, qtype, walk[depth - 1])
    IN  walk[maxCNAMEChain].answer

(* The records of the answer; none when the query is left to the rest of   *)
(* the chain.                                                              *)
Resolve(rows, q) ==
    IF q.class \in {"INET", "ANY"} /\ q.name \in Domains
    THEN answerName(rows, q.type, q.name)
    ELSE <<>>
=============================================================================
