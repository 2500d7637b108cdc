--------------------------- MODULE DnssecUpstream ---------------------------
(***************************************************************************)
(* DNSSEC assistance (internal/coredns/dnssec_upstream.go): the plugin     *)
(* between the cache and the forwarder that asks a validating resolver for *)
(* signatures whatever the client asked for, and takes out of the answer   *)
(* what the client did not.                                                *)
(*                                                                         *)
(* One name is asked for.  The cache of CoreDNS is in front of the plugin: *)
(* it keeps what the plugin wrote, by type, DO and CD of the query.        *)
(***************************************************************************)
EXTENDS Naturals, FiniteSets

CONSTANTS
    Zones,        \* how the name may be signed: secure, insecure, bogus
    CacheEnabled, \* Corefile writes a cache block
    CacheSize,    \* bounds the answers it keeps
    NoMsg

DnssecUpstreamAssumption ==
    Zones \subseteq {"secure", "insecure", "bogus"} /\ CacheEnabled \in BOOLEAN /\ CacheSize \in Nat

ProofTypes == {"RRSIG", "NSEC"}
isDNSSECProofRecord(type) == type \in ProofTypes

(* do: an OPT record with the DO bit; ad and cd: header bits.              *)
Queries == [type : {"A", "TXT", "RRSIG"}, do : BOOLEAN, ad : BOOLEAN, cd : BOOLEAN]
Keys == [type : {"A", "TXT", "RRSIG"}, do : BOOLEAN, cd : BOOLEAN]
KeyOf(q) == [type |-> q.type, do |-> q.do, cd |-> q.cd]

VARIABLES
    zone,   \* how the name is signed at present
    cache,  \* what the cache has
    query,  \* the last query
    reply   \* and what its client got

vars == <<zone, cache, query, reply>>

Init ==
    /\ zone \in Zones
    /\ cache = [k \in Keys |-> NoMsg]
    /\ query = NoMsg
    /\ reply = NoMsg

-----------------------------------------------------------------------------
(* A validating resolver: it answers data that fails validation only when  *)
(* checking is disabled, sets AD on what it has validated if asked to, and *)
(* adds proofs for a DO query.  The name has an A record and no TXT.       *)
Data(type) == CASE type = "A" -> {"A"} [] type = "TXT" -> {"SOA"} [] OTHER -> {}
Proofs(type) == IF type = "TXT" THEN {"NSEC", "RRSIG"} ELSE {"RRSIG"}

Resolver(q) ==
    IF zone = "bogus" /\ ~q.cd
    THEN [rcode |-> "SERVFAIL", records |-> {}, ad |-> FALSE, do |-> q.do, signed |-> zone]
    ELSE [rcode |-> "NOERROR", ad |-> zone = "secure" /\ (q.do \/ q.ad), do |-> q.do,
          signed |-> zone,
          records |-> Data(q.type) \cup
              (IF zone # "insecure" /\ (q.do \/ q.type = "RRSIG") THEN Proofs(q.type) ELSE {})]

clientRequestsDNSSEC(q) == q.do \/ isDNSSECProofRecord(q.type)

(* Mutant: checking stays disabled.                                        *)
upstreamKeepingCD(q) == [q EXCEPT !.ad = TRUE, !.do = TRUE]

upstreamDNSSECRequest(q) == [q EXCEPT !.cd = FALSE, !.ad = TRUE, !.do = TRUE]

stripDNSSECRecords(msg) == [msg EXCEPT !.records = {t \in @ : ~isDNSSECProofRecord(t)}, !.do = FALSE]

WriteMsg(q, msg) ==
    LET shown == IF clientRequestsDNSSEC(q) THEN msg ELSE stripDNSSECRecords(msg)
    IN  IF clientRequestsDNSSEC(q) \/ q.ad THEN shown ELSE [shown EXCEPT !.ad = FALSE]

ServeDNS(q) == WriteMsg(q, Resolver(upstreamDNSSECRequest(q)))

-----------------------------------------------------------------------------
(* The cache: an answer it has is given without AD to a client that asked  *)
(* for neither, and failures are not kept.                                 *)
FromCache(q) ==
    IF q.do \/ q.ad THEN cache[KeyOf(q)] ELSE [cache[KeyOf(q)] EXCEPT !.ad = FALSE]

Hit(q) ==
    /\ CacheEnabled
    /\ cache[KeyOf(q)] # NoMsg
    /\ query' = q
    /\ reply' = FromCache(q)
    /\ UNCHANGED <<zone, cache>>

Miss(q) ==
    /\ cache[KeyOf(q)] = NoMsg
    /\ query' = q
    /\ reply' = ServeDNS(q)
    /\ cache' = IF /\ CacheEnabled
                   /\ reply'.rcode = "NOERROR"
                   /\ Cardinality({k \in Keys : cache[k] # NoMsg}) < CacheSize
                THEN [cache EXCEPT ![KeyOf(q)] = reply'] ELSE cache
    /\ UNCHANGED zone

Expire ==
    /\ \E k \in Keys : cache[k] # NoMsg /\ cache' = [cache EXCEPT ![k] = NoMsg]
    /\ query' = NoMsg
    /\ reply' = NoMsg
    /\ UNCHANGED zone

(* The zone is signed, unsigned or broken while answers are cached.        *)
Resign ==
    /\ zone' \in Zones
    /\ query' = NoMsg
    /\ reply' = NoMsg
    /\ UNCHANGED cache

Next == (\E q \in Queries : Hit(q) \/ Miss(q)) \/ Expire \/ Resign

Spec == Init /\ [][Next]_vars

-----------------------------------------------------------------------------
Answered == query # NoMsg /\ reply.rcode = "NOERROR"

(* A client that asked for no DNSSEC sees none of it, although the plugin  *)
(* asked for all of it and the answer may be another client's, cached.     *)
BasicClientSeesNone ==
    Answered =>
        /\ ~clientRequestsDNSSEC(query) => reply.records \cap ProofTypes = {} /\ ~reply.do
        /\ ~clientRequestsDNSSEC(query) /\ ~query.ad => ~reply.ad

(* An answer called authentic to a client that set DO has the signatures   *)
(* it could check that by: none stripped for a client that came before.    *)
ProofsForThoseWhoAsk == Answered /\ query.do /\ reply.ad => "RRSIG" \in reply.records

(* Data that failed validation reaches no client, one that disabled        *)
(* checking included: it is neither answered nor cached, then or later.    *)
BogusStaysOut == Answered => reply.signed # "bogus"

(* What was validated is called authentic to each client that set DO, and *)
(* to each that set AD, unless the cache has for it an answer without AD,  *)
(* written for a client that set neither: in front of the plugin, it knows *)
(* nothing of what the plugin took out.                                    *)
ADForThoseWhoAsk ==
    Answered /\ reply.signed = "secure" =>
        /\ query.do => reply.ad
        /\ query.ad /\ ~reply.ad => cache[KeyOf(query)] # NoMsg /\ ~cache[KeyOf(query)].ad
=============================================================================
